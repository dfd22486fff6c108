\* Contacts and the interaction log of one client, loaded in parts.
SPECIFICATION Spec
CONSTANTS
    Client = {c1}
    Contact = {k1}
    Interaction = {i1}
    Field <- Fields
    Email = {e1}
    Status = {lead, active, lost}
    Lead = lead
    ActiveClient = active
    Lost = lost
    Reason = {}
    None = None
    Name = {n1}
    Rest = {}
    Me = me
    Owner = {me}
    MaxClientVersion = 1
    MaxChildVersion = 2
    List = list
    Untouched = untouched
    Search = {}
    Filter = {}
    PageSize = 1
    MaxPage = 1
PROPERTIES NoUnseenEdit OfferedLinkStays
CHECK_DEADLOCK FALSE
