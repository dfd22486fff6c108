\* One client, edited through both pages: every control of the client itself.
SPECIFICATION Spec
CONSTANTS
    Client = {c1}
    Contact = {}
    Interaction = {}
    Field <- Fields
    Email = {}
    Status = {lead, active, lost}
    Lead = lead
    ActiveClient = active
    Lost = lost
    Reason = {r1}
    None = None
    Name = {n1}
    Rest = {x1}
    Me = me
    Owner = {me}
    MaxClientVersion = 3
    MaxChildVersion = 1
    List = list
    Untouched = untouched
    Search = {}
    Filter = {lost}
    PageSize = 1
    MaxPage = 1
INVARIANT TypeOK
PROPERTIES NoUnseenEdit NothingWiped StatusChoiceCurrent ReadsOwnWrites
CHECK_DEADLOCK FALSE
