\* Two clients on pages of one, searched, paged, added and deleted: safety of the
\* list and the end of every action.
SPECIFICATION FairSpec
CONSTANTS
    Client = {c1, c2}
    Contact = {k1}
    Interaction = {}
    Field <- Fields
    Email = {e1}
    Status = {lead, active, lost}
    Lead = lead
    ActiveClient = active
    Lost = lost
    Reason = {}
    None = None
    Name = {n1}
    Rest = {}
    Me = me
    Owner = {me}
    MaxClientVersion = 1
    MaxChildVersion = 2
    List = list
    Untouched = untouched
    Search = {}
    Filter = {lost}
    PageSize = 1
    MaxPage = 2
PROPERTIES TotalIsHonest EveryActionEnds
CHECK_DEADLOCK FALSE
