\* One assistant on a client, two contacts and a log entry, and everybody else.
SPECIFICATION Spec
CONSTANTS
    Client = {c1}
    Contact = {k1, k2}
    Interaction = {i1}
    Field <- Fields
    Email = {e1}
    Status = {lead, active, lost}
    Lead = lead
    ActiveClient = active
    Lost = lost
    Reason = {}
    None = None
    Name = {n1, n2}
    Rest = {t1}
    MaxClientVersion = 3
    MaxChildVersion = 2
SYMMETRY Symmetry
PROPERTIES MergesOntoPresentRow OverwritesOnlyWhatWasSeen
CHECK_DEADLOCK FALSE
