\* Contacts and interactions while their clients come and go.
CONSTANTS
    Client = {c1, c2}
    Contact = {k1, k2}
    Interaction = {i1}
    Caller = {w1, w2}
    Field = {f1}
    Email = {e1}
    Reason = {r1}
    Status = {lead, active, lost}
    Lead = lead
    ActiveClient = active
    Lost = lost
    None = None
    MaxVersion = 2
    Op = {"createClient", "deleteClient", "addContact", "updateContact", "deleteContact", "addInteraction", "updateInteraction", "deleteInteraction"}
    Outages = TRUE
SPECIFICATION Spec
SYMMETRY Symmetry
CHECK_DEADLOCK FALSE
INVARIANT OneContactPerEmail
INVARIANT NoOrphans
INVARIANT ContactIsOwn
PROPERTY NoLostContactEdit
PROPERTY NoLostInteractionEdit
PROPERTY ConflictIsReal
PROPERTY InvalidReferenceIsReal
