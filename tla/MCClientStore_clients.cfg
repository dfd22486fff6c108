\* Edits, transitions and deletes of clients, with outages and retries.
CONSTANTS
    Client = {c1}
    Contact = {}
    Interaction = {}
    Caller = {w1, w2}
    Field = {f1, f2}
    Email = {e1}
    Reason = {r1}
    Status = {lead, active, lost}
    Lead = lead
    ActiveClient = active
    Lost = lost
    None = None
    MaxVersion = 4
    Op = {"createClient", "updateClient", "changeStatus", "deleteClient"}
    Outages = TRUE
SPECIFICATION Spec
SYMMETRY Symmetry
CHECK_DEADLOCK FALSE
INVARIANT TypeOK
INVARIANT HistoryIsAChain
INVARIANT AcquiredAtFirstActivation
INVARIANT LostReasonShape
PROPERTY NoLostClientEdit
PROPERTY ImplementsVersionedRows
PROPERTY ImplementsWholeRequests
