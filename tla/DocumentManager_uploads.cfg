\* The documents page beside one other caller.  Requests on document 2 come one
\* at a time; on document 1 they overlap, and its names do not come back.  S3
\* calls fail half way, and a third object is past the ceiling of the list.
CONSTANTS
    Doc = {1, 2}
    Name = {1, 2}
    NoName = NoName
    Caller = {tab, w1}
    Serial = {2}
    FreshNames = {1}
    Failures = TRUE
    Tab = tab
    NoDoc = NoDoc
    MaxListed = 2
    MaxFiles = 2
SPECIFICATION ManagerSpec
CHECK_DEADLOCK FALSE
INVARIANT OneObjectUnlessLeftover
INVARIANT DeleteIsFinal
INVARIANT NeverLost
INVARIANT NotFoundIsReal
PROPERTY BatchHonest
