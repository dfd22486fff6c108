\* Two callers of one ping over three TTLs.
CONSTANTS
    Caller = {w1, w2}
    Ttl = 2
    MaxClock = 4
SPECIFICATION Spec
CHECK_DEADLOCK FALSE
INVARIANT RateBound
INVARIANT FreshAnswer
PROPERTY Answered
