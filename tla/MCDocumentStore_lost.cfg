\* Two renames in opposite directions.
CONSTANTS
    Doc = {d1}
    Name = {1, 2}
    NoName = NoName
    Caller = {w1, w2}
    Serial = {}
    FreshNames = {}
    Failures = FALSE
SPECIFICATION Spec
SYMMETRY Symmetry
CHECK_DEADLOCK FALSE
INVARIANT NeverLost
