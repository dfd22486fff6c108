\* Three builds starting, failing and crashing against one database.
CONSTANTS
    Instance = {i1, i2}
    old = old
    new = new
    edited = edited
    plain = plain
    changed = changed
    Build = {old, new, edited}
    Checksum = {plain, changed}
    NoSum = NoSum
    File <- MCFile
    FileCount = 3
    MaxBoots = 4
    Outages = TRUE
SPECIFICATION Spec
CHECK_DEADLOCK FALSE
INVARIANT TypeOK
INVARIANT JournalTellsSchema
INVARIANT OrdinalOrder
INVARIANT ServingMeansMigrated
PROPERTY BootEnds
