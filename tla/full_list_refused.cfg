SPECIFICATION MCSpec
CONSTANTS
    Entity <- MCEntity
    Record <- MCRecord
    PageSize = 2
    MaxPages = 2
    MaxRecords = 4
    MaxChanges = 2
    MaxFaults = 1
INVARIANT
    RefusedOnlyLonger
CHECK_DEADLOCK FALSE
