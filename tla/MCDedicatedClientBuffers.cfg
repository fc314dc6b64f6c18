CONSTANTS
    MaxConnects = 1
    MaxSends = 0
    MaxMessages = 0
    MaxClosings = 0
SPECIFICATION Spec
CHECK_DEADLOCK FALSE
INVARIANT
    BuffersOutliveReads
