SPECIFICATION Spec
CONSTANTS
    MaxSize = 3
    MaxBackups = 3
    Lengths = {1, 2}
    MayFail = TRUE
    MaxBytes = 18
    MaxStarts = 3
INVARIANTS TypeOK Ordered NothingOverwritten SizeBound RetainsBackups
PROPERTIES RefinesBoundedLog
CHECK_DEADLOCK FALSE
