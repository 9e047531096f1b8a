SPECIFICATION Spec
CONSTANTS
    Devices = {d1}
    Kinds = {"netLinux"}
    None = None
    Speed = 1
    Width = 8
    MaxBytes = 2
    MaxErrors = 2
    MaxFaults = 1
    MaxAge = 3
INVARIANTS CountsRealErrors
CHECK_DEADLOCK FALSE
