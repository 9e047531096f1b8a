SPECIFICATION Spec
CONSTANTS
    Clients = {c1, c2}
    Boot = Boot
    Hardware <- OneHost
    Views <- AllAnswer
    Complete <- AllAnswer
    Plain = "found"
    Identity <- Hash
    Stores = {"file"}
    Methods = {"POST"}
    Blank = Blank
    Absent = Absent
    HotSwap = FALSE
    MaxSwaps = 0
    MaxCalls = 2
    MaxCrashes = 0
    MaxFailures = 0
INVARIANT DocumentedSuccess
CHECK_DEADLOCK FALSE
