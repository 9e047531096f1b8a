SPECIFICATION FairSpec
CONSTANTS
    Clients = {c1}
    Boot = Boot
    Hardware <- AllHosts
    Views <- AllViews
    Complete <- AllAnswer
    Plain = "found"
    Identity <- Hash
    Stores = {"file", "registry"}
    Methods = {"POST", "GET"}
    Blank = Blank
    Absent = Absent
    HotSwap = FALSE
    MaxSwaps = 1
    MaxCalls = 2
    MaxCrashes = 1
    MaxFailures = 1
INVARIANTS TypeOK BlankIsTransient SuccessConfirms AlarmJustified
PROPERTIES ChangeReported IdentityShown
CHECK_DEADLOCK FALSE
