SPECIFICATION Spec
CONSTANTS
    keyPath = keyPath
    hashPath = hashPath
    passPath = passPath
    v1 = v1
    v2 = v2
    Paths = {keyPath, passPath}
    Values = {v1, v2}
    Empty = Empty
    Absent = Absent
    NoPath = NoPath
    Main = Main
    Env <- EnvTwoFiles
    DefKey = NoPath
    DefHash = NoPath
    DefPass = NoPath
    Initial = {v1}
    EditKinds <- InPlace
    EditDuringBoot = FALSE
    WatchMayFail = FALSE
    MaxEdits = 3
    MaxHups = 0
    MaxQueue = 2
INVARIANTS QuietIsFresh
CHECK_DEADLOCK FALSE
