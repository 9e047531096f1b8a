SPECIFICATION FairSpec
CONSTANTS
    keyPath = keyPath
    hashPath = hashPath
    passPath = passPath
    v1 = v1
    v2 = v2
    Paths = {keyPath}
    Values = {v1, v2}
    Empty = Empty
    Absent = Absent
    NoPath = NoPath
    Main = Main
    Env <- EnvKeyFile
    DefKey = NoPath
    DefHash = NoPath
    DefPass = NoPath
    Initial = {v1, v2, Empty}
    EditKinds <- InPlace
    EditDuringBoot = FALSE
    WatchMayFail = FALSE
    MaxEdits = 4
    MaxHups = 0
    MaxQueue = 2
INVARIANTS TypeOK QuietIsFresh
PROPERTIES HotReload
CHECK_DEADLOCK FALSE
