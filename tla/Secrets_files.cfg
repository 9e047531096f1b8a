SPECIFICATION Spec
CONSTANTS
    keyPath = keyPath
    hashPath = hashPath
    passPath = passPath
    v1 = v1
    v2 = v2
    Paths = {keyPath, hashPath, passPath}
    Values = {v1, v2}
    Empty = Empty
    Absent = Absent
    NoPath = NoPath
    Main = Main
    Env <- EnvDefaults
    DefKey = NoPath
    DefHash = hashPath
    DefPass = passPath
    Initial = {v1, Absent}
    EditKinds <- AnyButKey
    EditDuringBoot = TRUE
    WatchMayFail = TRUE
    MaxEdits = 2
    MaxHups = 1
    MaxQueue = 2
INVARIANTS WatcherBookkeeping ConsistentPassword NeverBlanked
PROPERTIES NoEventDropped
CHECK_DEADLOCK FALSE
