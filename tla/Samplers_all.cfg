SPECIFICATION SamplersSpec
CONSTANTS
    Devices = {d1}
    Kinds = {"netLinux", "netWindows", "diskLinux", "diskWindows"}
    None = None
    Speed = 1
    Width = 8
    MaxBytes = 2
    MaxErrors = 1
    MaxFaults = 2
    MaxAge = 4
    Systems = {"linux", "windows"}
    Pids = {p1, p2}
    Names = {n1}
    NoProc = NoProc
    Limit = 8
    MaxTime = 2
    MaxSpawns = 1
    MaxMisses = 3
    MaxGap = 2
    Bays = {sda}
    Disks = {disk1, disk2}
    Builds = {"linux", "windows"}
    NoDisk = NoDisk
    CacheTicks = 2
    MaxHazards = 1
    Slots = {1, 2}
    Adapters = {a1, a2}
    Models = {m1}
    NoModel = NoModel
    NoAdapter = NoAdapter
    Minutes = 1
    MaxChanges = 3
    Gauges <- AllGauges
    MaxVaried = 3
    MaxRefused = 3
INVARIANTS SamplersTypeOK GuardedErrors RateWithinSpeed HandlesClosed CpuShownIsReal
PROPERTIES SamplersRecover InstancesReal HealthyIsRecent DegradationShown StatusUnderItsName
CHECK_DEADLOCK FALSE
