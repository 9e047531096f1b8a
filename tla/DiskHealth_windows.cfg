SPECIFICATION DiskSpec
CONSTANTS
    Bays = {bay1}
    Disks = {disk1, disk2}
    Builds = {"windows"}
    NoDisk = NoDisk
    CacheTicks = 2
    MaxHazards = 0
PROPERTIES StatusShown
CHECK_DEADLOCK FALSE
