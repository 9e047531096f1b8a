SPECIFICATION FairSpec
CONSTANTS
    Dev = Dev
    Mock = Mock
    Serials = {s1}
    Unknown = Unknown
    Blank = Blank
    Broken = Broken
    Absent = Absent
    MaxEdits = 2
    MaxQueue = 2
INVARIANTS TypeOK QuietIsFresh
PROPERTIES LastGoodMock AllEnd MockShown
CHECK_DEADLOCK FALSE
