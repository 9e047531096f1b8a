SPECIFICATION WinSpec
CONSTANTS
    MetricsSrv = MetricsSrv
    ApiSrv = ApiSrv
    MaxActive = 1
    Modes = {TRUE}
    SlowStart = FALSE
    Execute = Execute
    Main = Main
INVARIANT StopWarningTrue
CHECK_DEADLOCK FALSE
