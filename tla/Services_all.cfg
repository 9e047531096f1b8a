SPECIFICATION FairSpec
CONSTANTS
    MetricsSrv = MetricsSrv
    ApiSrv = ApiSrv
    MaxActive = 1
    Hup = Hup
    Term = Term
    MaxHups = 2
    MaxTerms = 2
    Modes = {TRUE, FALSE}
    SlowStart = TRUE
    Execute = Execute
    Main = Main
INVARIANTS ServicesTypeOK ExitInOrder NothingLeftBehind
PROPERTIES CleanReturn StopEndsProcess FailureEndsProcess
CHECK_DEADLOCK FALSE
