CONSTANTS
    Statuses <- MC_Statuses
    Initial = {"pending"}
    Ready = "running"
    Failed = {"failed", "succeeded"}
    Lifecycle <- MC_Lifecycle
    ErrorCodes = {404, 500}
    Timeout = 4
    PollInterval = 2
    RequestTime = 2
    StartTimes = {0}
    MaxClock <- MC_MaxClock
    Programs = {"interpreter", "quickstart", "async", "template"}
    Tasks = {1, 2, 3}
SPECIFICATION Spec
INVARIANTS TypeOK NoSilentLeak FinallyDeletes ClosedOnExit
PROPERTY ProgramEnds
