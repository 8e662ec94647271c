\* run_command when the command can die of SIGHUP (returncode -1).
CONSTANTS
    Timeout = 3
    ExitStatuses <- MC_HangupStatuses
    DescendantsTerminate = TRUE
SPECIFICATION Spec
INVARIANT SentinelMeansTimeout
