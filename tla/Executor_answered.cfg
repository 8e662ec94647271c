\* run_command when every descendant of the command eventually exits.
CONSTANTS
    Timeout = 3
    ExitStatuses <- MC_OrdinaryStatuses
    DescendantsTerminate = TRUE
SPECIFICATION Spec
INVARIANT TypeOK
PROPERTY Answered
