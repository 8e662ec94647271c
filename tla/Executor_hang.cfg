\* run_command when a background job keeps the pipes open for good.
CONSTANTS
    Timeout = 3
    ExitStatuses <- MC_OrdinaryStatuses
    DescendantsTerminate = FALSE
SPECIFICATION Spec
PROPERTY Answered
