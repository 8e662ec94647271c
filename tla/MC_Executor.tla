---------------------------- MODULE MC_Executor ----------------------------
EXTENDS Executor

\* Exit codes 0 and 1, and death by SIGTERM (returncode -15).
MC_OrdinaryStatuses == {0, 1, -15}

\* As above, plus death by SIGHUP: "kill -HUP $$" gives returncode -1.
MC_HangupStatuses == {0, 1, -1}
=============================================================================
