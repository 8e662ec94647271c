--------------------------- MODULE MC_SdkSession ---------------------------
(* The three example programs against one sandbox on the control plane.    *)
EXTENDS SdkSession

\* SandboxStatus (models/sandbox.py:14-22) and the lifecycle MC_SdkWait uses.
MC_Statuses == {"pending", "running", "succeeded", "failed", "terminating", "unknown"}

MC_Lifecycle ==
    [s \in MC_Statuses |->
        CASE s = "pending"  -> {"running", "failed", "terminating", "unknown"}
          [] s = "running"  -> {"succeeded", "failed", "terminating", "unknown"}
          [] s = "unknown"  -> {"running", "failed"}
          [] OTHER          -> {}]

\* create may take RequestTime before the wait starts.
MC_MaxClock == 2 + 4 + 2 + 2
=============================================================================
