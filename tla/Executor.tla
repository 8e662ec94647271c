------------------------------ MODULE Executor ------------------------------
(***************************************************************************)
(* run_command(command, cwd, timeout) of the code-interpreter runtime      *)
(* (src/examples/code-interpreter/runtime_server.py:38-63), as run by one  *)
(* worker thread of the ThreadingHTTPServer, request after request.        *)
(*                                                                         *)
(* Popen starts the command with stdout and stderr on pipes.  The command  *)
(* may leave a descendant (a background job of "sh -c") that inherited    *)
(* both pipes.  communicate(timeout) reads the pipes to end-of-file and    *)
(* waits for the process; on TimeoutExpired the code kills the process     *)
(* (SIGKILL to its pid only) and calls communicate() again, with no        *)
(* timeout, then reports exit code -1 and appends "process timeout".       *)
(* Time is counted in ticks of the timeout's unit.                         *)
(*                                                                         *)
(* The worker runs one run_command for /command and for /code in most      *)
(* languages, and two for /code java (lines 276-290): javac, then, only if *)
(* javac exited 0, java; each call is given the request's full timeout.    *)
(***************************************************************************)
EXTENDS Integers

CONSTANTS
    Timeout,                \* the request's timeout, in ticks
    ExitStatuses,           \* returncodes the command can end with by itself
    DescendantsTerminate    \* every descendant holding the pipes exits

ASSUME Timeout \in Nat \ {0}
ASSUME ExitStatuses \subseteq Int
ASSUME DescendantsTerminate \in BOOLEAN

SIGKILL == 9
TimeoutSentinel == -1

VARIABLES
    pc,         \* "idle" | "communicate" | "drain" | "done"
    main,       \* the Popen'd process: "running" | "exited"
    status,     \* its returncode once it has exited
    child,      \* a descendant holding the pipes: "none" | "running" | "exited"
    now,        \* ticks since the request started
    result,     \* what run_command returned (or raised) for the request
    cmd         \* the command of the current call: "command" | "javac" | "java"

vars == <<pc, main, status, child, now, result, cmd>>

NoResult    == [kind |-> "none"]
LaunchError == [kind |-> "error"]

\* Every writer of the pipes has exited: reading them reaches end-of-file.
PipesClosed == main = "exited" /\ child # "running"

Init ==
    /\ pc = "idle"
    /\ main = "exited"
    /\ status = 0
    /\ child = "none"
    /\ now = 0
    /\ result = NoResult
    /\ cmd = "command"

(***************************************************************************)
(* subprocess.Popen(command, cwd=..., stdout=PIPE, stderr=PIPE): either    *)
(* raises (missing executable or cwd; the handler answers 500) or starts   *)
(* the command, which may or may not leave a descendant on the pipes.      *)
(* The clock of communicate(timeout) starts afresh with every call.        *)
(***************************************************************************)
Launch(c) ==
    /\ cmd' = c
    /\ now' = 0
    /\ \/ /\ pc' = "done"
          /\ result' = LaunchError
          /\ UNCHANGED <<main, status, child>>
       \/ /\ pc' = "communicate"
          /\ main' = "running"
          /\ child' \in {"none", "running"}
          /\ result' = NoResult
          /\ UNCHANGED status

\* The worker takes a request: a /command or a one-call /code, or javac.
Popen ==
    /\ pc = "idle"
    /\ \E c \in {"command", "javac"} : Launch(c)

\* javac's result has exit code 0 (line 280): the handler goes on to java.
CompileSucceeded ==
    cmd = "javac" /\ result.kind = "exit" /\ result.exit_code = 0

\* run_command(["java", ...], session_dir, timeout) after a clean compile.
RunJava ==
    /\ pc = "done"
    /\ CompileSucceeded
    /\ Launch("java")

\* The command ends by itself: an exit code, or a signal s as returncode -s.
MainExits ==
    /\ main = "running"
    /\ main' = "exited"
    /\ status' \in ExitStatuses
    /\ UNCHANGED <<pc, child, now, result, cmd>>

DescendantExits ==
    /\ child = "running"
    /\ child' = "exited"
    /\ UNCHANGED <<pc, main, status, now, result, cmd>>

(***************************************************************************)
(* Time passes while the worker is in communicate(timeout), also after    *)
(* the pipes have closed and before the thread runs again to see it:      *)
(* CPython checks the deadline after every select() and raises            *)
(* TimeoutExpired past it even when the last select() reported EOF.       *)
(* Past the deadline no property tells ticks apart.                       *)
(***************************************************************************)
Tick ==
    /\ pc = "communicate"
    /\ now < Timeout
    /\ now' = now + 1
    /\ UNCHANGED <<pc, main, status, child, result, cmd>>

\* proc.communicate(timeout) returns: end-of-file on both pipes, then wait().
CommunicateReturns ==
    /\ pc = "communicate"
    /\ PipesClosed
    /\ now <= Timeout
    /\ pc' = "done"
    /\ result' = [kind |-> "exit", exit_code |-> status, marker |-> FALSE,
                  at |-> now]
    /\ UNCHANGED <<main, status, child, now, cmd>>

\* Mutant of TimeoutExpires: the process is not killed before draining.
TimeoutExpiresNoKill ==
    /\ pc = "communicate"
    /\ now >= Timeout
    /\ pc' = "drain"
    /\ UNCHANGED <<main, status, child, now, result, cmd>>

\* Mutant of TimeoutExpires: the killed process's returncode has the wrong
\* sign (Popen reports death by signal s as -s).
TimeoutExpiresSignalSign ==
    /\ pc = "communicate"
    /\ now >= Timeout
    /\ pc' = "drain"
    /\ IF main = "running"
       THEN main' = "exited" /\ status' = SIGKILL
       ELSE UNCHANGED <<main, status>>
    /\ UNCHANGED <<child, now, result, cmd>>

(***************************************************************************)
(* TimeoutExpired: proc.kill() sends SIGKILL to the process unless it has  *)
(* already been reaped (Popen.send_signal polls first); the descendant is  *)
(* not signalled.                                                          *)
(***************************************************************************)
TimeoutExpires ==
    /\ pc = "communicate"
    /\ now >= Timeout
    /\ pc' = "drain"
    /\ IF main = "running"
       THEN main' = "exited" /\ status' = -SIGKILL
       ELSE UNCHANGED <<main, status>>
    /\ UNCHANGED <<child, now, result, cmd>>

\* The second proc.communicate(), without a timeout, returns at end-of-file.
DrainReturns ==
    /\ pc = "drain"
    /\ PipesClosed
    /\ pc' = "done"
    /\ result' = [kind |-> "exit", exit_code |-> TimeoutSentinel,
                  marker |-> TRUE, at |-> now]
    /\ UNCHANGED <<main, status, child, now, cmd>>

\* The handler sends the response (the compile result if javac failed or
\* timed out, line 281); the worker takes the next request.
Respond ==
    /\ pc = "done"
    /\ ~CompileSucceeded
    /\ pc' = "idle"
    /\ UNCHANGED <<main, status, child, now, result, cmd>>

Next ==
    \/ Popen \/ MainExits \/ DescendantExits \/ Tick
    \/ CommunicateReturns \/ TimeoutExpires \/ DrainReturns \/ RunJava
    \/ Respond

(***************************************************************************)
(* Fairness: the worker thread and the clock are never stopped for good.   *)
(* A command may run forever (that is what the timeout is for), so its own *)
(* exit is not fair; its descendants' exit is fair only when the model     *)
(* says they terminate.                                                    *)
(***************************************************************************)
Fairness ==
    /\ WF_vars(Tick)
    /\ WF_vars(CommunicateReturns)
    /\ WF_vars(TimeoutExpires)
    /\ WF_vars(DrainReturns)
    /\ WF_vars(RunJava)
    /\ WF_vars(Respond)
    /\ DescendantsTerminate => WF_vars(DescendantExits)

Spec == Init /\ [][Next]_vars /\ Fairness

-----------------------------------------------------------------------------
TypeOK ==
    /\ pc \in {"idle", "communicate", "drain", "done"}
    /\ main \in {"running", "exited"}
    /\ status \in ExitStatuses \cup {0, -SIGKILL}
    /\ child \in {"none", "running", "exited"}
    /\ now \in Nat
    /\ result.kind \in {"none", "error", "exit"}
    /\ cmd \in {"command", "javac", "java"}

(***************************************************************************)
(* Every command that was started is answered: the blocking communicate()  *)
(* calls of run_command (lines 48 and 51) return, whatever the command     *)
(* does, once the timeout has fired.                                       *)
(***************************************************************************)
Answered == (pc = "communicate") ~> (pc = "done")

(***************************************************************************)
(* Exit code -1 is the reserved "killed on timeout" sentinel: a result     *)
(* with exit code -1 is one where the timeout fired and the marker was     *)
(* appended to stderr (lines 52-55).                                       *)
(***************************************************************************)
SentinelMeansTimeout ==
    result.kind = "exit" /\ result.exit_code = TimeoutSentinel => result.marker
=============================================================================
