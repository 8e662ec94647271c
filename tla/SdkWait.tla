------------------------------ MODULE SdkWait ------------------------------
(***************************************************************************)
(* The SDK's wait loops: SandboxService.wait_for_ready                     *)
(* (src/sdk/python/src/liteboxd/services/sandbox.py) and its twins,        *)
(* PrepullService.wait_for_completion and the asyncio versions, which      *)
(* differ only in the status sets and in the clock they read.              *)
(*                                                                         *)
(* The loop GETs the resource; the GET goes through BaseClient._request,   *)
(* whose _handle_response turns a status of 400 or more into an exception  *)
(* by raise_for_status (exceptions.py).  A status that is ready returns,   *)
(* a failed one raises, otherwise the deadline is checked and the loop     *)
(* sleeps poll_interval.  The remote resource changes status on its own,   *)
(* on the server side, which is not part of the repository: its           *)
(* lifecycle is a constant relation.  Time is counted in ticks of the      *)
(* clock the loop reads (time.monotonic, or the event loop's time).        *)
(***************************************************************************)
EXTENDS Integers

CONSTANTS
    Statuses,       \* the resource's statuses (SandboxStatus, PrepullStatus)
    Initial,        \* statuses the resource may have when the wait starts
    Ready,          \* the status that ends the wait with a return
    Failed,         \* statuses that end it with a "failed" exception
    Lifecycle,      \* [Statuses -> SUBSET Statuses]: the server's transitions
    ErrorCodes,     \* HTTP statuses of 400 or more a GET may get instead
    Timeout,        \* timeout, in ticks
    PollInterval,   \* poll_interval, in ticks
    RequestTime,    \* bound: ticks a GET may take (httpx's own timeout)
    StartTimes,     \* clock readings at which the wait may be called
    MaxClock        \* bound: the clock stops here

ASSUME Ready \in Statuses /\ Failed \subseteq Statuses /\ Initial \subseteq Statuses
ASSUME Lifecycle \in [Statuses -> SUBSET Statuses]
ASSUME ErrorCodes \subseteq 400..599
ASSUME {Timeout, PollInterval, RequestTime} \subseteq Nat \ {0}

VARIABLES
    clock,      \* the clock the loop reads
    remote,     \* the resource's status on the server
    pc,         \* "get" | "inget" | "check" | "sleep" | "done"
    started,    \* clock reading when the wait was called
    deadline,   \* start_time + timeout
    sent,       \* clock reading when the current GET was sent
    wake,       \* clock reading at which the current sleep ends
    reply,      \* the GET's outcome: [code, status]
    outcome     \* how the wait ended

vars == <<clock, remote, pc, started, deadline, sent, wake, reply, outcome>>

NoOutcome == [kind |-> "none", at |-> 0, code |-> 0, status_code |-> 0]

(***************************************************************************)
(* raise_for_status(status_code, message): the exception class for a       *)
(* status, with the status_code its constructor stores (APIError and its   *)
(* subclasses, exceptions.py:12-53).                                       *)
(***************************************************************************)
RaiseForStatus(code) ==
    CASE code = 400 -> [exc |-> "BadRequestError", status_code |-> 400]
      [] code = 401 -> [exc |-> "UnauthorizedError", status_code |-> 401]
      [] code = 404 -> [exc |-> "NotFoundError", status_code |-> 404]
      [] code = 409 -> [exc |-> "ConflictError", status_code |-> 409]
      [] code >= 500 -> [exc |-> "InternalServerError", status_code |-> 500]
      [] OTHER -> [exc |-> "APIError", status_code |-> code]

\* The wait is called: start_time = monotonic(), deadline = start + timeout.
Init ==
    /\ clock \in StartTimes
    /\ remote \in Initial
    /\ pc = "get"
    /\ started = clock
    /\ deadline = clock + Timeout
    /\ sent = clock
    /\ wake = clock
    /\ reply = [code |-> 0, status |-> remote]
    /\ outcome = NoOutcome

\* The server moves the resource along its lifecycle.
Lifecycle_Step ==
    /\ pc # "done"
    /\ \E s \in Lifecycle[remote] : remote' = s
    /\ UNCHANGED <<clock, pc, started, deadline, sent, wake, reply, outcome>>

\* Time passes while the loop is blocked in a GET or in time.sleep().
Tick ==
    /\ clock < MaxClock
    /\ \/ pc = "inget" /\ clock < sent + RequestTime
       \/ pc = "sleep" /\ clock < wake
    /\ clock' = clock + 1
    /\ UNCHANGED <<remote, pc, started, deadline, sent, wake, reply, outcome>>

\* self.get(sandbox_id): _get -> _request sends the request.
SendGet ==
    /\ pc = "get"
    /\ pc' = "inget"
    /\ sent' = clock
    /\ UNCHANGED <<clock, remote, started, deadline, wake, reply, outcome>>

\* Mutant of GetReturns: an error response is not raised, and the loop reads
\* the error body as if it were the resource.
GetReturnsNoRaise ==
    /\ pc = "inget"
    /\ \E code \in {200} \cup ErrorCodes :
          /\ pc' = "check"
          /\ reply' = [code |-> code, status |-> IF code >= 400 THEN "none" ELSE remote]
    /\ UNCHANGED <<clock, remote, started, deadline, sent, wake, outcome>>

(***************************************************************************)
(* The response arrives: 200 with the resource as it is now, or an error   *)
(* status, which _handle_response raises out of the loop.                  *)
(***************************************************************************)
GetReturns ==
    /\ pc = "inget"
    /\ \E code \in {200} \cup ErrorCodes :
          IF code >= 400
          THEN /\ pc' = "done"
               /\ outcome' = [kind |-> "api", at |-> clock, code |-> code,
                              status_code |-> RaiseForStatus(code).status_code]
               /\ UNCHANGED reply
          ELSE /\ pc' = "check"
               /\ reply' = [code |-> code, status |-> remote]
               /\ UNCHANGED outcome
    /\ UNCHANGED <<clock, remote, started, deadline, sent, wake>>

\* httpx gives up on a GET that takes too long: httpx.TimeoutException is
\* not caught by _request and leaves the loop.
GetTimesOut ==
    /\ pc = "inget"
    /\ clock = sent + RequestTime
    /\ pc' = "done"
    /\ outcome' = [kind |-> "transport", at |-> clock, code |-> 0, status_code |-> 0]
    /\ UNCHANGED <<clock, remote, started, deadline, sent, wake, reply>>

Ended(kind) == [kind |-> kind, at |-> clock, code |-> 200, status_code |-> 0]

\* Mutant of Check: the deadline test dropped.
CheckNoDeadline ==
    /\ pc = "check"
    /\ CASE reply.status = Ready    -> pc' = "done" /\ outcome' = Ended("ready")
         [] reply.status \in Failed -> pc' = "done" /\ outcome' = Ended("failed")
         [] OTHER -> pc' = "sleep" /\ UNCHANGED outcome
    /\ wake' = IF pc' = "sleep" THEN clock + PollInterval ELSE wake
    /\ UNCHANGED <<clock, remote, started, deadline, sent, reply>>

(***************************************************************************)
(* The loop body after the GET (sandbox.py:209-226): RUNNING returns,      *)
(* FAILED and SUCCEEDED raise SandboxFailedError, then the deadline is     *)
(* checked with >=, and otherwise the loop sleeps poll_interval.           *)
(***************************************************************************)
Check ==
    /\ pc = "check"
    /\ CASE reply.status = Ready    -> pc' = "done" /\ outcome' = Ended("ready")
         [] reply.status \in Failed -> pc' = "done" /\ outcome' = Ended("failed")
         [] clock >= deadline       -> pc' = "done" /\ outcome' = Ended("timeout")
         [] OTHER -> pc' = "sleep" /\ UNCHANGED outcome
    /\ wake' = IF pc' = "sleep" THEN clock + PollInterval ELSE wake
    /\ UNCHANGED <<clock, remote, started, deadline, sent, reply>>

\* time.sleep(poll_interval) returns; the loop GETs again.
Wake ==
    /\ pc = "sleep"
    /\ clock = wake
    /\ pc' = "get"
    /\ UNCHANGED <<clock, remote, started, deadline, sent, wake, reply, outcome>>

\* The wait has returned or raised; the caller goes on without it.
Finished == pc = "done" /\ UNCHANGED vars

Next ==
    \/ Lifecycle_Step \/ Tick \/ SendGet \/ GetReturns \/ GetTimesOut
    \/ Check \/ Wake
    \/ Finished

(***************************************************************************)
(* The calling thread is never stopped for good, and the clock advances    *)
(* while it blocks.  The server's own transitions are not assumed to       *)
(* happen: a sandbox may stay PENDING forever.                             *)
(***************************************************************************)
Spec ==
    /\ Init /\ [][Next]_vars
    /\ WF_vars(Tick) /\ WF_vars(SendGet) /\ WF_vars(GetReturns)
    /\ WF_vars(Check) /\ WF_vars(Wake)

-----------------------------------------------------------------------------
TypeOK ==
    /\ clock \in Nat /\ remote \in Statuses
    /\ pc \in {"get", "inget", "check", "sleep", "done"}
    /\ reply.status \in Statuses
    /\ outcome.kind \in {"none", "ready", "failed", "timeout", "api", "transport"}
=============================================================================
