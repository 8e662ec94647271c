---------------------------- MODULE SdkSession ----------------------------
(***************************************************************************)
(* The example programs that drive the SDK against the control plane:      *)
(* src/examples/code-interpreter/python/main.py, and                       *)
(* src/sdk/python/examples/quickstart.py and async_example.py.  Each makes *)
(* a Client, creates one sandbox, waits for it, runs commands in it, and   *)
(* deletes it; the three differ in what their try/finally (or async with)  *)
(* does when a call raises.  template_management.py makes a Client and     *)
(* walks the template and import/export services in one try/finally.       *)
(*                                                                         *)
(* Every SDK call is one request through BaseClient._request.  The control *)
(* plane is not part of the repository: a call returns 2xx, or raises, and *)
(* a call that raises may or may not have taken effect on the server (an   *)
(* httpx timeout after the server acted, a 5xx, a body that does not       *)
(* validate).  wait_for_ready is composed from SdkWait: its loop runs      *)
(* against the status of the sandbox this program created.                 *)
(***************************************************************************)
EXTENDS Integers, Sequences

CONSTANTS
    Statuses, Initial, Ready, Failed, Lifecycle, ErrorCodes,
    Timeout, PollInterval, RequestTime, StartTimes, MaxClock,  \* of SdkWait
    Programs,   \* "interpreter", "quickstart", "async", "template"
    Tasks       \* the execute calls async_example.py gathers

VARIABLES
    clock, remote, wpc, started, deadline, sent, wake, reply, outcome,
    prog,       \* the program running
    phase,      \* "body" (the try block), "cleanup" (finally / __aexit__), "done"
    step,       \* index of the current statement in the phase
    box,        \* the sandbox on the server: "none" | "live" | "deleted"
    known,      \* the program holds its id (sandbox is not None)
    exc,        \* the exception propagating: "none" or the call that raised it
    open,       \* the httpx client is open
    tasks       \* async_example.py's gathered execute calls

waitVars == <<clock, remote, wpc, started, deadline, sent, wake, reply, outcome>>
progVars == <<prog, phase, step, box, known, exc, open, tasks>>
vars == <<waitVars, progVars>>

\* wait_for_ready's loop; wpc is "idle" when no wait is in progress.
W == INSTANCE SdkWait WITH pc <- wpc

(***************************************************************************)
(* A call's result: returned, or raised after or before the server acted.  *)
(***************************************************************************)
Results == {"ok", "raised_applied", "raised_unapplied"}
Applied(r) == r # "raised_unapplied"

(***************************************************************************)
(* The programs, as the statements of their try block and of the cleanup   *)
(* that runs when it ends either way.                                      *)
(***************************************************************************)
\* Mutant of InterpreterMain: the delete moved into the try block.
InterpreterMainNoFinally ==
    [body |-> <<"create", "wait", "execute", "delete_known">>, cleanup |-> <<"close">>]

\* main.py: the finally deletes the sandbox if create returned, then closes.
InterpreterMain ==
    [body |-> <<"create", "wait", "execute">>, cleanup |-> <<"delete_known", "close">>]

\* quickstart.py: the delete is the try block's last call; finally only closes.
Quickstart ==
    [body |-> <<"create", "wait", "execute", "upload", "execute", "logs", "delete">>,
     cleanup |-> <<"close">>]

\* async_example.py: async with runs __aexit__ on both paths.
AsyncMain ==
    [body |-> <<"create", "wait", "gather", "delete">>, cleanup |-> <<"aexit">>]

\* Mutant of TemplateManagement: close() at the end of the try block.
TemplateManagementNoFinally ==
    [body |-> <<"tcreate", "tget", "tlist", "tupdate", "versions", "export",
                "rollback", "export_all", "import", "close">>,
     cleanup |-> <<>>]

(***************************************************************************)
(* template_management.py: create (or, on ConflictError, get), list,       *)
(* update, list_versions, export_yaml, rollback when the template has more *)
(* than one version, export_all and import_templates; finally close().     *)
(***************************************************************************)
TemplateManagement ==
    [body |-> <<"tcreate", "tget", "tlist", "tupdate", "versions", "export",
                "rollback", "export_all", "import">>,
     cleanup |-> <<"close">>]

Script(p) ==
    CASE p = "interpreter" -> InterpreterMain
      [] p = "quickstart"  -> Quickstart
      [] p = "async"       -> AsyncMain
      [] p = "template"    -> TemplateManagement

Cur == Script(prog)[phase][step]

\* The statement completed: the next one, the cleanup, or the end.
Proceed ==
    IF step < Len(Script(prog)[phase])
    THEN step' = step + 1 /\ UNCHANGED phase
    ELSE IF phase = "body" /\ Script(prog).cleanup # <<>>
         THEN phase' = "cleanup" /\ step' = 1
         ELSE phase' = "done" /\ UNCHANGED step

\* The statement raised: from the try block to the cleanup; an exception in
\* the cleanup abandons the rest of it and replaces the one propagating.
Raise(call) ==
    /\ exc' = call
    /\ IF phase = "body" /\ Script(prog).cleanup # <<>>
       THEN phase' = "cleanup" /\ step' = 1
       ELSE phase' = "done" /\ UNCHANGED step

Running == phase # "done"

\* async_example.py calls the asyncio services; the others the sync ones.
Sync == prog # "async"

\* Client(base_url) / AsyncClient(base_url): no http_client is passed, so
\* BaseClient.__init__ makes an httpx client and owns it.
NewClient == open = TRUE

NewAsyncClient == open = TRUE

Init ==
    /\ prog \in Programs
    /\ phase = "body" /\ step = 1
    /\ box = "none" /\ known = FALSE /\ exc = "none"
    /\ IF prog = "async" THEN NewAsyncClient ELSE NewClient
    /\ tasks = [t \in Tasks |-> "idle"]
    /\ clock = 0 /\ remote \in Initial /\ wpc = "idle"
    /\ started = 0 /\ deadline = 0 /\ sent = 0 /\ wake = 0
    /\ reply = [code |-> 0, status |-> remote]
    /\ outcome = W!NoOutcome

-----------------------------------------------------------------------------
\* The server moves the sandbox along its lifecycle while the program runs.
ServerStep == Running /\ box = "live" /\ W!Lifecycle_Step /\ UNCHANGED progVars

(***************************************************************************)
(* create: POST sandboxes; a 2xx body is validated into a Sandbox whose id *)
(* the program keeps.  The request takes up to RequestTime ticks of the    *)
(* clock wait_for_ready later reads.                                       *)
(***************************************************************************)
Create ==
    /\ Running /\ Cur = "create"
    /\ \E r \in Results, d \in 0..RequestTime, s \in Initial :
          /\ clock' = clock + d
          /\ box' = IF Applied(r) THEN "live" ELSE box
          /\ remote' = s
          /\ known' = (r = "ok")
          /\ IF r = "ok" THEN Proceed /\ UNCHANGED exc ELSE Raise("create")
    /\ UNCHANGED <<wpc, started, deadline, sent, wake, reply, outcome, prog, open, tasks>>

\* SandboxService.create and AsyncSandboxService.create.
CreateSandbox == Sync /\ Create

AsyncCreate == ~Sync /\ Create

\* wait_for_ready is called: the clock is read and the deadline set.
StartWait ==
    /\ Running /\ Cur = "wait" /\ wpc = "idle"
    /\ wpc' = "get" /\ started' = clock /\ deadline' = clock + Timeout
    /\ sent' = clock /\ wake' = clock
    /\ UNCHANGED <<clock, remote, reply, outcome, progVars>>

\* SandboxService.wait_for_ready reads time.monotonic(); the asyncio one
\* reads the event loop's time.
WaitCall == Sync /\ StartWait

AsyncWaitCall == ~Sync /\ StartWait

\* A step of the wait loop (SdkWait); the program is blocked in the call.
Waiting(A) == Sync /\ Running /\ Cur = "wait" /\ A /\ UNCHANGED progVars

AsyncWaiting(A) == ~Sync /\ Running /\ Cur = "wait" /\ A /\ UNCHANGED progVars

Wait(A) == Waiting(A) \/ AsyncWaiting(A)

\* wait_for_ready returns the running sandbox, which the program rebinds, or
\* raises; either way the program still holds the id create returned.
WaitReturns ==
    /\ Running /\ Cur = "wait" /\ wpc = "done"
    /\ wpc' = "idle"
    /\ IF outcome.kind = "ready" THEN Proceed /\ UNCHANGED exc ELSE Raise("wait")
    /\ UNCHANGED <<clock, remote, started, deadline, sent, wake, reply, outcome,
                   prog, box, known, open, tasks>>

\* A call that acts inside the sandbox and leaves its existence alone.
Request(call) ==
    /\ Running /\ Cur = call
    /\ \E r \in Results : IF r = "ok" THEN Proceed /\ UNCHANGED exc ELSE Raise(call)
    /\ UNCHANGED <<waitVars, prog, box, known, open, tasks>>

\* SandboxService.execute: POST sandboxes/{id}/exec.
Execute == Request("execute")

\* SandboxService.upload_file: multipart POST sandboxes/{id}/files.
UploadFile == Request("upload")

\* SandboxService.get_logs: GET sandboxes/{id}/logs.
GetLogs == Request("logs")

\* Mutant of Delete: a failed delete is swallowed by the cleanup.
DeleteSwallow ==
    /\ Running /\ Cur \in {"delete", "delete_known"}
    /\ IF Cur = "delete_known" /\ ~known
       THEN Proceed /\ UNCHANGED <<box, exc>>
       ELSE \E r \in Results :
              /\ box' = IF Applied(r) THEN "deleted" ELSE box
              /\ Proceed /\ UNCHANGED exc
    /\ UNCHANGED <<waitVars, prog, known, open, tasks>>

(***************************************************************************)
(* delete: DELETE sandboxes/{id}.  main.py calls it only if sandbox is not *)
(* None; the others call it unconditionally.                               *)
(***************************************************************************)
Delete ==
    /\ Running /\ Cur \in {"delete", "delete_known"}
    /\ IF Cur = "delete_known" /\ ~known
       THEN Proceed /\ UNCHANGED <<box, exc>>
       ELSE \E r \in Results :
              /\ box' = IF Applied(r) THEN "deleted" ELSE box
              /\ IF r = "ok" THEN Proceed /\ UNCHANGED exc ELSE Raise("delete")
    /\ UNCHANGED <<waitVars, prog, known, open, tasks>>

\* SandboxService.delete and AsyncSandboxService.delete.
DeleteSandbox == Sync /\ Delete

AsyncDelete == ~Sync /\ Delete

(***************************************************************************)
(* TemplateService.create: POST templates.  template_management.py catches *)
(* ConflictError (409, the template exists) and gets it instead; on        *)
(* success it skips that get.                                              *)
(***************************************************************************)
TemplateCreate ==
    /\ Running /\ Cur = "tcreate"
    /\ \E r \in Results \cup {"conflict"} :
          CASE r = "ok"       -> step' = step + 2 /\ UNCHANGED <<phase, exc>>
            [] r = "conflict" -> Proceed /\ UNCHANGED exc
            [] OTHER          -> Raise("tcreate")
    /\ UNCHANGED <<waitVars, prog, box, known, open, tasks>>

\* TemplateService.get: GET templates/{name}.
TemplateGet == Request("tget")

\* TemplateService.list: GET templates?tag=python.
TemplateList == Request("tlist")

\* TemplateService.update: PUT templates/{name}.
TemplateUpdate == Request("tupdate")

\* TemplateService.list_versions: GET templates/{name}/versions.
ListVersions == Request("versions")

\* TemplateService.export_yaml: GET templates/{name}/export.
ExportYaml == Request("export")

\* TemplateService.rollback: POST templates/{name}/rollback, called only if
\* the template update returned has latest_version > 1, which the server
\* decides.
Rollback ==
    \/ Request("rollback")
    \/ Running /\ Cur = "rollback" /\ Proceed /\ UNCHANGED <<waitVars, prog, box, known, exc, open, tasks>>

\* ImportExportService.export_all: GET templates/export?tag=python.
ExportAll == Request("export_all")

\* ImportExportService.import_templates: multipart POST templates/import.
ImportTemplates == Request("import")

TemplateCalls ==
    \/ TemplateCreate \/ TemplateGet \/ TemplateList \/ TemplateUpdate
    \/ ListVersions \/ ExportYaml \/ Rollback \/ ExportAll \/ ImportTemplates

\* asyncio.gather schedules every execute coroutine; each sends its POST.
GatherStart ==
    /\ Running /\ Cur = "gather" /\ \A t \in Tasks : tasks[t] = "idle"
    /\ tasks' = [t \in Tasks |-> "sent"]
    /\ UNCHANGED <<waitVars, prog, phase, step, box, known, exc, open>>

\* AsyncBaseClient._request: await the httpx AsyncClient, then raise for an
\* error status; on a client aclose() has closed it can only raise.
AsyncRequestResults == IF open THEN {"ok", "raised"} ELSE {"raised"}

(***************************************************************************)
(* AsyncSandboxService.execute returns or raises.  A task runs on after    *)
(* gather has raised, while __aexit__ closes the client under it: a        *)
(* request still in flight on a closed httpx client raises.                *)
(***************************************************************************)
TaskReturns(t) ==
    /\ Running /\ tasks[t] = "sent"
    /\ \E r \in AsyncRequestResults :
          tasks' = [tasks EXCEPT ![t] = r]
    /\ UNCHANGED <<waitVars, prog, phase, step, box, known, exc, open>>

\* gather returns once every call has returned, and raises as soon as one
\* call has raised, without cancelling the others.
GatherEnds ==
    /\ Running /\ Cur = "gather" /\ \A t \in Tasks : tasks[t] # "idle"
    /\ \/ (\E t \in Tasks : tasks[t] = "raised") /\ Raise("gather")
       \/ (\A t \in Tasks : tasks[t] = "ok") /\ Proceed /\ UNCHANGED exc
    /\ UNCHANGED <<waitVars, prog, box, known, open, tasks>>

\* client.close(): the client owns its httpx client and closes it.
Close ==
    /\ Running /\ Cur = "close"
    /\ open' = FALSE /\ Proceed
    /\ UNCHANGED <<waitVars, prog, box, known, exc, tasks>>

\* AsyncClient.__aexit__ awaits close(), which awaits aclose().
AsyncExit ==
    /\ Running /\ Cur = "aexit"
    /\ open' = FALSE /\ Proceed
    /\ UNCHANGED <<waitVars, prog, box, known, exc, tasks>>

(***************************************************************************)
(* asyncio.run(main()) (async_example.py:42): once main() has returned or  *)
(* raised, every task still pending is cancelled before the loop closes.   *)
(***************************************************************************)
RunCancels ==
    /\ phase = "done" /\ \E t \in Tasks : tasks[t] = "sent"
    /\ tasks' = [t \in Tasks |-> IF tasks[t] = "sent" THEN "cancelled" ELSE tasks[t]]
    /\ UNCHANGED <<waitVars, prog, phase, step, box, known, exc, open>>

\* The program has returned or raised.
Finished == phase = "done" /\ UNCHANGED vars

Next ==
    \/ ServerStep \/ CreateSandbox \/ AsyncCreate
    \/ WaitCall \/ AsyncWaitCall \/ WaitReturns
    \/ Wait(W!SendGet) \/ Wait(W!GetReturns) \/ Wait(W!GetTimesOut)
    \/ Wait(W!Check) \/ Wait(W!Wake) \/ Wait(W!Tick)
    \/ Execute \/ UploadFile \/ GetLogs \/ DeleteSandbox \/ AsyncDelete
    \/ GatherStart \/ GatherEnds \/ (\E t \in Tasks : TaskReturns(t))
    \/ TemplateCalls \/ Close \/ AsyncExit \/ RunCancels \/ Finished

(***************************************************************************)
(* The program's thread is never stopped for good, every request ends      *)
(* (httpx's timeout), and the clock advances while a call blocks.  The     *)
(* server's own transitions are not assumed to happen.                     *)
(***************************************************************************)
Spec ==
    /\ Init /\ [][Next]_vars
    /\ WF_vars(CreateSandbox) /\ WF_vars(AsyncCreate)
    /\ WF_vars(WaitCall) /\ WF_vars(AsyncWaitCall) /\ WF_vars(WaitReturns)
    /\ WF_vars(Wait(W!SendGet)) /\ WF_vars(Wait(W!GetReturns))
    /\ WF_vars(Wait(W!Check)) /\ WF_vars(Wait(W!Wake)) /\ WF_vars(Wait(W!Tick))
    /\ WF_vars(Execute) /\ WF_vars(UploadFile) /\ WF_vars(GetLogs)
    /\ WF_vars(DeleteSandbox) /\ WF_vars(AsyncDelete) /\ WF_vars(GatherStart) /\ WF_vars(GatherEnds)
    /\ \A t \in Tasks : WF_vars(TaskReturns(t))
    /\ WF_vars(TemplateCalls) /\ WF_vars(Close) /\ WF_vars(AsyncExit)
    /\ WF_vars(RunCancels)

-----------------------------------------------------------------------------
TypeOK ==
    /\ prog \in Programs /\ phase \in {"body", "cleanup", "done"}
    /\ box \in {"none", "live", "deleted"} /\ known \in BOOLEAN /\ open \in BOOLEAN
    /\ exc \in {"none", "create", "wait", "execute", "upload", "logs", "gather", "delete",
               "tcreate", "tget", "tlist", "tupdate", "versions", "export",
               "rollback", "export_all", "import"}
    /\ tasks \in [Tasks -> {"idle", "sent", "ok", "raised", "cancelled"}]
    /\ wpc \in {"idle", "get", "inget", "check", "sleep", "done"}
    /\ remote \in Statuses /\ reply.status \in Statuses /\ clock \in 0..MaxClock

(***************************************************************************)
(* A program that returns normally leaves no sandbox behind on the server: *)
(* every path that skips or fails the delete ends in an exception.         *)
(***************************************************************************)
NoSilentLeak == phase = "done" /\ exc = "none" => box # "live"

(***************************************************************************)
(* main.py's finally: its sandbox outlives it only when create raised      *)
(* after the server made it (the id never reached the program) or when     *)
(* the delete itself failed, whichever later call raised.                  *)
(***************************************************************************)
FinallyDeletes ==
    prog = "interpreter" /\ phase = "done" /\ box = "live" => exc \in {"create", "delete"}

(***************************************************************************)
(* Every program closes its httpx client on the way out, by its finally or *)
(* __aexit__, whichever call raised; the one exception is main.py, whose   *)
(* finally never reaches client.close() when the delete in it raises.      *)
(***************************************************************************)
ClosedOnExit == phase = "done" /\ open => prog = "interpreter" /\ exc = "delete"

(***************************************************************************)
(* Every program ends, returning or raising, however long the sandbox      *)
(* stays pending and whichever gathered calls fail.                        *)
(***************************************************************************)
ProgramEnds == <>(phase = "done")
====
