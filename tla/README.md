# TLA+ models of the liteboxd code-interpreter runtime

These are TLA+ models of the code-interpreter runtime, `src/examples/code-interpreter/runtime_server.py`, and the TLC runs that check them. The runtime is the part of the repository that has concurrency, processes and filesystem state. The Python SDK under `src/sdk/python` is mostly marshalling. Of the SDK, these are modelled:
- its polling loop and its error mapping (`SdkWait.tla`);
- the four example programs that drive it, with the loop composed in (`SdkSession.tla`). These are `src/examples/code-interpreter/python/main.py`, and `quickstart.py`, `async_example.py` and `template_management.py` under `src/sdk/python/examples`.

## The system

The runtime is a `ThreadingHTTPServer`: one thread per request, with no lock. All threads work on one workspace directory (`WORKSPACE_DIR`).

| Part | Code | What it does |
|---|---|---|
| Path Resolver | `resolve_path`, lines 16-25 | Resolves the workspace and the client path with `Path.resolve()` (symlinks and `..`). It then accepts the path when `str(target).startswith(str(workspace))`. |
| Session Store | `ensure_session_dir`, lines 28-35; `DELETE /sessions/{id}`, lines 164-181 | `ensure_session_dir` mints `sess-<uuid>` when no id is given, then creates `.sessions` and `.sessions/<id>`. DELETE resolves `.sessions/<id>`, unlinks every file (first `rglob`), removes directories deepest first (second `rglob`, sorted in reverse), then removes the session directory. |
| Process Executor | `run_command`, lines 38-63 | `Popen` with both pipes, then `communicate(timeout)`. On `TimeoutExpired` it calls `kill()` and then `communicate()` again, with no timeout, and reports exit code -1 plus a stderr marker. |
| Language Dispatcher | `POST /code`, lines 248-293 | Writes `main.<ext>` (or `Main.java`), then runs it. For Java it first runs `javac`; a non-zero compile exit code is returned as the response. |
| Protocol Boundary | `do_GET`, `do_POST`, `do_DELETE` | JSON in, JSON out. `/files/write`, `/files/delete`, `/files/list` and `/files/download` act on any resolved path. A body is parsed before any `try`. |
| SDK | `src/sdk/python/src/liteboxd` | `BaseClient._request` turns an error status into an exception. The services make one request per method. `wait_for_ready` polls `get` until the sandbox runs. |

How the parts interact:
- Every handler that takes a session calls `ensure_session_dir`, then works in that directory.
- Commands run unconfined in the session directory. They can create any file or symbolic link, which later `resolve_path` and delete calls then meet.
- Different requests, including requests for the same session, run concurrently. Spec section 5 says that concurrent requests to one session are not serialized.

## Modules

### `PathResolver.tla`: `resolve_path`

**State.**
- `fs` maps the absolute paths that exist to a directory, a file or a link. A link has a target, which is absolute or relative and is a sequence of segments.
- `out` is the last call's input and outcome.

Names are character sequences, so that `str(path)` (`PathStr`) and `startswith` (`IsPrefix`) act on characters as the code does.

**Operators.**
- `JoinRealPath` is a RECURSIVE translation of `os.path.realpath`'s `_joinrealpath`, which is what `Path.resolve()` calls. `.` is skipped. `..` pops, and the root is its own parent. A symbolic link is expanded recursively. A link met again while it is still being resolved is a loop.
- On a loop, Python 3.10-3.12 raise, while 3.13 returns the unresolved path. The repository does not pin the interpreter, so `ResolveOutcomes` allows both outcomes.

**Actions.**
- `CommandCreates`: a command creates a directory, file or link under an existing directory. This is bounded by `MaxEntries`.
- `Resolve`: a handler resolves any client path of up to `MaxRawLen` segments, with `.` and `..` included. `out.real` is where the kernel's walk of the accepted target lands.
- `Use`: `/files/write` makes the target's parents and opens it (`mkdir`, `write_text`, lines 197-201). The kernel walks the path again, on the workspace as it is then. A walk that loops, or ends on a directory or under a file, raises, and the handler answers 400 with nothing written (line 205); otherwise the file, and any missing parent, is created (`Writable`, `Written`). `CommandCreates` steps may come between `Resolve` and `Use`. Writes, like commands, are explored while the tree is below `MaxEntries` created entries.

### `Executor.tla`: `run_command`, and the two calls of `/code java`

**State.**
- `pc`: `idle`, `communicate`, `drain` or `done`.
- The process (`main`, `status`).
- A descendant that inherited the pipes (`child`, for example a background job of `sh -c`).
- A clock `now`, counted in ticks of the timeout's unit.
- `result`.
- `cmd`: which call is running, `command` (a `/command` or a one-call `/code`), `javac` or `java`.

**Actions.**
- `Popen`: the worker takes a request whose first call is `command` or `javac`; `Launch(c)` is the shared `Popen` step, either a launch error, or the start of the command with or without a descendant, and a fresh timeout clock.
- `RunJava`: javac's result has exit code 0 (line 280), so the handler launches `java` with the request's whole timeout again (line 288).
- `MainExits` and `DescendantExits`.
- `Tick`: time passes while the worker is in `communicate(timeout)`, also after the pipes have closed and before the thread runs again to notice. CPython checks the deadline after every `select()`, so a command that ended just before the deadline can still be reported as timed out (hazard at line 49).
- `CommunicateReturns`: end-of-file on both pipes.
- `TimeoutExpires`: `kill()` sends SIGKILL to the pid only, and does nothing to a process that has already been reaped.
- `DrainReturns`: the second `communicate()` returns.
- `Respond`: unless a compile has just succeeded; a failed or timed-out compile (exit code 1, -15 or the sentinel -1) is answered as it is (line 281).

A signal `s` gives returncode `-s`, as in `Popen`.

### `RuntimeServer.tla`: the handlers, concurrently

**State.**
- `fs` maps paths relative to the workspace to directories, files or links. A file remembers which request wrote it.
- `desc` is what each request asks for. It is chosen in `Init` from `Descs` and never changes.
- `req` holds each handler thread's locals: `pc`, the session, the pending `rglob` list `todo`, the source javac read (`src`), the program the process loaded (`ran`), and the response.
- `minted` and `announced` are the session ids that `uuid4` produced and that responses carried.
- `overlap` is a history variable: the pairs of requests that were in flight together on related paths.

Each filesystem call is one step. The steps of different requests interleave freely.

**Actions.** Each action is one step of one handler:
- `Begin` and `Mint`: session id.
- `EnsureRoot` and `EnsureDir`: the two `mkdir(parents=True, exist_ok=True)` calls. `EnsureFails` is the 500 response, or, for `POST /sessions`, the dropped connection.
- `AfterEnsure`: the response to `POST /sessions`, or the language dispatch.
- `WriteSource`: writes the language's source file (`SourceFile`: `main.py`, `main.js`, `main.ts`, `main.sh`, `main.go`) or `Main.java`.
- `JavacStart` and `JavacEnds`: the compile and its exit-code check.
- `Popen`: the interpreter reads `main.py`, or the JVM loads `Main.class`.
- `Complete`: a command's effect on its cwd (a file `out`, or a link `lnk` made by `ln -s`), then the 200 response with `session_id = payload.get("session_id")`.
- `DelStart`, `FDelStart`, `DelUnlink`, `DelRmdir` and `DelRoot`: the two delete handlers, one entry of each `rglob` loop per step.
- `WriteStart` and `WriteFile`: `/files/write`.
- `ReadBody`: a malformed JSON body or a non-numeric `timeout` raises outside the `try`, and the connection is dropped. A `/command` without a command gets 400. `ArgsOf` lists which of these each handler can meet.
- `ListStart`, `ListDir` and `ListStat`: `/files/list`. The first step does `exists()` and `is_dir()`. The second does `iterdir()`'s listing. The third does one `stat()` per listed entry; an entry deleted since the listing makes that `stat()` raise.
- `DlStart` and `DlRead`: `/files/download`. The first does `exists()`/`is_file()`, the second `read_bytes()`.

How long a process runs is `Executor`'s concern; here a process starts, acts and ends.

**Abstract specification.** `SessionStore.tla` states spec 4.2's promise: a session directory appears when a request needs it, and disappears only while a delete naming that session is being served; a delete may fail (400), but a 200 means its session is gone at that moment. `RuntimeServer` implements it under the refinement mapping
- `live` = the session directories that exist (`LiveSessions`),
- `target` = the id each `DELETE /sessions/{id}` names (`DeleteTarget`), and
- `resp` = each delete's answer once given (`DeleteResp`).

`/files/delete` is not a session delete: in the `server` run it removes a file of `s1`, never the session. The mapping keeps apart what the code could get wrong: a delete that answered 200 while a command had written into the session between its listing and its final `rmdir` (the mutant `DelRootSwallow`) breaks it.

The mapping is checked as the property `SessionsRefineStore`.

### `SdkWait.tla`: the SDK's wait loops

This module follows `SandboxService.wait_for_ready` (`services/sandbox.py:181-226`).
- `PrepullService.wait_for_completion` has the same loop with the `PrepullStatus` sets.
- The asyncio versions read the event loop's clock.

**State.**
- `clock`.
- `remote`, the resource's status on the server. It moves along a `Lifecycle` relation, and no fairness is assumed for it.
- The loop's `pc`, `started`, `deadline`, `sent` and `wake`.
- The last `reply`, and the `outcome`.

**Actions.**
- `SendGet`: `self.get`.
- `GetReturns`: `_request` and `_handle_response`. A status of 400 or more raises `RaiseForStatus(code)`, the operator translating `raise_for_status` together with the `status_code` each exception class stores.
- `GetTimesOut`: httpx's own timeout, which propagates.
- `Check`: the status tests, then `monotonic() >= deadline`.
- `Wake`: the end of `time.sleep(poll_interval)`.
- `Tick`: time passing while the loop is blocked. It is capped at `MaxClock`, which the property `WaitBounded` shows is never reached.

No run checks `SdkWait` on its own. It is checked through `SdkSession`, where the loop starts at whatever time `create` left on the clock.

### `SdkSession.tla`: the example programs

Each program is a record of two statement sequences: `body` is the `try` block, and `cleanup` is the `finally` (or `__aexit__`).
- `InterpreterMain` (main.py): the finally deletes the sandbox if `create` returned, then closes the client.
- `Quickstart`: the delete is the last call of the try block; the finally only closes.
- `AsyncMain`: `async with`, and `asyncio.gather` of three `execute` calls.
- `TemplateManagement`: template create (on `ConflictError`, get instead), list, update, list_versions, export, rollback when the server reports more than one version, export_all, import; the finally closes.

**State.**
- `prog`, `phase` (body, cleanup, done) and `step`.
- `box`: the sandbox on the server (none, live, deleted).
- `known`: whether the program holds the sandbox's id.
- `exc`: the call whose exception is propagating.
- `open`: whether the httpx client is open.
- `tasks`: the gathered calls (idle, sent, ok, raised, cancelled).
- The wait loop's variables, from `W == INSTANCE SdkWait WITH pc <- wpc`.

**Fault model.** The control plane is not in the repository. Each call returns, or raises either before or after the server acted (`Results`): an httpx timeout after the server acted, a 5xx, a body that does not validate. `Proceed` moves to the next statement. `Raise` moves from the body to the cleanup, or, from the cleanup, ends the program with the new exception. The wait loop's steps are `SdkWait`'s actions, wrapped in `Waiting` (sync) and `AsyncWaiting`.

**Asyncio tasks.** `GatherStart` sends the three execute calls. Each `TaskReturns(t)` returns or raises; `AsyncRequestResults` (`AsyncBaseClient._request`) can only raise once `__aexit__` has closed the client. `GatherEnds` raises on the first failure without cancelling the others, which run on through the cleanup. `RunCancels` is `asyncio.run` cancelling whatever is still pending once `main()` has ended.

## Runs

| Run | Expect | What it shows |
|---|---|---|
| `resolver_contained` | pass | The workspace is `/w`, next to `/x`. Links are absolute to `/` and `/x`, and relative `..`, `../x` and `x`. Up to 2 created entries of depth 2, and client paths of 3 segments. With these, every accepted path lands inside the workspace, and a resolved path has no `.` or `..` unless it came from a loop. |
| `resolver_prefix` | violation | The name `ww` is next to `w`. The client path `../ww` resolves to `/ww`, which starts with the string `/w` and is accepted. |
| `executor_answered` | pass | Timeout 3 ticks and exit statuses {0, 1, -15}, with descendants that eventually exit. Every started command, javac and then java included, is answered (`Answered`), through a timeout, `kill()`'s poll and the second `communicate()`. |
| `executor_hang` | violation | A descendant that never exits keeps the pipes open. The deadline passes and `kill()` is sent (a no-op in the trace, where the main process had already exited), and the second `communicate()` never returns. |
| `executor_sighup` | violation | Status -1 (SIGHUP) is reported as exit code -1, the timeout sentinel, without the marker. |
| `resolver_toctou` | violation | `Resolve` accepts a workspace path that does not exist yet. A command then creates a link to `/x` at that path (`/x` does not exist), and `Use`'s `write_text` creates the file `/x`, outside the workspace. A link to a directory outside would not do: `write_text` raises on it and the handler answers 400. |
| `server` | pass | Three concurrent requests, each drawn from 16 kinds: create; command in `s1`; command without a session; python, js, java, broken-java and unsupported code in `s1`; delete `s1`; `/files/delete` of a file of `s1`; `/files/write` of `s1/main.py`; list of `s1`; download of `s1` and of `s1/out`; a command without a command; code with a bad timeout. This is 1,440,413 states, about 40 s. (1) A `/code` request runs the program it sent, unless another request was in the same session at the same time. (2) The sessions refine `SessionStore`: only a delete of that session removes one, and a delete answering 200 leaves it gone, however a command races it. (3) A listing or download that no other request races answers as spec section 4 says: bytes of the file or 404 (also for a directory), and a listing 200 or 404. |
| `server_bricked` | violation | `/files/write` of `.sessions`, then `POST /sessions`. The `mkdir` raises outside the `try`, and the client gets no response. |
| `server_orphan` | violation | `POST /command` without `session_id` leaves `.sessions/<minted>` behind, and its id is never sent to anyone. |
| `server_undeletable` | violation | A command runs `ln -s <dir> lnk` in `s1`, and then `DELETE /sessions/s1` answers 400. Nothing else touched the session. |
| `server_scope` | violation | `DELETE /sessions/` (an empty id) removes a session created by `POST /sessions`. |
| `sdk_session` | pass | The four programs. Every call may fail before or after acting. Timeout 4, interval 2, requests of up to 2 ticks, and a sandbox that may stay pending, run, fail, succeed, terminate or become unknown. Checked: no program returns normally with its sandbox left live (`NoSilentLeak`); main.py leaks only when `create`'s answer or the delete failed (`FinallyDeletes`); every program but main.py closes its client whatever raised (`ClosedOnExit`); every program ends (`ProgramEnds`). This is 51,128 states. |

Each property of a passing run has a mutant in `PROJECT.json`: a plausible bug in a mapped definition that TLC finds violating it. For example:
- resolving after the check (`ResolvePathBeforeResolve`);
- no kill on timeout (`TimeoutExpiresNoKill`);
- an unchecked javac exit code (`JavacEndsUnchecked`);
- a session delete that answers 200 although its final `rmdir` failed (`DelRootSwallow`);
- a failed delete swallowed (`DeleteSwallow`);
- main.py's delete moved into the try (`InterpreterMainNoFinally`);
- template_management.py's close moved into the try (`TemplateManagementNoFinally`);
- a download that tests only `exists()` (`DlStartExistsOnly`);
- a wait loop without its deadline test (`CheckNoDeadline`).

### Bounds

- **Three requests** are the fewest that can put a delete between a write and a run of another request while a third one holds the session.
- **Sessions.** One explicit session id with three mintable ids gives every request its own minted id.
- **Paths.** Directory depth 2 and client paths of three segments let a link and a `..` both appear on one path, and let a relative link climb out.
- **SDK wait.** A timeout of 4 with an interval of 2 gives two polls before the deadline, and one poll at the deadline. `create` may take 0 to 2 ticks, so the wait starts at different clock readings.
- **Gathered calls.** Three tasks let one fail while others are still running when `gather` raises.
- **Timeout.** A timeout of 3 ticks lets a command end before, at and after the deadline, and a compile and a run follow each other within one request.

### Fairness

- **Executor.** The clock, the worker thread and the return of a blocking call whose pipes are closed are weakly fair. A command's own exit is not fair: it may run forever, which is what the timeout is for. A descendant's exit is fair only in `executor_answered`. Launching `java` after a clean compile is the same worker's next statement, so `RunJava` is weakly fair too.
- **SdkSession.** The program's steps, the wait loop's steps, the clock and each gathered task are weakly fair. A request always ends, because httpx has a timeout. The server's lifecycle transitions are not fair: a sandbox may stay pending forever.
- **RuntimeServer.** Each handler thread is weakly fair, because the OS schedules every runnable thread. No temporal property checks that every request is answered: checking one over 1.4 million states takes longer than a run may. The `server` run checks deadlock instead. A thread with no step enabled before it answers would be a deadlock, and every handler step advances its pc or shrinks its pending set, so no thread can loop forever.
- **Asyncio tasks.** Each gathered task's completion and `asyncio.run`'s final cancellation are weakly fair: the event loop runs every ready task.

## Findings

Each finding below is a violation run; `PROJECT.json` gives the line and the spec text it disagrees with.
- **Sibling-prefix escape** of `resolve_path` (line 23).
- **Hang after a timeout** when a descendant holds the pipes (line 51).
- **Exit code -1 is ambiguous** (lines 53 and 58).
- **Dropped response** of `POST /sessions` (line 186).
- **Minted session id lost** by `/command` and `/code` (line 242).
- **Undeletable sessions** that contain a symlink to a directory (line 175).
- **"DELETE /sessions/" deletes every session** (line 166).
- **TOCTOU in `/files/write`** (line 201): the path is resolved, then opened, and a command can make a link in between (`resolver_toctou`).

A malformed body (a `timeout` that `int()` rejects, or JSON that does not parse; line 230) ends the handler thread with no response, as `POST /sessions` does in `server_bricked`: the server run reaches `ReadBody`'s dropped branch, but no run of its own repeats that one-step trace.

`raise_for_status` maps every 5xx to status code 500 (`exceptions.py:89`). This is listed as a hazard, not a finding: a unit test of that one-line table reaches it.

## Not modelled, and why

- **`GET /ping` and the 404 for an unknown path** answer at once and change nothing.
- **`wrap_java` and `wrap_go`** are string templates.
- **Base64 content and output capture** are data, not control.
- **The control plane's template, version and prepull state.** It is not in the repository. The SDK's template calls are modelled only as requests that return or raise.
- **The prepull service, the async template service, template delete and get_version.** No program calls them. `wait_for_completion` is `SdkWait`'s loop with the `PrepullStatus` sets.
- **`BaseClient`'s `http_client` argument.** No program passes one, and header and URL building are formatting.

## Plan for the next steps

1. **`RuntimeServer`: list and download racing a delete** with four requests. The state space is the limit.
2. **The prepull wait** as a second `SdkWait` instance, if a program that waits on a prepull is written.
3. **The remaining hazards without properties** in `PROJECT.json`, each of which would need a violation run of its own: the malformed-body drop; `wait_for_ready` overrunning the "maximum wait time" of its docstring (`sandbox.py:194`: with Timeout 4 the `sdk_session` model reaches a `TimeoutError` 7 ticks after the call); and a command that ended just before its deadline reported as timed out because the worker thread saw the closed pipes only after it (line 49).
