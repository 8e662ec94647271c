---------------------------- MODULE RuntimeServer ----------------------------
(***************************************************************************)
(* The session handlers of the code-interpreter runtime                    *)
(* (src/examples/code-interpreter/runtime_server.py): POST /sessions,      *)
(* DELETE /sessions/{id}, POST /command, POST /code and POST /files/write, *)
(* each run by its own thread of the ThreadingHTTPServer over one shared,  *)
(* unlocked workspace directory.                                           *)
(*                                                                         *)
(* The workspace is a set of paths relative to WORKSPACE_DIR (the root is  *)
(* <<>>) mapped to entries: directories, files (remembering which request  *)
(* wrote them) and symbolic links to directories outside the workspace,    *)
(* which commands create with "ln -s".  Every filesystem call of a handler *)
(* is one atomic step; the steps of different handlers interleave.  How   *)
(* long a process runs and how it times out is Executor's business: here a *)
(* process is started, may write into its cwd, and ends.                  *)
(***************************************************************************)
EXTENDS Naturals, Sequences, SequencesExt, FiniteSets

CONSTANTS
    Requests,       \* the requests the clients send (model values)
    Descs,          \* request descriptions a client may send
    ExplicitIds,    \* session ids clients choose themselves
    MintIds,        \* ids uuid4() may mint ("sess-<hex>"), all distinct
    NoSid           \* a request without session_id (None)

\* What a body may hold that the handler rejects, by the field it reads.
ArgsOf(op) ==
    CASE op = "command" -> {"ok", "bad_json", "bad_timeout", "no_command"}
      [] op = "code"    -> {"ok", "bad_json", "bad_timeout"}
      [] op \in {"write", "fdelete"} -> {"ok", "bad_json"}
      [] OTHER          -> {"ok"}

ASSUME \A d \in Descs : d.args \in ArgsOf(d.op)

VARIABLES
    fs,         \* [path -> entry]
    desc,       \* [Requests -> the request's description], fixed
    req,        \* [Requests -> the handler thread's locals]
    minted,     \* ids uuid4() has returned so far
    announced,  \* session ids sent back to a client in a response
    overlap     \* history: pairs of requests in flight together on related paths

vars == <<fs, desc, req, minted, announced, overlap>>

Sessions == <<".sessions">>
Dir      == [kind |-> "dir"]
DirLink  == [kind |-> "link"]
FileBy(r) == [kind |-> "file", by |-> r]

IsDir(p)  == p \in DOMAIN fs /\ fs[p].kind = "dir"
IsFile(p) == p \in DOMAIN fs /\ fs[p].kind = "file"
Ancestors(p) == {SubSeq(p, 1, i) : i \in 0..Len(p) - 1}
Below(p)     == {q \in DOMAIN fs : IsPrefix(p, q) /\ q # p}
Children(p)  == {q \in Below(p) : Len(q) = Len(p) + 1}

(***************************************************************************)
(* resolve_path(f".sessions/{session_id}"): the id is not checked, so the *)
(* empty id of "DELETE /sessions/" names .sessions itself.                 *)
(***************************************************************************)
\* Mutant of SessionDir: the id is dropped when the path is built.
SessionDirAll(sid) == Sessions

SessionDir(sid) == IF sid = "" THEN Sessions ELSE Sessions \o <<sid>>

\* Path.mkdir(parents=True, exist_ok=True): creates p and its missing
\* ancestors; raises when p or an ancestor exists and is not a directory.
MkdirOk(p) == \A a \in Ancestors(p) \cup {p} : a \in DOMAIN fs => IsDir(a)
Mkdirs(p)  == [q \in DOMAIN fs \cup Ancestors(p) \cup {p} |->
                  IF q \in DOMAIN fs THEN fs[q] ELSE Dir]

RemoveEntry(p) == [q \in DOMAIN fs \ {p} |-> fs[q]]
PutEntry(p, e) == [q \in DOMAIN fs \cup {p} |-> IF q = p THEN e ELSE fs[q]]

\* The directory a request works in (for a delete, the one it removes).
WorkPath(r) ==
    CASE desc[r].op = "delete" -> SessionDir(desc[r].sid)
      [] desc[r].op \in {"write", "fdelete", "list", "download"} -> desc[r].path
      [] OTHER                 -> Sessions \o <<req[r].sess>>

InFlight(r) == req[r].pc \notin {"start", "done"}

Related(r, q) == IsPrefix(WorkPath(r), WorkPath(q)) \/ IsPrefix(WorkPath(q), WorkPath(r))

\* Every step of r notes the requests in flight with it on related paths.
NoteOverlap(r) ==
    overlap' = overlap \cup { {r, q} : q \in {q \in Requests \ {r} :
                                  InFlight(q) /\ Related(r, q)} }

\* The handler answers and its thread ends.
Answer(r, code, sid) ==
    req' = [req EXCEPT ![r] = [@ EXCEPT !.pc = "done", !.resp = code,
                                        !.rsid = sid]]

Goto(r, pc) == req' = [req EXCEPT ![r].pc = pc]

Init ==
    /\ fs = [p \in {<<>>} |-> Dir]
    /\ desc \in [Requests -> Descs]
    /\ req = [r \in Requests |-> [pc |-> "start", sess |-> NoSid, todo |-> {},
                                  src |-> NoSid, ran |-> NoSid,
                                  resp |-> "none", rsid |-> NoSid]]
    /\ minted = {}
    /\ announced = {}
    /\ overlap = {}

Step(r) == NoteOverlap(r) /\ UNCHANGED desc

-----------------------------------------------------------------------------
(***************************************************************************)
(* The body of a POST (lines 101-106, 191, 208, 228-234, 249-253): a      *)
(* malformed JSON body makes json.loads raise, a "timeout" that is not a  *)
(* number makes int() raise ValueError.  Both happen before any try, so   *)
(* the exception leaves do_POST and the server closes the connection      *)
(* without a response.  /command without a command answers 400.          *)
(***************************************************************************)
ReadBody(r) ==
    /\ req[r].pc = "start"
    /\ desc[r].args # "ok"
    /\ IF desc[r].args = "no_command"
       THEN Answer(r, "400", NoSid)
       ELSE Answer(r, "dropped", NoSid)
    /\ UNCHANGED <<fs, minted, announced>>
    /\ Step(r)

(* POST /sessions, /command and /code: the session id (lines 185, 30).     *)

\* uuid4() returns an id no earlier call returned.
Mint(r) ==
    \E m \in MintIds \ minted :
        /\ minted' = minted \cup {m}
        /\ req' = [req EXCEPT ![r].sess = m, ![r].pc = "ens_root"]

Begin(r) ==
    /\ req[r].pc = "start"
    /\ desc[r].op \in {"create", "command", "code"}
    /\ desc[r].args = "ok"
    /\ IF desc[r].op = "create" \/ desc[r].sid = NoSid
       THEN Mint(r)
       ELSE /\ req' = [req EXCEPT ![r].sess = desc[r].sid, ![r].pc = "ens_root"]
            /\ UNCHANGED minted
    /\ UNCHANGED <<fs, announced>>
    /\ Step(r)

(***************************************************************************)
(* ensure_session_dir (lines 31-34).  POST /sessions calls it outside any  *)
(* try (line 186): an exception there ends the thread with no response.   *)
(* /command and /code answer 500 (lines 244-245, 291-292).                 *)
(***************************************************************************)
EnsureFails(r) ==
    IF desc[r].op = "create" THEN Answer(r, "dropped", NoSid)
    ELSE Answer(r, "500", NoSid)

EnsureRoot(r) ==
    /\ req[r].pc = "ens_root"
    /\ IF MkdirOk(Sessions)
       THEN fs' = Mkdirs(Sessions) /\ Goto(r, "ens_dir")
       ELSE EnsureFails(r) /\ UNCHANGED fs
    /\ UNCHANGED <<minted, announced>>
    /\ Step(r)

(***************************************************************************)
(* The interpreted languages of /code (lines 256-275), by                  *)
(* (payload["language"] or "python").lower(): each writes its own source   *)
(* file in the session and runs it in one run_command.                     *)
(***************************************************************************)
SourceFile ==
    [l \in {"python", "javascript", "js", "typescript", "ts", "bash", "go"} |->
        CASE l = "python" -> "main.py"
          [] l \in {"javascript", "js"} -> "main.js"
          [] l \in {"typescript", "ts"} -> "main.ts"
          [] l = "bash" -> "main.sh"
          [] l = "go"   -> "main.go"]

\* After ensure_session_dir: POST /sessions answers with the new id
\* (line 187); /code picks the language only now (lines 256-287).
AfterEnsure(r) ==
    CASE desc[r].op = "create" ->
              Answer(r, "200", req[r].sess) /\ announced' = announced \cup {req[r].sess}
      [] desc[r].op = "command" -> Goto(r, "popen") /\ UNCHANGED announced
      [] desc[r].lang \in DOMAIN SourceFile -> Goto(r, "write_src") /\ UNCHANGED announced
      [] desc[r].lang = "java"   -> Goto(r, "write_java") /\ UNCHANGED announced
      [] OTHER -> Answer(r, "400", NoSid) /\ UNCHANGED announced

EnsureDir(r) ==
    /\ req[r].pc = "ens_dir"
    /\ LET dir == Sessions \o <<req[r].sess>>
       IN IF MkdirOk(dir)
          THEN fs' = Mkdirs(dir) /\ AfterEnsure(r)
          ELSE EnsureFails(r) /\ UNCHANGED <<fs, announced>>
    /\ UNCHANGED minted
    /\ Step(r)

-----------------------------------------------------------------------------
(* Processes: Popen(..., cwd=session_dir) raises when cwd is gone (500).   *)

SessionPath(r, name) == Sessions \o <<req[r].sess, name>>

\* What the process loads when it starts: a file's writer, or "missing".
Loaded(p) == IF IsFile(p) THEN fs[p].by ELSE "missing"

\* /code writes the source with write_text (lines 257-278).
WriteSource(r) ==
    /\ req[r].pc \in {"write_src", "write_java"}
    /\ LET dir  == Sessions \o <<req[r].sess>>
           name == IF req[r].pc = "write_src" THEN SourceFile[desc[r].lang] ELSE "Main.java"
       IN IF IsDir(dir)
          THEN /\ fs' = PutEntry(SessionPath(r, name), FileBy(r))
               /\ Goto(r, IF req[r].pc = "write_src" THEN "popen" ELSE "javac")
          ELSE Answer(r, "500", NoSid) /\ UNCHANGED fs
    /\ UNCHANGED <<minted, announced>>
    /\ Step(r)

(***************************************************************************)
(* run_command's Popen (line 40) for the command, "python3 main.py" and    *)
(* the other interpreters (lines 259-275) or "java -cp session_dir Main"   *)
(* (line 284): the interpreter reads its source file, the JVM loads        *)
(* Main.class, as they start.                                             *)
(***************************************************************************)
Popen(r) ==
    /\ req[r].pc \in {"popen", "java_popen"}
    /\ IF IsDir(Sessions \o <<req[r].sess>>)
       THEN req' = [req EXCEPT ![r].pc = "running",
                      ![r].ran = CASE desc[r].op = "command" -> NoSid
                                  [] req[r].pc = "java_popen" ->
                                       Loaded(SessionPath(r, "Main.class"))
                                  [] OTHER -> Loaded(SessionPath(r, SourceFile[desc[r].lang]))]
       ELSE Answer(r, "500", NoSid)
    /\ UNCHANGED <<fs, minted, announced>>
    /\ Step(r)

\* javac Main.java (line 279) starts and reads the source.
JavacStart(r) ==
    /\ req[r].pc = "javac"
    /\ IF IsDir(Sessions \o <<req[r].sess>>)
       THEN req' = [req EXCEPT ![r].pc = "compiling",
                      ![r].src = Loaded(SessionPath(r, "Main.java"))]
       ELSE Answer(r, "500", NoSid)
    /\ UNCHANGED <<fs, minted, announced>>
    /\ Step(r)

\* Mutant of JavacEnds: the compile's exit code is not checked, and the JVM
\* is started whatever javac did.
JavacEndsUnchecked(r) ==
    /\ req[r].pc = "compiling"
    /\ LET src == req[r].src
       IN IF src # "missing" /\ ~desc[src].broken
             /\ IsDir(Sessions \o <<req[r].sess>>)
          THEN fs' = PutEntry(SessionPath(r, "Main.class"), FileBy(src))
          ELSE UNCHANGED fs
    /\ Goto(r, "java_popen")
    /\ UNCHANGED <<minted, announced>>
    /\ Step(r)

\* Mutant of JavacEnds: a missing Main.java is not noticed.
JavacEndsNoSourceCheck(r) ==
    /\ req[r].pc = "compiling"
    /\ LET src == req[r].src
       IN IF IsDir(Sessions \o <<req[r].sess>>)
             /\ (src = "missing" \/ ~desc[src].broken)
          THEN /\ fs' = PutEntry(SessionPath(r, "Main.class"), FileBy(src))
               /\ Goto(r, "java_popen")
               /\ UNCHANGED announced
          ELSE /\ Answer(r, "200", desc[r].sid)
               /\ announced' = announced \cup ({desc[r].sid} \ {NoSid})
               /\ UNCHANGED fs
    /\ UNCHANGED minted
    /\ Step(r)

(***************************************************************************)
(* javac ends: it writes Main.class when the source it read compiles and  *)
(* the directory is still there; otherwise its non-zero result is the     *)
(* response (lines 280-283).                                               *)
(***************************************************************************)
JavacEnds(r) ==
    /\ req[r].pc = "compiling"
    /\ LET src == req[r].src
       IN IF src # "missing" /\ ~desc[src].broken
             /\ IsDir(Sessions \o <<req[r].sess>>)
          THEN /\ fs' = PutEntry(SessionPath(r, "Main.class"), FileBy(src))
               /\ Goto(r, "java_popen")
               /\ UNCHANGED announced
          ELSE /\ Answer(r, "200", desc[r].sid)
               /\ announced' = announced \cup ({desc[r].sid} \ {NoSid})
               /\ UNCHANGED fs
    /\ UNCHANGED minted
    /\ Step(r)

(***************************************************************************)
(* The process ends and the handler answers 200 with                       *)
(* session_id = payload.get("session_id") (lines 242, 289).  A command may *)
(* have written a file or made a link in its cwd if the cwd still exists. *)
(***************************************************************************)
Effect(r) ==
    LET p == SessionPath(r, desc[r].effect)
    IN CASE desc[r].op # "command" \/ desc[r].effect = "none"
              \/ ~IsDir(Sessions \o <<req[r].sess>>) -> fs
         [] desc[r].effect = "out"  -> PutEntry(p, FileBy(r))
         [] p \in DOMAIN fs         -> fs
         [] OTHER                   -> PutEntry(p, DirLink)

Complete(r) ==
    /\ req[r].pc = "running"
    /\ fs' = Effect(r)
    /\ Answer(r, "200", desc[r].sid)
    /\ announced' = announced \cup ({desc[r].sid} \ {NoSid})
    /\ UNCHANGED minted
    /\ Step(r)

-----------------------------------------------------------------------------
(* DELETE /sessions/{id} (lines 164-181) and POST /files/delete (207-225). *)

\* resolve_path rejects a path through a link: every link points outside.
ThroughLink(p) ==
    \E a \in Ancestors(p) \cup {p} : a \in DOMAIN fs /\ fs[a].kind = "link"

(***************************************************************************)
(* DELETE /sessions/{id}: resolve .sessions/{id}; a missing session        *)
(* answers 200 at once, an existing one is emptied by the two rglob loops  *)
(* below, whose first listing is taken here.                               *)
(***************************************************************************)
DelStart(r) ==
    /\ req[r].pc = "start"
    /\ desc[r].op = "delete"
    /\ LET p == WorkPath(r)
       IN CASE ThroughLink(p)      -> Answer(r, "400", NoSid) /\ UNCHANGED fs
            [] p \notin DOMAIN fs  -> Answer(r, "200", NoSid) /\ UNCHANGED fs
            [] OTHER -> req' = [req EXCEPT ![r].pc = "unlink", ![r].todo = Below(p)]
                        /\ UNCHANGED fs
    /\ UNCHANGED <<minted, announced>>
    /\ Step(r)

(***************************************************************************)
(* POST /files/delete: a file is unlinked at once, a directory goes        *)
(* through the same two loops and rmdir as a session, anything else (a     *)
(* missing path) answers 200.                                             *)
(***************************************************************************)
FDelStart(r) ==
    /\ req[r].pc = "start"
    /\ desc[r].op = "fdelete"
    /\ desc[r].args = "ok"
    /\ LET p == WorkPath(r)
       IN CASE ThroughLink(p) -> Answer(r, "400", NoSid) /\ UNCHANGED fs
            [] IsFile(p)      -> Answer(r, "200", NoSid) /\ fs' = RemoveEntry(p)
            [] IsDir(p)       -> req' = [req EXCEPT ![r].pc = "unlink", ![r].todo = Below(p)]
                                 /\ UNCHANGED fs
            [] OTHER          -> Answer(r, "200", NoSid) /\ UNCHANGED fs
    /\ UNCHANGED <<minted, announced>>
    /\ Step(r)

(***************************************************************************)
(* for item in rglob("*"): if item.is_file(): item.unlink().  rglob does   *)
(* not descend into links; is_file() follows them, so a link to a         *)
(* directory is kept.  When the listing is done, sorted(rglob("*"),        *)
(* reverse=True) lists again what is there now, children before parents.  *)
(***************************************************************************)
DelUnlink(r) ==
    /\ req[r].pc = "unlink"
    /\ IF req[r].todo = {}
       THEN /\ req' = [req EXCEPT ![r].pc = "rmdir", ![r].todo = Below(WorkPath(r))]
            /\ UNCHANGED fs
       ELSE \E q \in req[r].todo :
               /\ fs' = IF IsFile(q) THEN RemoveEntry(q) ELSE fs
               /\ req' = [req EXCEPT ![r].todo = @ \ {q}]
    /\ UNCHANGED <<minted, announced>>
    /\ Step(r)

(***************************************************************************)
(* for item in the reversed listing: if item.is_dir(): item.rmdir().       *)
(* is_dir() follows a link, and rmdir of a link raises NotADirectoryError; *)
(* rmdir of a directory that is not empty raises OSError: either ends the  *)
(* handler with 400 (line 179).                                            *)
(***************************************************************************)
DelRmdir(r) ==
    /\ req[r].pc = "rmdir"
    /\ IF req[r].todo = {}
       THEN Goto(r, "rmroot") /\ UNCHANGED fs
       ELSE \E q \in {q \in req[r].todo : \A c \in req[r].todo : ~IsPrefix(q, c) \/ c = q} :
               CASE IsDir(q) /\ Children(q) = {} ->
                      fs' = RemoveEntry(q) /\ req' = [req EXCEPT ![r].todo = @ \ {q}]
                 [] IsDir(q) \/ (q \in DOMAIN fs /\ fs[q].kind = "link") ->
                      Answer(r, "400", NoSid) /\ UNCHANGED fs
                 [] OTHER ->
                      req' = [req EXCEPT ![r].todo = @ \ {q}] /\ UNCHANGED fs
    /\ UNCHANGED <<minted, announced>>
    /\ Step(r)

DelRoot(r) ==
    /\ req[r].pc = "rmroot"
    /\ LET p == WorkPath(r)
       IN IF IsDir(p) /\ Children(p) = {}
          THEN fs' = RemoveEntry(p) /\ Answer(r, "200", NoSid)
          ELSE Answer(r, "400", NoSid) /\ UNCHANGED fs
    /\ UNCHANGED <<minted, announced>>
    /\ Step(r)

-----------------------------------------------------------------------------
(* POST /files/write (lines 190-205).                                      *)

\* resolve_path, then target.parent.mkdir(parents=True, exist_ok=True).
WriteStart(r) ==
    /\ req[r].pc = "start"
    /\ desc[r].op = "write"
    /\ desc[r].args = "ok"
    /\ LET p == desc[r].path
       IN IF ~ThroughLink(p) /\ MkdirOk(Front(p))
          THEN fs' = Mkdirs(Front(p)) /\ Goto(r, "write_file")
          ELSE Answer(r, "400", NoSid) /\ UNCHANGED fs
    /\ UNCHANGED <<minted, announced>>
    /\ Step(r)

\* write_text: fails on a directory (or a link to one) or a missing parent.
WriteFile(r) ==
    /\ req[r].pc = "write_file"
    /\ LET p == desc[r].path
       IN IF IsDir(Front(p)) /\ (p \notin DOMAIN fs \/ IsFile(p))
          THEN fs' = PutEntry(p, FileBy(r)) /\ Answer(r, "200", NoSid)
          ELSE Answer(r, "400", NoSid) /\ UNCHANGED fs
    /\ UNCHANGED <<minted, announced>>
    /\ Step(r)

-----------------------------------------------------------------------------
(* GET /files/list and GET /files/download (lines 111-162).               *)

(***************************************************************************)
(* GET /files/list: resolve_path (a path through a link escapes: 400),    *)
(* exists() (404), is_dir() (400); then iterdir() (line 128).             *)
(***************************************************************************)
ListStart(r) ==
    /\ req[r].pc = "start"
    /\ desc[r].op = "list"
    /\ LET p == desc[r].path
       IN CASE ThroughLink(p)     -> Answer(r, "400", NoSid)
            [] p \notin DOMAIN fs -> Answer(r, "404", NoSid)
            [] ~IsDir(p)          -> Answer(r, "400", NoSid)
            [] OTHER              -> Goto(r, "iterdir")
    /\ UNCHANGED <<fs, minted, announced>>
    /\ Step(r)

\* iterdir() lists the directory (os.listdir) at the loop's first step; a
\* directory gone since is_dir() raises, answered 400 (line 141).
ListDir(r) ==
    /\ req[r].pc = "iterdir"
    /\ IF IsDir(desc[r].path)
       THEN req' = [req EXCEPT ![r].pc = "stat", ![r].todo = Children(desc[r].path)]
       ELSE Answer(r, "400", NoSid)
    /\ UNCHANGED <<fs, minted, announced>>
    /\ Step(r)

(***************************************************************************)
(* entry.stat() of each listed entry (line 129), following a link; an     *)
(* entry removed since the listing raises FileNotFoundError: 400.  When   *)
(* every entry is done the items are sent with 200.                        *)
(***************************************************************************)
ListStat(r) ==
    /\ req[r].pc = "stat"
    /\ IF req[r].todo = {}
       THEN Answer(r, "200", NoSid)
       ELSE \E q \in req[r].todo :
               IF q \in DOMAIN fs
               THEN req' = [req EXCEPT ![r].todo = @ \ {q}]
               ELSE Answer(r, "400", NoSid)
    /\ UNCHANGED <<fs, minted, announced>>
    /\ Step(r)

\* Mutant of DlStart: only exists() is tested, so a directory passes.
DlStartExistsOnly(r) ==
    /\ req[r].pc = "start"
    /\ desc[r].op = "download"
    /\ LET p == desc[r].path
       IN CASE ThroughLink(p)     -> Answer(r, "400", NoSid)
            [] p \notin DOMAIN fs -> Answer(r, "404", NoSid)
            [] OTHER              -> Goto(r, "read")
    /\ UNCHANGED <<fs, minted, announced>>
    /\ Step(r)

(***************************************************************************)
(* GET /files/download: resolve_path (400 through a link), then           *)
(* "not exists() or not is_file()" answers 404 (lines 148-151).           *)
(***************************************************************************)
DlStart(r) ==
    /\ req[r].pc = "start"
    /\ desc[r].op = "download"
    /\ LET p == desc[r].path
       IN CASE ThroughLink(p) -> Answer(r, "400", NoSid)
            [] ~IsFile(p)     -> Answer(r, "404", NoSid)
            [] OTHER          -> Goto(r, "read")
    /\ UNCHANGED <<fs, minted, announced>>
    /\ Step(r)

(***************************************************************************)
(* read_bytes() (line 152) sends the file as it is now: ran records whose *)
(* bytes they are.  A file removed since the check, or a directory in its *)
(* place, raises: 400 (line 159).                                          *)
(***************************************************************************)
DlRead(r) ==
    /\ req[r].pc = "read"
    /\ LET p == desc[r].path
       IN IF IsFile(p)
          THEN req' = [req EXCEPT ![r] = [@ EXCEPT !.pc = "done", !.resp = "200",
                                                  !.ran = fs[p].by]]
          ELSE Answer(r, "400", NoSid)
    /\ UNCHANGED <<fs, minted, announced>>
    /\ Step(r)

-----------------------------------------------------------------------------
Serve(r) ==
    \/ Begin(r) \/ EnsureRoot(r) \/ EnsureDir(r) \/ WriteSource(r) \/ Popen(r)
    \/ JavacStart(r) \/ JavacEnds(r) \/ Complete(r)
    \/ DelStart(r) \/ FDelStart(r) \/ DelUnlink(r) \/ DelRmdir(r) \/ DelRoot(r)
    \/ WriteStart(r) \/ WriteFile(r) \/ ReadBody(r)
    \/ ListStart(r) \/ ListDir(r) \/ ListStat(r) \/ DlStart(r) \/ DlRead(r)

\* Every request has been answered (or dropped): the server idles.
Idle == \A r \in Requests : req[r].pc = "done"

Next == (\E r \in Requests : Serve(r)) \/ (Idle /\ UNCHANGED vars)

\* Every handler thread runs until it answers: ThreadingHTTPServer gives
\* each request its own thread, and the OS schedules every runnable thread.
Spec == Init /\ [][Next]_vars /\ \A r \in Requests : WF_vars(Serve(r))

-----------------------------------------------------------------------------
Codes == {"none", "200", "400", "404", "500", "dropped"}

TypeOK ==
    /\ \A p \in DOMAIN fs : fs[p].kind \in {"dir", "file", "link"}
    /\ \A p \in DOMAIN fs : fs[p].kind = "file" => fs[p].by \in Requests
    /\ \A r \in Requests :
          /\ req[r].resp \in Codes
          /\ req[r].todo \subseteq Seq(STRING)
          /\ req[r].ran \in Requests \cup {NoSid, "missing"}
          /\ req[r].sess \in ExplicitIds \cup MintIds \cup {NoSid}
    /\ minted \subseteq MintIds
    /\ announced \subseteq ExplicitIds \cup MintIds
    /\ \A pair \in overlap : pair \subseteq Requests /\ Cardinality(pair) = 2

(***************************************************************************)
(* The program a /code request runs is the one it sent: the interpreter    *)
(* reads the source it wrote, the JVM loads the Main.class compiled from  *)
(* its own Main.java (lines 256-288), unless another request was working   *)
(* on the same session directory at the same time.                        *)
(***************************************************************************)
CodeRunsOwnSource ==
    \A r \in Requests :
        desc[r].op = "code" /\ req[r].ran \notin {NoSid}
            => req[r].ran = r \/ \E q \in Requests : {r, q} \in overlap

(***************************************************************************)
(* Every request gets a response: POST /sessions answers with a session id *)
(* (lines 184-188) rather than ending its thread on an exception.          *)
(***************************************************************************)
NoDroppedRequest == \A r \in Requests : req[r].resp # "dropped"

(***************************************************************************)
(* A session directory the runtime made for a minted id is one whose id   *)
(* some response carried (POST /sessions, line 187), or still in use by   *)
(* the request that made it: ensure_session_dir's fresh id (line 30) is    *)
(* never lost while its directory stays behind.                            *)
(***************************************************************************)
OrphanFree ==
    \A s \in minted :
        IsDir(Sessions \o <<s>>)
            => s \in announced \/ \E r \in Requests : InFlight(r) /\ req[r].sess = s

(***************************************************************************)
(* DELETE /sessions/{id} of a session that no other request touches while *)
(* it runs succeeds (lines 169-177), whatever earlier commands left in it. *)
(***************************************************************************)
QuietDeleteSucceeds ==
    \A r \in Requests :
        desc[r].op = "delete" /\ req[r].pc = "done"
        /\ ~(\E q \in Requests : {r, q} \in overlap)
            => req[r].resp = "200"

(***************************************************************************)
(* A listing or a download that no other request touches answers as spec  *)
(* section 4 says (lines 116-160): a download sends the bytes of the file *)
(* at the path or answers 404, for a directory too; a listing answers 200 *)
(* or 404, and 400 only for a path that is there and not a directory.     *)
(* Paths that escape through a link (400) are resolve_path's business.    *)
(* Stated of the step that answers, on the workspace as it is then.       *)
(***************************************************************************)
Answers(r) == req[r].pc # "done" /\ req'[r].pc = "done"

QuietReadsAsSpecified ==
    [][\A r \in Requests :
         LET p == desc[r].path
         IN desc[r].op \in {"list", "download"} /\ Answers(r)
            /\ ~(\E q \in Requests : {r, q} \in overlap') /\ ~ThroughLink(p)
               => \/ req'[r].resp = "404"
                  \/ desc[r].op = "download" /\ req'[r].resp = "200"
                     /\ IsFile(p) /\ req'[r].ran = fs[p].by
                  \/ desc[r].op = "list" /\ req'[r].resp = "200"
                  \/ desc[r].op = "list" /\ req'[r].resp = "400"
                     /\ p \in DOMAIN fs /\ ~IsDir(p)
      ]_vars

(***************************************************************************)
(* Refinement: the sessions, as the directories under .sessions, behave as *)
(* SessionStore says: one disappears only while a DELETE /sessions/{id}    *)
(* naming it is being served, and a delete that answers 200 (line 177)     *)
(* leaves its session gone, whatever other requests write into it.        *)
(***************************************************************************)
StoreIds == ExplicitIds \cup MintIds \cup {""}

LiveSessions == {s \in ExplicitIds \cup MintIds : IsDir(Sessions \o <<s>>)}

IsDelete(r) == desc[r].op = "delete"

DeleteTarget == [r \in Requests |-> IF IsDelete(r) THEN desc[r].sid ELSE NoSid]

DeleteResp ==
    [r \in Requests |-> IF IsDelete(r) /\ req[r].pc = "done" THEN req[r].resp
                        ELSE "none"]

Store == INSTANCE SessionStore WITH Ids <- StoreIds, Clients <- Requests,
                                   NoId <- NoSid, live <- LiveSessions,
                                   target <- DeleteTarget, resp <- DeleteResp

SessionsRefineStore == Store!Spec
=============================================================================
