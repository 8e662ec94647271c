---------------------------- MODULE PathResolver ----------------------------
(***************************************************************************)
(* resolve_path of the code-interpreter runtime                            *)
(* (src/examples/code-interpreter/runtime_server.py).                      *)
(*                                                                         *)
(* A path is a sequence of names; a name is a sequence of characters, so   *)
(* that str(path) can be built the way pathlib builds it and the           *)
(* containment test str(target).startswith(str(workspace)) is evaluated on *)
(* characters, as the code evaluates it.  Path.resolve() is os.path        *)
(* realpath: the walk below follows its _joinrealpath loop.               *)
(*                                                                         *)
(* The filesystem is the part the resolver reads: which absolute paths     *)
(* exist and which of them are symbolic links.  It changes under the       *)
(* resolver because commands run in sessions can create directories,       *)
(* files and links anywhere (they run unconfined).                         *)
(***************************************************************************)
EXTENDS Naturals, Sequences, SequencesExt, FiniteSets

CONSTANTS
    Names,          \* file names: non-empty character sequences
    WorkspaceDir,   \* WORKSPACE_DIR as a path (sequence of names)
    LinkTargets,    \* link contents a command may create: [abs, segs]
    MaxDepth,       \* bound: depth of entries a command may create
    MaxEntries,     \* bound: number of entries commands may create
    MaxRawLen       \* bound: number of segments in a client path

Dot    == <<".">>
DotDot == <<".", ".">>
Segs   == Names \cup {Dot, DotDot}

ASSUME Dot \notin Names /\ DotDot \notin Names
ASSUME WorkspaceDir \in Seq(Names)

VARIABLES
    fs,     \* [existing path -> entry]; the root <<>> is implicit
    out     \* the last resolve_path call: its input and outcome

vars == <<fs, out>>

Dir  == [kind |-> "dir"]
File == [kind |-> "file"]
Link(t) == [kind |-> "link", abs |-> t.abs, segs |-> t.segs]

IsLink(f, p) == p \in DOMAIN f /\ f[p].kind = "link"

ParentOf(p) == IF p = <<>> THEN <<>> ELSE Front(p)

(***************************************************************************)
(* _joinrealpath(path, rest, strict=False, seen): consume rest one segment *)
(* at a time; "." is skipped, ".." pops (the root is its own parent), a    *)
(* name is appended and, when it is a link, replaced by the resolution of  *)
(* the link's contents.  A link met again while it is still being resolved *)
(* is a loop: the walk stops and returns the path unresolved, ok = FALSE.  *)
(* (seen also memoises resolved links; re-resolving gives the same path.) *)
(***************************************************************************)
RECURSIVE JoinRealPath(_, _, _, _)
JoinRealPath(f, path, rest, seen) ==
    IF rest = <<>> THEN [path |-> path, ok |-> TRUE]
    ELSE LET name    == Head(rest)
             more    == Tail(rest)
             newpath == Append(path, name)
         IN CASE name = Dot    -> JoinRealPath(f, path, more, seen)
              [] name = DotDot -> JoinRealPath(f, ParentOf(path), more, seen)
              [] ~IsLink(f, newpath) -> JoinRealPath(f, newpath, more, seen)
              [] newpath \in seen -> [path |-> newpath \o more, ok |-> FALSE]
              [] OTHER ->
                   LET l   == f[newpath]
                       sub == JoinRealPath(f, IF l.abs THEN <<>> ELSE path,
                                           l.segs, seen \cup {newpath})
                   IN IF sub.ok THEN JoinRealPath(f, sub.path, more, seen)
                      ELSE [path |-> sub.path \o more, ok |-> FALSE]

\* os.path.realpath of an absolute path given as segments.
RealPath(f, segs) == JoinRealPath(f, <<>>, segs, {})

\* str(path): "/" for the root, otherwise "/" before every name.
PathStr(p) ==
    IF p = <<>> THEN <<"/">>
    ELSE FoldLeft(LAMBDA acc, n : acc \o <<"/">> \o n, <<>>, p)

(***************************************************************************)
(* Path(...).resolve(): realpath, then (Python 3.10-3.12) a stat() of the  *)
(* result that raises RuntimeError on a symlink loop; Python 3.13 returns  *)
(* the unresolved path instead.  Which interpreter runs the image is not   *)
(* fixed by the repository, so a loop either fails or passes through.     *)
(***************************************************************************)
ResolveOutcomes(f, segs) ==
    LET r == RealPath(f, segs)
    IN IF r.ok THEN {[ok |-> TRUE, path |-> r.path]}
       ELSE {[ok |-> FALSE, path |-> <<>>], [ok |-> TRUE, path |-> r.path]}

\* Mutant of ResolvePath: the containment test is made on os.path.abspath
\* (".." and "." folded, links not followed), before resolution.
ResolvePathBeforeResolve(f, raw) ==
    LET noLinks == [p \in {} |-> Dir]
        ws      == RealPath(noLinks, WorkspaceDir).path
        tgt     == RealPath(noLinks, IF raw.abs THEN raw.segs
                                     ELSE WorkspaceDir \o raw.segs).path
    IN { IF IsPrefix(PathStr(ws), PathStr(tgt))
         THEN [ok |-> TRUE, target |-> tgt, ws |-> ws]
         ELSE [ok |-> FALSE, target |-> <<>>, ws |-> ws] }

\* Mutant of ResolvePath: a relative path is joined to the workspace but
\* not resolved.
ResolvePathUnresolved(f, raw) ==
    LET wsSet  == ResolveOutcomes(f, WorkspaceDir)
        tgtSet == IF raw.abs THEN ResolveOutcomes(f, raw.segs)
                  ELSE {[ok |-> TRUE, path |-> WorkspaceDir \o raw.segs]}
    IN { IF ws.ok /\ tgt.ok /\ IsPrefix(PathStr(ws.path), PathStr(tgt.path))
         THEN [ok |-> TRUE, target |-> tgt.path, ws |-> ws.path]
         ELSE [ok |-> FALSE, target |-> <<>>, ws |-> ws.path]
         : ws \in wsSet, tgt \in tgtSet }

(***************************************************************************)
(* resolve_path(raw_path): the workspace is resolved on every call, an    *)
(* absolute raw path is resolved as given, a relative one below the        *)
(* workspace; the result is accepted when its string starts with the      *)
(* workspace's string.                                                    *)
(***************************************************************************)
ResolvePath(f, raw) ==
    LET wsSet  == ResolveOutcomes(f, WorkspaceDir)
        tgtSet == ResolveOutcomes(f, IF raw.abs THEN raw.segs
                                     ELSE WorkspaceDir \o raw.segs)
    IN { IF ws.ok /\ tgt.ok /\ IsPrefix(PathStr(ws.path), PathStr(tgt.path))
         THEN [ok |-> TRUE, target |-> tgt.path, ws |-> ws.path]
         ELSE [ok |-> FALSE, target |-> <<>>, ws |-> ws.path]
         : ws \in wsSet, tgt \in tgtSet }

-----------------------------------------------------------------------------
(* Environment: a command creates an entry under an existing directory.    *)

Creatable(f) ==
    { p \in BoundedSeq(Names, MaxDepth) : /\ p # <<>>
                                         /\ p \notin DOMAIN f
                                         /\ \/ ParentOf(p) = <<>>
                                            \/ /\ ParentOf(p) \in DOMAIN f
                                               /\ f[ParentOf(p)] = Dir }

AddEntry(f, p, e) == [q \in DOMAIN f \cup {p} |-> IF q = p THEN e ELSE f[q]]

RawPaths == [abs : BOOLEAN, segs : BoundedSeq(Segs, MaxRawLen)]

NoWalk == [path |-> <<>>, ok |-> TRUE]

NoCall == [raw |-> [abs |-> TRUE, segs |-> <<>>], ok |-> FALSE, target |-> <<>>,
           ws |-> <<>>, real |-> NoWalk, used |-> FALSE, at |-> NoWalk,
           wrote |-> FALSE]

Init ==
    /\ fs = [p \in {SubSeq(WorkspaceDir, 1, i) : i \in 1..Len(WorkspaceDir)}
               |-> Dir]
    /\ out = NoCall

\* A command run in a session creates a directory, a file or a link.
CommandCreates ==
    /\ Cardinality(DOMAIN fs) < Len(WorkspaceDir) + MaxEntries
    /\ \E p \in Creatable(fs),
          e \in {Dir, File} \cup {Link(t) : t \in LinkTargets} :
          fs' = AddEntry(fs, p, e)
    /\ UNCHANGED out

(***************************************************************************)
(* A handler calls resolve_path(raw); real is where the kernel's walk of   *)
(* the returned target lands in the filesystem resolve_path read.          *)
(***************************************************************************)
Resolve ==
    /\ \E raw \in RawPaths : \E r \in ResolvePath(fs, raw) :
          out' = [raw |-> raw, ok |-> r.ok, target |-> r.target, ws |-> r.ws,
                  real |-> RealPath(fs, r.target), used |-> FALSE, at |-> NoWalk,
                  wrote |-> FALSE]
    /\ UNCHANGED fs

\* The proper prefixes of p, the root excluded.
Ancestors(p) == {SubSeq(p, 1, i) : i \in 1..Len(p) - 1}

\* A file can be written at the end p of a walk: p is not the root or a
\* directory (IsADirectoryError), and no ancestor is a file (ENOTDIR).
Writable(f, p) ==
    /\ p # <<>>
    /\ ~(p \in DOMAIN f /\ f[p].kind = "dir")
    /\ \A a \in Ancestors(p) : a \notin DOMAIN f \/ f[a].kind = "dir"

\* mkdir(parents=True, exist_ok=True) makes the missing ancestors, and
\* write_text creates (or truncates) the file.
Written(f, p) ==
    [q \in DOMAIN f \cup Ancestors(p) \cup {p} |->
        CASE q \in DOMAIN f /\ q # p -> f[q]
          [] q = p                   -> File
          [] OTHER                   -> Dir]

(***************************************************************************)
(* /files/write then opens the accepted target (lines 196-201: mkdir of    *)
(* the parent, write_text), and the kernel walks it again in the          *)
(* filesystem as it is now: other requests' commands run in between.  A   *)
(* walk that loops or ends on a directory or under a file raises, and the  *)
(* handler answers 400 (line 205) with nothing written.  Writes, like     *)
(* commands, are explored only while the tree is below its bound.         *)
(***************************************************************************)
Use ==
    /\ out.ok /\ ~out.used
    /\ Cardinality(DOMAIN fs) < Len(WorkspaceDir) + MaxEntries
    /\ LET at    == RealPath(fs, out.target)
           wrote == at.ok /\ Writable(fs, at.path)
       IN /\ out' = [out EXCEPT !.used = TRUE, !.at = at, !.wrote = wrote]
          /\ fs' = IF wrote THEN Written(fs, at.path) ELSE fs

Next == CommandCreates \/ Resolve \/ Use

Spec == Init /\ [][Next]_vars

-----------------------------------------------------------------------------
TypeOK ==
    /\ DOMAIN fs \subseteq Seq(Names)
    /\ \A p \in DOMAIN fs : fs[p].kind \in {"dir", "file", "link"}
    /\ out.raw \in RawPaths \cup {NoCall.raw}
    /\ out.ok \in BOOLEAN /\ out.wrote \in BOOLEAN
    /\ out.target \in Seq(Segs)
    \* only a path left unresolved on a symlink loop keeps "." or ".."
    /\ out.real.ok => out.target \in Seq(Names)

(***************************************************************************)
(* Path containment (resolve_path, runtime_server.py:16-25): whenever      *)
(* resolve_path accepts a client path, the object the handler then touches *)
(* (the kernel's walk of the returned target, through every symbolic link *)
(* and "..") lies in the workspace directory or below it, compared name by *)
(* name.  A walk that fails (symlink loop) touches nothing.                *)
(***************************************************************************)
Contained ==
    out.ok /\ out.real.ok => IsPrefix(out.ws, out.real.path)

(***************************************************************************)
(* Containment at use (resolve_path, then the write in /files/write,       *)
(* runtime_server.py:196-201): a file /files/write writes after            *)
(* resolve_path accepted the path lies in the workspace, whatever commands *)
(* did to the filesystem between the check and the open.                   *)
(***************************************************************************)
UseContained ==
    out.used /\ out.wrote => IsPrefix(out.ws, out.at.path)
=============================================================================
