-------------------------- MODULE MC_RuntimeServer --------------------------
(* Instances of RuntimeServer: three concurrent requests on one workspace. *)
EXTENDS RuntimeServer

\* A request description; fields an operation does not read are left at a
\* default.  A language is given as .lower() leaves it.
D(op, sid, lang, broken, effect, path) ==
    [op |-> op, sid |-> sid, lang |-> lang, broken |-> broken,
     effect |-> effect, path |-> path, args |-> "ok"]

\* The same request with a body the handler rejects.
Bad(d, args) == [d EXCEPT !.args = args]

Cmd(sid, effect)  == D("command", sid, "python", FALSE, effect, <<>>)
Code(sid, lang, broken) == D("code", sid, lang, broken, "none", <<>>)
Del(sid)          == D("delete", sid, "python", FALSE, "none", <<>>)
FDel(path)        == D("fdelete", NoSid, "python", FALSE, "none", path)
Wr(path)          == D("write", NoSid, "python", FALSE, "none", path)
Create            == D("create", NoSid, "python", FALSE, "none", <<>>)
Ls(path)          == D("list", NoSid, "python", FALSE, "none", path)
Dl(path)          == D("download", NoSid, "python", FALSE, "none", path)

\* Clients that use session s1 properly: run code and commands, delete it.
MC_Descs ==
    { Create, Cmd("s1", "out"), Cmd(NoSid, "none"),
      Code("s1", "python", FALSE), Code("s1", "java", FALSE),
      Code("s1", "java", TRUE), Code("s1", "ruby", FALSE), Code("s1", "js", FALSE),
      Del("s1"), FDel(<<".sessions", "s1", "out">>),
      Wr(<<".sessions", "s1", "main.py">>),
      Ls(<<".sessions", "s1">>), Dl(<<".sessions", "s1">>),
      Dl(<<".sessions", "s1", "out">>),
      Bad(Cmd("s1", "none"), "no_command"), Bad(Code("s1", "python", FALSE), "bad_timeout") }

\* A file named .sessions written before the first session is made.
MC_BrickDescs == { Create, Wr(<<".sessions">>) }

\* A command without session_id: ensure_session_dir mints the id.
MC_OrphanDescs == { Cmd(NoSid, "none") }

\* A command that runs "ln -s <dir> lnk", then the session's delete.
MC_LinkDescs == { Cmd("s1", "lnk"), Del("s1") }

\* A session made by POST /sessions, and "DELETE /sessions/" (empty id).
MC_EmptyIdDescs == { Create, Del("") }
=============================================================================
