---------------------------- MODULE SessionStore ----------------------------
(***************************************************************************)
(* What the runtime promises about sessions: a session is a directory that *)
(* comes into being when some request needs it, and goes away only while a *)
(* delete of that very session is being served.  Other requests never      *)
(* remove a session.  A delete may fail (400), but when it answers 200 its *)
(* session is gone at that moment.                                         *)
(***************************************************************************)
CONSTANTS
    Ids,        \* session ids, and the ids delete requests name
    Clients,    \* the requests
    NoId        \* the target of a request that is not a delete

VARIABLES
    live,       \* sessions whose directory exists
    target,     \* [Clients -> Ids \cup {NoId}]: the session a delete names
    resp        \* [Clients -> {"none", "200", "400"}]: a delete's answer

vars == <<live, target, resp>>

Init ==
    /\ live = {}
    /\ target \in [Clients -> Ids \cup {NoId}]
    /\ resp = [c \in Clients |-> "none"]

\* Deletes that have not answered yet.
Pending == {c \in Clients : target[c] # NoId /\ resp[c] = "none"}

\* A request creates the session's directory.
Create(s) == live' = live \cup {s} /\ UNCHANGED <<target, resp>>

(***************************************************************************)
(* A pending delete is served: it may remove its session, and may answer   *)
(* in the same step, 200 only if the session is then gone.                 *)
(***************************************************************************)
Serve(c) ==
    /\ c \in Pending
    /\ live' \in {live, live \ {target[c]}}
    /\ \/ resp' = resp
       \/ resp' = [resp EXCEPT ![c] = "400"]
       \/ resp' = [resp EXCEPT ![c] = "200"] /\ target[c] \notin live'
    /\ UNCHANGED target

Next ==
    \/ \E s \in Ids : Create(s)
    \/ \E c \in Clients : Serve(c)

Spec == Init /\ [][Next]_vars
=============================================================================
