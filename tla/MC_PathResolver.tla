-------------------------- MODULE MC_PathResolver --------------------------
(* Model values for PathResolver.  Names are character sequences so that   *)
(* str(path).startswith(...) is evaluated on characters.                   *)
EXTENDS PathResolver

\* Names where neither is a string prefix of the other: "w" and "x".
MC_DistinctNames == {<<"w">>, <<"x">>}

\* Names where the workspace's name is a prefix of a sibling: "w", "ww".
MC_PrefixNames == {<<"w">>, <<"w", "w">>}

MC_Workspace == << <<"w">> >>

\* Links a command may create: to the root, to /x, to the parent, to a
\* sibling of the link and to a child of the link's directory.
MC_LinkTargets ==
    { [abs |-> TRUE,  segs |-> <<>>],
      [abs |-> TRUE,  segs |-> << <<"x">> >>],
      [abs |-> FALSE, segs |-> << <<".", ".">> >>],
      [abs |-> FALSE, segs |-> << <<".", ".">>, <<"x">> >>],
      [abs |-> FALSE, segs |-> << <<"x">> >>] }

MC_PrefixLinkTargets ==
    { [abs |-> TRUE,  segs |-> << <<"w", "w">> >>],
      [abs |-> FALSE, segs |-> << <<".", ".">> >>] }
=============================================================================
