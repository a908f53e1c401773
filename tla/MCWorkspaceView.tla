-------------------------- MODULE MCWorkspaceView --------------------------
(***************************************************************************)
(* WorkspaceView for TLC: the default tree with a folder to move documents *)
(* to and one that has room for a folder below it, and a context tree.     *)
(***************************************************************************)
EXTENDS WorkspaceView

MCPlaces ==
  {<<"directory", p>> : p \in {<<>>, <<"x">>, <<"y">>, <<"x", "y">>}}
    \cup {<<"context", p>> : p \in {<<>>}}
==============================================================================
