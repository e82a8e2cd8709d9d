----------------------------- MODULE MCService ------------------------------
(* QueryService with a main repository and one git worktree of it *)
EXTENDS QueryService

MCMainRoot == [w \in {"wt"} |-> "main"]
=============================================================================
