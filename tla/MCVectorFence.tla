--------------------------- MODULE MCVectorFence ---------------------------
(***************************************************************************)
(* Small instances of VectorFence: two files and one or two embedding      *)
(* spaces.                                                                 *)
(***************************************************************************)
EXTENDS VectorFence, TLC

\* The files are interchangeable.
Symmetry == Permutations(Files)

\* The statements that failed unseen.
Unseen == used["lostclears"] + used["lostrows"]

\* TLC goes on only from states with at most one failure or removal, seen or unseen.
AtMostOneFailure == used["faults"] + Unseen + used["removals"] <= 1

\* In fence_reload, moreover, no process dies besides an unseen failure.
UnseenAlone == AtMostOneFailure /\ used["crashes"] + Unseen <= 1

\* LiveOneSpace, all that fence_switch checks, says nothing after a lost clear.
ClearsSeenOnly == AtMostOneFailure /\ ClearsSeen
=============================================================================
