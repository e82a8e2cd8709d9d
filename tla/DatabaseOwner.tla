--------------------------- MODULE DatabaseOwner ---------------------------
(***************************************************************************)
(* What the worker registry promises about the database of one repository. *)
(*                                                                         *)
(* The database holds an exclusive lock for the process that opened it.  A *)
(* process is started only when no other one is attached, that is, alive   *)
(* and not given up by the router.  The router gives a process up          *)
(* (Detach) when it deletes the registry entry of a worker it has not seen *)
(* dead; a detached process may live on for a while, or be started even    *)
(* after that, and is never attached again.                                *)
(***************************************************************************)
CONSTANT Workers                \* the processes the router may ever start

VARIABLES live,                 \* processes that run
          detached              \* processes the router has given up

vars == <<live, detached>>

TypeOK == live \subseteq Workers /\ detached \subseteq Workers

Init == live = {} /\ detached = {}

Start(w) == /\ w \notin live
            /\ w \in detached \/ live \ detached = {}
            /\ live' = live \cup {w}
            /\ UNCHANGED detached

Exit(w) == /\ w \in live
           /\ live' = live \ {w}
           /\ UNCHANGED detached

Detach(w) == /\ w \notin detached
             /\ detached' = detached \cup {w}
             /\ UNCHANGED live

Next == \E w \in Workers : Start(w) \/ Exit(w) \/ Detach(w)

Spec == Init /\ [][Next]_vars
=============================================================================
