------------------------------ MODULE MCEngine ------------------------------
(***************************************************************************)
(* IndexEngine, IndexCaches and Walker share no variable: a behaviour      *)
(* exercises one of them, chosen initially, so that TLC explores the sum   *)
(* of their state spaces and not their product.                            *)
(***************************************************************************)
EXTENDS IndexEngine, IndexCaches, Walker

VARIABLE focus

(* A component in the one state it keeps while another is looked at *)
EngineIdle == Init /\ watcher = "live"
CachesIdle == CInit /\ stats = "none" /\ sidecar = "none"
WalkerIdle ==
    /\ judged = {}
    /\ tree = [root |-> Mute(Candidates), dir |-> Mute({"file"}), gits |-> {},
               mark |-> "none", outer |-> Silent]

MCInit ==
    \/ focus = "engine" /\ Init /\ CachesIdle /\ WalkerIdle
    \/ focus = "caches" /\ EngineIdle /\ CInit /\ WalkerIdle
    \/ focus = "walker" /\ EngineIdle /\ CachesIdle /\ WInit

MCNext ==
    \/ focus = "engine" /\ Next /\ UNCHANGED <<cvars, wvars, focus>>
    \/ focus = "caches" /\ CNext /\ UNCHANGED <<vars, wvars, focus>>
    \/ focus = "walker" /\ WNext /\ UNCHANGED <<vars, cvars, focus>>

(* A chain is judged once; the engine and the caches never stop *)
Judged == judged # {} /\ UNCHANGED <<vars, cvars, wvars, focus>>

MCSpec == MCInit /\ [][MCNext \/ Judged]_<<vars, cvars, wvars, focus>>
=============================================================================
