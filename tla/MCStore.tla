------------------------------ MODULE MCStore -------------------------------
(***************************************************************************)
(* Opening a repository's database, migrating it, taking files out of it,  *)
(* embedding what goes into it and the persisted MCP sessions share one    *)
(* run.  They share no variable: a behaviour looks at one of them, chosen  *)
(* at the start, and the others stay as they are.                          *)
(***************************************************************************)
EXTENDS StoreOpen, Migrations, IgnoreApi, Embedding, McpSessions

VARIABLE focus

MCBytes == [t \in {"s", "m"} |-> IF t = "s" THEN 1 ELSE 2]

ResetDirs == [g \in Gens |-> "absent"]

(* A component in the one state it keeps while another is looked at *)
SIdle == dir = ResetDirs /\ SInit
MIdle == stamped = DB_SCHEMA_VERSION /\ MInit
IIdle == current = {} /\ shard = NoShard /\ IInit
EIdle == /\ use = [kind |-> "file", cached |-> FALSE, client |-> FALSE]
         /\ texts = <<>> /\ EInit

MCInit ==
    \/ focus = "open"     /\ SInit /\ MIdle /\ IIdle /\ EIdle /\ KInit
    \/ focus = "schema"   /\ SIdle /\ MInit /\ IIdle /\ EIdle /\ KInit
    \/ focus = "ignore"   /\ SIdle /\ MIdle /\ IInit /\ EIdle /\ KInit
    \/ focus = "embed"    /\ SIdle /\ MIdle /\ IIdle /\ EInit /\ KInit
    \/ focus = "sessions" /\ SIdle /\ MIdle /\ IIdle /\ EIdle /\ KInit

MCNext ==
    /\ UNCHANGED focus
    /\ \/ focus = "open"     /\ SNext /\ UNCHANGED <<mvars, ivars, evars, kvars>>
       \/ focus = "schema"   /\ MNext /\ UNCHANGED <<svars, ivars, evars, kvars>>
       \/ focus = "ignore"   /\ INext /\ UNCHANGED <<svars, mvars, evars, kvars>>
       \/ focus = "embed"    /\ ENext /\ UNCHANGED <<svars, mvars, ivars, kvars>>
       \/ focus = "sessions" /\ KNext /\ UNCHANGED <<svars, mvars, ivars, evars>>

MCSpec == MCInit /\ [][MCNext]_<<svars, mvars, ivars, evars, kvars, focus>>
=============================================================================
