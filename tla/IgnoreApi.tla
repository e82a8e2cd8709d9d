------------------------------ MODULE IgnoreApi -----------------------------
(***************************************************************************)
(* Taking files out of the index (server.rs: post_ignore_file,             *)
(* post_ignore_files, post_unignore_file).  A file's data lives in five    *)
(* places: its chunk rows and its file_meta row in the database, the       *)
(* resident vector shard, the persisted shard behind CURRENT and, as the   *)
(* mark that keeps it out, the repository's ignored paths.  A handler      *)
(* changes them one by one under the repository lock, which index runs     *)
(* take as well and warms do not; the process may die, a step may fail and *)
(* the client may leave between any two of them.                           *)
(***************************************************************************)
EXTENDS Naturals, FiniteSets, FiniteSetsExt

CONSTANTS
    NPaths,       \* the repository's files, numbered in path order
    BATCH,        \* page of the batch handler
    MaxCalls,     \* bound: requests, runs and warms
    MaxTroubles    \* bound: crashes, failed steps and departed clients

ASSUME IgnoreAssumption == NPaths \in Nat /\ BATCH \in Nat \ {0}

Paths == 1 .. NPaths
NoShard == [on |-> FALSE, files |-> {}]

VARIABLES
    (* the database *)
    rows,         \* files with chunk rows (one each)
    meta,         \* files with a file_meta row
    ignored,      \* ignored_paths
    epoch,        \* index_epoch
    (* the shards *)
    current,      \* what CURRENT names: at most one persisted shard with its stamp
    shard,        \* the resident shard
    mut,          \* the repository's mutation epoch
    mutating,     \* an index run is between begin_mutation and publish
    (* the lock holder: a request or a run *)
    istep, iop, match, page,
    after,        \* the keyset cursor: the last path of the page before
    vec,          \* the ignored paths as the holder read them
    (* the warm in flight *)
    wstep, warm,
    (* bounds and history *)
    ncalls, ntroubles,
    taken,        \* files of the batch's finished pages
    promised,     \* files whose ignore was answered ok, not restored since
    excused,      \* files whose data was cut without a mark, or unmarked while cut
    blind         \* some read of the ignored paths failed and was taken for empty

dbvars == <<rows, meta, ignored, epoch>>
reqvars == <<iop, match, page, after, vec, taken>>
warmvars == <<wstep, warm>>
ivars == <<dbvars, current, shard, mut, mutating, istep, reqvars, warmvars,
           ncalls, ntroubles, promised, excused, blind>>

IInit ==
    /\ rows = Paths /\ meta = Paths /\ ignored = {} /\ epoch = 1
    /\ current \in {{}, {[files |-> Paths, count |-> NPaths, epoch |-> 1]}}
    /\ shard \in {NoShard, [on |-> TRUE, files |-> Paths]}
    /\ mut = 0 /\ mutating = FALSE
    /\ istep = "free" /\ iop = "none" /\ match = {} /\ page = {} /\ after = 0
    /\ vec = {} /\ taken = {}
    /\ wstep = "idle" /\ warm = [mut |-> 0, count |-> 0, epoch |-> 0, files |-> {}]
    /\ ncalls = 0 /\ ntroubles = 0 /\ promised = {} /\ excused = {} /\ blind = FALSE

Call == ncalls < MaxCalls /\ ncalls' = ncalls + 1
Trouble == ntroubles < MaxTroubles /\ ntroubles' = ntroubles + 1
NoTrouble == UNCHANGED ntroubles

(* get_ignored_paths(..).unwrap_or_default(): a failed read is an empty list *)
ReadIgnored(list) ==
    \/ list = ignored /\ NoTrouble /\ UNCHANGED blind
    \/ list = {} /\ Trouble /\ blind' = TRUE

(***************************************************************************)
(* The handlers.  The steps "delete" to "current" are shared: the single   *)
(* file is a batch of one page whose mark comes last.                      *)
(***************************************************************************)

post_ignore_file(f) ==
    /\ istep = "free" /\ Call
    /\ istep' = "delete" /\ iop' = "one" /\ match' = {f} /\ page' = {f}
    /\ after' = 0 /\ vec' = {} /\ taken' = {}
    /\ UNCHANGED <<dbvars, current, shard, mut, mutating, warmvars, ntroubles,
                   promised, excused, blind>>

post_ignore_files(fs) ==
    /\ istep = "free" /\ Call
    /\ \E list \in {ignored, {}} : ReadIgnored(list) /\ vec' = list
    /\ istep' = "page" /\ iop' = "batch" /\ match' = fs /\ page' = {}
    /\ after' = 0 /\ taken' = {}
    /\ UNCHANGED <<dbvars, current, shard, mut, mutating, warmvars, promised, excused>>

(* The first BATCH matching file_meta rows beyond the cursor *)
paths_matching_filter_page ==
    LET beyond == {f \in meta \cap match : f > after}
    IN {f \in beyond : Cardinality({g \in beyond : g <= f}) <= BATCH}

(* Plausible mistake: a page is deleted and then marked, as the single file is *)
MarksAfterDelete(step) ==
    CASE step = "page" -> "delete"
      [] step = "delete_meta" -> "bump"
      [] step = "bump" -> IF iop = "batch" THEN "mark" ELSE "evict"
      [] step = "mark" -> "evict"

(* The order of a page's steps: the durable mark comes first *)
After(step) ==
    CASE step = "page" -> "mark"
      [] step = "mark" -> "delete"
      [] step = "delete_meta" -> "bump"
      [] step = "bump" -> "evict"

NextPage ==
    /\ istep = "page"
    /\ page' = paths_matching_filter_page
    /\ IF page' = {}
       THEN after' = after /\ istep' = IF taken = {} THEN "answer" ELSE "current"
       ELSE after' = Max(page') /\ istep' = After("page")
    /\ UNCHANGED <<dbvars, current, shard, mut, mutating, iop, match, vec, taken, warmvars,
                   ncalls, ntroubles, promised, excused, blind>>

Mark ==
    /\ istep = "mark"
    /\ vec' = vec \cup page
    /\ ignored' = IF page \subseteq vec THEN ignored ELSE vec'
    /\ istep' = After("mark")
    /\ UNCHANGED <<rows, meta, epoch, current, shard, mut, mutating, iop, match, page, after,
                   taken, warmvars, ncalls, ntroubles, promised, excused, blind>>

(* delete_files_data_bulk: chunks long before file_meta *)
DeleteChunks ==
    /\ istep = "delete"
    /\ rows' = rows \ page
    /\ istep' = "delete_meta"
    /\ excused' = IF iop = "one" THEN excused \cup page ELSE excused
    /\ UNCHANGED <<meta, ignored, epoch, current, shard, mut, mutating, reqvars, warmvars,
                   ncalls, ntroubles, promised, blind>>

DeleteMeta ==
    /\ istep = "delete_meta"
    /\ meta' = meta \ page
    /\ istep' = After("delete_meta")
    /\ UNCHANGED <<rows, ignored, epoch, current, shard, mut, mutating, reqvars, warmvars,
                   ncalls, ntroubles, promised, excused, blind>>

(* A failed bump is a warning *)
bump_index_epoch ==
    /\ istep = "bump"
    /\ \/ epoch' = epoch + 1 /\ NoTrouble
       \/ epoch' = epoch /\ Trouble
    /\ istep' = After("bump")
    /\ UNCHANGED <<rows, meta, ignored, current, shard, mut, mutating, reqvars, warmvars,
                   ncalls, promised, excused, blind>>

(* An emptied shard is dropped *)
Without(files) ==
    IF shard.files \subseteq files THEN NoShard ELSE [shard EXCEPT !.files = @ \ files]

(* Plausible mistake: with no resident shard there is nothing to evict *)
EvictsResidentOnly(files) ==
    IF shard.on
    THEN shard' = Without(files) /\ mut' = mut + 1
    ELSE UNCHANGED <<shard, mut>>

(* apply_incremental counts as a mutation whether or not a shard is resident *)
apply_incremental(files) ==
    shard' = Without(files) /\ mut' = mut + 1

Evict ==
    /\ istep = "evict"
    /\ apply_incremental(page)
    /\ taken' = taken \cup page
    /\ istep' = IF iop = "batch" /\ Cardinality(page) = BATCH THEN "page" ELSE "current"
    /\ UNCHANGED <<dbvars, current, mutating, iop, match, page, after, vec, warmvars,
                   ncalls, ntroubles, promised, excused, blind>>

(* The removal of CURRENT may fail and is not looked at *)
RemoveCurrent ==
    /\ istep = "current"
    /\ \/ current' = {} /\ NoTrouble
       \/ current' = current /\ Trouble
    /\ istep' = IF iop = "one" THEN "append" ELSE "answer"
    /\ UNCHANGED <<dbvars, shard, mut, mutating, reqvars, warmvars,
                   ncalls, promised, excused, blind>>

(* The single file's mark: the last step *)
AppendMark ==
    /\ istep = "append"
    /\ \E list \in {ignored, {}} :
          /\ ReadIgnored(list)
          /\ ignored' = IF page \subseteq list THEN ignored ELSE list \cup page
    /\ istep' = "answer"
    /\ UNCHANGED <<rows, meta, epoch, current, shard, mut, mutating, reqvars, warmvars,
                   ncalls, promised, excused>>

AnswerOk ==
    /\ istep = "answer"
    /\ promised' = promised \cup taken
    /\ istep' = "free"
    /\ UNCHANGED <<dbvars, current, shard, mut, mutating, reqvars, warmvars,
                   ncalls, ntroubles, excused, blind>>

(* A failing step answers an error; a client that leaves has its handler dropped at
   the await it is in.  Either way the lock is released and nothing is undone. *)
Abandon ==
    /\ istep \notin {"free", "run", "run_rows"} /\ Trouble
    /\ istep' = "free"
    /\ UNCHANGED <<dbvars, current, shard, mut, mutating, reqvars, warmvars,
                   ncalls, promised, excused, blind>>

post_unignore_file(f) ==
    /\ istep = "free" /\ Call
    /\ \E list \in {ignored, {}} : ReadIgnored(list) /\ ignored' = list \ {f}
    /\ promised' = promised \ {f}
    /\ excused' = excused \cup (meta \ rows)
    /\ UNCHANGED <<rows, meta, epoch, current, shard, mut, mutating, istep, reqvars, warmvars>>

(***************************************************************************)
(* An index run of the consumer, under the same lock                       *)
(***************************************************************************)

(* The ignored paths are read once; the epoch moves before the first delete *)
RunBegins ==
    /\ istep = "free" /\ Call
    /\ \E list \in {ignored, {}} : ReadIgnored(list) /\ vec' = list
    /\ epoch' = epoch + 1
    /\ mutating' = TRUE /\ mut' = mut + 1
    /\ istep' = "run"
    /\ UNCHANGED <<rows, meta, ignored, current, shard, iop, match, page, after, taken,
                   warmvars, promised, excused>>

(* Files the walk no longer finds lose their data; a file whose file_meta is current
   is skipped as unchanged; the others are written, file_meta last *)
RunWrites ==
    /\ istep = "run"
    /\ rows' = {f \in Paths \ vec : f \in meta => f \in rows}
    /\ meta' = meta \ vec
    /\ istep' = "run_rows"
    /\ UNCHANGED <<ignored, epoch, current, shard, mut, mutating, reqvars, warmvars,
                   ncalls, ntroubles, promised, excused, blind>>

RunPublishes ==
    /\ istep = "run_rows"
    /\ meta' = Paths \ vec
    /\ shard' = IF shard.on /\ rows # {} THEN [on |-> TRUE, files |-> rows] ELSE NoShard
    /\ mut' = mut + 1 /\ mutating' = FALSE /\ current' = {}
    /\ istep' = "free"
    /\ UNCHANGED <<rows, ignored, epoch, reqvars, warmvars,
                   ncalls, ntroubles, promised, excused, blind>>

(***************************************************************************)
(* A warm: it takes no repository lock and installs only if the mutation   *)
(* epoch is still the one it started from.                                 *)
(***************************************************************************)

WarmBegins ==
    /\ wstep = "idle" /\ ~shard.on /\ ~mutating /\ Call
    /\ warm' = [mut |-> mut, count |-> 0, epoch |-> 0, files |-> {}]
    /\ wstep' = "stamp"
    /\ UNCHANGED <<dbvars, current, shard, mut, mutating, istep, reqvars,
                   ntroubles, promised, excused, blind>>

WarmStamps ==
    /\ wstep = "stamp"
    /\ warm' = [warm EXCEPT !.count = Cardinality(rows), !.epoch = epoch]
    /\ wstep' = IF rows = {} THEN "idle" ELSE "open"
    /\ UNCHANGED <<dbvars, current, shard, mut, mutating, istep, reqvars,
                   ncalls, ntroubles, promised, excused, blind>>

Fresh == ~mutating /\ mut = warm.mut
Valid == {c \in current : c.count = warm.count /\ c.epoch = warm.epoch}

Install(files) == shard' = IF Fresh THEN [on |-> TRUE, files |-> files] ELSE shard

(* The persisted shard whose stamp is the database's, or the chunk table *)
WarmOpens ==
    /\ wstep = "open"
    /\ \/ /\ Valid # {}
          /\ \E c \in Valid : Install(c.files)
          /\ wstep' = "idle" /\ UNCHANGED warm
       \/ /\ Valid = {}
          /\ warm' = [warm EXCEPT !.files = rows]
          /\ wstep' = IF rows = {} THEN "idle" ELSE "check"
          /\ UNCHANGED shard
    /\ UNCHANGED <<dbvars, current, mut, mutating, istep, reqvars,
                   ncalls, ntroubles, promised, excused, blind>>

WarmChecks ==
    /\ wstep = "check"
    /\ wstep' = IF Fresh THEN "persist" ELSE "idle"
    /\ UNCHANGED <<dbvars, current, shard, mut, mutating, istep, reqvars, warm,
                   ncalls, ntroubles, promised, excused, blind>>

Own == [files |-> warm.files, count |-> warm.count, epoch |-> warm.epoch]

WarmPersists ==
    /\ wstep = "persist"
    /\ \/ current' = {Own} /\ NoTrouble
       \/ current' = current /\ Trouble
    /\ wstep' = "install"
    /\ UNCHANGED <<dbvars, shard, mut, mutating, istep, reqvars, warm,
                   ncalls, promised, excused, blind>>

WarmInstalls ==
    /\ wstep = "install"
    /\ Install(warm.files)
    /\ current' = IF Fresh THEN current ELSE current \ {Own}
    /\ wstep' = "idle"
    /\ UNCHANGED <<dbvars, mut, mutating, istep, reqvars, warm,
                   ncalls, ntroubles, promised, excused, blind>>

(* The process dies and is started again: memory is gone, disk stays *)
Crash ==
    /\ Trouble
    /\ shard' = NoShard /\ mut' = 0 /\ mutating' = FALSE
    /\ istep' = "free" /\ wstep' = "idle"
    /\ UNCHANGED <<dbvars, current, reqvars, warm, ncalls, promised, excused, blind>>

INext ==
    \/ \E f \in Paths : post_ignore_file(f) \/ post_unignore_file(f)
    \/ \E fs \in SUBSET Paths \ {{}} : post_ignore_files(fs)
    \/ NextPage \/ Mark \/ DeleteChunks \/ DeleteMeta \/ bump_index_epoch
    \/ Evict \/ RemoveCurrent \/ AppendMark \/ AnswerOk \/ Abandon
    \/ RunBegins \/ RunWrites \/ RunPublishes
    \/ WarmBegins \/ WarmStamps \/ WarmOpens \/ WarmChecks \/ WarmPersists \/ WarmInstalls
    \/ Crash

ISpec == IInit /\ [][INext]_ivars

(***************************************************************************)

(* A file whose ignore was answered ok, and that nobody restored, is never searched
   again: no later warm, run, restart or half-done request brings its rows or its
   vectors back, whether it raced the request or found an older shard on disk.
   (The order and the mutation epoch of post_ignore_file(s).)  It supposes that the
   ignored paths could always be read: see IgnoreListKept. *)
IgnoredStaysOut ==
    ~blind => /\ promised \cap rows = {}
              /\ promised \cap shard.files = {}

(* "The marker therefore always dominates the delete ..., never the reverse, so
   there is no silent-corruption window where a file_meta row survives without its
   chunks yet still looks freshly indexed" (post_ignore_files): however the batch
   ends, a file that a run would skip as unchanged has its chunks.  Files cut by the
   single-file handler, or restored while cut, are excused. *)
MarkerDominates ==
    ~blind => \A f \in (meta \ rows) \ excused : f \in ignored

(* The same of the whole API, with nothing excused *)
NoSilentHole == ~blind => meta \ rows \subseteq ignored

(* An ignored path stays in the list until it is restored *)
IgnoreListKept == istep = "free" => promised \subseteq ignored
=============================================================================
