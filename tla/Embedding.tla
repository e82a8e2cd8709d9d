----------------------------- MODULE Embedding ------------------------------
(***************************************************************************)
(* Turning texts into vectors (src/embedding/cache.rs, src/embedding/      *)
(* voyage/ and embed_parsed_file of src/indexing/pipeline.rs): a cache on  *)
(* disk that all workers share, batches, key rotation, retries and answers *)
(* that may be short, reordered or partly empty; and the query's own       *)
(* embedding.  A vector is known by the text it is of and its dimension.   *)
(***************************************************************************)
EXTENDS Integers, Sequences, FiniteSets, SequencesExt, FiniteSetsExt

CONSTANTS
    EmbedTexts,             \* chunk contents
    Bytes,                  \* their sizes
    MaxTexts,               \* bound of the model: chunks of a file
    EmbedKeyCount,          \* api_keys
    MAX_BATCH_SIZE, MAX_BATCH_BYTES,
    TRANSIENT_RETRY_LIMIT,
    QUERY_TRANSIENT_RETRY   \* entries of QUERY_TRANSIENT_RETRY_MS

ASSUME EmbedConstants ==
    /\ "" \notin EmbedTexts /\ Bytes \in [EmbedTexts -> Nat] /\ MaxTexts \in Nat /\ EmbedKeyCount \in Nat \ {0}
    /\ MAX_BATCH_SIZE \in Nat \ {0} /\ MAX_BATCH_BYTES \in Nat
    /\ TRANSIENT_RETRY_LIMIT \in Nat \ {0} /\ QUERY_TRANSIENT_RETRY \in Nat

VARIABLES
    ecache,    \* per text, its entry's vector, Nowhere or Corrupt
    use,       \* what is asked: a file or a query, with a cache, with a client
    texts,     \* the texts to embed
    estep,     \* where embedding stands
    looked,    \* per text looked up so far, the cache's hit or a miss
    asked,     \* positions of this call of embed, and
    got,       \* the vectors it has received for the first of them
    tries,     \* key offset, transient attempts, pass of a query
    vectors,   \* the result so far
    verdict    \* "", ok, transient, fatal, limited

evars == <<ecache, use, texts, estep, looked, asked, got, tries, vectors, verdict>>

Nowhere == [of |-> "", dim |-> 0]
Corrupt == [of |-> "", dim |-> -1]
Vec(t, d) == [of |-> t, dim |-> d]
CurrentDim == 2     \* what the endpoint answers with; 1 is an older entry's
\* What the cache can hold of a text.
Entry(t) == {Nowhere, Corrupt, Vec(t, 1), Vec(t, 2)}
FreshTries == [off |-> 0, transient |-> 0, pass |-> 1]

EInit ==
    /\ \/ /\ use \in [kind : {"file"}, cached : BOOLEAN, client : BOOLEAN]
          /\ texts \in SeqOf(EmbedTexts, MaxTexts)
       \/ /\ use = [kind |-> "query", cached |-> FALSE, client |-> TRUE]
          /\ \E t \in EmbedTexts : texts = <<t>>
    /\ ecache \in {c \in [EmbedTexts -> UNION {Entry(t) : t \in EmbedTexts}] :
                    \A t \in EmbedTexts : c[t] \in Entry(t)}
    /\ ~use.cached => ecache = [t \in EmbedTexts |-> Nowhere]
    /\ estep = "start" /\ looked = <<>> /\ asked = <<>> /\ got = <<>> /\ tries = FreshTries
    /\ vectors = <<>> /\ verdict = ""

\* Another worker's run stores a text, or the purge removes entries, at any time.
OtherPut(t) ==
    /\ use.cached /\ estep \in {"lookup", "send"} /\ ecache[t] = Nowhere
    /\ ecache' = [ecache EXCEPT ![t] = Vec(t, CurrentDim)]
    /\ UNCHANGED <<use, texts, estep, looked, asked, got, tries, vectors, verdict>>

purge_global(T) ==
    /\ use.cached /\ estep \in {"lookup", "send"} /\ T # {}
    /\ \A t \in T : ecache[t] # Nowhere
    /\ ecache' = [t \in EmbedTexts |-> IF t \in T THEN Nowhere ELSE ecache[t]]
    /\ UNCHANGED <<use, texts, estep, looked, asked, got, tries, vectors, verdict>>

------------------------------------------------------------------------------
Done(v, result) ==
    /\ estep' = "done" /\ verdict' = v /\ vectors' = result
    /\ looked' = <<>> /\ asked' = <<>> /\ got' = <<>> /\ tries' = FreshTries

Blank == [i \in DOMAIN texts |-> Nowhere]
Ascending(S) == CHOOSE s \in SetToSeqs(S) : \A i, j \in DOMAIN s : i < j => s[i] < s[j]

\* The two ways that need no answer, and the three that start.
Start ==
    /\ estep = "start"
    /\ CASE texts = <<>> -> Done("ok", <<>>)
         [] texts # <<>> /\ ~use.client /\ ~use.cached -> Done("ok", Blank)
         [] texts # <<>> /\ use.cached ->
              estep' = "lookup" /\ UNCHANGED <<looked, asked, got, tries, vectors, verdict>>
         [] OTHER -> /\ estep' = "send" /\ asked' = Ascending(DOMAIN texts)
                     /\ vectors' = Blank
                     /\ UNCHANGED <<looked, got, tries, verdict>>
    /\ UNCHANGED <<ecache, use, texts>>

\* get_many: a corrupt entry is deleted and missed.
get_many ==
    /\ estep = "lookup" /\ Len(looked) < Len(texts)
    /\ LET t == texts[Len(looked) + 1] IN
       /\ looked' = Append(looked, IF ecache[t] = Corrupt THEN Nowhere ELSE ecache[t])
       /\ ecache' = IF ecache[t] = Corrupt THEN [ecache EXCEPT ![t] = Nowhere] ELSE ecache
    /\ UNCHANGED <<use, texts, estep, asked, got, tries, vectors, verdict>>

(***************************************************************************)
(* All hits: the first hit's dimension decides, the others are embedded    *)
(* again.  Otherwise the misses are embedded and the hits wait for the     *)
(* answer's dimension.                                                     *)
(***************************************************************************)
Misses == {i \in DOMAIN texts : looked[i] = Nowhere}
Mixed == {i \in DOMAIN texts : looked[i].dim # looked[1].dim}
LookupEnds ==
    /\ estep = "lookup" /\ Len(looked) = Len(texts)
    /\ LET wanted == IF Misses # {} THEN Misses ELSE Mixed
           kept == [i \in DOMAIN texts |-> IF i \in wanted THEN Nowhere ELSE looked[i]]
       IN  IF wanted = {} \/ ~use.client THEN Done("ok", kept)
           ELSE /\ estep' = "send" /\ asked' = Ascending(wanted)
                /\ vectors' = IF Misses # {} THEN Blank ELSE kept
                /\ UNCHANGED <<looked, got, tries, verdict>>
    /\ UNCHANGED <<ecache, use, texts>>

------------------------------------------------------------------------------
(***************************************************************************)
(* One batch: as many texts as fit, and at least one.                      *)
(***************************************************************************)
BytesOf(b) == FoldLeft(LAMBDA s, i : s + Bytes[texts[i]], 0, b)
byte_aware_batch ==
    LET rest == SubSeq(asked, Len(got) + 1, Len(asked))
        fits == {n \in 1 .. Min({Len(rest), MAX_BATCH_SIZE}) :
                   n = 1 \/ BytesOf(SubSeq(rest, 1, n)) <= MAX_BATCH_BYTES}
    IN  SubSeq(rest, 1, Max(fits))

\* What an endpoint answers to a batch: vectors labelled with their input's
\* index in any order, unlabelled in list order, too few, an index twice, or an
\* empty vector.
Replies(b) ==
    LET item(k) == [of |-> texts[b[k]], ix |-> k]
        n == Len(b)
    IN  {[j \in 1 .. n |-> item(p[j])] : p \in SetToSeqs(1 .. n)}
          \cup {[j \in 1 .. n |-> [item(j) EXCEPT !.ix = 0]],
                [j \in 1 .. n - 1 |-> item(j)],
                [j \in 1 .. n |-> IF j = n THEN [item(j) EXCEPT !.of = ""] ELSE item(j)],
                [j \in 1 .. n |-> item(1)]}

\* The mutant takes the vectors as they come.
TrustArrival(data, n) ==
    IF Len(data) # n THEN <<>>
    ELSE IF \E j \in 1 .. n : data[j].of = "" THEN <<>>
    ELSE [j \in 1 .. n |-> Vec(data[j].of, CurrentDim)]

\* <<>> refuses the answer.  Labelled vectors are taken by their label; if each
\* position has one, none has two.
order_embeddings(data, n) ==
    LET labelled == \A j \in DOMAIN data : data[j].ix # 0
        for(j) == IF labelled THEN CHOOSE k \in 1 .. n : data[k].ix = j ELSE j
    IN  IF \/ Len(data) # n
           \/ labelled /\ \E j \in 1 .. n : \A k \in 1 .. n : data[k].ix # j
           \/ \E j \in DOMAIN data : data[j].of = ""
        THEN <<>>
        ELSE [j \in 1 .. n |-> Vec(data[for(j)].of, CurrentDim)]

(***************************************************************************)
(* A batch is answered.  After the last one the vectors go to the          *)
(* positions they were asked for and the cache takes what can be written;  *)
(* hits of another dimension are then asked for in a second call.          *)
(***************************************************************************)
put_many(embs, T) ==
    [t \in EmbedTexts |->
        LET at == {j \in DOMAIN asked : texts[asked[j]] = t}
        IN  IF t \in T /\ at # {} THEN embs[Max(at)] ELSE ecache[t]]

EmbedReturns(embs) ==
    LET placed == [i \in DOMAIN texts |->
                     IF Contains(asked, i) THEN embs[CHOOSE j \in DOMAIN asked : asked[j] = i]
                     ELSE vectors[i]]
        hit(i) == placed[i] = Nowhere /\ i \in DOMAIN looked
        valid == [i \in DOMAIN texts |->
                    IF hit(i) /\ looked[i].dim = embs[1].dim THEN looked[i] ELSE placed[i]]
        bad == {i \in DOMAIN texts : hit(i) /\ looked[i].dim # embs[1].dim}
    IN  IF bad = {} THEN Done("ok", valid)
        ELSE /\ asked' = Ascending(bad) /\ got' = <<>> /\ vectors' = valid /\ tries' = FreshTries
             /\ UNCHANGED <<estep, looked, verdict>>

BatchAnswered(embs) ==
    LET all == got \o embs IN
    IF Len(all) < Len(asked)
    THEN /\ got' = all /\ tries' = FreshTries
         /\ UNCHANGED <<ecache, estep, looked, asked, vectors, verdict>>
    ELSE /\ \E T \in IF use.cached THEN SUBSET EmbedTexts ELSE {{}} : ecache' = put_many(all, T)
         /\ EmbedReturns(all)

------------------------------------------------------------------------------
(***************************************************************************)
(* embed_batch.  429 moves to the next key and, when every key is limited, *)
(* to another round: after a pause that doubles as long as nothing else    *)
(* has failed, at once after a transient failure.  Transient failures are  *)
(* counted over the whole batch.                                           *)
(***************************************************************************)
Retry(t) == tries' = t /\ UNCHANGED <<ecache, estep, looked, asked, got, vectors, verdict>>
Fails(v) == Done(v, <<>>) /\ UNCHANGED ecache

BatchTransient ==
    IF tries.transient + 1 >= TRANSIENT_RETRY_LIMIT THEN Fails("transient")
    ELSE Retry([tries EXCEPT !.off = 0, !.transient = @ + 1])

\* One request: limited (429), transient (no connection, a body that is not JSON,
\* a refused answer), fatal (any other status, 5xx too), or the vectors.
try_embed_with_key_using(b) ==
    [kind : {"limited", "transient", "fatal"}, embs : {<<>>}]
      \cup {LET embs == order_embeddings(data, Len(b))
            IN  [kind |-> IF embs = <<>> THEN "transient" ELSE "ok", embs |-> embs] :
                 data \in Replies(b)}

embed_batch ==
    /\ estep = "send" /\ use.kind = "file"
    /\ \E r \in try_embed_with_key_using(byte_aware_batch) :
         \/ r.kind = "limited" /\ Retry([tries EXCEPT !.off = (@ + 1) % EmbedKeyCount])
         \/ r.kind = "transient" /\ BatchTransient
         \/ r.kind = "fatal" /\ Fails("fatal")
         \/ r.kind = "ok" /\ BatchAnswered(r.embs)
    /\ UNCHANGED <<use, texts>>

(***************************************************************************)
(* embed_query: each key with its own short retries, then, when all of     *)
(* them were limited, one more pass after a pause.                         *)
(***************************************************************************)
QueryNextKey(t) ==
    IF tries.off + 1 < EmbedKeyCount
    THEN Retry([tries EXCEPT !.off = @ + 1, !.transient = 0, !.pass = t])
    ELSE CASE t = 1 -> Retry([FreshTries EXCEPT !.pass = 3])
           [] t = 2 -> Fails("transient")
           [] OTHER -> Fails("limited")

\* Pass 2 is the first pass once a key failed for another reason than its limit.
QueryTransient ==
    CASE tries.pass = 3 -> Fails("transient")
      [] tries.pass # 3 /\ tries.transient < QUERY_TRANSIENT_RETRY ->
           Retry([tries EXCEPT !.transient = @ + 1])
      [] OTHER -> QueryNextKey(2)

embed_query_vector ==
    /\ estep = "send" /\ use.kind = "query"
    /\ \E r \in try_embed_with_key_using(byte_aware_batch) :
         \/ r.kind = "limited" /\ QueryNextKey(tries.pass)
         \/ r.kind = "transient" /\ QueryTransient
         \/ r.kind = "fatal" /\ Fails("fatal")
         \/ r.kind = "ok" /\ BatchAnswered(r.embs)
    /\ UNCHANGED <<use, texts>>

ENext ==
    \/ Start \/ get_many \/ LookupEnds \/ embed_batch \/ embed_query_vector
    \/ \E t \in EmbedTexts : OtherPut(t)
    \/ \E T \in SUBSET EmbedTexts : purge_global(T)
ESpec == EInit /\ [][ENext]_evars

------------------------------------------------------------------------------
(***************************************************************************)
(* Every chunk gets its own vector: whatever the cache held, however the   *)
(* batches were cut and the answers ordered, a finished embedding has the  *)
(* vector of text i at position i, and no cache entry holds another text's *)
(* (order_embeddings: "a reordered reply attached vectors to the wrong     *)
(* chunks").                                                               *)
(***************************************************************************)
EmbeddingsAligned ==
    /\ verdict = "ok" => /\ DOMAIN vectors = DOMAIN texts
                         /\ \A i \in DOMAIN texts :
                              \/ vectors[i].of = texts[i]
                              \/ ~use.client /\ vectors[i] = Nowhere
    /\ \A t \in EmbedTexts : ecache[t].of \in {"", t}

(***************************************************************************)
(* The vectors of one file have one dimension.  An all-hit file is judged  *)
(* by its first hit, so entries of two dimensions leave two in the result. *)
(***************************************************************************)
OneDimension ==
    verdict = "ok" /\ use.client =>
        \A i, j \in DOMAIN vectors : vectors[i].dim = vectors[j].dim
=============================================================================
