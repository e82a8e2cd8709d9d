---------------------------- MODULE ResultShaping ---------------------------
(***************************************************************************)
(* The pure functions between the vector hits and the text of an answer:   *)
(* merge_weighted (src/query/merger.rs), the normalisation of the line     *)
(* ranges a reranker selects (reranker.rs, jev.rs), merge_overlapping_     *)
(* blocks and assemble_with_budget (src/mcp.rs), on every small input.     *)
(* A chunk has a file, a line range, a rank (score times class weight) and *)
(* a content key, 0 for blank text.  The sorts by first line are unstable  *)
(* over the order of a hash map, so every order of equal keys is tried.    *)
(***************************************************************************)
EXTENDS Integers, Sequences, FiniteSets, SequencesExt, FiniteSetsExt

CONSTANTS
    Files,         \* file numbers, in path order
    Generated,     \* the generated ones among them
    Lines,         \* lines are 1..Lines
    Ranks,         \* score times weight
    MergeCap,      \* the 60 lines a merged chunk may have
    Pad,           \* RANGE_PAD
    MaxOutput, FooterReserve,  \* MAX_TOOL_OUTPUT_CHARS and FOOTER_RESERVE
    MaxParts       \* bound of the model: blocks in an answer

ASSUME ShapingConstants ==
    /\ Files \subseteq Nat /\ Generated \subseteq Files /\ Ranks \subseteq Nat
    /\ Lines \in Nat \ {0} /\ MergeCap \in Nat \ {0} /\ Pad \in Nat /\ MaxParts \in Nat
    /\ FooterReserve \in Nat /\ MaxOutput \in Nat /\ FooterReserve <= MaxOutput

VARIABLES job, input, computed, output

hvars == <<job, input, computed, output>>

Ranges == {p \in (1..Lines) \X (1..Lines) : p[1] <= p[2]}
LinesOf(s, e) == s..e
Pick(S, better(_, _)) == CHOOSE x \in S : \A y \in S \ {x} : better(x, y)
Bigger(a, b) == IF a > b THEN a ELSE b
Smaller(a, b) == IF a < b THEN a ELSE b

\* The orders a stable-key sort may leave a set in.
SortedBy(S, key(_)) ==
    {q \in SetToSeqs(S) : \A i \in 1..(Len(q) - 1) : key(q[i]) <= key(q[i + 1])}

------------------------------------------------------------------------------
(***************************************************************************)
(* merge_weighted.  1: one entry per range, of the best rank.              *)
(***************************************************************************)
Chunk == [file : Files, range : Ranges, rank : Ranks, key : 0..1]
Entry(c) == [file |-> c.file, from |-> c.range[1], to |-> c.range[2], rank |-> c.rank,
             key |-> c.key, copies |-> {}, parts |-> {c}]

Dedup(chunks) ==
    {Entry(c) : c \in {x \in chunks : \A y \in chunks :
       x.file = y.file /\ x.range = y.range =>
         x.rank > y.rank \/ (x.rank = y.rank /\ x.key <= y.key)}}

(***************************************************************************)
(* 2: of equal contents the best stays, with the other files on record;    *)
(* a repeat in its own file stays too.                                     *)
(***************************************************************************)
Preferred(a, b) ==
    \/ a.rank > b.rank
    \/ /\ a.rank = b.rank
       /\ \/ a.file \notin Generated /\ b.file \in Generated
          \/ /\ (a.file \in Generated) = (b.file \in Generated)
             /\ \/ a.file < b.file
                \/ a.file = b.file /\ (a.from < b.from \/ (a.from = b.from /\ a.to <= b.to))

collapse_identical_content(entries) ==
    LET group == {e \in entries : e.key # 0}
        kept == Pick(group, Preferred)
        others == {e \in group : e.file # kept.file}
    IN  IF group = {} THEN entries
        ELSE (entries \ (others \cup {kept}))
               \cup {[kept EXCEPT !.copies = {e.file : e \in others},
                                  !.parts = @ \cup UNION {e.parts : e \in others}]}

(***************************************************************************)
(* 5: neighbours, one line apart at most, with the same copies on record,  *)
(* become one chunk of at most MergeCap lines.                             *)
(***************************************************************************)
MergesOtherCopies(a, b) == b.from <= a.to + 2  \* mutant

Joins(a, b) == b.from <= a.to + 2 /\ a.copies = b.copies

MergeStep(merged, next) ==
    IF merged = <<>> THEN <<next>>
    ELSE LET last == Last(merged)
             end == Bigger(last.to, next.to)
         IN  IF Joins(last, next) /\ end - last.from + 1 <= MergeCap
             THEN Append(Front(merged),
                         [last EXCEPT !.to = end, !.rank = Bigger(@, next.rank),
                                      !.parts = @ \cup next.parts])
             ELSE Append(merged, next)

\* 6: the widest first, a chunk inside a survivor is dropped unless it has
\* copies; of equally wide ones either may come first.
Survive(survivors, c) ==
    IF c.copies = {} /\ \E s \in survivors : s.from <= c.from /\ c.to <= s.to
    THEN survivors ELSE survivors \cup {c}

DropContained(merged) ==
    {FoldLeft(Survive, {}, q) : q \in SortedBy(ToSet(merged), LAMBDA c : Lines - (c.to - c.from))}

MergedFiles(entries) ==
    LET of(f) == UNION {DropContained(FoldLeft(MergeStep, <<>>, q)) :
                          q \in SortedBy({e \in entries : e.file = f}, LAMBDA e : e.from)}
    IN  {UNION {pick[f] : f \in Files} :
           pick \in {g \in [Files -> UNION {of(f) : f \in Files}] :
                       \A f \in Files : g[f] \in of(f)}}

merge_weighted(chunks) == MergedFiles(collapse_identical_content(Dedup(chunks)))

------------------------------------------------------------------------------
(***************************************************************************)
(* sanitize_ranges: the model's pairs padded, clamped to the chunk, sorted *)
(* and joined when they overlap or touch; none left means the whole chunk. *)
(***************************************************************************)
JoinRange(gap, merged, r) ==
    IF merged # <<>> /\ r[1] <= Last(merged)[2] + gap
    THEN Append(Front(merged), <<Last(merged)[1], Bigger(Last(merged)[2], r[2])>>)
    ELSE Append(merged, r)

Clamp(p, lo, hi) == <<Bigger(IF p[1] > Pad THEN p[1] - Pad ELSE 0, lo),
                      Smaller(p[2] + Pad, hi)>>

sanitize_ranges(pairs, lo, hi) ==
    LET valid == {Clamp(p, lo, hi) : p \in {x \in pairs : x[1] <= x[2]}}
        ranges == {r \in valid : r[1] <= r[2]}
    IN  {FoldLeft(LAMBDA m, r : JoinRange(1, m, r), <<>>, q) :
           q \in SortedBy(ranges, LAMBDA r : r[1])}

\* Jev: spans that overlap are folded into one, touching ones are not.
selected_ranges(spans) ==
    {FoldLeft(LAMBDA m, r : JoinRange(0, m, r), <<>>, q) :
       q \in SortedBy(spans, LAMBDA r : r[1])}

\* The symbols of a chunk offered for narrowing: clipped, never the whole of it.
candidate_spans(symbols, lo, hi) ==
    {<<Bigger(s[1], lo), Smaller(s[2], hi)>> : s \in {x \in symbols : x[1] <= hi /\ x[2] >= lo}}
      \ {<<lo, hi>>}

------------------------------------------------------------------------------
(***************************************************************************)
(* merge_overlapping_blocks: blocks of one file that overlap or touch and  *)
(* have the same copies; a merged block takes the caller tag of the part   *)
(* with more callers and the place of its earliest part.                   *)
(***************************************************************************)
Block == [range : Ranges, copies : {{}, {9}}, callers : 0..1]
Placed(blocks) == {[at |-> i, from |-> blocks[i].range[1], to |-> blocks[i].range[2],
                    copies |-> blocks[i].copies, callers |-> blocks[i].callers,
                    names |-> blocks[i].callers, parts |-> {i}] : i \in DOMAIN blocks}

JoinBlocks(cur, next) ==
    LET wide == [cur EXCEPT !.to = Bigger(@, next.to), !.at = Smaller(@, next.at),
                            !.parts = @ \cup next.parts]
    IN  IF next.callers > cur.callers
        THEN [wide EXCEPT !.callers = next.callers, !.names = next.names]
        ELSE wide

BlockStep(merged, next) ==
    IF merged # <<>> /\ next.from <= Last(merged).to + 1 /\ next.copies = Last(merged).copies
    THEN Append(Front(merged), JoinBlocks(Last(merged), next))
    ELSE Append(merged, next)

merge_overlapping_blocks(blocks) ==
    {SetToSortSeq(ToSet(FoldLeft(BlockStep, <<>>, q)), LAMBDA a, b : a.at < b.at) :
       q \in SortedBy(Placed(blocks), LAMBDA b : b.from)}

------------------------------------------------------------------------------
(***************************************************************************)
(* assemble_with_budget_counted: in full until the first that does not     *)
(* fit, from then on in short form, or not at all.  shown counts the       *)
(* leading blocks that are there in some form.                             *)
(***************************************************************************)
EffectiveBudget == MaxOutput - FooterReserve
Sized == [full : 1..4, short : 1..3]
StartOut == [len |-> 0, over |-> FALSE, cut |-> 0, shown |-> 0, gone |-> FALSE]

ShortForm(o, b) ==
    LET fits == o.len + b.short <= EffectiveBudget
    IN  [o EXCEPT !.over = TRUE, !.cut = @ + 1,
                  !.len = IF fits THEN @ + b.short ELSE @,
                  !.shown = IF fits /\ ~o.gone THEN @ + 1 ELSE @,
                  !.gone = @ \/ ~fits]

ChecksFullOnly(o, b) ==  \* mutant
    IF ~o.over /\ o.len + b.full <= MaxOutput
    THEN [o EXCEPT !.len = @ + b.full, !.shown = @ + 1]
    ELSE ShortForm(o, b)

AssembleStep(o, b) ==
    IF ~o.over /\ o.len + b.full <= EffectiveBudget
    THEN [o EXCEPT !.len = @ + b.full, !.shown = @ + 1]
    ELSE ShortForm(o, b)

assemble_with_budget(blocks) == FoldLeft(AssembleStep, StartOut, blocks)

------------------------------------------------------------------------------
\* Bound of the model: at most three chunks or ranges in an input.
SmallSets(S) == {{a, b, c} : a, b, c \in S}

\* The lines of one range of a file have one content.
MergePools == {p \in SmallSets(Chunk) :
            \A a, b \in p : a.file = b.file /\ a.range = b.range => a.key = b.key}

HInit ==
    /\ computed = FALSE /\ output = {}
    /\ \/ job = "merge" /\ input \in MergePools
       \/ job = "ranges" /\ input \in SmallSets((0..Lines) \X (0..Lines))
       \/ job = "spans" /\ input \in SmallSets(Ranges)
       \/ job = "blocks" /\ input \in BoundedSeq(Block, MaxParts)
       \/ job = "budget" /\ input \in BoundedSeq(Sized, MaxParts)

\* The chunk the ranges and spans are of: the middle of the file.
Lo == 2
Hi == Lines - 1

Compute ==
    /\ ~computed /\ computed' = TRUE
    /\ CASE job = "merge" -> output' \in merge_weighted(input)
         [] job = "ranges" -> output' \in sanitize_ranges(input, Lo, Hi)
         [] job = "spans" -> output' \in selected_ranges(candidate_spans(input, Lo, Hi))
         [] job = "blocks" -> output' \in merge_overlapping_blocks(input)
         [] job = "budget" -> output' = assemble_with_budget(input)
    /\ UNCHANGED <<job, input>>

HNext == Compute
HSpec == HInit /\ [][HNext]_hvars

------------------------------------------------------------------------------
RangeLines(rs) == UNION {LinesOf(rs[i][1], rs[i][2]) : i \in DOMAIN rs}

(***************************************************************************)
(* Shaping loses no code and invents none: every candidate's lines are in  *)
(* an output chunk of its file, or its file is on record as a copy; a      *)
(* chunk without copies is not inside a wider one; narrowed ranges are     *)
(* sorted, disjoint, inside the chunk and exactly the padded lines asked   *)
(* for; and every block's lines survive, under names that go with its      *)
(* caller count.                                                           *)
(***************************************************************************)
NoLineLost ==
    computed =>
      CASE job = "merge" ->
             /\ \A c \in input : \E o \in output :
                  \/ o.file = c.file /\ o.from <= c.range[1] /\ c.range[2] <= o.to
                  \/ c.key # 0 /\ c.file \in o.copies
             /\ \A o, p \in output : o # p /\ o.file = p.file /\ o.copies = {} =>
                  ~(p.from <= o.from /\ o.to <= p.to /\ p.to - p.from > o.to - o.from)
        [] job = "ranges" ->
             /\ RangeLines(output) =
                  {l \in Lo..Hi : \E p \in input : p[1] <= p[2] /\ p[1] - Pad <= l /\ l <= p[2] + Pad}
             /\ \A i \in 1..(Len(output) - 1) : output[i][2] + 1 < output[i + 1][1]
        [] job = "spans" ->
             /\ RangeLines(output) \subseteq Lo..Hi
             /\ \A i \in 1..(Len(output) - 1) : output[i][2] < output[i + 1][1]
        [] job = "blocks" ->
             /\ \A i \in DOMAIN input : \E j \in DOMAIN output :
                  /\ i \in output[j].parts
                  /\ output[j].from <= input[i].range[1] /\ input[i].range[2] <= output[j].to
             /\ \A j \in DOMAIN output : output[j].callers = output[j].names
        [] OTHER -> TRUE

(***************************************************************************)
(* The answer, with its footer and hint, stays below the size a client     *)
(* accepts, and the footer counts exactly the blocks not shown in full.    *)
(***************************************************************************)
OutputFits ==
    computed /\ job = "budget" =>
      /\ output.len + FooterReserve <= MaxOutput
      /\ output.cut = 0 <=> output.len = FoldSeq(LAMBDA b, n : b.full + n, 0, input)
                              /\ output.shown = Len(input)
      /\ output.shown <= Len(input)

(***************************************************************************)
(* From candidates to text (merge_weighted to assemble_with_budget): no    *)
(* line is lost, invented or shown twice, and what is shown fits.          *)
(***************************************************************************)
ShapingSound == NoLineLost /\ OutputFits

(***************************************************************************)
(* "Merge output blocks from the same file whose line ranges overlap or    *)
(* are adjacent ... and carry the same list of identical copies"           *)
(* (mcp.rs:421): not when a block with other copies starts between them.   *)
(***************************************************************************)
OverlapsMerged ==
    computed /\ job = "blocks" =>
      \A i, j \in DOMAIN output :
        i # j /\ output[i].copies = output[j].copies =>
          ~(output[i].from <= output[j].from /\ output[j].from <= output[i].to + 1)
=============================================================================
