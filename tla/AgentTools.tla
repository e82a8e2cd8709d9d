----------------------------- MODULE AgentTools -----------------------------
(***************************************************************************)
(* The tools the two agents use on the working tree (src/fs_tools.rs) and  *)
(* the documents put into the chat's prompt (collect_project_docs of       *)
(* src/chat.rs): reading a file in pages, searching it, and filling a      *)
(* budget.  A line is known by its size and by whether the pattern matches *)
(* it.                                                                     *)
(***************************************************************************)
EXTENDS Integers, Sequences, FiniteSets, SequencesExt, FiniteSetsExt

CONSTANTS
    LineSizes,         \* sizes a rendered line may have
    ToolLines,         \* bound of the model: lines of a file
    READ_MAX_LINES, READ_MAX_BYTES,
    GREP_MAX_MATCHES, GREP_MAX_PER_FILE, GREP_MAX_FILES_SCANNED, GREP_MAX_CONTEXT,
    ToolFiles,         \* bound of the model: files a search walks over
    DOC_PER_FILE, DOC_TOTAL, Marker   \* the caps of the documents, and what a cut adds

ASSUME ToolConstants ==
    /\ LineSizes \subseteq Nat /\ ToolLines \in Nat /\ ToolFiles \in Nat
    /\ READ_MAX_LINES \in Nat \ {0} /\ READ_MAX_BYTES \in Nat
    /\ GREP_MAX_MATCHES \in Nat \ {0} /\ GREP_MAX_PER_FILE \in Nat \ {0}
    /\ GREP_MAX_FILES_SCANNED \in Nat /\ GREP_MAX_CONTEXT \in Nat
    /\ DOC_PER_FILE \in Nat /\ DOC_TOTAL \in Nat /\ Marker \in Nat

VARIABLES
    tool,    \* read, grep or docs
    given,   \* its arguments and the files
    result   \* what it has returned so far

tvars == <<tool, given, result>>

------------------------------------------------------------------------------
(***************************************************************************)
(* Paths: only what exists inside the root passes, however it was written. *)
(***************************************************************************)
PathKinds == {"empty", "absolute", "drive", "missing", "outside", "directory", "inside"}
resolve_within_root(p) == p \in {"directory", "inside"}

\* Files by what a tool can do with them.
FileKinds == {"text", "binary", "large", "outside"}

TInit ==
    \/ /\ tool = "read"
       /\ given \in [path : PathKinds, kind : {"text", "binary"}, sizes : SeqOf(LineSizes, ToolLines),
                     start : 0 .. ToolLines + 1, end : 0 .. ToolLines + 1]
       /\ given.path # "inside" => given.sizes = <<>> /\ given.start = 0 /\ given.end = 0
       /\ result = [pages |-> <<>>, next |-> given.start, over |-> FALSE]
    \/ /\ tool = "grep"
       /\ given \in [files : SeqOf([kind : {"text"}, match : SeqOf(BOOLEAN, 3)]
                                    \cup [kind : FileKinds, match : {<<TRUE>>}], ToolFiles),
                     context : 0 .. GREP_MAX_CONTEXT]
       /\ result = [regions |-> <<>>, total |-> 0, infile |-> 0, file |-> 1, line |-> 1,
                    scanned |-> 0, hits |-> {}, truncated |-> FALSE, over |-> FALSE]
    \/ /\ tool = "docs"
       /\ given \in [docs : SeqOf(SeqOf(LineSizes, 2), 3)]
       /\ result = [taken |-> <<>>, over |-> FALSE]

------------------------------------------------------------------------------
(***************************************************************************)
(* run_read: a page is the part of the wanted lines that both caps admit,  *)
(* and at least one line; the caller continues where the hint says.        *)
(***************************************************************************)
SizeOf(sizes, from, to) == FoldLeft(LAMBDA n, x : n + x, 0, SubSeq(sizes, from, to))

\* The mutant counts lines only.
HintByLines(start, to) == start + READ_MAX_LINES
Hint(start, to) == to + 1

run_read ==
    /\ tool = "read" /\ ~result.over
    /\ LET total == Len(given.sizes)
           start == Max({result.next, 1})
           end == Max({Min({IF given.end = 0 THEN total ELSE given.end, total}), start})
           cap == Min({end, start + READ_MAX_LINES - 1})
           to == Max({n \in start .. cap :
                        n = start \/ SizeOf(given.sizes, start, n) <= READ_MAX_BYTES})
       IN  result' =
             IF \/ ~resolve_within_root(given.path) \/ given.path = "directory"
                \/ given.kind # "text" \/ total = 0 \/ start > total
             THEN [result EXCEPT !.over = TRUE]
             ELSE [pages |-> Append(result.pages, <<start, to>>), over |-> ~(to < end),
                   next |-> Hint(start, to)]
    /\ UNCHANGED <<tool, given>>

------------------------------------------------------------------------------
(***************************************************************************)
(* run_grep, one line at a time: a match with its context becomes a        *)
(* region, or grows the last one when they touch.                          *)
(***************************************************************************)
MergesAcrossFiles(regions, f, lo, hi) ==  \* mutant
    IF regions # <<>> /\ lo <= Last(regions).hi + 1
    THEN [regions EXCEPT ![Len(regions)].hi = Max({@, hi}), ![Len(regions)].lo = Min({@, lo})]
    ELSE Append(regions, [file |-> f, lo |-> lo, hi |-> hi])
push_region(regions, f, lo, hi) ==
    IF regions # <<>> /\ Last(regions).file = f /\ lo <= Last(regions).hi + 1
    THEN [regions EXCEPT ![Len(regions)].hi = Max({@, hi}), ![Len(regions)].lo = Min({@, lo})]
    ELSE Append(regions, [file |-> f, lo |-> lo, hi |-> hi])

NextFile == [result EXCEPT !.file = @ + 1, !.line = 1, !.infile = 0]
GrepEnds(cut) == [result EXCEPT !.over = TRUE, !.truncated = cut]

\* The walk comes to a file: one outside the root is passed over uncounted.
OpenFile ==
    LET f == given.files[result.file]
        counted == [result EXCEPT !.scanned = @ + 1, !.line = 2]
    IN  result' = CASE f.kind = "outside" -> NextFile
                    [] f.kind # "outside" /\ result.scanned + 1 > GREP_MAX_FILES_SCANNED -> GrepEnds(TRUE)
                    [] f.kind = "text" -> counted
                    [] OTHER -> [NextFile EXCEPT !.scanned = @ + 1]

\* line is one past the line looked at, so that 1 stands for an unopened file.
GrepLine ==
    LET f == given.files[result.file]
        n == result.line - 1
        lo == Max({n - given.context, 1})
        hi == Min({n + given.context, Max({Len(f.match), 1})})
        hit == [result EXCEPT !.line = @ + 1, !.total = @ + 1, !.infile = @ + 1,
                              !.regions = push_region(@, result.file, lo, hi),
                              !.hits = @ \cup {<<result.file, n>>}]
    IN  result' = CASE n > Len(f.match) -> NextFile
                    [] n <= Len(f.match) /\ ~f.match[n] -> [result EXCEPT !.line = @ + 1]
                    [] OTHER -> CASE hit.total >= GREP_MAX_MATCHES ->
                                       [hit EXCEPT !.over = TRUE, !.truncated = TRUE]
                                  [] hit.total < GREP_MAX_MATCHES /\ hit.infile >= GREP_MAX_PER_FILE ->
                                       [hit EXCEPT !.file = @ + 1, !.line = 1, !.infile = 0]
                                  [] OTHER -> hit

run_grep ==
    /\ tool = "grep" /\ ~result.over
    /\ IF result.file > Len(given.files) THEN result' = GrepEnds(FALSE)
       ELSE IF result.line = 1 THEN OpenFile ELSE GrepLine
    /\ UNCHANGED <<tool, given>>

------------------------------------------------------------------------------
(***************************************************************************)
(* collect_project_docs: each document is cut at a line to its own cap,    *)
(* then to what is left of the total; a cut adds a marker.                 *)
(***************************************************************************)
Total(sizes) == SizeOf(sizes, 1, Len(sizes))
truncate_doc_by_lines(size, sizes, cap) ==
    IF size <= cap THEN size
    ELSE Max({0} \cup {SizeOf(sizes, 1, n) : n \in {m \in DOMAIN sizes : SizeOf(sizes, 1, m) <= cap}})
           + Marker

collect_project_docs ==
    /\ tool = "docs" /\ ~result.over
    /\ LET k == Len(result.taken) + 1
           left == Max({0, DOC_TOTAL - Total(result.taken)})
       IN  IF k > Len(given.docs) \/ left = 0 THEN result' = [result EXCEPT !.over = TRUE]
           ELSE LET sizes == given.docs[k]
                    own == truncate_doc_by_lines(Total(sizes), sizes, DOC_PER_FILE)
                    body == IF own <= left THEN own
                            ELSE truncate_doc_by_lines(own, sizes, Min({left, DOC_PER_FILE}))
                IN  result' = [result EXCEPT !.taken = Append(@, body)]
    /\ UNCHANGED <<tool, given>>

TNext == run_read \/ run_grep \/ collect_project_docs
TSpec == TInit /\ [][TNext]_tvars

------------------------------------------------------------------------------
(***************************************************************************)
(* Paging reads every wanted line exactly once: following the hint of a    *)
(* truncated read, the pages join without gap or overlap and end at the    *)
(* last wanted line, whichever cap cut them.                               *)
(***************************************************************************)
ReadPagesCover ==
    tool = "read" /\ result.pages # <<>> =>
        LET p == result.pages
            first == Max({given.start, 1})
            last == Max({Min({IF given.end = 0 THEN Len(given.sizes) ELSE given.end,
                              Len(given.sizes)}), first})
        IN  /\ p[1][1] = first
            /\ \A k \in 1 .. Len(p) - 1 : p[k + 1][1] = p[k][2] + 1
            /\ \A k \in DOMAIN p : p[k][1] <= p[k][2]
            /\ result.over => Last(p)[2] = last

(***************************************************************************)
(* The regions of a search are its matches with their context: every match *)
(* shown lies in a region of its file, every line of a region is near a    *)
(* match, no two regions of a file touch, and no file outside the root is  *)
(* in one.                                                                 *)
(***************************************************************************)
GrepRegionsExact ==
    tool = "grep" =>
        LET r == result.regions
            near(f, n) == \E h \in result.hits : h[1] = f /\ n - given.context <= h[2]
                                                  /\ h[2] <= n + given.context
        IN  /\ \A h \in result.hits : \E k \in DOMAIN r :
                 r[k].file = h[1] /\ r[k].lo <= h[2] /\ h[2] <= r[k].hi
            /\ \A k \in DOMAIN r :
                 /\ given.files[r[k].file].kind = "text"
                 /\ \A n \in r[k].lo .. r[k].hi :
                      n \in DOMAIN given.files[r[k].file].match /\ near(r[k].file, n)
            /\ \A j, k \in DOMAIN r : j < k /\ r[j].file = r[k].file => r[j].hi + 1 < r[k].lo

(***************************************************************************)
(* What the chat's model is shown of the files is exact: a truncated read  *)
(* continues without gap or overlap (run_read's hint), and a search shows  *)
(* its matches in their own files (run_grep's push_region).                *)
(***************************************************************************)
ToolsExact == ReadPagesCover /\ GrepRegionsExact

(***************************************************************************)
(* "The combined block never exceeds the total cap": the markers do.       *)
(***************************************************************************)
DocsWithinTotal == tool = "docs" => Total(result.taken) <= DOC_TOTAL
=============================================================================
