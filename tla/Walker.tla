------------------------------- MODULE Walker -------------------------------
(***************************************************************************)
(* Which files of a repository are indexed, decided twice                  *)
(* (indexing/walker.rs): a full run walks the tree with the `ignore`       *)
(* crate, which reads ignore files on its way down; a watcher batch holds  *)
(* bare paths and judges each one with ChangeFilter, and a directory that  *)
(* appears whole with walk_subtree_with.  The three must agree, or a file  *)
(* enters the index by one path and leaves it by the other.                *)
(*                                                                         *)
(* A tree is one chain: the root, a directory in it and a file in that,    *)
(* and `outer`, whatever lies above the root or beside the ignore files:   *)
(* the walk reads it, the filter does not.                                 *)
(* An ignore file is what its patterns say of the two candidates: nothing, *)
(* ignore, or include (a `!` pattern).                                     *)
(***************************************************************************)
EXTENDS Sequences, SequencesExt

VARIABLES
    tree,     \* the chain being judged
    judged    \* FALSE until the three judges have spoken, then their verdicts

wvars == <<tree, judged>>

(* Ignore files of a directory, the strongest first: .augmentignore, .ignore, .gitignore *)
Sources == <<"custom", "ignore", "git">>
Says == {"none", "ignore", "include"}

Dirs == {"root", "dir"}
Candidates == {"dir", "file"}

(* The directories above a candidate, the closest first *)
Above(c) == IF c = "dir" THEN <<"root">> ELSE <<"dir", "root">>

(* What else may keep a file out, one per tree: its directory is a dot directory
   or one of SKIP_DIRS, its extension or its name is not indexed, or the file or
   its directory is one of the repository's ignored paths *)
Marks == {"none", "pruned", "not code", "file listed", "dir listed"}

(* What each source in a directory says of each candidate below it *)
Rules(below) == [{"custom", "ignore", "git"} -> [below -> Says]]
Mute(below) == [s \in {"custom", "ignore", "git"} |-> [c \in below |-> "none"]]

(* A source that the walk alone honours: an ignore file above the root, the
   root's .git/info/exclude or the user's global ignore file.  At most one of them
   speaks, of one candidate. *)
Outer == [source : {"custom", "ignore", "git", "exclude", "global"},
          of : Candidates, says : {"ignore", "include"}]
Silent == [source |-> "global", of |-> "file", says |-> "none"]

(* t is a tree without an outer source, or one with it in which the directory's own
   ignore files are empty: the root's stand for the nearer ones.  `gits` are the
   levels that hold a .git. *)
Tree(t) ==
    \E root \in Rules(Candidates) :
        \/ \E dir \in Rules({"file"}), gits \in SUBSET Dirs, mark \in Marks :
               t = [root |-> root, dir |-> dir, gits |-> gits, mark |-> mark, outer |-> Silent]
        \/ \E gits \in SUBSET (Dirs \cup {"outer"}), outer \in Outer :
               t = [root |-> root, dir |-> Mute({"file"}), gits |-> gits, mark |-> "none",
                    outer |-> outer]

Matched(t, d, s, c) == t[d][s][c]

(***************************************************************************)
(* The walk                                                                *)
(***************************************************************************)

WalkSources == Sources \o <<"exclude", "global">>

(* What a source of level d says of c in the walk: "outer" stands for the
   directories above the root and for the user's own file; the exclude file is
   the root's *)
WalkSays(t, d, s, c) ==
    LET beyond == IF t.outer.source = s /\ t.outer.of = c THEN t.outer.says ELSE "none"
    IN CASE s = "exclude" -> IF d = "root" THEN beyond ELSE "none"
         [] d = "outer"   -> beyond
         [] s = "global"  -> "none"
         [] OTHER         -> Matched(t, d, s, c)

(* The nearest level whose source s speaks of c, unless a .git nearer than it
   ends the reach of .gitignore files, which count in a git tree only, as the
   exclude file and the global one do *)
Decides(t, s, c, d) ==
    LET levels == Append(Above(c), "outer")
        Nearer == {levels[i] : i \in {j \in DOMAIN levels :
                                        \E k \in DOMAIN levels : k > j /\ levels[k] = d}}
    IN /\ d \in ToSet(levels)
       /\ WalkSays(t, d, s, c) # "none"
       /\ \A x \in Nearer : WalkSays(t, x, s, c) = "none"
       /\ s \in {"git", "exclude", "global"} => t.gits \cap ToSet(levels) # {}
       /\ s \in {"git", "exclude"} => t.gits \cap Nearer = {}
       /\ s = "exclude" => "root" \in t.gits

WalkIgnores(t, c) ==
    \E i \in DOMAIN WalkSources, d \in Dirs \cup {"outer"} :
        /\ Decides(t, WalkSources[i], c, d)
        /\ WalkSays(t, d, WalkSources[i], c) = "ignore"
        /\ \A j \in 1 .. i - 1 :
               ~ \E x \in Dirs \cup {"outer"} : Decides(t, WalkSources[j], c, x)

(* What filter_entry lets the walk descend into; the root of a walk is never asked *)
filter_entry(t) == t.mark # "pruned"

has_indexable_extension(t) == t.mark # "not code"

walk_repo_with(t, start, ignore_paths) ==
    /\ start = "root" => filter_entry(t) /\ ~WalkIgnores(t, "dir")
    /\ ~WalkIgnores(t, "file")
    /\ has_indexable_extension(t)
    /\ "file listed" \notin ignore_paths

(***************************************************************************)
(* The change filter                                                       *)
(***************************************************************************)

(* Plausible mistake: only the root's ignore files are read *)
RootFilesOnly(t, c) ==
    \E i \in DOMAIN Sources :
        /\ Matched(t, "root", Sources[i], c) = "ignore"
        /\ \A j \in 1 .. i - 1 : Matched(t, "root", Sources[j], c) = "none"

is_ignored_by_files(t, c) ==
    LET Look(seen, d) ==
            [custom |-> IF seen.custom = "none" THEN Matched(t, d, "custom", c) ELSE seen.custom,
             ignore |-> IF seen.ignore = "none" THEN Matched(t, d, "ignore", c) ELSE seen.ignore,
             git    |-> IF seen.git = "none" /\ ~seen.saw_git
                        THEN Matched(t, d, "git", c) ELSE seen.git,
             saw_git |-> seen.saw_git \/ d \in t.gits]
        found == FoldLeft(Look, [custom |-> "none", ignore |-> "none", git |-> "none",
                                 saw_git |-> FALSE], Above(c))
    IN "ignore" = CASE found.custom # "none" -> found.custom
                    [] found.ignore # "none" -> found.ignore
                    [] OTHER -> found.git

is_gitignored(t, c) ==
    is_ignored_by_files(t, "dir") \/ (c = "file" /\ is_ignored_by_files(t, "file"))

is_under_pruned_dir(t) == t.mark = "pruned"

allows(t) ==
    /\ has_indexable_extension(t)
    /\ ~is_under_pruned_dir(t)
    /\ t.mark # "file listed"
    /\ ~is_gitignored(t, "file")

could_contain_indexed(t) ==
    /\ ~is_under_pruned_dir(t)
    /\ t.mark # "dir listed"
    /\ ~is_gitignored(t, "dir")

(* The inner walk starts at the directory and is given no ignored path *)
walk_subtree_with(t) ==
    could_contain_indexed(t) /\ walk_repo_with(t, "dir", {}) /\ allows(t)

(***************************************************************************)

WInit == Tree(tree) /\ judged = {}

Judge ==
    /\ judged = {}
    /\ judged' = {[walked  |-> walk_repo_with(tree, "root", {tree.mark}),
                   allowed |-> allows(tree),
                   subtree |-> walk_subtree_with(tree)]}
    /\ UNCHANGED tree

WNext == Judge

(***************************************************************************)

(* An outer source changes the walk's mind about the file or its directory *)
OuterDecides(t) ==
    \E c \in Candidates : WalkIgnores(t, c) # WalkIgnores([t EXCEPT !.outer = Silent], c)

(* The watcher and the full run index the same files, as far as the tree's own
   ignore files decide: in a git tree a path passes the change filter exactly when
   the walk reaches it; outside one the filter may refuse what the walk takes,
   never the other way round; and a directory that appears whole yields what the
   walk finds in it.  (ChangeFilter's promise; a file the filter alone admits is
   indexed by an edit and removed by the next full run, for ever.)  It is not so
   where an outer source decides: the walk reads the ignore files above the root,
   the exclude file and the global one (walker.rs, git_global), the filter none of
   them.  A directory that is itself an ignored path is left out: see SubtreeAgrees. *)
FilterAgreesWithWalk ==
    \A v \in judged :
        OuterDecides(tree) \/
            /\ v.allowed => v.walked
            /\ tree.gits \cap {"root", "outer"} # {} => (v.walked => v.allowed)
            /\ tree.mark # "dir listed" => (v.subtree <=> v.allowed)

(* "Walk only the subtree ..., returning exactly the files the full walk_repo_with
   would return for that subtree" (walker.rs, walk_subtree_with), with no exception
   for a directory named in the ignored paths *)
SubtreeAgrees == \A v \in judged : v.subtree <=> v.allowed
=============================================================================
