-------------------------- MODULE MCEdgeResolution --------------------------
(***************************************************************************)
(* Small universes of file contents for EdgeResolution.                    *)
(***************************************************************************)
EXTENDS EdgeResolution

Names == {"foo", "bar"}

Sym(f, n, scope, line) == [file |-> f, name |-> n, fqn |-> <<f, scope, n>>, line |-> line]
Call(f, n, probes, near) == [file |-> f, name |-> n, probes |-> probes, near |-> near]

\* File 1 defines, file 2 defines and calls with an import that probes 3 then
\* 1, file 3 (generated code) defines and calls by textual proximity.
MCFiles == 1..3

DefsOf(f) == {{Sym(f, n, "", 1) : n \in N} : N \in SUBSET Names}

EdgesOf(f) ==
    CASE f = 1 -> {{Call(1, "foo", <<>>, {})}}
      [] f = 2 -> {{}, {Call(2, "foo", <<3, 1>>, {}), Call(2, "bar", <<>>, {})}}
      [] f = 3 -> {{Call(3, "foo", <<>>, {2})}}

MCContents == [f \in MCFiles |->
                  {[symbols |-> d, edges |-> e] : d \in DefsOf(f), e \in EdgesOf(f)}]

\* The contents of the run meet the condition of the theorem in
\* EdgeResolutionProofs; those below do not.
ASSUME RunKeepsOrder == StableOrder

\* One file with two methods of the same leaf name, in either order, and one
\* caller: only the positions of the symbols differ between the contents.
ReorderFiles == 1..2

ReorderContents ==
    [f \in ReorderFiles |->
        IF f = 1
        THEN {[symbols |-> {Sym(1, "foo", "A", a), Sym(1, "foo", "B", 3 - a)}, edges |-> {}] :
                 a \in {1, 2}}
        ELSE {[symbols |-> {}, edges |-> {Call(2, "foo", <<>>, {})}]}]
=============================================================================
