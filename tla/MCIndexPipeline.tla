-------------------------- MODULE MCIndexPipeline --------------------------
(***************************************************************************)
(* Small repositories for IndexPipeline: two files, in each of which a     *)
(* function may be defined or not and which call each other.               *)
(***************************************************************************)
EXTENDS IndexPipeline

CONSTANTS CA, CB, CBin          \* two text contents and a binary one

Sym(f, n) == [file |-> f, name |-> n, fqn |-> <<f, n>>, line |-> 1]
Call(f, n) == [file |-> f, name |-> n, probes |-> <<>>, near |-> {}]

MCFiles == 1..2
MCParts == 1..2

\* Content CA of every file defines "foo"; content CB defines "bar" instead; both
\* call "foo", so an edit of one file may change where the other's call goes.
MCSymbolsOf == [f \in MCFiles |-> [c \in Contents |->
                  CASE c = CA -> {Sym(f, "foo")}
                    [] c = CB -> {Sym(f, "bar")}
                    [] OTHER -> {}]]
MCEdgesOf == [f \in MCFiles |-> [c \in Contents |->
                  IF c \in Binary THEN {} ELSE {Call(f, "foo")}]]

\* TLC goes on only from states with few edits, requests and faults together.
Happened == used.edits + used.requests + used.crashes + used.errors + used.fatal
              + used.soft + used.heal + used.clears + used.rows
AtMost3 == Happened <= 3
AtMost4 == Happened <= 4
=============================================================================
