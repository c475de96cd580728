----------------------------- MODULE MCFatFiles -----------------------------
(* Small instances of FatFiles. *)
EXTENDS FatFiles, TLC

CONSTANTS h1, h2

\* A file of two clusters, one of them behind the last that is ever allocated; an empty one.
OneFile == {[f \in {"a", "b"} |-> IF f = "a" THEN [chain |-> <<7, 3>>, size |-> 5]
                                             ELSE [chain |-> <<>>, size |-> 0]]}
AnyHandle == Permutations({h1, h2})
=============================================================================
