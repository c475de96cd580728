--------------------------- MODULE MCFatDirectory ---------------------------
(* Small instances of FatDirectory. *)
EXTENDS FatDirectory

Dir(s, f) == [slots |-> s, fixed |-> f]

\* "a" is there; "s" takes a slot, "l" three.
A == Entry("a", 0)
Other == Entry("b", 0)
NeededSlots == [n \in {"a", "b", "s", "l"} |-> IF n = "l" THEN 3 ELSE 1]

\* A long name up to the slot before the last.
Long == <<Entry("l", 2), Entry("l", 1), Entry("l", 0), End>>

\* Gaps at the start and in the middle, stale entries behind the end mark, an end mark in
\* the last slot, none at all, more clusters than the directory needs.
Some ==
  {Dir(s, f) : f \in BOOLEAN,
               s \in {Long, <<Deleted, A, End, Junk>>, <<A, Deleted, Deleted, Deleted>>,
                      <<Deleted, Deleted, A, End>>, <<A, End, Junk, Junk>>,
                      <<Deleted, A, Deleted, Deleted, Other, End, Junk, Junk>>,
                      <<A, Deleted, Deleted, End, Junk, Junk, Junk, End>>}}
=============================================================================
