------------------------------ MODULE MCCards ------------------------------
\* The cards at hand: one with its FAT in a partition, a protected one of
\* high capacity, and one without a file system.
EXTENDS Cards, TLC

CONSTANTS c1, c2, c3, h1, h2

MCKind == (c1 :> [fs |-> "part", hc |-> FALSE, wp |-> FALSE])
          @@ (c2 :> [fs |-> "fat", hc |-> TRUE, wp |-> TRUE])
          @@ (c3 :> [fs |-> "none", hc |-> FALSE, wp |-> FALSE])

HandleSymmetry == Permutations({h1, h2})
=============================================================================
