------------------------------ MODULE NameSet ------------------------------
(***************************************************************************)
(* What a directory promises its callers: a set of names, to which saving  *)
(* a file adds its own. Nothing a save does, and no failure of it, makes   *)
(* another name disappear. FatDirectory implements this specification.     *)
(***************************************************************************)
CONSTANT Names
VARIABLE names

Init == names \subseteq Names

Add(n) == names' = names \cup {n}

Next == \E n \in Names : Add(n)

Spec == Init /\ [][Next]_names
=============================================================================
