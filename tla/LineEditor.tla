----------------------------- MODULE LineEditor -----------------------------
(***************************************************************************)
(* What the input of a name in the menu promises: a line of text with a    *)
(* place in it where characters come in and go out. TextInput implements   *)
(* it in a window that is narrower than the line.                          *)
(***************************************************************************)
EXTENDS Integers, Sequences

CONSTANTS Chars, Limit  \* characters, and how many a line takes

VARIABLES text, pos

Init == text = <<>> /\ pos = 0

Clear == text' = <<>> /\ pos' = 0
Right == pos < Len(text) /\ pos' = pos + 1 /\ text' = text
Left == pos > 0 /\ pos' = pos - 1 /\ text' = text

Insert(c) ==
  /\ Len(text) < Limit
  /\ text' = SubSeq(text, 1, pos) \o <<c>> \o SubSeq(text, pos + 1, Len(text))
  /\ pos' = pos + 1

Erase ==
  /\ pos > 0
  /\ text' = SubSeq(text, 1, pos - 1) \o SubSeq(text, pos + 1, Len(text))
  /\ pos' = pos - 1

Next == Clear \/ Right \/ Left \/ Erase \/ \E c \in Chars : Insert(c)

Spec == Init /\ [][Next]_<<text, pos>>
=============================================================================
