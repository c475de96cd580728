----------------------------- MODULE MenuPages -----------------------------
(***************************************************************************)
(* What the keyboard knows of the menu: how many pages are open, one upon  *)
(* the other, and how many more or fewer a key leaves. Menu implements     *)
(* this specification; Keyboard is built on it.                            *)
(***************************************************************************)
EXTENDS Integers

CONSTANT Deepest  \* pages that can be open

VARIABLE level    \* pages that are open

Init == level = 0

\* menu_open, of which a second one is without effect.
Opened(n) == IF n = 0 THEN 1 ELSE n

\* What menu_key may make of the pages, with each character.
After(n, key) ==
  CASE key = "esc" -> {IF n = 0 THEN 0 ELSE n - 1}
    [] key = "enter" /\ n > 0 -> {n - 1, n, n + 1} \cap 0..Deepest
    [] OTHER -> {n}

Open == level' = Opened(level)
Key(key) == level' \in After(level, key)
Next == Open \/ \E key \in {"esc", "enter", "other"} : Key(key)

Spec == Init /\ [][Next]_level
=============================================================================
