----------------------------- MODULE MCKeyboard -----------------------------
\* Keyboard for TLC: every key of both keyboards one at a time, a few together.
EXTENDS Keyboard

\* The letters are all alike in the tables, but for their characters with FCTN.
MCCaps ==
  (Mods \cup DOMAIN keymap_ps2 \cup DOMAIN keymap_mk1 \cup DOMAIN keymap_mk1_pseudo
   \cup DOMAIN keymap_mk1_pseudo_shift) \ (Letters \ {"A", "S"})
=============================================================================
