----------------------------- MODULE TextInput -----------------------------
(***************************************************************************)
(* The input of a name (menu.c): a buffer, of which the window shows a     *)
(* part, moved by Step columns when the cursor leaves it. The cursor is a  *)
(* cell of the window in reverse; its place in the buffer is only known    *)
(* from the column and the offset of the window.                           *)
(***************************************************************************)
EXTENDS Integers, Sequences, FiniteSetsExt

CONSTANTS
  Chars, Refused,  \* characters of the keyboard, and those a name cannot have
  Blank,
  Columns,         \* current_w: the window with its two borders
  Step,
  Limit            \* sizeof(textinput_buffer)-1

ASSUME TextInputAssumption ==
  /\ Blank \in Chars \ Refused
  /\ Limit \in Nat /\ Step \in Nat \ {0} /\ Columns \in Nat /\ Step < Columns - 1

VARIABLES
  typed,     \* textinput_buffer, textinput_cnt characters of it
  offs,      \* textinput_offs
  cursor_x,
  cells,     \* the characters in the window
  inverse,   \* the cells in reverse
  arrows     \* whether the borders tell of text to the left, and to the right

inputvars == <<typed, offs, cursor_x, cells, inverse, arrows>>

Line == 1..Columns - 2
input_pos == offs + cursor_x - 1

Empty ==
  /\ typed = <<>> /\ offs = 0 /\ cursor_x = 1
  /\ cells = [x \in Line |-> Blank] /\ inverse = {} /\ arrows = <<FALSE, FALSE>>

\* menu_text_input with menu_textinput_draw.
Begin ==
  /\ typed' = <<>> /\ offs' = 0 /\ cursor_x' = 1
  /\ cells' = [x \in Line |-> Blank] /\ inverse' = {1} /\ arrows' = <<FALSE, FALSE>>

\* overlay_window_toggle_cursor.
Toggled(cs, x) == IF x \in cs THEN cs \ {x} ELSE cs \cup {x}

\* menu_textinput_redraw leaves no cell in reverse; the cursor is drawn after it.
Redraw(text, o, x) ==
  /\ typed' = text /\ offs' = o /\ cursor_x' = x
  /\ cells' = [i \in Line |-> IF o + i <= Len(text) THEN text[o + i] ELSE Blank]
  /\ arrows' = <<o # 0, o + Columns - 2 < Len(text)>>
  /\ inverse' = {x}

MoveTo(x) ==
  /\ cursor_x' = x /\ inverse' = Toggled(Toggled(inverse, cursor_x), x)
  /\ UNCHANGED <<typed, offs, cells, arrows>>

Right ==
  /\ input_pos < Len(typed)
  /\ IF cursor_x + 1 < Columns - 1 THEN MoveTo(cursor_x + 1)
     ELSE Redraw(typed, offs + Step, Columns - 1 - Step)

Left ==
  /\ input_pos > 0
  /\ IF cursor_x > 1 THEN MoveTo(cursor_x - 1) ELSE Redraw(typed, offs - Step, Step)

Without(text, i) == SubSeq(text, 1, i - 1) \o SubSeq(text, i + 1, Len(text))

\* (a defect: the window does not move when the cursor leaves it)
BackspaceInside ==
  /\ input_pos > 0
  /\ Redraw(Without(typed, input_pos), offs, IF cursor_x > 1 THEN cursor_x - 1 ELSE 1)

Backspace ==
  /\ input_pos > 0
  /\ IF cursor_x > 1 THEN Redraw(Without(typed, input_pos), offs, cursor_x - 1)
     ELSE Redraw(Without(typed, input_pos), offs - Step, Step)

\* A character at the end of the text is put into the window, without a redraw.
Put(key, text) ==
  IF input_pos < Len(typed) THEN Redraw(text, offs, cursor_x + 1)
  ELSE /\ typed' = text /\ cursor_x' = cursor_x + 1
       /\ cells' = [cells EXCEPT ![cursor_x] = key]
       /\ inverse' = Toggled(inverse \ {cursor_x}, cursor_x + 1)
       /\ UNCHANGED <<offs, arrows>>

Type(key) ==
  /\ key \notin Refused /\ Len(typed) < Limit
  /\ LET text == SubSeq(typed, 1, input_pos) \o <<key>> \o SubSeq(typed, input_pos + 1, Len(typed))
     IN  IF cursor_x + 1 < Columns - 1 THEN Put(key, text)
         ELSE Redraw(text, offs + Step, Columns - 1 - Step)

\* The text without the blanks at its end.
Trimmed == SubSeq(typed, 1, Max({0} \cup {i \in DOMAIN typed : typed[i] # Blank}))

\* menu_textinput_key, with all keys but Enter.
InputKey(key) ==
  CASE key = "right" -> Right \/ (input_pos >= Len(typed) /\ UNCHANGED inputvars)
    [] key = "left" -> Left \/ (input_pos = 0 /\ UNCHANGED inputvars)
    [] key = "backspace" -> Backspace \/ (input_pos = 0 /\ UNCHANGED inputvars)
    [] key \in Chars -> \/ Type(key)
                        \/ (key \in Refused \/ Len(typed) >= Limit) /\ UNCHANGED inputvars
    [] OTHER -> UNCHANGED inputvars
=============================================================================
