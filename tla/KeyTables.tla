----------------------------- MODULE KeyTables -----------------------------
(***************************************************************************)
(* The key tables of keyboard.c. Keys go by what is printed on them, keys  *)
(* of the TI by the same with the modifier held (a pair); control codes    *)
(* that the firmware gives keys have names. Upper and lower case of a      *)
(* letter are the same character here.                                     *)
(***************************************************************************)
EXTENDS Naturals, Sequences, TLC

Letters == {"A", "B", "C", "D", "E", "F", "G", "H", "I", "J", "K", "L", "M",
            "N", "O", "P", "Q", "R", "S", "T", "U", "V", "W", "X", "Y", "Z"}
Digits == {"0", "1", "2", "3", "4", "5", "6", "7", "8", "9"}

None == ""  \* the 0 of a table

At(table, k) == IF k \in DOMAIN table THEN table[k] ELSE None

\* Control codes 3 to 7.
Arrows == {"help", "up", "down", "right", "left"}

Own(keys) == [k \in keys |-> k]

Moves == "UP" :> "up" @@ "DOWN" :> "down" @@ "RIGHT" :> "right" @@ "LEFT" :> "left"

keymap_ps2 ==
  Own(Letters \cup Digits \cup {"=", "/", ";", ",", ".", " "}) @@ Moves
  @@ "RETURN" :> "enter" @@ "BACKSPACE" :> "back" @@ "ESC" :> "esc"
  @@ "grave" :> "menu" @@ "SYSRQ" :> "console"

keymap_mk1 ==
  Own(Letters \cup Digits \cup {",", ".", " "}) @@ Moves
  @@ "+" :> "=" @@ "@" :> "/" @@ ":" :> ";" @@ "RETURN" :> "enter"
  @@ "HELP" :> "help" @@ "DEL" :> "back" @@ "TAB" :> "tab"
  @@ "STOP" :> "esc" @@ "ESC" :> "esc" @@ "<-" :> "menu" @@ "ALT" :> "console"

----------------------------------------------------------------------------
(* The keys of the TI that stand for a key of the MEGA65.                   *)

Plain(k) == <<k, None>>
Shift(k) == <<k, "SHIFT">>
Fctn(k) == <<k, "FCTN">>

keymap_mk1_pseudo ==
  [k \in Letters \cup Digits \cup {";", "=", "/", ",", ".", " "} |-> Plain(k)]
  @@ "RETURN" :> Plain("enter") @@ "STOP" :> Fctn("4") @@ "ESC" :> Fctn("9")
  @@ "+" :> Shift("=") @@ "-" :> Shift("/") @@ "pound" :> Fctn("Z")
  @@ "HOME" :> Fctn("5") @@ "DEL" :> Fctn("1") @@ "RESTORE" :> Fctn("8")
  @@ "@" :> Shift("2") @@ "*" :> Shift("8") @@ "^" :> Shift("6") @@ ":" :> Shift(";")

keymap_mk1_pseudo_shift ==
  [k \in Letters \cup {"1", "3", "4", "5", ",", ".", " "} |-> Shift(k)]
  @@ "STOP" :> Fctn("6") @@ "2" :> Fctn("P") @@ "6" :> Shift("7") @@ "7" :> Fctn("O")
  @@ "8" :> Shift("9") @@ "9" :> Shift("0") @@ "0" :> Plain("0")
  @@ "+" :> Shift("=") @@ "-" :> Shift("/") @@ "pound" :> Fctn("Z")
  @@ "HOME" :> Fctn("3") @@ "DEL" :> Fctn("2") @@ "@" :> Shift("2")
  @@ "*" :> Shift("8") @@ "^" :> Shift("6") @@ ":" :> Fctn("R") @@ ";" :> Fctn("T")
  @@ "=" :> Plain("=") @@ "RETURN" :> Shift("enter") @@ "/" :> Fctn("I")

keymap_mk1_pseudo_fctn ==
  [k \in Letters \cup Digits \cup {" "} |-> Fctn(k)]
  @@ "<-" :> Fctn("C") @@ "+" :> Fctn("=") @@ ":" :> Fctn("F") @@ ";" :> Fctn("G")
  @@ "=" :> Fctn("U") @@ "RETURN" :> Fctn("enter") @@ "," :> Fctn("W")
  @@ "." :> Fctn("A") @@ "/" :> Fctn("Z")

\* The characters of a key of the TI are its name.
keymap_ti == Own(Letters \cup Digits \cup {"=", "/", ";", "enter", ",", ".", " "})

arrow_keys ==
  "help" :> "7" @@ "up" :> "E" @@ "down" :> "X" @@ "right" :> "D" @@ "left" :> "S"

----------------------------------------------------------------------------
(* Characters under a modifier.                                             *)

fctn_chars ==
  "W" :> "~" @@ "E" :> "up" @@ "R" :> "[" @@ "T" :> "]" @@ "U" :> "_" @@ "I" :> "?"
  @@ "O" :> "'" @@ "P" :> "\"" @@ "A" :> "|" @@ "S" :> "left" @@ "D" :> "right"
  @@ "F" :> "{" @@ "G" :> "}" @@ "Z" :> "\\" @@ "X" :> "down" @@ "C" :> "grave"
  @@ "1" :> "back" @@ "9" :> "esc"

shift_chars ==
  "," :> "<" @@ "-" :> "-" @@ "." :> ">" @@ "/" :> "-" @@ "0" :> ")" @@ "1" :> "!"
  @@ "2" :> "@" @@ "3" :> "#" @@ "4" :> "$" @@ "5" :> "%" @@ "6" :> "^" @@ "7" :> "&"
  @@ "8" :> "*" @@ "9" :> "(" @@ ":" :> ":" @@ ";" :> ":" @@ "=" :> "+"

ApplyShift(key, mod) ==
  IF mod = "FCTN" THEN At(fctn_chars, key)
  ELSE IF mod = "SHIFT" /\ key \in DOMAIN shift_chars THEN shift_chars[key]
  ELSE key

NoKey == <<None, None>>

\* (a defect: the table of shifted keys is left out)
RemapPlain(model, key, cap, mod) ==
  IF key \in Arrows THEN Fctn(arrow_keys[key])
  ELSE LET keymap == IF mod = "FCTN" THEN keymap_mk1_pseudo_fctn ELSE keymap_mk1_pseudo
       IN  IF model = "mk1" /\ cap \in DOMAIN keymap THEN keymap[cap] ELSE NoKey

\* What do_pseudokey makes of a key.
Remap(model, key, cap, mod) ==
  IF key \in Arrows THEN Fctn(arrow_keys[key])
  ELSE LET keymap == CASE mod = "FCTN" -> keymap_mk1_pseudo_fctn
                       [] mod = "SHIFT" -> keymap_mk1_pseudo_shift
                       [] OTHER -> keymap_mk1_pseudo
       IN  IF model = "mk1" /\ cap \in DOMAIN keymap THEN keymap[cap] ELSE NoKey

----------------------------------------------------------------------------
(* What is printed on the keys, and what README.md says about the others.   *)

Symbols == {"+", "-", "@", "*", ":", ";", "=", "/", ",", ".", "^"}

\* The keys with a symbol, and the character on the keycap.
PlainLegend == Own(Letters \cup Digits \cup Symbols) @@ "pound" :> "\\"

ShiftLegend ==
  Own(Letters) @@ "1" :> "!" @@ "2" :> "\"" @@ "3" :> "#" @@ "4" :> "$" @@ "5" :> "%"
  @@ "6" :> "&" @@ "7" :> "'" @@ "8" :> "(" @@ "9" :> ")" @@ ":" :> "[" @@ ";" :> "]"
  @@ "," :> "<" @@ "." :> ">" @@ "/" :> "?"

FctnLegend ==
  "," :> "~" @@ "." :> "|" @@ ":" :> "{" @@ ";" :> "}" @@ "=" :> "_" @@ "/" :> "\\"

Legend(mod) ==
  CASE mod = "FCTN" -> FctnLegend
    [] mod = "SHIFT" -> ShiftLegend
    [] OTHER -> PlainLegend

\* The keys without one, and the key of the TI that README.md names.
PlainNamed ==
  "DEL" :> Fctn("1") @@ "STOP" :> Fctn("4") @@ "HOME" :> Fctn("5") @@ "HELP" :> Fctn("7")
  @@ "RESTORE" :> Fctn("8") @@ "ESC" :> Fctn("9") @@ "UP" :> Fctn("E")
  @@ "LEFT" :> Fctn("S") @@ "RIGHT" :> Fctn("D") @@ "DOWN" :> Fctn("X")

ShiftNamed == "DEL" :> Fctn("2") @@ "HOME" :> Fctn("3") @@ "STOP" :> Fctn("6")

Named(mod) ==
  CASE mod = "FCTN" -> <<>>
    [] mod = "SHIFT" -> ShiftNamed
    [] OTHER -> PlainNamed
=============================================================================
