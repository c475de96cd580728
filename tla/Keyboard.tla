------------------------------ MODULE Keyboard ------------------------------
(***************************************************************************)
(* The keys of the machine on their way to the TI and to the menu: the key *)
(* matrix and the FIFO of key events (keyboard_mk1.v, keyboard_ps2.v,      *)
(* spmmio_keyboard.v), keyboard_task with its pseudokeys (keyboard.c), and *)
(* the multiplexer through which the TI reads its keyboard (keymatrix.v).  *)
(* The menu is what MenuPages says of it. CTRL, which goes along with a    *)
(* synthetic key and keeps a character from the menu, is only the latter   *)
(* here; CAPS LOCK and the joysticks have lines of their own.              *)
(***************************************************************************)
EXTENDS KeyTables, FiniteSets

CONSTANTS
  Models,     \* keyboard_model: "ps2", "mk1"
  Caps,       \* keys of the keyboard
  Depth,      \* fifo_depth
  Chord,      \* bound: keys that may be down together, or while events wait
  MaxLost,    \* bound: keys whose release is lost at a time
  MaxDown,    \* bound: keys that are down at once
  Deepest     \* pages of the menu that can be open

Mods == {"SHIFT", "FCTN", "CTRL"}

ASSUME KeyboardAssumption ==
  /\ Models \subseteq {"ps2", "mk1"} /\ Mods \subseteq Caps /\ Chord \subseteq Caps
  /\ None \notin Caps
  /\ Depth \in Nat \ {0} /\ MaxDown \in Nat /\ MaxLost \in Nat /\ Deepest \in Nat \ {0}

VARIABLES
  model, down, last,  \* the keyboard: keys that are down, the one that repeats
  fifo, lost,         \* events for the firmware; keys whose release never got there
  block, synth,       \* registers: keyboard_block; the synthetic key
  matrix,             \* key_state: keys that the TI sees when there is no synthetic one
  column0, active, valid,  \* keymatrix.v: what is selected, synth_keys_active, synth_keys_valid
  seen,               \* the TI: the modifier it saw in this scan
  pseudokey_active, pseudokey_mode, level  \* the firmware

hardware == <<model, down, last, matrix>>
mux == <<column0, active, valid, seen>>
firmware == <<block, pseudokey_active, pseudokey_mode, level>>
vars == <<hardware, fifo, lost, synth, mux, firmware>>

Pages == INSTANCE MenuPages

Init ==
  /\ model \in Models /\ down = {} /\ last = None /\ matrix = {}
  /\ fifo = <<>> /\ lost = {} /\ block = FALSE /\ synth = NoKey
  /\ column0 = FALSE /\ active = FALSE /\ valid = FALSE /\ seen = "unread"
  /\ pseudokey_active = None /\ pseudokey_mode = 0 /\ level = 0

----------------------------------------------------------------------------
(* The keyboard and the FIFO.                                               *)

Mod(keys) ==
  CASE "FCTN" \in keys -> "FCTN" [] "SHIFT" \in keys -> "SHIFT"
    [] "CTRL" \in keys -> "CTRL" [] OTHER -> None

Event(cap, isup, keys) == [cap |-> cap, isup |-> isup, mod |-> Mod(keys)]

\* An event that comes when the FIFO is full, or in the clock of a read that
\* finds it empty, is dropped. Bound: it is one of a chord.
Put(ev) ==
  \/ Len(fifo) < Depth /\ fifo' = Append(fifo, ev)
  \/ Len(fifo) \in {0, Depth} /\ ev.cap \in Chord /\ fifo' = fifo

\* The keys that have a place in the TI's matrix.
HwKeys == DOMAIN keymap_ti \cup {"+", "@", ":", "RETURN"} \cup Mods

Registered(k) == IF block \/ k \notin HwKeys THEN matrix ELSE matrix \cup {k}

\* Bound: only the keys of a chord overlap, and follow upon a lost release.
Alone(k) ==
  \/ fifo = <<>> /\ lost = {} /\ down \subseteq Mods
  \/ \A c \in {k} \cup down \cup {fifo[i].cap : i \in DOMAIN fifo} : c \in Chord

Press(k) ==
  /\ k \notin down /\ Cardinality(down) < MaxDown /\ Alone(k)
  /\ k \in Mods => down \cap Mods = {}  \* bound: one modifier at a time
  /\ down' = down \cup {k} /\ last' = k
  /\ matrix' = Registered(k)
  /\ Put(Event(k, FALSE, down \cup {k}))
  /\ lost' = lost \ {k}
  /\ UNCHANGED <<model, synth, mux, firmware>>

Release(k) ==
  /\ k \in down
  /\ down' = down \ {k} /\ matrix' = matrix \ {k}
  /\ last' = IF last = k THEN None ELSE last
  /\ Put(Event(k, TRUE, down \ {k}))
  /\ lost' = IF Len(fifo') > Len(fifo) THEN lost ELSE lost \cup {k}
  /\ Cardinality(lost') <= MaxLost
  /\ UNCHANGED <<model, synth, mux, firmware>>

Repeat ==
  /\ last # None /\ Alone(last)
  /\ matrix' = Registered(last)
  /\ Put(Event(last, FALSE, down))
  /\ UNCHANGED <<model, down, last, lost, synth, mux, firmware>>

\* The MEGA65's keyboard tells of every key that is down again and again.
Rescan(k) ==
  /\ model = "mk1" /\ k \in down /\ matrix' = Registered(k)
  /\ UNCHANGED <<model, down, last, fifo, lost, synth, mux, firmware>>

----------------------------------------------------------------------------
(* The multiplexer.                                                         *)

Enabled == synth # NoKey
Unread == "unread"

\* (a defect: the key shows at once, in the middle of a scan)
SetSynthShown(key) ==
  synth' = key /\ valid' = (key # NoKey) /\ UNCHANGED <<active, column0, seen>>

\* The two registers are written one after the other, which takes the key away for
\* some clocks; the TI is far slower.
SetSynth(key) ==
  /\ synth' = key
  /\ valid' = FALSE
  /\ active' = IF column0 THEN key # NoKey ELSE active
  /\ UNCHANGED <<column0, seen>>

\* The TI comes round to the first column, where it reads the modifiers.
\* Bound: the TI goes on when no event waits, with the keys of a chord.
Scanning == fifo = <<>> /\ down \subseteq Chord

FirstColumn ==
  /\ Scanning /\ ~column0
  /\ column0' = TRUE
  /\ active' = Enabled
  /\ valid' = (Enabled /\ (valid \/ active))
  /\ seen' = Unread
  /\ UNCHANGED <<hardware, fifo, lost, synth, firmware>>

ReadModifiers ==
  /\ Scanning /\ column0
  /\ seen' = IF active THEN synth[2] ELSE Mod(matrix)
  /\ UNCHANGED <<hardware, fifo, lost, synth, column0, active, valid, firmware>>

OtherColumn ==
  /\ Scanning /\ column0 /\ column0' = FALSE
  /\ UNCHANGED <<hardware, fifo, lost, synth, active, valid, seen, firmware>>

----------------------------------------------------------------------------
(* keyboard_task.                                                           *)

Base(k) == At(IF model = "ps2" THEN keymap_ps2 ELSE keymap_mk1, k)

\* (a defect: it does not matter whether the menu is open)
SendsAnyhow(key, mod) == pseudokey_mode = 1 \/ (key \in Arrows /\ mod # "FCTN")

\* Does the key go to the TI as a synthetic one?
Sends(key, mod) == pseudokey_mode = 1 \/ (key \in Arrows /\ ~block /\ mod # "FCTN")

\* do_pseudokey's character, and menu_key's.
Character(key, ti) ==
  LET new == IF ti = NoKey THEN None ELSE ApplyShift(At(keymap_ti, ti[1]), ti[2])
  IN  IF new = None THEN key ELSE new

Given(ev) ==
  LET key == ApplyShift(Base(ev.cap), ev.mod)
      ti == Remap(model, key, ev.cap, ev.mod)
  IN  IF Sends(key, ev.mod) \/ pseudokey_mode # 0 THEN Character(key, ti) ELSE key

\* (a defect: closing the menu lets the keys through, whatever the mode)
BlockedOnce(n) ==
  /\ block' = (n # 0)
  /\ pseudokey_mode' = IF pseudokey_mode = 0 THEN 0 ELSE IF n # 0 THEN 2 ELSE 1

\* keyboard_block when the menu opens, keyboard_unblock when it closes.
Blocked(n) ==
  \/ n # 0 /\ level = 0 /\ IF pseudokey_mode # 0 THEN pseudokey_mode' = 2 /\ block' = block
                                                 ELSE pseudokey_mode' = 0 /\ block' = TRUE
  \/ n = 0 /\ level # 0 /\ IF pseudokey_mode # 0 THEN pseudokey_mode' = 1 /\ block' = block
                                                 ELSE pseudokey_mode' = 0 /\ block' = FALSE
  \/ (n = 0 <=> level = 0) /\ UNCHANGED <<pseudokey_mode, block>>

\* menu_open and menu_close block and unblock keys.
ToMenu(c, mod) ==
  /\ IF c = None \/ mod = "CTRL" \/ c = "console" THEN level' = level
     ELSE IF c = "menu" THEN level' = Pages!Opened(level)
     ELSE level' \in Pages!After(level, c)
  /\ Blocked(level')

\* (a defect: the synthetic key stays)
ToggleOnly ==
  /\ pseudokey_active' = IF pseudokey_mode # 0 THEN None ELSE pseudokey_active
  /\ pseudokey_mode' = IF pseudokey_mode # 0 THEN 0 ELSE IF block THEN 2 ELSE 1
  /\ block' = (pseudokey_mode # 1)
  /\ UNCHANGED <<mux, synth>>

Toggle ==
  IF pseudokey_mode # 0
  THEN /\ SetSynth(NoKey) /\ pseudokey_active' = None
       /\ block' = (block /\ pseudokey_mode # 1)
       /\ pseudokey_mode' = 0
  ELSE /\ pseudokey_mode' = IF block THEN 2 ELSE 1
       /\ block' = TRUE
       /\ UNCHANGED <<mux, synth, pseudokey_active>>

Up(ev) ==
  IF pseudokey_active = ev.cap
  THEN SetSynth(NoKey) /\ pseudokey_active' = None
  ELSE UNCHANGED <<mux, synth, pseudokey_active>>

Send(ti, ev) ==
  IF ti = NoKey \/ pseudokey_active = ev.cap
  THEN UNCHANGED <<mux, synth, pseudokey_active>>
  ELSE SetSynth(ti) /\ pseudokey_active' = ev.cap

Down(ev) ==
  LET key == ApplyShift(Base(ev.cap), ev.mod)
  IN  IF Base(ev.cap) = "tab" THEN Toggle /\ level' = level
      ELSE /\ IF Sends(key, ev.mod) THEN Send(Remap(model, key, ev.cap, ev.mod), ev)
              ELSE pseudokey_active' = ev.cap /\ UNCHANGED <<mux, synth>>
           /\ ToMenu(Given(ev), ev.mod)

Task ==
  /\ fifo # <<>>
  /\ fifo' = Tail(fifo)
  /\ LET ev == Head(fifo)
     IN  IF ev.isup THEN Up(ev) /\ UNCHANGED <<block, pseudokey_mode, level>> ELSE Down(ev)
  /\ UNCHANGED <<hardware, lost>>

Next ==
  \/ \E k \in Caps : Press(k) \/ Release(k) \/ Rescan(k)
  \/ Repeat \/ FirstColumn \/ ReadModifiers \/ OtherColumn \/ Task

Spec == Init /\ [][Next]_vars

----------------------------------------------------------------------------
(* Properties.                                                              *)

\* The states that the module is about.
TypeOK ==
  /\ model \in Models /\ down \subseteq Caps /\ last \in Caps \cup {None}
  /\ fifo \in Seq([cap : Caps, isup : BOOLEAN, mod : Mods \cup {None}]) /\ Len(fifo) <= Depth
  /\ lost \subseteq Caps /\ block \in BOOLEAN /\ matrix \subseteq Caps
  /\ column0 \in BOOLEAN /\ active \in BOOLEAN /\ valid \in BOOLEAN
  /\ pseudokey_active \in Caps \cup {None} /\ pseudokey_mode \in 0..2
  /\ level \in 0..Deepest

\* keyboard_block, keyboard_unblock and toggle_pseudokeys (keyboard.c:384-418) share
\* one register and one mode between the menu and the pseudokeys, in any order of
\* opening, closing and TAB: the keyboard is shut off exactly while one of them
\* wants it, and the mode knows of the menu.
BlockedWhenNeeded ==
  /\ block <=> (level # 0 \/ pseudokey_mode # 0)
  /\ pseudokey_mode # 0 => (pseudokey_mode = 2 <=> level # 0)

Releases(k) == {i \in DOMAIN fifo : fifo[i] .cap = k /\ fifo[i].isup}

\* A synthetic key does not get stuck (keyboard.c:453-520): the release that takes
\* it away is still to come, as its key, or the one that took its place, is down
\* or its release is queued; unless that very event was dropped by the FIFO.
LetsGo ==
  synth # NoKey =>
    /\ pseudokey_active # None
    /\ pseudokey_active \in down \cup lost \/ Releases(pseudokey_active) # {}

\* The TI sees a synthetic key only in a scan in which it saw its modifier
\* (keymatrix.v:37-46), however the firmware's writes fall into the scan.
WithItsModifier == active /\ valid /\ ~column0 => seen \in {synth[2], Unread}

\* No key that is pressed while the menu is open reaches the TI.
MenuKeepsKeys ==
  [][level # 0 /\ level' # 0 => /\ matrix' \subseteq matrix
                                /\ synth' \in {synth, NoKey}]_<<matrix, synth, level>>

\* A key event, which is not a repetition, that keyboard_task takes.
Takes(ev) == fifo # <<>> /\ ev = Head(fifo) /\ ~ev.isup /\ pseudokey_active # ev.cap

\* In pseudokeys mode the TI gets the key that types the symbol on the keycap, or
\* that README.md names (README.md:89-122), and the menu gets the same character.
TypesItsLegend ==
  [][model = "mk1" /\ Task =>
       LET ev == Head(fifo)
           legend == Legend(ev.mod)
           named == Named(ev.mod)
       IN  /\ pseudokey_mode = 1 /\ Takes(ev) /\ ev.cap \in DOMAIN legend =>
                ApplyShift(synth'[1], synth'[2]) = legend[ev.cap]
           /\ pseudokey_mode = 1 /\ Takes(ev) /\ ev.cap \in DOMAIN named =>
                synth' = named[ev.cap]
           /\ pseudokey_mode = 2 /\ Takes(ev) /\ ev.cap \in DOMAIN legend =>
                Given(ev) = legend[ev.cap]]_<<fifo, synth>>
=============================================================================
