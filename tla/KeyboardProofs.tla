--------------------------- MODULE KeyboardProofs ---------------------------
(***************************************************************************)
(* For any keys, any depth of the FIFO and any number of pages of the      *)
(* menu: the keyboard is shut off just when it should be, so no key leaks  *)
(* to the TI while the menu is open; a synthetic key comes with its        *)
(* modifier and is let go.                                                 *)
(***************************************************************************)
EXTENDS Keyboard, SequenceTheorems, TLAPS

\* The actions that are not keyboard_task leave its variables as they are.
LEMMA OnlyTask ==
  ASSUME Next, ~Task
  PROVE  UNCHANGED <<firmware, synth>>
<1>1. ASSUME NEW k \in Caps, Press(k) \/ Release(k) \/ Rescan(k)
      PROVE  UNCHANGED <<firmware, synth>>
  BY <1>1 DEF Press, Release, Rescan
<1>2. CASE Repeat \/ FirstColumn \/ ReadModifiers \/ OtherColumn
  BY <1>2 DEF Repeat, FirstColumn, ReadModifiers, OtherColumn
<1> QED
  BY <1>1, <1>2 DEF Next

\* An event of a key that is pressed or repeats either toggles the pseudokeys, or
\* is passed on, and the menu may open or close; that of a release does neither.
LEMMA TaskCases ==
  ASSUME Task
  PROVE  LET ev == Head(fifo)
         IN  /\ fifo # <<>> /\ fifo' = Tail(fifo) /\ UNCHANGED <<hardware, lost>>
             /\ \/ ev.isup /\ Up(ev) /\ UNCHANGED <<block, pseudokey_mode, level>>
                \/ ~ev.isup /\ Toggle /\ level' = level
                \/ /\ ~ev.isup /\ Blocked(level')
                   /\ \/ Sends(ApplyShift(Base(ev.cap), ev.mod), ev.mod)
                         /\ \E ti : Send(ti, ev)
                      \/ pseudokey_active' = ev.cap /\ UNCHANGED <<mux, synth>>
<1> DEFINE ev == Head(fifo)
<1>1. /\ fifo # <<>> /\ fifo' = Tail(fifo) /\ UNCHANGED <<hardware, lost>>
      /\ IF ev.isup THEN Up(ev) /\ UNCHANGED <<block, pseudokey_mode, level>> ELSE Down(ev)
  BY DEF Task
<1>2. CASE ev.isup
  BY <1>1, <1>2
<1>3. CASE ~ev.isup
  <2>1. Down(ev)
    BY <1>1, <1>3
  <2>2. CASE Base(ev.cap) = "tab"
    BY <1>1, <1>3, <2>1, <2>2 DEF Down
  <2>3. CASE Base(ev.cap) # "tab"
    <3>1. /\ IF Sends(ApplyShift(Base(ev.cap), ev.mod), ev.mod)
             THEN Send(Remap(model, ApplyShift(Base(ev.cap), ev.mod), ev.cap, ev.mod), ev)
             ELSE pseudokey_active' = ev.cap /\ UNCHANGED <<mux, synth>>
          /\ ToMenu(Given(ev), ev.mod)
      BY <2>1, <2>3 DEF Down
    <3>2. Blocked(level')
      BY <3>1 DEF ToMenu
    <3> QED
      BY <1>1, <1>3, <3>1, <3>2
  <2> QED
    BY <2>2, <2>3
<1> QED
  BY <1>2, <1>3

----------------------------------------------------------------------------
(* The keyboard's register and the mode.                                    *)

ModeInv == pseudokey_mode \in {0, 1, 2} /\ block \in BOOLEAN /\ BlockedWhenNeeded

LEMMA ModeStart == Init => ModeInv
  BY DEF Init, ModeInv, BlockedWhenNeeded

LEMMA ModeStep == ModeInv /\ [Next]_vars => ModeInv'
<1> SUFFICES ASSUME ModeInv, [Next]_vars
             PROVE  ModeInv'
  OBVIOUS
<1> USE DEF ModeInv, BlockedWhenNeeded
<1>1. CASE UNCHANGED <<block, pseudokey_mode, level>>
  BY <1>1
<1>2. CASE Task
  <2>1. ASSUME Toggle, level' = level
        PROVE  ModeInv'
    <3>1. CASE pseudokey_mode = 0
      <4>1. pseudokey_mode' = (IF block THEN 2 ELSE 1) /\ block' = TRUE
        BY <2>1, <3>1 DEF Toggle
      <4> QED
        BY <2>1, <3>1, <4>1
    <3>2. CASE pseudokey_mode # 0
      <4>1. pseudokey_mode' = 0 /\ block' = (block /\ pseudokey_mode # 1)
        BY <2>1, <3>2, Zenon DEF Toggle
      <4>2. block /\ (pseudokey_mode # 1 <=> level # 0)
        BY <3>2
      <4>3. block' \in BOOLEAN /\ (block' <=> level' # 0)
        BY <2>1, <4>1, <4>2
      <4> QED
        BY <4>1, <4>3
    <3> QED
      BY <3>1, <3>2
  <2>2. ASSUME Blocked(level')
        PROVE  ModeInv'
    <3>1. CASE level' # 0 /\ level = 0
      <4>1. IF pseudokey_mode # 0 THEN pseudokey_mode' = 2 /\ block' = block
                                  ELSE pseudokey_mode' = 0 /\ block' = TRUE
        BY <2>2, <3>1, Zenon DEF Blocked
      <4> QED
        BY <3>1, <4>1
    <3>2. CASE level' = 0 /\ level # 0
      <4>1. IF pseudokey_mode # 0 THEN pseudokey_mode' = 1 /\ block' = block
                                  ELSE pseudokey_mode' = 0 /\ block' = FALSE
        BY <2>2, <3>2, Zenon DEF Blocked
      <4>2. CASE pseudokey_mode # 0
        <5>1. pseudokey_mode' = 1 /\ block'
          BY <4>1, <4>2
        <5> QED
          BY <3>2, <5>1
      <4>3. CASE pseudokey_mode = 0
        <5>1. pseudokey_mode' = 0 /\ ~block' /\ block' \in BOOLEAN
          BY <4>1, <4>3
        <5> QED
          BY <3>2, <5>1
      <4> QED
        BY <4>2, <4>3
    <3>3. CASE (level' = 0) <=> (level = 0)
      <4>1. pseudokey_mode' = pseudokey_mode /\ block' = block
        BY <2>2, <3>3, Zenon DEF Blocked
      <4> QED
        BY <3>3, <4>1
    <3> QED
      BY <3>1, <3>2, <3>3
  <2> QED
    BY <1>1, <1>2, <2>1, <2>2, TaskCases
<1>3. CASE UNCHANGED vars
  BY <1>1, <1>3 DEF vars, firmware
<1>4. CASE Next /\ ~Task
  BY <1>1, <1>4, OnlyTask DEF firmware
<1> QED
  BY <1>2, <1>3, <1>4

\* keyboard_block, keyboard_unblock and toggle_pseudokeys (keyboard.c:384-418) leave
\* the keyboard shut off exactly while the menu or the pseudokeys want it.
THEOREM ShutOffWhenNeeded == Spec => []BlockedWhenNeeded
<1>1. ModeInv => BlockedWhenNeeded
  BY DEF ModeInv
<1> QED
  BY <1>1, ModeStart, ModeStep, PTL DEF Spec

\* While the menu is open, the hardware registers no key (keyboard_mk1.v:168,
\* keyboard_ps2.v:86) and do_pseudokey sends none (keyboard.c:458).
LEMMA MenuStep ==
  ModeInv /\ [Next]_vars =>
    [level # 0 /\ level' # 0 => /\ matrix' \subseteq matrix
                                /\ synth' \in {synth, NoKey}]_<<matrix, synth, level>>
<1> SUFFICES ASSUME ModeInv, [Next]_vars, level # 0
             PROVE  matrix' \subseteq matrix /\ synth' \in {synth, NoKey}
  OBVIOUS
<1>1. block /\ pseudokey_mode # 1
  BY DEF ModeInv, BlockedWhenNeeded
<1>2. ASSUME NEW k, matrix' = Registered(k)
      PROVE  matrix' \subseteq matrix
  BY <1>1, <1>2 DEF Registered
<1>3. CASE UNCHANGED vars
  BY <1>3 DEF vars, hardware
<1>4. CASE Task
  <2>1. matrix' = matrix
    BY <1>4, TaskCases DEF hardware
  <2>2. ASSUME NEW ev, Up(ev)
        PROVE  synth' \in {synth, NoKey}
    BY <2>2 DEF Up, SetSynth
  <2>3. ASSUME Toggle
        PROVE  synth' \in {synth, NoKey}
    BY <2>3 DEF Toggle, SetSynth
  <2>4. ~Sends(ApplyShift(Base(Head(fifo).cap), Head(fifo).mod), Head(fifo).mod)
    BY <1>1 DEF Sends
  <2> QED
    BY <1>4, <2>1, <2>2, <2>3, <2>4, TaskCases
<1>5. CASE Next /\ ~Task
  <2>1. synth' = synth
    BY <1>5, OnlyTask
  <2>2. ASSUME NEW k \in Caps, Press(k) \/ Release(k) \/ Rescan(k)
        PROVE  matrix' \subseteq matrix
    BY <1>2, <2>2 DEF Press, Release, Rescan
  <2>3. CASE Repeat \/ FirstColumn \/ ReadModifiers \/ OtherColumn
    BY <1>2, <2>3 DEF Repeat, FirstColumn, ReadModifiers, OtherColumn, hardware
  <2> QED
    BY <1>5, <2>1, <2>2, <2>3 DEF Next
<1> QED
  BY <1>3, <1>4, <1>5

\* No key that is pressed while the menu is open reaches the TI.
THEOREM KeysStayInMenu == Spec => MenuKeepsKeys
  BY ModeStart, ModeStep, MenuStep, PTL DEF Spec, MenuKeepsKeys

----------------------------------------------------------------------------
(* The multiplexer.                                                         *)

\* Whatever column is selected, a key that is shown has the modifier that was read.
MuxInv == active /\ valid => seen \in {synth[2], Unread}

LEMMA MuxStep == MuxInv /\ [Next]_vars => MuxInv'
<1> SUFFICES ASSUME MuxInv, [Next]_vars
             PROVE  MuxInv'
  OBVIOUS
<1> USE DEF MuxInv
<1>1. CASE UNCHANGED <<mux, synth>>
  BY <1>1 DEF mux
<1>2. ASSUME NEW key, SetSynth(key)
      PROVE  MuxInv'
  BY <1>2 DEF SetSynth
<1>3. CASE Task
  <2>1. CASE Toggle
    BY <1>1, <1>2, <2>1 DEF Toggle
  <2>2. ASSUME NEW ev, Up(ev)
        PROVE  MuxInv'
    BY <1>1, <1>2, <2>2 DEF Up
  <2>3. ASSUME NEW ev, NEW ti, Send(ti, ev)
        PROVE  MuxInv'
    BY <1>1, <1>2, <2>3 DEF Send
  <2> QED
    BY <1>1, <1>3, <2>1, <2>2, <2>3, TaskCases
<1>4. ASSUME NEW k \in Caps, Press(k) \/ Release(k) \/ Rescan(k)
      PROVE  MuxInv'
  BY <1>1, <1>4 DEF Press, Release, Rescan
<1>5. CASE Repeat
  BY <1>1, <1>5 DEF Repeat
<1>6. CASE FirstColumn
  BY <1>6 DEF FirstColumn
<1>7. CASE ReadModifiers
  BY <1>7 DEF ReadModifiers
<1>8. CASE OtherColumn
  BY <1>8 DEF OtherColumn
<1>9. CASE UNCHANGED vars
  BY <1>1, <1>9 DEF vars
<1> QED
  BY <1>3, <1>4, <1>5, <1>6, <1>7, <1>8, <1>9 DEF Next

\* However the writes of the synthetic key fall into the TI's scan (keymatrix.v:37-46),
\* the key is seen only along with its modifier.
THEOREM SeenWithModifier == Spec => []WithItsModifier
<1>1. Init => MuxInv
  BY DEF Init, MuxInv
<1>2. MuxInv => WithItsModifier
  BY DEF MuxInv, WithItsModifier
<1> QED
  BY <1>1, <1>2, MuxStep, PTL DEF Spec

----------------------------------------------------------------------------
(* Synthetic keys.                                                          *)

Events == [cap : Caps, isup : BOOLEAN, mod : Mods \cup {None}]

\* The keys whose release is still to come, or comes behind place i of the FIFO.
Owed(i) ==
  down \cup lost \cup {fifo[j].cap : j \in {n \in DOMAIN fifo : n > i /\ fifo[n].isup}}

\* Each press in the FIFO is followed by its release, and so is the one that made
\* the synthetic key.
KeyInv ==
  /\ fifo \in Seq(Events) /\ down \subseteq Caps
  /\ last # None => last \in down
  /\ \A i \in DOMAIN fifo : ~fifo[i].isup => fifo[i].cap \in Owed(i)
  /\ synth # NoKey => pseudokey_active # None /\ pseudokey_active \in Owed(0)

LEMMA EventType ==
  ASSUME NEW k \in Caps, NEW isup \in BOOLEAN, NEW keys
  PROVE  /\ Event(k, isup, keys) \in Events
         /\ Event(k, isup, keys).cap = k /\ Event(k, isup, keys).isup = isup
<1>1. Mod(keys) \in Mods \cup {None}
  BY DEF Mod, Mods
<1> QED
  BY <1>1 DEF Event, Events

\* What is owed stays owed when an event is put at the end, or dropped.
LEMMA PutKeeps ==
  ASSUME KeyInv, NEW ev \in Events, Put(ev),
         NEW k, NEW i \in Nat, k \in Owed(i),
         k \in down \cup lost => k \in down' \cup lost' \/ (ev.isup /\ ev.cap = k /\ i <= Len(fifo)
                                                           /\ Len(fifo') > Len(fifo))
  PROVE  k \in Owed(i)'
<1>1. CASE fifo' = fifo
  BY <1>1 DEF Owed
<1>2. CASE fifo' = Append(fifo, ev)
  <2>1. /\ fifo \in Seq(Events) /\ Len(fifo) \in Nat /\ DOMAIN fifo = 1..Len(fifo)
        /\ DOMAIN fifo' = 1..Len(fifo) + 1
        /\ \A j \in 1..Len(fifo) : fifo'[j] = fifo[j]
        /\ fifo'[Len(fifo) + 1] = ev
    BY <1>2 DEF KeyInv
  <2>2. CASE k \in down \cup lost
    BY <2>1, <2>2 DEF Owed
  <2>3. ASSUME NEW j \in DOMAIN fifo, j > i, fifo[j].isup, fifo[j].cap = k
        PROVE  k \in Owed(i)'
    BY <2>1, <2>3 DEF Owed
  <2> QED
    BY <2>2, <2>3 DEF Owed
<1> QED
  BY <1>1, <1>2 DEF Put

\* So the invariant holds again when the event is a release, or of a key that is down.
LEMMA PutStep ==
  ASSUME KeyInv, NEW ev \in Events, Put(ev), UNCHANGED <<synth, pseudokey_active>>,
         down' \subseteq Caps, last' # None => last' \in down',
         ev.isup \/ ev.cap \in down',
         \A k \in down \cup lost :
           k \in down' \cup lost' \/ (ev.isup /\ ev.cap = k /\ Len(fifo') > Len(fifo))
  PROVE  KeyInv'
<1>1. fifo \in Seq(Events) /\ Len(fifo) \in Nat /\ DOMAIN fifo = 1..Len(fifo)
  BY DEF KeyInv
<1>2. ASSUME NEW k, NEW i \in Nat, i <= Len(fifo), k \in Owed(i)
      PROVE  k \in Owed(i)'
  BY <1>2, PutKeeps
<1>3. fifo' = fifo \/ fifo' = Append(fifo, ev)
  BY DEF Put
<1>4. fifo' \in Seq(Events)
  BY <1>1, <1>3
<1>5. ASSUME NEW i \in DOMAIN fifo', ~fifo'[i].isup
      PROVE  fifo'[i].cap \in Owed(i)'
  <2>1. CASE i \in DOMAIN fifo
    <3>1. fifo'[i] = fifo[i]
      BY <1>1, <1>3, <2>1
    <3>2. fifo[i].cap \in Owed(i) /\ i \in Nat /\ i <= Len(fifo)
      BY <1>1, <1>5, <2>1, <3>1 DEF KeyInv
    <3> QED
      BY <1>2, <3>1, <3>2
  <2>2. CASE i \notin DOMAIN fifo
    <3>1. fifo'[i] = ev
      BY <1>1, <1>3, <1>5, <2>2
    <3> QED
      BY <1>5, <3>1 DEF Owed
  <2> QED
    BY <2>1, <2>2
<1>6. synth' # NoKey => pseudokey_active' # None /\ pseudokey_active' \in Owed(0)'
  <2>1. 0 <= Len(fifo)
    BY <1>1
  <2> QED
    BY <1>2, <2>1 DEF KeyInv
<1> QED
  BY <1>4, <1>5, <1>6 DEF KeyInv

\* When keyboard_task takes the event at the head, what is owed behind it stays so.
LEMMA TakeKeeps ==
  ASSUME KeyInv, fifo # <<>>, fifo' = Tail(fifo), UNCHANGED <<hardware, lost>>,
         NEW k, NEW i \in Nat, k \in Owed(i + 1)
  PROVE  k \in Owed(i)'
<1>1. /\ Len(fifo) \in Nat /\ DOMAIN fifo = 1..Len(fifo) /\ DOMAIN fifo' = 1..Len(fifo) - 1
      /\ \A j \in 1..Len(fifo) - 1 : fifo'[j] = fifo[j + 1]
  BY DEF KeyInv
<1>2. CASE k \in down \cup lost
  BY <1>2 DEF Owed, hardware
<1>3. ASSUME NEW j \in DOMAIN fifo, j > i + 1, fifo[j].isup, fifo[j].cap = k
      PROVE  k \in Owed(i)'
  <2>1. j - 1 \in DOMAIN fifo' /\ j - 1 > i /\ fifo'[j - 1] = fifo[(j - 1) + 1] /\ (j - 1) + 1 = j
    BY <1>1, <1>3
  <2> QED
    BY <1>3, <2>1 DEF Owed
<1> QED
  BY <1>2, <1>3 DEF Owed

LEMMA TaskStep ==
  ASSUME KeyInv, Task
  PROVE  KeyInv'
<1> DEFINE ev == Head(fifo)
<1>1. fifo # <<>> /\ fifo' = Tail(fifo) /\ UNCHANGED <<hardware, lost>>
  BY TaskCases
<1>2. /\ fifo \in Seq(Events) /\ Len(fifo) \in Nat /\ Len(fifo) > 0 /\ DOMAIN fifo = 1..Len(fifo)
      /\ ev = fifo[1] /\ ev \in Events
  BY <1>1 DEF KeyInv
<1>3. fifo' \in Seq(Events) /\ DOMAIN fifo' = 1..Len(fifo) - 1
      /\ \A i \in 1..Len(fifo) - 1 : fifo'[i] = fifo[i + 1]
  BY <1>1, <1>2
<1>4. ASSUME NEW i \in DOMAIN fifo', ~fifo'[i].isup
      PROVE  fifo'[i].cap \in Owed(i)'
  <2>1. i \in Nat /\ i + 1 \in DOMAIN fifo /\ fifo'[i] = fifo[i + 1]
    BY <1>2, <1>3
  <2>2. fifo[i + 1].cap \in Owed(i + 1)
    BY <1>4, <2>1 DEF KeyInv
  <2> QED
    BY <1>1, <2>1, <2>2, TakeKeeps
<1>5. down' \subseteq Caps /\ (last' # None => last' \in down')
  BY <1>1 DEF KeyInv, hardware
<1>6. ASSUME NEW k, k \in Owed(0), ~(ev.isup /\ ev.cap = k)
      PROVE  k \in Owed(0)'
  <2>1. k \in Owed(0 + 1)
    BY <1>2, <1>6 DEF Owed
  <2> QED
    BY <1>1, <2>1, TakeKeeps
<1>7. ~ev.isup => ev.cap \in Owed(0)' /\ ev.cap # None
  <2>1. ~ev.isup => ev.cap \in Owed(0 + 1)
    BY <1>2 DEF KeyInv
  <2>2. ev.cap # None
    BY <1>2, KeyboardAssumption DEF Events
  <2> QED
    BY <1>1, <2>1, <2>2, TakeKeeps
<1>8. CASE synth' = NoKey
  BY <1>3, <1>4, <1>5, <1>8 DEF KeyInv
<1>9. ASSUME synth' # NoKey
      PROVE  pseudokey_active' # None /\ pseudokey_active' \in Owed(0)'
  <2>1. ASSUME UNCHANGED <<synth, pseudokey_active>>, ~(ev.isup /\ ev.cap = pseudokey_active)
        PROVE  pseudokey_active' # None /\ pseudokey_active' \in Owed(0)'
    BY <1>6, <1>9, <2>1 DEF KeyInv
  <2>2. CASE ev.isup /\ Up(ev)
    <3>1. pseudokey_active # ev.cap /\ UNCHANGED <<synth, pseudokey_active>>
      BY <1>9, <2>2 DEF Up, SetSynth
    <3> QED
      BY <2>1, <3>1
  <2>3. CASE ~ev.isup /\ Toggle
    <3>1. UNCHANGED <<synth, pseudokey_active>>
      BY <1>9, <2>3 DEF Toggle, SetSynth
    <3> QED
      BY <2>1, <2>3, <3>1
  <2>4. ASSUME NEW ti, ~ev.isup, Send(ti, ev)
        PROVE  pseudokey_active' # None /\ pseudokey_active' \in Owed(0)'
    <3>1. \/ UNCHANGED <<synth, pseudokey_active>>
          \/ pseudokey_active' = ev.cap
      BY <2>4 DEF Send
    <3>2. CASE UNCHANGED <<synth, pseudokey_active>>
      BY <2>1, <2>4, <3>2
    <3>3. CASE pseudokey_active' = ev.cap
      BY <1>7, <2>4, <3>3
    <3> QED
      BY <3>1, <3>2, <3>3
  <2>5. CASE ~ev.isup /\ pseudokey_active' = ev.cap
    BY <1>7, <2>5
  <2> QED
    BY <2>2, <2>3, <2>4, <2>5, TaskCases
<1> QED
  BY <1>3, <1>4, <1>5, <1>8, <1>9 DEF KeyInv

LEMMA KeyStep == KeyInv /\ [Next]_vars => KeyInv'
<1> SUFFICES ASSUME KeyInv, [Next]_vars
             PROVE  KeyInv'
  OBVIOUS
<1>1. ASSUME NEW k \in Caps, Press(k)
      PROVE  KeyInv'
  <2> DEFINE ev == Event(k, FALSE, down \cup {k})
  <2>1. ev \in Events /\ ev.cap = k
    BY EventType
  <2>2. /\ Put(ev) /\ UNCHANGED <<synth, pseudokey_active>>
        /\ down' = down \cup {k} /\ last' = k /\ lost' = lost \ {k}
    BY <1>1 DEF Press, firmware
  <2> HIDE DEF ev
  <2>3. down' \subseteq Caps /\ (last' # None => last' \in down')
    BY <2>2 DEF KeyInv
  <2> QED
    BY <2>1, <2>2, <2>3, PutStep
<1>2. ASSUME NEW k \in Caps, Release(k)
      PROVE  KeyInv'
  <2> DEFINE ev == Event(k, TRUE, down \ {k})
  <2>1. ev \in Events /\ ev.cap = k /\ ev.isup
    BY EventType
  <2>2. /\ Put(ev) /\ UNCHANGED <<synth, pseudokey_active>>
        /\ down' = down \ {k} /\ last' = IF last = k THEN None ELSE last
        /\ lost' = IF Len(fifo') > Len(fifo) THEN lost ELSE lost \cup {k}
    BY <1>2 DEF Release, firmware
  <2> HIDE DEF ev
  <2>3. down' \subseteq Caps /\ (last' # None => last' \in down')
    BY <2>2 DEF KeyInv
  <2>4. ASSUME NEW c \in down \cup lost
        PROVE  c \in down' \cup lost' \/ (ev.isup /\ ev.cap = c /\ Len(fifo') > Len(fifo))
    BY <2>1, <2>2
  <2> QED
    BY <2>1, <2>2, <2>3, <2>4, PutStep
<1>3. CASE Repeat
  <2> DEFINE ev == Event(last, FALSE, down)
  <2>1. last \in down /\ last \in Caps
    BY <1>3 DEF Repeat, KeyInv
  <2>2. ev \in Events /\ ev.cap = last
    BY <2>1, EventType
  <2>3. Put(ev) /\ UNCHANGED <<synth, pseudokey_active, down, last, lost>>
    BY <1>3 DEF Repeat, firmware
  <2> HIDE DEF ev
  <2>4. down' \subseteq Caps /\ (last' # None => last' \in down')
    BY <2>3 DEF KeyInv
  <2> QED
    BY <2>1, <2>2, <2>3, <2>4, PutStep
<1>4. ASSUME UNCHANGED <<down, last, fifo, lost, synth, pseudokey_active>>
      PROVE  KeyInv'
  BY <1>4 DEF KeyInv, Owed
<1>5. ASSUME NEW k \in Caps, Rescan(k)
      PROVE  KeyInv'
  BY <1>4, <1>5 DEF Rescan, firmware
<1>6. CASE FirstColumn \/ ReadModifiers \/ OtherColumn
  BY <1>4, <1>6 DEF FirstColumn, ReadModifiers, OtherColumn, firmware, hardware
<1>7. CASE UNCHANGED vars
  BY <1>4, <1>7 DEF vars, firmware, hardware
<1> QED
  BY <1>1, <1>2, <1>3, <1>5, <1>6, <1>7, TaskStep DEF Next

\* A synthetic key does not get stuck (keyboard.c:453-520): the release that takes it
\* away is still to come, unless the FIFO has dropped that very event.
THEOREM SyntheticLetsGo == Spec => []LetsGo
<1>1. Init => KeyInv
  BY DEF Init, KeyInv
<1>2. KeyInv => LetsGo
  BY DEF KeyInv, Owed, LetsGo, Releases
<1> QED
  BY <1>1, <1>2, KeyStep, PTL DEF Spec
=============================================================================
