----------------------------- MODULE MenuProofs -----------------------------
(***************************************************************************)
(* The menu opens and closes its pages as the keyboard expects it, shows   *)
(* what is behind them, and does what the highlighted line says: for every *)
(* list of files, every configuration, every length of a name and every    *)
(* size of the window.                                                     *)
(*                                                                         *)
(* The input of a name keeps its text, the offset of its window and the    *)
(* column of the cursor.  That these make a place of the text is           *)
(* EditorInv.  The lines of a page are made when it is opened, and lines   *)
(* are chosen by number afterwards: that these still are the lines of the  *)
(* page, of the list and of the settings is LinesInv.  That every file can *)
(* be highlighted is shown by a distance that each step of the highlight   *)
(* makes smaller.                                                          *)
(***************************************************************************)
EXTENDS Menu, SequenceTheorems, WellFoundedInduction, NaturalsInduction, TLAPS

----------------------------------------------------------------------------
(* The pages.                                                               *)

\* A name is asked for on the main page.
PagesInv ==
  /\ page \in {None, "main", "settings", "select"} /\ input \in BOOLEAN
  /\ input => page = "main"

\* How many pages are open, before and after a step.
LEMMA LevelIs ==
  ASSUME PagesInv
  PROVE  /\ page = None => Level = 0
         /\ page = "main" /\ ~input => Level = 1
         /\ page \in {"settings", "select"} \/ input => Level = 2
<1>1. CASE page = None
  BY <1>1 DEF PagesInv, Level, None
<1>2. CASE page = "main" /\ ~input
  BY <1>2 DEF Level, None
<1>3. CASE page \in {"settings", "select"} \/ input
  <2>1. page # None /\ ~(page = "main" /\ ~input)
    BY <1>3 DEF PagesInv, None
  <2> QED
    BY <1>3, <2>1 DEF Level
<1> QED
  BY <1>1, <1>2, <1>3 DEF PagesInv

LEMMA LevelWillBe ==
  ASSUME PagesInv'
  PROVE  /\ page' = None => Level' = 0
         /\ page' = "main" /\ ~input' => Level' = 1
         /\ page' \in {"settings", "select"} \/ input' => Level' = 2
<1>1. CASE page' = None
  BY <1>1 DEF PagesInv, Level, None
<1>2. CASE page' = "main" /\ ~input'
  BY <1>2 DEF Level, None
<1>3. CASE page' \in {"settings", "select"} \/ input'
  <2>1. page' # None /\ ~(page' = "main" /\ ~input')
    BY <1>3 DEF PagesInv, None
  <2> QED
    BY <1>3, <2>1 DEF Level
<1> QED
  BY <1>1, <1>2, <1>3 DEF PagesInv

LEMMA PagesStart == Init => PagesInv
BY DEF Init, PagesInv, None

\* What the parts of menu_key do to the pages.
LEMMA Pages0 ==
  /\ \A ns : SetSelect(ns) => page' = "select"
  /\ SetMain => page' = "main"
BY DEF SetSelect, SetMain, Set

LEMMA CloseSteps ==
  ASSUME PagesInv, page # None, Close
  PROVE  PagesInv' /\ Level' = Level - 1
<1>1. input' = FALSE
  BY DEF Close
<1>2. CASE input \/ page # "main"
  <2>1. page' = "main"
    <3>1. SetMain
      BY <1>2, Zenon DEF Close
    <3> QED
      BY <3>1, Pages0
  <2>2. Level = 2
    BY <1>2, LevelIs DEF PagesInv
  <2>3. PagesInv'
    BY <1>1, <2>1 DEF PagesInv
  <2>4. Level' = 1
    BY <1>1, <2>1, <2>3, LevelWillBe, Zenon
  <2> QED
    BY <2>2, <2>3, <2>4
<1>3. CASE ~input /\ page = "main"
  <2>1. page' = None
    BY <1>3, Zenon DEF Close
  <2>2. Level = 1
    BY <1>3, LevelIs
  <2>3. PagesInv'
    BY <1>1, <2>1 DEF PagesInv
  <2>4. Level' = 0
    BY <2>1, <2>3, LevelWillBe, Zenon
  <2> QED
    BY <2>2, <2>3, <2>4
<1> QED
  BY <1>2, <1>3 DEF PagesInv

LEMMA OpenSteps ==
  ASSUME PagesInv, page = "main", ~input,
         \/ \E for : OpenSelector(for) \/ AskName(for)
         \/ Set("settings", SettingsMenu, <<>>) /\ UNCHANGED input
  PROVE  PagesInv' /\ Level = 1 /\ Level' = 2
<1>1. ASSUME NEW for, OpenSelector(for)
      PROVE  page' = "select" /\ UNCHANGED input
  BY <1>1, Pages0 DEF OpenSelector
<1>2. ASSUME NEW for, AskName(for)
      PROVE  UNCHANGED page /\ input'
  BY <1>2 DEF AskName
<1>3. CASE Set("settings", SettingsMenu, <<>>) /\ UNCHANGED input
  BY <1>3 DEF Set, PagesInv, Level, None
<1> QED
  BY <1>1, <1>2, <1>3 DEF PagesInv, Level, None

LEMMA StaySteps ==
  ASSUME PagesInv, UNCHANGED <<page, input>> \/ (page = "select" /\ page' = "select" /\ UNCHANGED input)
  PROVE  PagesInv' /\ Level' = Level
BY DEF PagesInv, Level, None

LEMMA SetStays ==
  ASSUME PagesInv, NEW on, Change(on)
  PROVE  PagesInv' /\ Level' = Level
BY StaySteps DEF Change, pagevars

\* The enter key.
LEMMA EnterSteps ==
  ASSUME PagesInv, page # None, Enter
  PROVE  PagesInv' /\ Level' \in {Level - 1, Level, Level + 1}
<1>1. Level \in {1, 2}
  BY DEF PagesInv, Level, None
<1>2. CASE input
  BY <1>1, <1>2, CloseSteps DEF Enter
<1>3. CASE ~input /\ page = "main"
  <2>1. MainMenuSelect(cursor_y)
    BY <1>3 DEF Enter
  <2>2. \/ \E for : OpenSelector(for) \/ AskName(for)
        \/ Set("settings", SettingsMenu, <<>>) /\ UNCHANGED input
        \/ Close
        \/ UNCHANGED <<page, input>>
    BY <2>1 DEF MainMenuSelect, pagevars
  <2> QED
    BY <1>1, <1>3, <2>2, OpenSteps, CloseSteps, StaySteps
<1>4. CASE ~input /\ page = "settings"
  <2>1. SettingsMenuSelect(cursor_y)
    BY <1>4 DEF Enter
  <2>2. (\E on : Change(on)) \/ Close \/ UNCHANGED <<page, input>>
    BY <2>1 DEF SettingsMenuSelect, pagevars
  <2> QED
    BY <1>1, <2>2, SetStays, CloseSteps, StaySteps
<1>5. CASE ~input /\ page = "select"
  <2>1. FileselectorSelect(cursor_y)
    BY <1>5 DEF Enter
  <2>2. (\E ns : SetSelect(ns) /\ UNCHANGED input) \/ Close
    BY <2>1 DEF FileselectorSelect
  <2> QED
    BY <1>1, <1>5, <2>2, Pages0, CloseSteps, StaySteps
<1> QED
  BY <1>2, <1>3, <1>4, <1>5 DEF PagesInv

LEMMA PagesStep == PagesInv /\ [Next]_vars => PagesInv' /\ [Pages!Next]_Level
<1> SUFFICES ASSUME PagesInv, [Next]_vars
             PROVE  PagesInv' /\ [Pages!Next]_Level
  OBVIOUS
<1>1. Level \in 0..2 /\ (Level = 0 <=> page = None)
  BY DEF PagesInv, Level, None
<1>2. CASE MenuOpen
  <2>1. page = None /\ page' = "main" /\ UNCHANGED input
    BY <1>2, Pages0 DEF MenuOpen
  <2>2. PagesInv' /\ Level' = 1 /\ Level = 0
    BY <2>1 DEF PagesInv, Level, None
  <2> QED
    BY <2>2 DEF Pages!Next, Pages!Open, Pages!Opened
<1>3. CASE page # None /\ Close
  <2>1. PagesInv' /\ Level' = Level - 1
    BY <1>3, CloseSteps
  <2>2. Pages!Key("esc")
    BY <1>1, <1>3, <2>1 DEF Pages!Key, Pages!After
  <2> QED
    BY <2>1, <2>2 DEF Pages!Next
<1>4. CASE page # None /\ Enter
  <2>1. PagesInv' /\ Level' \in {Level - 1, Level, Level + 1}
    BY <1>4, EnterSteps
  <2>2. Level' \in 0..2
    BY <2>1, LevelWillBe DEF PagesInv
  <2>3. Level > 0
    <3>1. Level \in 1..2
      BY <1>4, LevelIs DEF PagesInv
    <3> QED
      BY <3>1
  <2>4. Pages!After(Level, "enter") = {Level - 1, Level, Level + 1} \cap 0..2
    BY <2>3 DEF Pages!After
  <2>5. Pages!Key("enter")
    BY <2>1, <2>2, <2>4, Zenon DEF Pages!Key
  <2> QED
    BY <2>1, <2>5 DEF Pages!Next
<1>5. CASE UNCHANGED <<page, input>> \/ (page = "select" /\ page' = "select" /\ UNCHANGED input)
  BY <1>5, StaySteps
<1>6. CASE UNCHANGED vars
  BY <1>5, <1>6 DEF vars, pagevars
<1>7. CASE page # None /\ Dot
  BY <1>5, <1>7, Pages0 DEF Dot
<1>8. CASE \E dir \in {-1, 1} : Step1(dir)
  BY <1>5, <1>8 DEF Step1
<1>9. CASE UNCHANGED <<pagevars, settings>>
  BY <1>5, <1>9 DEF pagevars
<1> QED
  BY <1>2, <1>3, <1>4, <1>6, <1>7, <1>8, <1>9 DEF Next, MenuKey

\* The menu is a stack of pages that a key makes deeper or less deep by one
\* (menu.c:766-790), which is what the keyboard relies on.
THEOREM MenuImplementsPages == Spec => ImplementsPages
<1>1. Init => Pages!Init
  BY DEF Init, Pages!Init, Level, None
<1> QED
  BY <1>1, PagesStart, PagesStep, PTL DEF Spec, ImplementsPages, Pages!Spec

----------------------------------------------------------------------------
(* Loops: what holds at first and after each turn holds after all of them.  *)

\* A set of numbers that is not empty has a least one.
LEMMA LeastIs ==
  ASSUME NEW T \in SUBSET Nat, T # {}
  PROVE  \E x \in T : \A y \in T : x <= y
<1>1. IsWellFoundedOn(OpToRel(<, Nat), Nat)
  BY NatLessThanWellFounded
<1>2. PICK x \in T : \A y \in T : <<y, x>> \notin OpToRel(<, Nat)
  BY <1>1, WFMin
<1>3. ASSUME NEW y \in T
      PROVE  x <= y
  <2>1. ~(y < x)
    BY <1>2 DEF OpToRel
  <2> QED
    BY <2>1
<1> QED
  BY <1>3

\* What holds of 0, and of every number up to K whose predecessor it holds of, holds of 0..K.
LEMMA Turns ==
  ASSUME NEW K \in Nat, NEW T \in SUBSET (0..K), 0 \in T, \A n \in 1..K : n - 1 \in T => n \in T
  PROVE  T = 0..K
<1> SUFFICES ASSUME T # 0..K
             PROVE  FALSE
  OBVIOUS
<1>1. PICK x \in (0..K) \ T : \A y \in (0..K) \ T : x <= y
  <2> DEFINE Out == (0..K) \ T
  <2>1. Out \in SUBSET Nat
    OBVIOUS
  <2>3. Out # {}
    BY Zenon
  <2> HIDE DEF Out
  <2>2. PICK x \in Out : \A y \in Out : x <= y
    BY <2>1, <2>3, LeastIs
  <2> QED
    BY <2>2 DEF Out
<1>2. x \in 1..K /\ x - 1 \in 0..K /\ ~(x <= x - 1)
  OBVIOUS
<1>3. x - 1 \in T
  BY <1>1, <1>2
<1> QED
  BY <1>2, <1>3

\* The states of a loop of K turns, from start on.
RunsOf(K, D, start, F) ==
  {g \in [0..K -> D] : g[0] = start /\ \A n \in 1..K : g[n] = F[<<n, g[n - 1]>>]}

\* A loop whose turns are a function of the turn and of the state has a run.
LEMMA LoopRuns ==
  ASSUME NEW K \in Nat, NEW D, NEW start \in D, NEW F \in [(1..K) \X D -> D]
  PROVE  RunsOf(K, D, start, F) # {}
<1> DEFINE Runs(k, g) == g[0] = start /\ \A n \in 1..k : g[n] = F[<<n, g[n - 1]>>]
           T == {k \in 0..K : \E g \in [0..k -> D] : Runs(k, g)}
<1>1. 0 \in T
  <2> DEFINE h == [n \in 0..0 |-> start]
  <2>1. h \in [0..0 -> D] /\ Runs(0, h)
    OBVIOUS
  <2> HIDE DEF h, Runs
  <2> QED
    BY <2>1
<1>2. ASSUME NEW k \in 1..K, k - 1 \in T
      PROVE  k \in T
  <2>1. PICK g \in [0..k - 1 -> D] : Runs(k - 1, g)
    BY <1>2
  <2> DEFINE h == [n \in 0..k |-> IF n = k THEN F[<<k, g[k - 1]>>] ELSE g[n]]
  <2>2. g[k - 1] \in D /\ F[<<k, g[k - 1]>>] \in D
    OBVIOUS
  <2>3. h \in [0..k -> D]
    BY <2>2
  <2>4. h[0] = start
    BY <2>1
  <2>5. ASSUME NEW n \in 1..k
        PROVE  h[n] = F[<<n, h[n - 1]>>]
    <3>1. CASE n = k
      <4>1. h[k] = F[<<k, g[k - 1]>>] /\ h[k - 1] = g[k - 1]
        OBVIOUS
      <4> HIDE DEF h
      <4> QED
        BY <3>1, <4>1
    <3>2. CASE n # k
      <4>1. n \in 1..k - 1 /\ n \in 0..k /\ n - 1 \in 0..k /\ n - 1 # k
        BY <3>2
      <4>2. h[n] = g[n] /\ h[n - 1] = g[n - 1]
        BY <3>2, <4>1
      <4> QED
        BY <2>1, <4>1, <4>2
    <3> QED
      BY <3>1, <3>2
  <2>6. Runs(k, h)
    BY <2>4, <2>5
  <2>7. k \in 0..K
    OBVIOUS
  <2> HIDE DEF Runs, h
  <2> QED
    BY <2>3, <2>6, <2>7
<1>3. K \in T
  <2>1. T \in SUBSET (0..K)
    OBVIOUS
  <2> HIDE DEF T
  <2>2. T = 0..K
    BY <1>1, <1>2, <2>1, Turns
  <2> QED
    BY <2>2
<1> QED
  BY <1>3 DEF RunsOf

----------------------------------------------------------------------------
(* The input of a name.                                                     *)

\* What the input takes.
Character == Chars \ Refused

\* The offsets that whole steps of the window lead to (menu.c:802, 813, 824).
Stepped(o) == \E k \in Nat : o = k * Step

\* Left takes the window back by Step from the first column, so its offset must
\* be some number of steps, and a character put at the end leaves the borders.
TypedInv ==
  /\ typed \in Seq(Character) /\ Len(typed) <= Limit
  /\ offs \in Nat /\ Stepped(offs)
  /\ cursor_x \in Line /\ input_pos <= Len(typed)
  /\ DOMAIN cells = Line /\ inverse = {cursor_x}
  /\ \A x \in Line : cells[x] = IF offs + x <= Len(typed) THEN typed[offs + x] ELSE Blank
  /\ arrows[1] = (offs # 0) /\ arrows[2] = (offs + Columns - 2 < Len(typed)) /\ arrows \in BOOLEAN \X BOOLEAN

\* An input that is closed keeps nothing.
EditorInv == IF input THEN TypedInv ELSE Empty

\* Step is a column of the window.
LEMMA Sizes ==
  /\ Columns \in Int /\ Step \in Nat \ {0} /\ Limit \in Nat /\ Step < Columns - 1
  /\ Step \in Line /\ Columns - 1 - Step \in Line /\ 1 \in Line
  /\ \A x \in Line : x \in Nat \ {0} /\ x <= Columns - 2
BY TextInputAssumption DEF TextInputAssumption, Line

\* The window redrawn from offset o on, with the cursor in column x, shows the text (menu.c:580-591).
LEMMA RedrawShows ==
  ASSUME NEW text \in Seq(Character), Len(text) <= Limit, NEW o \in Nat, Stepped(o),
         NEW x \in Line, o + x - 1 <= Len(text), Redraw(text, o, x)
  PROVE  TypedInv' /\ input_pos' = o + x - 1
<1>1. typed' = text /\ offs' = o /\ cursor_x' = x /\ inverse' = {x}
  BY DEF Redraw
<1>2. cells' = [i \in Line |-> IF o + i <= Len(text) THEN text[o + i] ELSE Blank]
  BY DEF Redraw
<1>3. arrows' = <<o # 0, o + Columns - 2 < Len(text)>>
  BY DEF Redraw
<1>4. Len(text) \in Nat
  OBVIOUS
<1>5. arrows'[1] = (o # 0) /\ arrows'[2] = (o + Columns - 2 < Len(text)) /\ arrows' \in BOOLEAN \X BOOLEAN
  <2>1. (o # 0) \in BOOLEAN /\ (o + Columns - 2 < Len(text)) \in BOOLEAN
    OBVIOUS
  <2> QED
    BY <1>3, <2>1
<1>6. DOMAIN cells' = Line
  BY <1>2
<1>7. \A i \in Line : cells'[i] = IF o + i <= Len(text) THEN text[o + i] ELSE Blank
  BY <1>2
<1>8. (typed \in Seq(Character) /\ Len(typed) <= Limit /\ offs \in Nat /\ Stepped(offs))'
  BY <1>1
<1>9. (cursor_x \in Line /\ input_pos <= Len(typed) /\ input_pos = o + x - 1)'
  BY <1>1, Sizes DEF input_pos, Line
<1> QED
  BY <1>1, <1>5, <1>6, <1>7, <1>8, <1>9, Zenon DEF TypedInv, Line

\* The cursor in the window is at a place in the text.
LEMMA PlaceIs ==
  ASSUME TypedInv
  PROVE  /\ input_pos \in 0..Len(typed) /\ Len(typed) \in Nat
         /\ cursor_x \in Nat \ {0} /\ cursor_x <= Columns - 2
         /\ cursor_x = 1 /\ input_pos > 0 => offs - Step \in Nat /\ Stepped(offs - Step)
         /\ offs + Step \in Nat /\ Stepped(offs + Step)
<1>1. PICK k \in Nat : offs = k * Step
  BY DEF TypedInv, Stepped
<1>2. Len(typed) \in Nat /\ cursor_x \in Line /\ offs \in Nat /\ input_pos <= Len(typed)
  BY DEF TypedInv
<1>3. cursor_x \in Nat \ {0} /\ cursor_x <= Columns - 2 /\ input_pos \in 0..Len(typed)
  BY <1>2, Sizes DEF input_pos
<1>4. offs + Step = (k + 1) * Step /\ k + 1 \in Nat
  BY <1>1, Sizes
<1>5. ASSUME cursor_x = 1, input_pos > 0
      PROVE  offs - Step \in Nat /\ \E j \in Nat : offs - Step = j * Step
  <2>1. offs > 0 /\ k # 0
    BY <1>1, <1>2, <1>5, Sizes DEF input_pos
  <2>2. offs - Step = (k - 1) * Step /\ k - 1 \in Nat /\ (k - 1) * Step \in Nat
    BY <1>1, <2>1, Sizes
  <2> QED
    BY <2>2
<1>6. offs + Step \in Nat /\ \E j \in Nat : offs + Step = j * Step
  <2>1. offs + Step \in Nat
    BY <1>2, Sizes
  <2> QED
    BY <1>4, <2>1, Zenon
<1>7. cursor_x = 1 /\ input_pos > 0 => offs - Step \in Nat /\ \E j \in Nat : offs - Step = j * Step
  BY <1>5
<1> QED
  BY <1>2, <1>3, <1>6, <1>7 DEF Stepped

\* A text without its character i is a text, one shorter.
LEMMA WithoutIs ==
  ASSUME NEW text \in Seq(Character), NEW i \in 1..Len(text)
  PROVE  Without(text, i) \in Seq(Character) /\ Len(Without(text, i)) = Len(text) - 1
<1> DEFINE front == SubSeq(text, 1, i - 1)
           back == SubSeq(text, i + 1, Len(text))
<1>1. \A n \in 1..Len(text) : text[n] \in Character
  BY ElementOfSeq
<1>2. front \in Seq(Character) /\ Len(front) = i - 1
  BY <1>1, SubSeqProperties
<1>3. back \in Seq(Character) /\ Len(back) = Len(text) - i
  BY <1>1, SubSeqProperties
<1>4. Without(text, i) = front \o back
  BY DEF Without
<1> HIDE DEF front, back
<1>5. Len(front \o back) = Len(front) + Len(back) /\ front \o back \in Seq(Character)
  BY <1>2, <1>3, ConcatProperties
<1> QED
  BY <1>2, <1>3, <1>4, <1>5

\* The text with a character put in after place i.
With(text, i, key) == SubSeq(text, 1, i) \o <<key>> \o SubSeq(text, i + 1, Len(text))

\* It is a text, one longer; at the end the rest of it stays.
LEMMA WithIs ==
  ASSUME NEW text \in Seq(Character), NEW i \in 0..Len(text), NEW key \in Character
  PROVE  /\ With(text, i, key) \in Seq(Character) /\ Len(With(text, i, key)) = Len(text) + 1
         /\ i = Len(text) => \A n \in 1..Len(text) + 1 :
              With(text, i, key)[n] = IF n <= Len(text) THEN text[n] ELSE key
<1> DEFINE front == SubSeq(text, 1, i)
           back == SubSeq(text, i + 1, Len(text))
<1>1. \A n \in 1..Len(text) : text[n] \in Character
  BY ElementOfSeq
<1>2. front \in Seq(Character) /\ Len(front) = i /\ \A n \in 1..i : front[n] = text[n]
  BY <1>1, SubSeqProperties
<1>3. back \in Seq(Character) /\ Len(back) = Len(text) - i
  BY <1>1, SubSeqProperties
<1>4. <<key>> \in Seq(Character) /\ Len(<<key>>) = 1 /\ <<key>>[1] = key
  OBVIOUS
<1> HIDE DEF front, back
<1>5. /\ front \o <<key>> \in Seq(Character) /\ Len(front \o <<key>>) = i + 1
      /\ \A n \in 1..i + 1 : (front \o <<key>>)[n] = IF n <= i THEN front[n] ELSE <<key>>[n - i]
  BY <1>2, <1>4, ConcatProperties
<1> DEFINE most == front \o <<key>>
<1>6. most \in Seq(Character) /\ Len(most) = i + 1 /\ \A n \in 1..i + 1 : most[n] = IF n <= i THEN text[n] ELSE key
  BY <1>2, <1>4, <1>5
<1> HIDE DEF most
<1>7. /\ most \o back \in Seq(Character) /\ Len(most \o back) = Len(text) + 1
      /\ \A n \in 1..Len(text) + 1 : (most \o back)[n] = IF n <= i + 1 THEN most[n] ELSE back[n - (i + 1)]
  BY <1>3, <1>6, ConcatProperties
<1>8. With(text, i, key) = most \o back
  BY DEF With, most, front, back
<1> QED
  BY <1>6, <1>7, <1>8

\* The cursor in another column of the window is at another place of the same text.
LEMMA MoveShows ==
  ASSUME TypedInv, NEW x \in Line, offs + x - 1 <= Len(typed), MoveTo(x)
  PROVE  TypedInv' /\ input_pos' = offs + x - 1 /\ UNCHANGED typed
<1>1. cursor_x' = x /\ UNCHANGED <<typed, offs, cells, arrows>>
  BY DEF MoveTo
<1>2. inverse' = {x}
  BY DEF MoveTo, Toggled, TypedInv
<1>3. input_pos' = offs + x - 1
  BY <1>1 DEF input_pos
<1> QED
  BY <1>1, <1>2, <1>3, Zenon DEF TypedInv, Line

\* Right moves the cursor one place on, or stays at the end (menu.c:798-808).
LEMMA RightMoves ==
  ASSUME TypedInv, Right
  PROVE  TypedInv' /\ Editor!Right
<1>1. /\ input_pos \in 0..Len(typed) /\ Len(typed) \in Nat /\ offs \in Nat
      /\ cursor_x \in Nat \ {0} /\ cursor_x <= Columns - 2 /\ input_pos < Len(typed)
      /\ offs + Step \in Nat /\ Stepped(offs + Step)
  BY PlaceIs DEF TypedInv, Right
<1>2. CASE cursor_x + 1 < Columns - 1
  <2>1. cursor_x + 1 \in Line /\ offs + (cursor_x + 1) - 1 <= Len(typed) /\ offs + (cursor_x + 1) - 1 = input_pos + 1
    BY <1>1, <1>2, Sizes DEF Line, input_pos
  <2>2. MoveTo(cursor_x + 1)
    BY <1>2 DEF Right
  <2>3. TypedInv' /\ input_pos' = input_pos + 1 /\ UNCHANGED typed
    BY <2>1, <2>2, MoveShows
  <2> QED
    BY <1>1, <2>3 DEF Editor!Right
<1>3. CASE ~(cursor_x + 1 < Columns - 1)
  <2> DEFINE o == offs + Step
             x == Columns - 1 - Step
  <2>1. x \in Line /\ o + x - 1 <= Len(typed) /\ o + x - 1 = input_pos + 1
    BY <1>1, <1>3, Sizes DEF input_pos
  <2>2. Redraw(typed, o, x)
    BY <1>3 DEF Right
  <2>3. typed \in Seq(Character) /\ Len(typed) <= Limit
    BY DEF TypedInv
  <2>4. o \in Nat /\ Stepped(o)
    BY <1>1
  <2> HIDE DEF o, x
  <2>5. TypedInv' /\ input_pos' = o + x - 1
    BY <2>1, <2>2, <2>3, <2>4, RedrawShows
  <2>6. UNCHANGED typed
    BY <2>2 DEF Redraw
  <2> QED
    BY <1>1, <2>1, <2>5, <2>6 DEF Editor!Right
<1> QED
  BY <1>2, <1>3

\* Left moves it one place back, or stays at the start (menu.c:809-818).
LEMMA LeftMoves ==
  ASSUME TypedInv, Left
  PROVE  TypedInv' /\ Editor!Left
<1>1. /\ input_pos \in 0..Len(typed) /\ Len(typed) \in Nat /\ offs \in Nat
      /\ cursor_x \in Nat \ {0} /\ cursor_x <= Columns - 2 /\ input_pos > 0
      /\ cursor_x = 1 => offs - Step \in Nat /\ Stepped(offs - Step)
  BY PlaceIs DEF TypedInv, Left
<1>2. CASE cursor_x > 1
  <2>1. cursor_x - 1 \in Line /\ offs + (cursor_x - 1) - 1 <= Len(typed) /\ offs + (cursor_x - 1) - 1 = input_pos - 1
    BY <1>1, <1>2, Sizes DEF Line, input_pos
  <2>2. MoveTo(cursor_x - 1)
    BY <1>2 DEF Left
  <2>3. TypedInv' /\ input_pos' = input_pos - 1 /\ UNCHANGED typed
    BY <2>1, <2>2, MoveShows
  <2> QED
    BY <1>1, <2>3 DEF Editor!Left
<1>3. CASE ~(cursor_x > 1)
  <2> DEFINE o == offs - Step
  <2>1. cursor_x = 1
    BY <1>1, <1>3
  <2>2. Step \in Line /\ o + Step - 1 <= Len(typed) /\ o + Step - 1 = input_pos - 1
    BY <1>1, <2>1, Sizes DEF input_pos
  <2>3. Redraw(typed, o, Step)
    BY <1>3 DEF Left
  <2>4. typed \in Seq(Character) /\ Len(typed) <= Limit
    BY DEF TypedInv
  <2>5. o \in Nat /\ Stepped(o)
    BY <1>1, <2>1
  <2> HIDE DEF o
  <2>6. TypedInv' /\ input_pos' = o + Step - 1
    BY <2>2, <2>3, <2>4, <2>5, RedrawShows
  <2>7. UNCHANGED typed
    BY <2>3 DEF Redraw
  <2> QED
    BY <1>1, <2>2, <2>6, <2>7 DEF Editor!Left
<1> QED
  BY <1>2, <1>3

\* Backspace takes away the character before the cursor (menu.c:819-835).
LEMMA BackspaceErases ==
  ASSUME TypedInv, Backspace
  PROVE  TypedInv' /\ Editor!Erase
<1>1. /\ input_pos \in 1..Len(typed) /\ Len(typed) \in Nat /\ offs \in Nat
      /\ cursor_x \in Nat \ {0} /\ cursor_x <= Columns - 2 /\ input_pos > 0
      /\ cursor_x = 1 => offs - Step \in Nat /\ Stepped(offs - Step)
      /\ Stepped(offs)
  BY PlaceIs DEF TypedInv, Backspace
<1> DEFINE less == Without(typed, input_pos)
           o == IF cursor_x > 1 THEN offs ELSE offs - Step
           x == IF cursor_x > 1 THEN cursor_x - 1 ELSE Step
<1>2. typed \in Seq(Character) /\ Len(typed) <= Limit
  BY DEF TypedInv
<1>3. less \in Seq(Character) /\ Len(less) = Len(typed) - 1
  BY <1>1, <1>2, WithoutIs
<1>4. o \in Nat /\ Stepped(o)
  BY <1>1
<1>5. x \in Line /\ o + x - 1 = input_pos - 1
  BY <1>1, Sizes DEF Line, input_pos
<1>6. Redraw(less, o, x)
  BY DEF Backspace
<1>7. less = SubSeq(typed, 1, input_pos - 1) \o SubSeq(typed, input_pos + 1, Len(typed))
  BY DEF Without
<1> HIDE DEF less, o, x
<1>8. Len(less) <= Limit /\ o + x - 1 <= Len(less)
  BY <1>1, <1>2, <1>3, <1>5, Sizes
<1>9. TypedInv' /\ input_pos' = o + x - 1
  BY <1>3, <1>4, <1>5, <1>6, <1>8, RedrawShows
<1>10. typed' = less
  BY <1>6 DEF Redraw
<1> QED
  BY <1>1, <1>5, <1>7, <1>9, <1>10 DEF Editor!Erase

\* A character at the end, in the window: its cell and the cursor are all that changes.
LEMMA PutShows ==
  ASSUME TypedInv, NEW key \in Character, Len(typed) < Limit, input_pos = Len(typed),
         cursor_x + 1 < Columns - 1, Put(key, With(typed, input_pos, key))
  PROVE  TypedInv' /\ input_pos' = input_pos + 1 /\ typed' = With(typed, input_pos, key)
<1>1. /\ input_pos \in 0..Len(typed) /\ Len(typed) \in Nat /\ offs \in Nat
      /\ cursor_x \in Nat \ {0} /\ cursor_x <= Columns - 2 /\ typed \in Seq(Character)
  BY PlaceIs DEF TypedInv
<1> DEFINE text == With(typed, input_pos, key)
<1>2. /\ text \in Seq(Character) /\ Len(text) = Len(typed) + 1
      /\ \A n \in 1..Len(typed) + 1 : text[n] = IF n <= Len(typed) THEN typed[n] ELSE key
  BY <1>1, WithIs
<1>3. /\ typed' = text /\ cursor_x' = cursor_x + 1 /\ cells' = [cells EXCEPT ![cursor_x] = key]
      /\ inverse' = Toggled(inverse \ {cursor_x}, cursor_x + 1) /\ UNCHANGED <<offs, arrows>>
  BY <1>1 DEF Put
<1> HIDE DEF text
<1>4. inverse' = {cursor_x + 1}
  BY <1>1, <1>3 DEF TypedInv, Toggled
<1>5. cursor_x + 1 \in Line /\ offs + cursor_x = Len(text) /\ offs + cursor_x - 1 = Len(typed)
  <2>1. cursor_x + 1 \in Line
    BY <1>1, Sizes DEF Line
  <2>2. offs + cursor_x - 1 = Len(typed)
    BY DEF input_pos
  <2>3. Len(text) = Len(typed) + 1
    BY <1>2
  <2> QED
    BY <1>1, <2>1, <2>2, <2>3
<1>6. (offs + Columns - 2 < Len(typed)) = FALSE /\ (offs + Columns - 2 < Len(text)) = FALSE
  <2>1. ~(offs + Columns - 2 < Len(typed)) /\ ~(offs + Columns - 2 < Len(text))
    BY <1>1, <1>2, <1>5, Sizes, SMTT(30)
  <2> QED
    BY <2>1
<1>7. arrows[1] = (offs # 0) /\ arrows[2] = FALSE /\ arrows \in BOOLEAN \X BOOLEAN
  BY <1>6 DEF TypedInv
<1>8. (arrows[1] = (offs # 0) /\ arrows[2] = (offs + Columns - 2 < Len(typed)) /\ arrows \in BOOLEAN \X BOOLEAN)'
  BY <1>3, <1>6, <1>7, Zenon
<1>9. DOMAIN cells' = Line
  BY <1>3 DEF TypedInv
<1>10. ASSUME NEW i \in Line
       PROVE  cells'[i] = IF offs + i <= Len(text) THEN text[offs + i] ELSE Blank
  <2>1. cells[i] = IF offs + i <= Len(typed) THEN typed[offs + i] ELSE Blank
    BY DEF TypedInv
  <2>2. i \in Nat \ {0} /\ i \in DOMAIN cells
    BY Sizes DEF TypedInv
  <2>3. CASE i = cursor_x
    BY <1>1, <1>2, <1>3, <1>5, <2>2, <2>3, SMTT(30)
  <2>4. CASE i # cursor_x
    <3>1. cells'[i] = cells[i]
      BY <1>3, <2>2, <2>4
    <3>2. CASE offs + i <= Len(typed)
      <4>1. offs + i \in 1..Len(typed) + 1 /\ offs + i <= Len(text)
        BY <1>1, <1>2, <2>2, <3>2
      <4>2. text[offs + i] = typed[offs + i]
        BY <1>2, <3>2, <4>1
      <4> QED
        BY <2>1, <3>1, <3>2, <4>1, <4>2
    <3>3. CASE ~(offs + i <= Len(typed))
      <4>1. ~(offs + i <= Len(text))
        BY <1>1, <1>2, <1>5, <2>2, <2>4, <3>3
      <4> QED
        BY <2>1, <3>1, <3>3, <4>1
    <3> QED
      BY <3>2, <3>3
  <2> QED
    BY <2>3, <2>4
<1>11. Len(text) <= Limit
  BY <1>1, <1>2, Sizes
<1>12. offs' + cursor_x' - 1 = input_pos + 1 /\ offs' + cursor_x' - 1 <= Len(text)
  BY <1>1, <1>2, <1>3, <1>5, SMTT(30) DEF input_pos
<1>13. input_pos' = input_pos + 1 /\ input_pos' <= Len(text)
  BY <1>12 DEF input_pos
<1>14. (\A i \in Line : cells[i] = IF offs + i <= Len(typed) THEN typed[offs + i] ELSE Blank)'
  BY <1>3, <1>10 DEF Line
<1>15. TypedInv'
  BY <1>1, <1>2, <1>3, <1>4, <1>5, <1>8, <1>9, <1>11, <1>13, <1>14, Zenon DEF TypedInv, Line
<1> QED
  BY <1>3, <1>13, <1>15 DEF text

\* A key that is typed is put in at the cursor, unless the text is full (menu.c:845-868).
LEMMA TypeInserts ==
  ASSUME TypedInv, NEW key \in Chars, Type(key)
  PROVE  TypedInv' /\ Editor!Insert(key) /\ key \in Character
<1>1. /\ input_pos \in 0..Len(typed) /\ Len(typed) \in Nat /\ offs \in Nat
      /\ cursor_x \in Nat \ {0} /\ cursor_x <= Columns - 2 /\ Stepped(offs)
      /\ offs + Step \in Nat /\ Stepped(offs + Step)
      /\ typed \in Seq(Character) /\ key \in Character /\ Len(typed) < Limit
  BY PlaceIs DEF TypedInv, Type, Character
<1> DEFINE text == With(typed, input_pos, key)
<1>2. text \in Seq(Character) /\ Len(text) = Len(typed) + 1
  BY <1>1, WithIs
<1>3. IF cursor_x + 1 < Columns - 1 THEN Put(key, text)
      ELSE Redraw(text, offs + Step, Columns - 1 - Step)
  BY DEF Type, With
<1>4. text = SubSeq(typed, 1, input_pos) \o <<key>> \o SubSeq(typed, input_pos + 1, Len(typed))
  BY DEF With
<1>5. ASSUME TypedInv', input_pos' = input_pos + 1, typed' = text
      PROVE  TypedInv' /\ Editor!Insert(key)
  BY <1>1, <1>4, <1>5 DEF Editor!Insert
<1>6. CASE cursor_x + 1 < Columns - 1 /\ ~(input_pos < Len(typed))
  <2>1. input_pos = Len(typed)
    BY <1>1, <1>6
  <2>2. Put(key, text)
    BY <1>3, <1>6
  <2> QED
    BY <1>1, <1>5, <1>6, <2>1, <2>2, PutShows
<1> HIDE DEF text
<1>7. Len(text) <= Limit
  BY <1>1, <1>2, Sizes
<1>8. CASE cursor_x + 1 < Columns - 1 /\ input_pos < Len(typed)
  <2> DEFINE x == cursor_x + 1
  <2>1. x \in Line /\ offs + x - 1 = input_pos + 1 /\ offs + x - 1 <= Len(text)
    BY <1>1, <1>2, <1>8, Sizes DEF Line, input_pos
  <2>2. Redraw(text, offs, x)
    BY <1>3, <1>8 DEF Put
  <2> HIDE DEF x
  <2>3. TypedInv' /\ input_pos' = offs + x - 1
    BY <1>1, <1>2, <1>7, <2>1, <2>2, RedrawShows
  <2>4. typed' = text
    BY <2>2 DEF Redraw
  <2>5. input_pos' = input_pos + 1
    BY <2>1, <2>3
  <2> QED
    BY <1>1, <1>5, <2>3, <2>4, <2>5
<1>9. CASE ~(cursor_x + 1 < Columns - 1)
  <2> DEFINE o == offs + Step
             x == Columns - 1 - Step
  <2>1. x \in Line /\ o + x - 1 <= Len(text) /\ o + x - 1 = input_pos + 1
    BY <1>1, <1>2, <1>9, Sizes DEF input_pos
  <2>2. Redraw(text, o, x)
    BY <1>3, <1>9
  <2>3. o \in Nat /\ Stepped(o)
    BY <1>1
  <2> HIDE DEF o, x
  <2>4. TypedInv' /\ input_pos' = o + x - 1
    BY <1>2, <1>7, <2>1, <2>2, <2>3, RedrawShows
  <2>5. typed' = text
    BY <2>2 DEF Redraw
  <2>6. input_pos' = input_pos + 1
    BY <2>1, <2>4
  <2> QED
    BY <1>1, <1>5, <2>4, <2>5, <2>6
<1> QED
  BY <1>1, <1>6, <1>8, <1>9

\* A new input is an empty text.
LEMMA BeginShows ==
  ASSUME Empty, Begin
  PROVE  TypedInv' /\ Editor!Clear
<1>1. typed' = <<>> /\ offs' = 0 /\ cursor_x' = 1 /\ inverse' = {1} /\ arrows' = <<FALSE, FALSE>>
  BY DEF Begin
<1>2. cells' = [x \in Line |-> Blank]
  BY DEF Begin
<1>3. typed' \in Seq(Character) /\ Len(typed') = 0
  BY <1>1
<1>4. input_pos' = 0
  BY <1>1 DEF input_pos
<1>5. 0 \in Nat /\ 0 = 0 * Step
  BY Sizes
<1>6. (0 # 0) = FALSE /\ (0 + Columns - 2 < 0) = FALSE
  <2>1. ~(0 + Columns - 2 < 0)
    BY Sizes DEF Line
  <2> QED
    BY <2>1
<1>7. (arrows[1] = (offs # 0) /\ arrows[2] = (offs + Columns - 2 < Len(typed)) /\ arrows \in BOOLEAN \X BOOLEAN)'
  BY <1>1, <1>3, <1>6
<1>8. (\A x \in Line : cells[x] = IF offs + x <= Len(typed) THEN typed[offs + x] ELSE Blank)'
  <2>1. ASSUME NEW x \in Line
        PROVE  cells'[x] = Blank /\ ~(offs' + x <= Len(typed'))
    BY <1>1, <1>2, <1>3, Sizes
  <2> QED
    BY <2>1 DEF Line
<1>9. DOMAIN cells' = Line
  BY <1>2
<1>10. Stepped(offs)' /\ offs' \in Nat
  BY <1>1, <1>5 DEF Stepped
<1>11. Len(typed') <= Limit /\ cursor_x' \in Line /\ input_pos' <= Len(typed') /\ inverse' = {cursor_x'}
  BY <1>1, <1>3, <1>4, Sizes
<1>12. TypedInv'
  BY <1>3, <1>7, <1>8, <1>9, <1>10, <1>11, Zenon DEF TypedInv, Line
<1> QED
  BY <1>1, <1>4, <1>12 DEF Editor!Clear

\* A closed one too.
LEMMA CloseClears ==
  ASSUME Close
  PROVE  ~input' /\ Empty' /\ Editor!Clear
<1>1. /\ input' = FALSE /\ typed' = <<>> /\ offs' = 0 /\ cursor_x' = 1 /\ inverse' = {}
      /\ arrows' = <<FALSE, FALSE>> /\ cells' = [x \in Line |-> Blank]
  BY Zenon DEF Close
<1>2. input_pos' = 0
  BY <1>1 DEF input_pos
<1>3. Empty'
  BY <1>1, Zenon DEF Empty, Line
<1> QED
  BY <1>1, <1>2, <1>3 DEF Editor!Clear

\* Where the input is left alone, so is the text.
LEMMA EditorRests ==
  ASSUME EditorInv, UNCHANGED <<inputvars, input>>
  PROVE  EditorInv' /\ UNCHANGED <<typed, input_pos>>
<1>1. UNCHANGED <<typed, offs, cursor_x, cells, inverse, arrows, input>>
  BY DEF inputvars
<1>2. UNCHANGED input_pos
  BY <1>1 DEF input_pos
<1>3. TypedInv => TypedInv'
  BY <1>1, <1>2, Zenon DEF TypedInv, Line
<1>4. Empty => Empty'
  BY <1>1, Zenon DEF Empty, Line
<1>5. EditorInv'
  <2>1. input' = input
    BY <1>1
  <2>2. CASE input
    BY <1>3, <2>1, <2>2 DEF EditorInv
  <2>3. CASE ~input
    BY <1>4, <2>1, <2>3 DEF EditorInv
  <2> QED
    BY <2>2, <2>3
<1> QED
  BY <1>1, <1>2, <1>5

\* The keys of the input.
LEMMA InputSteps ==
  ASSUME EditorInv, input, UNCHANGED input, NEW key \in InputKeys, InputKey(key)
  PROVE  EditorInv' /\ [Editor!Next]_<<typed, input_pos>>
<1>1. TypedInv
  BY DEF EditorInv
<1>2. ASSUME Right \/ Left \/ Backspace \/ (key \in Chars /\ Type(key))
      PROVE  TypedInv' /\ Editor!Next
  BY <1>1, <1>2, RightMoves, LeftMoves, BackspaceErases, TypeInserts DEF Editor!Next, Character
<1>3. Right \/ Left \/ Backspace \/ (key \in Chars /\ Type(key)) \/ UNCHANGED inputvars
  BY Zenon DEF InputKey
<1>4. CASE UNCHANGED inputvars
  BY <1>4, EditorRests
<1> QED
  BY <1>2, <1>3, <1>4 DEF EditorInv

\* Enter closes the menu, asks for a name, or leaves the input alone.
LEMMA EnterEdits ==
  ASSUME PagesInv, page # None, Enter
  PROVE  \/ Close
         \/ ~input /\ \E for : AskName(for)
         \/ UNCHANGED <<inputvars, input>>
<1>1. CASE input
  BY <1>1 DEF Enter
<1>2. CASE ~input /\ page = "main"
  <2>1. MainMenuSelect(cursor_y)
    BY <1>2 DEF Enter
  <2> QED
    BY <1>2, <2>1 DEF MainMenuSelect, OpenSelector, pagevars
<1>3. CASE ~input /\ page = "settings"
  <2>1. SettingsMenuSelect(cursor_y)
    BY <1>3 DEF Enter
  <2> QED
    BY <2>1 DEF SettingsMenuSelect, Change, pagevars
<1>4. CASE ~input /\ page = "select"
  <2>1. FileselectorSelect(cursor_y)
    BY <1>4 DEF Enter
  <2> QED
    BY <2>1 DEF FileselectorSelect
<1> QED
  BY <1>1, <1>2, <1>3, <1>4 DEF PagesInv

\* Every step of the menu is a step of the line editor, or none.
LEMMA EditorStep ==
  PagesInv /\ EditorInv /\ [Next]_vars => EditorInv' /\ [Editor!Next]_<<typed, input_pos>>
<1> SUFFICES ASSUME PagesInv, EditorInv, [Next]_vars
             PROVE  EditorInv' /\ [Editor!Next]_<<typed, input_pos>>
  OBVIOUS
<1>1. CASE UNCHANGED <<inputvars, input>>
  BY <1>1, EditorRests
<1>2. CASE Close
  BY <1>2, CloseClears DEF EditorInv, Editor!Next
<1>3. ASSUME NEW for, ~input, AskName(for)
      PROVE  EditorInv' /\ Editor!Next
  <2>1. Begin /\ input' /\ Empty
    BY <1>3 DEF AskName, EditorInv
  <2> QED
    BY <2>1, BeginShows DEF EditorInv, Editor!Next
<1>4. CASE page # None /\ Enter
  BY <1>1, <1>2, <1>3, <1>4, EnterEdits
<1>5. ASSUME input, NEW key \in InputKeys, InputKey(key), UNCHANGED <<pagevars, settings>>
      PROVE  EditorInv' /\ [Editor!Next]_<<typed, input_pos>>
  BY <1>5, InputSteps DEF pagevars
<1>6. CASE UNCHANGED vars
  BY <1>1, <1>6 DEF vars, pagevars
<1>7. CASE MenuOpen \/ (\E dir \in {-1, 1} : Step1(dir)) \/ Dot
  BY <1>1, <1>7 DEF MenuOpen, Step1, Dot
<1> QED
  BY <1>2, <1>4, <1>5, <1>6, <1>7 DEF Next, MenuKey

\* There is no input at first.
LEMMA EditorStarts == Init => EditorInv /\ Editor!Init
BY DEF Init, EditorInv, Editor!Init, Empty, input_pos

\* The window, its arrows and its cursor are those of the text.
LEMMA WindowShows ==
  ASSUME EditorInv
  PROVE  ShownIsTyped
<1> SUFFICES ASSUME input
             PROVE  /\ \A x \in Line : cells[x] = IF offs + x <= Len(typed) THEN typed[offs + x] ELSE Blank
                    /\ inverse = {cursor_x} /\ cursor_x \in Line /\ input_pos \in 0..Len(typed)
                    /\ arrows = <<offs > 0, offs + Columns - 2 < Len(typed)>>
  BY DEF ShownIsTyped
<1>1. TypedInv
  BY DEF EditorInv
<1>2. input_pos \in 0..Len(typed)
  BY <1>1, PlaceIs
<1>3. (offs > 0) = (offs # 0)
  BY <1>1 DEF TypedInv
<1>4. arrows = <<offs # 0, offs + Columns - 2 < Len(typed)>>
  BY <1>1 DEF TypedInv
<1> QED
  BY <1>1, <1>2, <1>3, <1>4 DEF TypedInv

----------------------------------------------------------------------------
(* The lists of files, and the lines in the window.                         *)

\* The least of a set of numbers.
LEMMA MinIs ==
  ASSUME NEW S \in SUBSET Nat, S # {}
  PROVE  Min(S) \in S /\ \A y \in S : Min(S) <= y
<1>1. PICK x \in S : \A y \in S : x <= y
  BY LeastIs
<1> QED
  BY <1>1 DEF Min

\* The greatest of a set of numbers that has a bound.
LEMMA MaxIs ==
  ASSUME NEW K \in Nat, NEW S \in SUBSET (0..K), S # {}
  PROVE  Max(S) \in S /\ \A y \in S : y <= Max(S)
<1> DEFINE Below == {K - y : y \in S}
<1>1. Below \in SUBSET Nat /\ Below # {}
  <2>1. ASSUME NEW y \in S
        PROVE  K - y \in Nat
    <3>1. y \in 0..K
      OBVIOUS
    <3> QED
      BY <3>1
  <2>2. \A b \in Below : b \in Nat
    BY <2>1
  <2>3. PICK y \in S : TRUE
    OBVIOUS
  <2>4. K - y \in Below
    OBVIOUS
  <2> HIDE DEF Below
  <2> QED
    BY <2>2, <2>4
<1> HIDE DEF Below
<1>2. PICK x \in Below : \A y \in Below : x <= y
  BY <1>1, LeastIs
<1>3. PICK z \in S : x = K - z
  BY <1>2 DEF Below
<1>4. ASSUME NEW y \in S
      PROVE  z >= y
  <2>1. K - y \in Below
    BY DEF Below
  <2>2. x <= K - y
    BY <1>2, <2>1
  <2> QED
    BY <1>3, <2>2
<1>5. Max(S) \in S /\ \A y \in S : Max(S) >= y
  BY <1>4 DEF Max
<1> QED
  BY <1>5

\* The lesser of two numbers.
LEMMA LesserIs ==
  ASSUME NEW a \in Nat, NEW b \in Nat
  PROVE  Min({a, b}) = IF a <= b THEN a ELSE b
<1>1. {a, b} \in SUBSET Nat /\ {a, b} # {}
  OBVIOUS
<1>2. Min({a, b}) \in {a, b} /\ \A y \in {a, b} : Min({a, b}) <= y
  BY <1>1, MinIs
<1> QED
  BY <1>2

\* What a name of a list can be.
Types == {"file", "dir", "label", ".", "error"}

\* The loop that fills the list.
LEMMA ListedIs ==
  ASSUME NEW listing \in Seq({"file", "dir", "label", "."})
  PROVE  Listed(listing) \in Seq(Types)
<1> DEFINE D == Seq(Types)
           K == Len(listing)
           Turn(n, s) == IF listing[n] = "." \/ Len(s) = MaxFiles THEN s ELSE Append(s, listing[n])
           F == [p \in (1..K) \X D |-> Turn(p[1], p[2])]
<1>1. K \in Nat /\ <<>> \in D
  OBVIOUS
<1>2. \A n \in 1..K : listing[n] \in Types
  <2>1. \A n \in 1..K : listing[n] \in {"file", "dir", "label", "."}
    OBVIOUS
  <2> QED
    BY <2>1 DEF Types
<1>3. ASSUME NEW n \in 1..K, NEW s \in D
      PROVE  Turn(n, s) \in D
  BY <1>2
<1>4. F \in [(1..K) \X D -> D]
  BY <1>3
<1>5. \A n \in 1..K : \A s \in D : F[<<n, s>>] = Turn(n, s)
  OBVIOUS
<1> HIDE DEF F, D, K, Turn
<1>6. PICK g \in [0..K -> D] : g[0] = <<>> /\ \A n \in 1..K : g[n] = F[<<n, g[n - 1]>>]
  <2>1. RunsOf(K, D, <<>>, F) # {}
    BY <1>1, <1>4, LoopRuns
  <2> QED
    BY <2>1 DEF RunsOf
<1>7. ASSUME NEW n \in 1..K
      PROVE  g[n] = Turn(n, g[n - 1])
  <2>1. n - 1 \in 0..K
    BY <1>1
  <2> QED
    BY <1>5, <1>6, <2>1
<1> DEFINE Body(f) == [n \in 0..K |-> IF n = 0 THEN <<>> ELSE Turn(n, f[n - 1])]
           filled == CHOOSE f : f = Body(f)
<1>8. g = Body(g)
  <2>1. ASSUME NEW n \in 0..K
        PROVE  g[n] = IF n = 0 THEN <<>> ELSE Turn(n, g[n - 1])
    <3>1. CASE n = 0
      BY <1>6, <3>1
    <3>2. CASE n # 0
      <4>1. n \in 1..K
        BY <1>1, <3>2
      <4> QED
        BY <1>7, <3>2, <4>1
    <3> QED
      BY <3>1, <3>2
  <2> QED
    BY <2>1
<1>9. filled = Body(filled)
  <2> HIDE DEF Body
  <2> QED
    BY <1>8, Zenon
<1>10. Listed(listing) = filled[K]
  BY DEF Listed, K, Turn
<1> HIDE DEF filled
<1> DEFINE T == {n \in 0..K : filled[n] \in D}
<1>11. 0 \in T
  BY <1>1, <1>9
<1>12. ASSUME NEW n \in 1..K, n - 1 \in T
       PROVE  n \in T
  <2>1. n \in 0..K /\ n # 0
    BY <1>1
  <2>2. filled[n] = Turn(n, filled[n - 1])
    BY <1>9, <2>1
  <2> QED
    BY <1>3, <1>12, <2>1, <2>2
<1>13. T \in SUBSET (0..K)
  OBVIOUS
<1> HIDE DEF T
<1>14. T = 0..K
  BY <1>1, <1>11, <1>12, <1>13, Turns
<1>15. K \in T
  BY <1>1, <1>14
<1> QED
  BY <1>10, <1>15 DEF T, D

\* Every list that can be shown is one of such names.
LEMMA FillingsAre ==
  ASSUME NEW ns \in Fillings
  PROVE  ns \in Seq(Types)
<1>1. CASE ns = <<"error">>
  BY <1>1 DEF Types
<1>2. ASSUME NEW l \in Listings, ns = Listed(l)
      PROVE  ns \in Seq(Types)
  BY <1>2, MenuAssumption, ListedIs DEF MenuAssumption
<1> QED
  BY <1>1, <1>2 DEF Fillings

\* How many names are in the window, and which of them can be chosen.
Shown(ns, top) == IF Len(ns) - top <= Rows - 4 THEN Len(ns) - top ELSE Rows - 4
\* Which names the highlight can be on.
Choosable(ns, i) == i \in 1..Len(ns) /\ ns[i] \notin {"title", "rule", "minor", "label", "error"}

\* The window from name top + 1 on: three lines of its own, then the names (menu.c:593-627).
LEMMA RefillIs ==
  ASSUME NEW ns \in Seq(Types), NEW top \in 0..Len(ns)
  PROVE  /\ DOMAIN Refill(ns, top) = 1..3 + Shown(ns, top) /\ Shown(ns, top) \in Nat
         /\ Refill(ns, top)[1] = Line0("title") /\ Refill(ns, top)[2] = Line0("label")
         /\ Refill(ns, top)[3] = Line0("rule")
         /\ \A k \in 1..Shown(ns, top) : Refill(ns, top)[3 + k] = <<ns[top + k], top + k>>
<1> DEFINE head == << Line0("title"), Line0("label"), Line0("rule") >>
           tail == [k \in 1..Shown(ns, top) |-> <<ns[top + k], top + k>>]
           S == {Line0("title"), Line0("label"), Line0("rule")} \cup Range(tail)
<1>1. Len(ns) - top \in Nat /\ Rows - 4 \in Nat
  BY MenuAssumption DEF MenuAssumption
<1>2. Min({Len(ns) - top, Rows - 4}) = Shown(ns, top) /\ Shown(ns, top) \in Nat
  BY <1>1, LesserIs DEF Shown
<1>3. Refill(ns, top) = head \o tail
  BY <1>2 DEF Refill
<1>4. tail \in Seq(S) /\ Len(tail) = Shown(ns, top)
  <2>1. \A k \in 1..Shown(ns, top) : tail[k] \in S
    BY DEF Range
  <2>2. tail \in [1..Shown(ns, top) -> S]
    BY <2>1
  <2> HIDE DEF tail, S
  <2> QED
    BY <1>2, <2>2
<1>5. head \in Seq(S) /\ Len(head) = 3 /\ head[1] = Line0("title") /\ head[2] = Line0("label") /\ head[3] = Line0("rule")
  <2> HIDE DEF tail
  <2>1. Line0("title") \in S /\ Line0("label") \in S /\ Line0("rule") \in S
    OBVIOUS
  <2> HIDE DEF S
  <2> QED
    BY <2>1
<1>6. \A k \in 1..Shown(ns, top) : tail[k] = <<ns[top + k], top + k>>
  OBVIOUS
<1> HIDE DEF head, tail, S
<1>7. /\ head \o tail \in Seq(S) /\ Len(head \o tail) = 3 + Shown(ns, top)
      /\ \A k \in 1..3 + Shown(ns, top) : (head \o tail)[k] = IF k <= 3 THEN head[k] ELSE tail[k - 3]
  <2> DEFINE len == Shown(ns, top)
  <2>1. len = Shown(ns, top)
    OBVIOUS
  <2> HIDE DEF len
  <2>2. tail \in Seq(S) /\ head \in Seq(S) /\ Len(tail) = len /\ Len(head) = 3
    BY <1>4, <1>5, <2>1
  <2>3. /\ head \o tail \in Seq(S) /\ Len(head \o tail) = 3 + len
        /\ \A k \in 1..3 + len : (head \o tail)[k] = IF k <= 3 THEN head[k] ELSE tail[k - 3]
    <3>1. /\ head \o tail \in Seq(S) /\ Len(head \o tail) = Len(head) + Len(tail)
          /\ \A k \in 1..Len(head) + Len(tail) :
               (head \o tail)[k] = IF k <= Len(head) THEN head[k] ELSE tail[k - Len(head)]
      BY <2>2, ConcatProperties, Zenon
    <3> QED
      BY <2>2, <3>1
  <2> QED
    BY <2>1, <2>3
<1>8. DOMAIN (head \o tail) = 1..3 + Shown(ns, top)
  BY <1>7, LenProperties
<1>9. ASSUME NEW k \in 1..Shown(ns, top)
      PROVE  (head \o tail)[3 + k] = tail[k]
  BY <1>2, <1>7
<1>10. (head \o tail)[1] = head[1] /\ (head \o tail)[2] = head[2] /\ (head \o tail)[3] = head[3]
  BY <1>2, <1>7
<1> QED
  BY <1>2, <1>3, <1>5, <1>6, <1>8, <1>9, <1>10

\* The lines that can be highlighted are those of the names that can be chosen.
LEMMA OfferedIs ==
  ASSUME NEW ns \in Seq(Types), NEW top \in 0..Len(ns)
  PROVE  /\ Offered(Refill(ns, top)) \in SUBSET (4..3 + Shown(ns, top))
         /\ \A i \in 1..Len(ns) :
              i - top + 3 \in Offered(Refill(ns, top)) <=> i > top /\ i <= top + (Rows - 4) /\ Choosable(ns, i)
<1> DEFINE ls == Refill(ns, top)
           n == Shown(ns, top)
<1>1. /\ DOMAIN ls = 1..3 + n /\ n \in Nat
      /\ ls[1] = Line0("title") /\ ls[2] = Line0("label") /\ ls[3] = Line0("rule")
      /\ \A k \in 1..n : ls[3 + k] = <<ns[top + k], top + k>>
  BY RefillIs
<1>2. top \in Nat /\ Len(ns) \in Nat /\ Rows - 4 \in Nat
  BY MenuAssumption DEF MenuAssumption
<1>3. \A k \in Int : k \in 1..n <=> k > 0 /\ top + k <= Len(ns) /\ k <= Rows - 4
  BY <1>2 DEF Shown
<1> HIDE DEF ls, n
<1>4. ASSUME NEW y \in Offered(ls)
      PROVE  y \in 4..3 + n
  <2>1. y \in 1..3 + n /\ Selectable(ls[y])
    BY <1>1 DEF Offered
  <2>2. ~Selectable(ls[1]) /\ ~Selectable(ls[2]) /\ ~Selectable(ls[3])
    BY <1>1 DEF Selectable, Line0
  <2>3. y # 1 /\ y # 2 /\ y # 3
    BY <2>1, <2>2
  <2> QED
    BY <1>1, <2>1, <2>3
<1>5. ASSUME NEW i \in 1..Len(ns)
      PROVE  i - top + 3 \in Offered(ls) <=> i > top /\ i <= top + (Rows - 4) /\ Choosable(ns, i)
  <2> DEFINE k == i - top
  <2>1. k \in Int /\ i - top + 3 = 3 + k /\ top + k = i
    BY <1>2
  <2>2. k \in 1..n <=> i > top /\ i <= top + (Rows - 4)
    BY <1>2, <1>3
  <2>3. CASE k \in 1..n
    <3> HIDE DEF k
    <3>1. ls[3 + k] = <<ns[i], i>> /\ 3 + k \in DOMAIN ls
      <4>1. ls[3 + k] = <<ns[top + k], top + k>>
        BY <1>1, <2>3
      <4> QED
        BY <1>1, <2>1, <2>3, <4>1
    <3>2. Selectable(ls[3 + k]) <=> Choosable(ns, i)
      <4>1. ls[3 + k][1] = ns[i]
        BY <3>1
      <4> QED
        BY <4>1, Zenon DEF Selectable, Choosable
    <3>3. 3 + k \in Offered(ls) <=> Choosable(ns, i)
      BY <3>1, <3>2 DEF Offered
    <3> QED
      BY <2>1, <2>2, <2>3, <3>3
  <2>4. CASE k \notin 1..n
    <3> HIDE DEF k
    <3>1. 3 + k \notin 4..3 + n
      BY <1>1, <2>1, <2>4
    <3>2. 3 + k \notin Offered(ls)
      BY <1>4, <3>1
    <3> QED
      BY <2>1, <2>2, <2>4, <3>2
  <2> QED
    BY <2>3, <2>4
<1> QED
  BY <1>4, <1>5 DEF ls, n

----------------------------------------------------------------------------
(* The highlighted line.                                                    *)

\* The window from name top + 1 on, with line y highlighted, or none if none can be.
View(ns, top, y) ==
  /\ top \in 0..Len(ns) /\ (top = 0 \/ top + (Rows - 4) <= Len(ns))
  /\ IF Offered(Refill(ns, top)) = {} THEN y = 0 ELSE y \in Offered(Refill(ns, top))

\* The lines that the highlight can go on to, and the first and the last of some lines in a direction.
Ahead(ls, y, dir) == {z \in Offered(ls) : IF dir > 0 THEN z > y ELSE z < y}
Nearest(S, dir) == IF dir > 0 THEN Min(S) ELSE Max(S)
Farthest(S, dir) == IF dir > 0 THEN Max(S) ELSE Min(S)

\* They are lines of the set, and all others are between them.
LEMMA EndsAre ==
  ASSUME NEW K \in Nat, NEW S \in SUBSET (0..K), S # {}, NEW dir \in {-1, 1}
  PROVE  /\ Nearest(S, dir) \in S /\ Farthest(S, dir) \in S
         /\ \A z \in S : IF dir > 0 THEN Nearest(S, dir) <= z /\ z <= Farthest(S, dir)
                         ELSE Farthest(S, dir) <= z /\ z <= Nearest(S, dir)
<1>1. S \in SUBSET Nat
  OBVIOUS
<1>2. Min(S) \in S /\ \A z \in S : Min(S) <= z
  BY <1>1, MinIs
<1>3. Max(S) \in S /\ \A z \in S : z <= Max(S)
  BY MaxIs
<1> QED
  BY <1>2, <1>3 DEF Nearest, Farthest

\* Where a step of the highlight leads (menu.c:593-627): to the next line, to the next window, or nowhere.
LEMMA MovedIs ==
  ASSUME NEW ls, NEW y, NEW top, NEW dir, NEW ns
  PROVE  Moved(ls, y, top, dir, ns) =
           IF Ahead(ls, y, dir) # {} THEN At(ls, Nearest(Ahead(ls, y, dir), dir), top)
           ELSE IF Scroll(ns, top, dir)
           THEN At(Refill(ns, top + dir),
                   IF Offered(Refill(ns, top + dir)) = {} THEN 0 ELSE Farthest(Offered(Refill(ns, top + dir)), dir),
                   top + dir)
           ELSE At(ls, y, top)
BY Zenon DEF Moved, Scrolled, Ahead, Nearest, Farthest

\* The lines of the names, by place.
LEMMA PlacesAre ==
  ASSUME NEW ns \in Seq(Types), NEW top \in 0..Len(ns)
  PROVE  /\ Offered(Refill(ns, top)) \in SUBSET (0..3 + Rows)
         /\ \A y \in Offered(Refill(ns, top)) :
              /\ y \in Nat /\ y >= 4 /\ y <= 3 + (Rows - 4)
              /\ top + y - 3 \in 1..Len(ns) /\ Choosable(ns, top + y - 3)
<1>1. top \in Nat /\ Len(ns) \in Nat /\ Rows \in Nat /\ Rows > 4
  BY MenuAssumption DEF MenuAssumption
<1>2. /\ Offered(Refill(ns, top)) \in SUBSET (4..3 + Shown(ns, top)) /\ Shown(ns, top) \in Nat
      /\ \A i \in 1..Len(ns) : i - top + 3 \in Offered(Refill(ns, top)) => Choosable(ns, i)
  BY OfferedIs, RefillIs
<1>3. Shown(ns, top) <= Rows - 4 /\ top + Shown(ns, top) <= Len(ns)
  BY <1>1 DEF Shown
<1>4. ASSUME NEW y \in Offered(Refill(ns, top))
      PROVE  y \in 0..3 + Rows /\ y \in Nat /\ y >= 4 /\ y <= 3 + (Rows - 4)
             /\ top + y - 3 \in 1..Len(ns) /\ Choosable(ns, top + y - 3)
  <2>1. y \in 4..3 + Shown(ns, top)
    BY <1>2
  <2>2. /\ y \in Nat /\ y >= 4 /\ y <= 3 + (Rows - 4) /\ y \in 0..3 + Rows
        /\ top + y - 3 \in 1..Len(ns) /\ (top + y - 3) - top + 3 = y
    BY <1>1, <1>2, <1>3, <2>1
  <2> QED
    BY <1>2, <2>2
<1> QED
  BY <1>4

\* From a line of the window, or from its top, to another view.
LEMMA MovedView ==
  ASSUME NEW ns \in Seq(Types), NEW top, NEW y, NEW dir \in {-1, 1},
         View(ns, top, y) \/ (top = 0 /\ y = 0 /\ dir = 1)
  PROVE  \E t, z : View(ns, t, z) /\ Moved(Refill(ns, top), y, top, dir, ns) = At(Refill(ns, t), z, t)
<1> DEFINE ls == Refill(ns, top)
<1>1. top \in 0..Len(ns) /\ Len(ns) \in Nat /\ Rows \in Nat /\ Rows > 4
  BY MenuAssumption DEF View, MenuAssumption
<1>2. Offered(ls) \in SUBSET (0..3 + Rows) /\ \A z \in Offered(ls) : z >= 4
  BY <1>1, PlacesAre
<1>3. Ahead(ls, y, dir) \in SUBSET Offered(ls)
  BY DEF Ahead
<1>4. CASE Ahead(ls, y, dir) # {}
  <2>1. Nearest(Ahead(ls, y, dir), dir) \in Ahead(ls, y, dir)
    <3>1. 3 + Rows \in Nat /\ Ahead(ls, y, dir) \in SUBSET (0..3 + Rows)
      BY <1>1, <1>2, <1>3
    <3> QED
      BY <1>4, <3>1, EndsAre
  <2>2. View(ns, top, Nearest(Ahead(ls, y, dir), dir))
    BY <1>1, <1>3, <2>1 DEF View
  <2>3. Moved(ls, y, top, dir, ns) = At(ls, Nearest(Ahead(ls, y, dir), dir), top)
    BY <1>4, MovedIs, Zenon
  <2> QED
    BY <2>2, <2>3
<1>5. CASE Ahead(ls, y, dir) = {} /\ ~Scroll(ns, top, dir)
  <2>1. View(ns, top, y)
    <3>1. CASE View(ns, top, y)
      BY <3>1
    <3>2. CASE top = 0 /\ y = 0 /\ dir = 1
      <4>1. Offered(ls) = {}
        BY <1>2, <1>5, <3>2 DEF Ahead
      <4> QED
        BY <1>1, <3>2, <4>1 DEF View
    <3> QED
      BY <3>1, <3>2
  <2>2. Moved(ls, y, top, dir, ns) = At(ls, y, top)
    BY <1>5, MovedIs, Zenon
  <2> QED
    BY <2>1, <2>2
<1>6. CASE Ahead(ls, y, dir) = {} /\ Scroll(ns, top, dir)
  <2> DEFINE new == Offered(Refill(ns, top + dir))
             z == IF new = {} THEN 0 ELSE Farthest(new, dir)
  <2>1. top + dir \in 0..Len(ns)
    BY <1>1, <1>6 DEF Scroll
  <2>2. new \in SUBSET (0..3 + Rows) /\ 3 + Rows \in Nat
    BY <1>1, <2>1, PlacesAre
  <2>3. new # {} => Farthest(new, dir) \in new
    <3> HIDE DEF new
    <3> QED
      BY <2>2, EndsAre
  <2>4. View(ns, top + dir, z)
    <3>1. top + dir = 0 \/ top + dir + (Rows - 4) <= Len(ns)
      BY <1>1, <1>6 DEF Scroll, View
    <3> QED
      BY <2>1, <2>3, <3>1 DEF View
  <2>5. Moved(ls, y, top, dir, ns) = At(Refill(ns, top + dir), z, top + dir)
    BY <1>6, MovedIs, Zenon
  <2> QED
    BY <2>4, <2>5
<1> QED
  BY <1>4, <1>5, <1>6

\* How far name i is below the highlighted line, in lines and in turns of the window.
Below(top, y, i) == IF y = 0 THEN i > top + (Rows - 4) ELSE i > top + y - 3
Down(n, top, y, i) == (i - (IF y = 0 THEN top ELSE top + y - 3)) + (n - top)

\* And above it.
Above(top, y, i) == IF y = 0 THEN i <= top ELSE i < top + y - 3
Up(top, y, i) == ((IF y = 0 THEN top + (Rows - 4) ELSE top + y - 3) - i) + top

\* The highlighted line is that of name i.
Hit(top, y, i) == y > 0 /\ top + y - 3 = i

\* Down comes nearer to a name below, and does not pass it.
LEMMA DownNearer ==
  ASSUME NEW ns \in Seq(Types), NEW i \in 1..Len(ns), Choosable(ns, i),
         NEW top, NEW y, View(ns, top, y), Below(top, y, i),
         NEW t, NEW z, View(ns, t, z), Moved(Refill(ns, top), y, top, 1, ns) = At(Refill(ns, t), z, t)
  PROVE  Hit(t, z, i) \/ (Below(t, z, i) /\ Down(Len(ns), t, z, i) < Down(Len(ns), top, y, i))
<1> DEFINE ls == Refill(ns, top)
           W == Rows - 4
           ahead == Ahead(ls, y, 1)
           new == Offered(Refill(ns, top + 1))
<1>1. /\ top \in Nat /\ t \in Nat /\ Len(ns) \in Nat /\ W \in Nat /\ W > 0 /\ top <= Len(ns) /\ t <= Len(ns)
      /\ i \in Nat /\ Rows \in Nat /\ i <= Len(ns) /\ i > 0
  BY MenuAssumption DEF View, MenuAssumption
<1>2. /\ Offered(ls) \in SUBSET (0..3 + Rows)
      /\ \A u \in Offered(ls) : u \in Nat /\ u >= 4 /\ u <= 3 + W /\ top + u - 3 \in 1..Len(ns) /\ Choosable(ns, top + u - 3)
  BY <1>1, PlacesAre
<1>3. y \in Nat /\ (y = 0 \/ (y >= 4 /\ y \in Offered(ls)))
  BY <1>2 DEF View
<1>4. i > top /\ i <= top + W => i - top + 3 \in Offered(ls)
  BY <1>1, OfferedIs
<1>5. i <= top + W => i - top + 3 \in ahead
  BY <1>1, <1>3, <1>4 DEF Below, Ahead
<1>6. \A u : u \in ahead <=> u \in Offered(ls) /\ u > y
  BY DEF Ahead
<1>7. At(Refill(ns, t), z, t).cursor_y = z /\ At(Refill(ns, t), z, t).top_entry = t
  BY DEF At
<1> HIDE DEF ahead, ls
<1>8. CASE ahead # {}
  <2>1. Moved(ls, y, top, 1, ns) = At(ls, Nearest(ahead, 1), top)
    BY <1>8, MovedIs, Zenon DEF ahead
  <2>2. z = Nearest(ahead, 1) /\ t = top
    BY <1>7, <2>1 DEF At, ls
  <2>3. ahead \in SUBSET Nat /\ z = Min(ahead)
    BY <1>2, <1>6, <2>2 DEF Nearest
  <2>4. z \in ahead /\ \A u \in ahead : z <= u
    BY <1>8, <2>3, MinIs
  <2>5. z \in Nat /\ z >= 4 /\ z <= 3 + W /\ z > y
    BY <1>2, <1>6, <2>4
  <2>6. top + z - 3 <= i
    BY <1>1, <1>5, <2>4, <2>5
  <2> HIDE DEF W
  <2>7. z > 0 /\ (top + z - 3 = i \/ i > top + z - 3) /\ ~(z = 0)
    BY <1>1, <2>5, <2>6
  <2>8. (i - (top + z - 3)) + (Len(ns) - top) < (i - (IF y = 0 THEN top ELSE top + y - 3)) + (Len(ns) - top)
    BY <1>1, <1>3, <2>5
  <2> QED
    BY <2>2, <2>7, <2>8 DEF Hit, Below, Down
<1>9. CASE ahead = {}
  <2>1. i > top + W
    BY <1>1, <1>5, <1>9
  <2>2. Scroll(ns, top, 1)
    BY <1>1, <2>1 DEF Scroll
  <2>3. Moved(ls, y, top, 1, ns) = At(Refill(ns, top + 1), IF new = {} THEN 0 ELSE Farthest(new, 1), top + 1)
    BY <1>9, <2>2, MovedIs, Zenon DEF ahead
  <2>4. z = (IF new = {} THEN 0 ELSE Farthest(new, 1)) /\ t = top + 1
    BY <1>7, <2>3 DEF At, ls
  <2>5. t \in 0..Len(ns)
    BY <1>1
  <2>6. /\ new \in SUBSET (0..3 + Rows) /\ 3 + Rows \in Nat
        /\ \A u \in new : u \in Nat /\ u >= 4 /\ u <= 3 + W
    BY <1>1, <2>4, <2>5, PlacesAre, SMTT(30)
  <2>7. \A j \in 1..Len(ns) : j > t /\ j <= t + W /\ Choosable(ns, j) => j - t + 3 \in new
    BY <2>4, <2>5, OfferedIs
  <2> HIDE DEF new, W
  <2>8. i = t + W => i - t + 3 \in new
    BY <1>1, <2>7
  <2>9. CASE new = {}
    <3>1. z = 0 /\ i > t + W
      BY <1>1, <2>1, <2>4, <2>8, <2>9
    <3>2. y = 0 \/ y = 4
      <4> SUFFICES ASSUME y >= 5
                   PROVE  FALSE
        BY <1>3
      <4>1. /\ top + y - 3 \in 1..Len(ns) /\ Choosable(ns, top + y - 3)
            /\ top + y - 3 > t /\ top + y - 3 <= t + W
        BY <1>1, <1>2, <1>3, <2>4
      <4> QED
        BY <2>7, <2>9, <4>1
    <3>3. (i - t) + (Len(ns) - t) < (i - (IF y = 0 THEN top ELSE top + y - 3)) + (Len(ns) - top)
      BY <1>1, <2>4, <3>2
    <3> QED
      BY <3>1, <3>3 DEF Below, Down, W
  <2>10. CASE new # {}
    <3>1. z \in new /\ \A u \in new : u <= z
      <4>1. z = Max(new)
        BY <2>4, <2>10 DEF Farthest
      <4> QED
        BY <2>6, <2>10, <4>1, MaxIs
    <3>2. z \in Nat /\ z >= 4 /\ z <= 3 + W
      BY <2>6, <3>1
    <3>3. t + z - 3 <= i
      BY <1>1, <2>1, <2>4, <3>2
    <3>4. y >= 5 => y - 1 <= z
      <4> SUFFICES ASSUME y >= 5
                   PROVE  y - 1 <= z
        OBVIOUS
      <4>1. /\ top + y - 3 \in 1..Len(ns) /\ Choosable(ns, top + y - 3)
            /\ top + y - 3 > t /\ top + y - 3 <= t + W
        BY <1>1, <1>2, <1>3, <2>4
      <4>2. (top + y - 3) - t + 3 \in new
        BY <2>7, <4>1
      <4> QED
        BY <1>1, <1>3, <2>4, <3>1, <3>2, <4>2, SMTT(30)
    <3>5. (i - (t + z - 3)) + (Len(ns) - t) < (i - (IF y = 0 THEN top ELSE top + y - 3)) + (Len(ns) - top)
      BY <1>1, <1>3, <2>4, <3>2, <3>4, SMTT(30)
    <3>6. z > 0 /\ (t + z - 3 = i \/ i > t + z - 3) /\ ~(z = 0)
      BY <1>1, <3>2, <3>3
    <3> QED
      BY <3>5, <3>6 DEF Hit, Below, Down
  <2> QED
    BY <2>9, <2>10
<1> QED
  BY <1>8, <1>9

\* Up comes nearer to a name above, and does not pass it.
LEMMA UpNearer ==
  ASSUME NEW ns \in Seq(Types), NEW i \in 1..Len(ns), Choosable(ns, i),
         NEW top, NEW y, View(ns, top, y), Above(top, y, i),
         NEW t, NEW z, View(ns, t, z), Moved(Refill(ns, top), y, top, -1, ns) = At(Refill(ns, t), z, t)
  PROVE  Hit(t, z, i) \/ (Above(t, z, i) /\ Up(t, z, i) < Up(top, y, i))
<1> DEFINE ls == Refill(ns, top)
           W == Rows - 4
           ahead == Ahead(ls, y, -1)
           new == Offered(Refill(ns, top + -1))
<1>1. /\ top \in Nat /\ t \in Nat /\ Len(ns) \in Nat /\ W \in Nat /\ W > 0 /\ top <= Len(ns) /\ t <= Len(ns)
      /\ i \in Nat /\ Rows \in Nat /\ i <= Len(ns) /\ i > 0
  BY MenuAssumption DEF View, MenuAssumption
<1>2. /\ Offered(ls) \in SUBSET (0..3 + Rows)
      /\ \A u \in Offered(ls) : u \in Nat /\ u >= 4 /\ u <= 3 + W /\ top + u - 3 \in 1..Len(ns) /\ Choosable(ns, top + u - 3)
  BY <1>1, PlacesAre
<1>3. y \in Nat /\ (y = 0 \/ (y >= 4 /\ y <= 3 + W /\ y \in Offered(ls)))
  BY <1>2 DEF View
<1>4. i > top /\ i <= top + W => i - top + 3 \in Offered(ls)
  BY <1>1, OfferedIs
<1>5. i > top => i - top + 3 \in ahead
  BY <1>1, <1>3, <1>4 DEF Above, Ahead
<1>6. \A u : u \in ahead <=> u \in Offered(ls) /\ u < y
  BY DEF Ahead
<1>7. At(Refill(ns, t), z, t).cursor_y = z /\ At(Refill(ns, t), z, t).top_entry = t
  BY DEF At
<1> HIDE DEF ahead, ls
<1>8. CASE ahead # {}
  <2>1. Moved(ls, y, top, -1, ns) = At(ls, Nearest(ahead, -1), top)
    BY <1>8, MovedIs, Zenon DEF ahead
  <2>2. z = Nearest(ahead, -1) /\ t = top
    BY <1>7, <2>1 DEF At, ls
  <2>3. ahead \in SUBSET (0..3 + Rows) /\ 3 + Rows \in Nat /\ z = Max(ahead)
    BY <1>1, <1>2, <1>6, <2>2 DEF Nearest
  <2>4. z \in ahead /\ \A u \in ahead : u <= z
    BY <1>8, <2>3, MaxIs
  <2>5. z \in Nat /\ z >= 4 /\ z <= 3 + W /\ z < y
    BY <1>2, <1>6, <2>4
  <2>6. i <= top + z - 3
    BY <1>1, <1>5, <2>4, <2>5
  <2> HIDE DEF W
  <2>7. z > 0 /\ (top + z - 3 = i \/ i < top + z - 3) /\ ~(z = 0)
    BY <1>1, <2>5, <2>6
  <2>8. ((top + z - 3) - i) + top < ((IF y = 0 THEN top + W ELSE top + y - 3) - i) + top
    BY <1>1, <1>3, <2>5
  <2> QED
    BY <2>2, <2>7, <2>8 DEF Hit, Above, Up, W
<1>9. CASE ahead = {}
  <2>1. i <= top
    BY <1>1, <1>5, <1>9
  <2>2. Scroll(ns, top, -1)
    BY <1>1, <2>1 DEF Scroll
  <2>3. Moved(ls, y, top, -1, ns) = At(Refill(ns, top + -1), IF new = {} THEN 0 ELSE Farthest(new, -1), top + -1)
    BY <1>9, <2>2, MovedIs, Zenon DEF ahead
  <2>4. z = (IF new = {} THEN 0 ELSE Farthest(new, -1)) /\ t = top + -1
    BY <1>7, <2>3 DEF At, ls
  <2>5. t \in 0..Len(ns)
    BY <1>1
  <2>12. t = top - 1
    BY <1>1, <2>4
  <2>6. /\ new \in SUBSET Nat
        /\ \A u \in new : u \in Nat /\ u >= 4 /\ u <= 3 + W
    BY <1>1, <2>4, <2>5, PlacesAre
  <2>7. \A j \in 1..Len(ns) : j > t /\ j <= t + W /\ Choosable(ns, j) => j - t + 3 \in new
    BY <2>4, <2>5, OfferedIs
  <2> HIDE DEF new, W
  <2>8. i = top => i - t + 3 \in new
    BY <1>1, <2>4, <2>7
  <2>9. y # 0 /\ y <= 2 + W => y + 1 \in new
    <3> SUFFICES ASSUME y # 0, y <= 2 + W
                 PROVE  y + 1 \in new
      OBVIOUS
    <3>1. /\ top + y - 3 \in 1..Len(ns) /\ Choosable(ns, top + y - 3)
          /\ top + y - 3 > t /\ top + y - 3 <= t + W
      BY <1>1, <1>2, <1>3, <2>4, SMTT(30)
    <3>2. (top + y - 3) - t + 3 \in new
      BY <2>7, <3>1
    <3> QED
      BY <1>1, <1>3, <2>4, <3>2
  <2>10. CASE new = {}
    <3>1. z = 0 /\ i <= t
      BY <1>1, <2>1, <2>4, <2>8, <2>10
    <3>2. y = 0 \/ y = 3 + W
      BY <1>1, <1>3, <2>9, <2>10
    <3>3. ((t + W) - i) + t < ((IF y = 0 THEN top + W ELSE top + y - 3) - i) + top
      BY <1>1, <2>4, <3>2
    <3> QED
      BY <3>1, <3>3 DEF Above, Up, W
  <2>11. CASE new # {}
    <3>1. z \in new /\ \A u \in new : z <= u
      <4>1. z = Min(new)
        BY <2>4, <2>11 DEF Farthest
      <4> QED
        BY <2>6, <2>11, <4>1, MinIs
    <3>2. z \in Nat /\ z >= 4 /\ z <= 3 + W
      BY <2>6, <3>1
    <3>3. i <= t + z - 3
      BY <1>1, <2>1, <2>4, <3>2
    <3>4. y # 0 /\ y <= 2 + W => z <= y + 1
      BY <2>9, <3>1
    <3>5. ((t + z - 3) - i) + t < ((IF y = 0 THEN top + W ELSE top + y - 3) - i) + top
      <4>1. CASE y = 0
        <5>1. ((t + z - 3) - i) + t < ((top + W) - i) + top
          BY <1>1, <2>12, <3>2
        <5> QED
          BY <4>1, <5>1
      <4>2. CASE y # 0 /\ y <= 2 + W
        <5>1. z <= y + 1
          BY <3>4, <4>2
        <5>2. ((t + z - 3) - i) + t < ((top + y - 3) - i) + top
          BY <1>1, <1>3, <2>12, <3>2, <5>1
        <5> QED
          BY <4>2, <5>2
      <4>3. CASE y = 3 + W
        <5>1. y # 0
          BY <1>1, <4>3
        <5>2. ((t + z - 3) - i) + t < ((top + y - 3) - i) + top
          BY <1>1, <2>12, <3>2, <4>3
        <5> QED
          BY <5>1, <5>2
      <4> QED
        BY <1>1, <1>3, <4>1, <4>2, <4>3
    <3>6. z > 0 /\ (t + z - 3 = i \/ i < t + z - 3) /\ ~(z = 0)
      BY <1>1, <3>2, <3>3
    <3> QED
      BY <3>5, <3>6 DEF Hit, Above, Up, W
  <2> QED
    BY <2>10, <2>11
<1> QED
  BY <1>8, <1>9

\* The views that Down alone, or Up alone, goes through.
IsRun(g, dir) ==
  /\ g[0] = At(lines, cursor_y, top_entry)
  /\ \A n \in 1..2 * Len(names) :
       g[n] = Moved(g[n - 1].lines, g[n - 1].cursor_y, g[n - 1].top_entry, dir, names)
  /\ \A n \in 0..2 * Len(names) : \E t, z : View(names, t, z) /\ g[n] = At(Refill(names, t), z, t)
  /\ \A n \in 0..2 * Len(names) : g[n].cursor_y > 0 => g[n].lines[g[n].cursor_y] \in Reached(dir)

\* Down alone, or Up alone, pressed 2 * Len(names) times, goes through views of the list.
LEMMA RunExists ==
  ASSUME names \in Seq(Types), View(names, top_entry, cursor_y), lines = Refill(names, top_entry),
         NEW dir \in {-1, 1}
  PROVE  \E g : IsRun(g, dir)
<1> DEFINE K == 2 * Len(names)
           Turn(m) == Moved(m.lines, m.cursor_y, m.top_entry, dir, names)
           Views == {q \in (0..Len(names)) \X (0..3 + Rows) : View(names, q[1], q[2])}
           D == {At(Refill(names, q[1]), q[2], q[1]) : q \in Views}
           F == [p \in (1..K) \X D |-> Turn(p[2])]
           start == At(lines, cursor_y, top_entry)
<1>1. K \in Nat /\ Rows \in Nat
  BY MenuAssumption DEF MenuAssumption
<1>2. ASSUME NEW t, NEW z, View(names, t, z)
      PROVE  At(Refill(names, t), z, t) \in D
  <2>1. t \in 0..Len(names) /\ z \in 0..3 + Rows
    BY <1>1, <1>2, PlacesAre, SMTT(30) DEF View
  <2>2. <<t, z>> \in Views
    BY <1>2, <2>1
  <2> QED
    BY <2>2
<1>3. ASSUME NEW m \in D
      PROVE  \E t, z : View(names, t, z) /\ m = At(Refill(names, t), z, t)
  BY <1>3
<1>4. start \in D
  BY <1>2
<1>5. ASSUME NEW m \in D
      PROVE  Turn(m) \in D
  <2>1. PICK t, z : View(names, t, z) /\ m = At(Refill(names, t), z, t)
    BY <1>3
  <2>2. m.lines = Refill(names, t) /\ m.cursor_y = z /\ m.top_entry = t
    BY <2>1 DEF At
  <2>3. Turn(m) = Moved(Refill(names, t), z, t, dir, names)
    BY <2>2
  <2> HIDE DEF Turn, D
  <2>4. PICK u, x : View(names, u, x) /\ Moved(Refill(names, t), z, t, dir, names) = At(Refill(names, u), x, u)
    BY <2>1, MovedView
  <2> QED
    BY <1>2, <2>3, <2>4
<1>6. F \in [(1..K) \X D -> D]
  <2> HIDE DEF D, Turn
  <2> QED
    BY <1>5
<1>7. \A n \in 1..K : \A m \in D : F[<<n, m>>] = Turn(m)
  <2> HIDE DEF D, Turn
  <2> QED
    OBVIOUS
<1> HIDE DEF D, F, K, Turn, start
<1>8. PICK g \in [0..K -> D] : g[0] = start /\ \A n \in 1..K : g[n] = F[<<n, g[n - 1]>>]
  <2>1. RunsOf(K, D, start, F) # {}
    BY <1>1, <1>4, <1>6, LoopRuns
  <2> QED
    BY <2>1 DEF RunsOf
<1>9. ASSUME NEW n \in 1..K
      PROVE  g[n] = Turn(g[n - 1])
  <2>1. n - 1 \in 0..K
    BY <1>1
  <2> QED
    BY <1>7, <1>8, <2>1
<1> DEFINE Body(f) == [n \in 0..K |-> IF n = 0 THEN start ELSE Turn(f[n - 1])]
           after == CHOOSE f : f = Body(f)
<1>10. g = Body(g)
  <2>1. ASSUME NEW n \in 0..K
        PROVE  g[n] = IF n = 0 THEN start ELSE Turn(g[n - 1])
    <3>1. CASE n = 0
      BY <1>8, <3>1
    <3>2. CASE n # 0
      <4>1. n \in 1..K
        BY <1>1, <3>2
      <4> QED
        BY <1>9, <3>2, <4>1
    <3> QED
      BY <3>1, <3>2
  <2> QED
    BY <2>1
<1>11. after = Body(after)
  <2> HIDE DEF Body
  <2> QED
    BY <1>10, Zenon
<1>12. Reached(dir) = {after[n].lines[after[n].cursor_y] : n \in {k \in DOMAIN after : after[k].cursor_y > 0}}
  BY DEF Reached, K, start, Turn
<1> HIDE DEF after
<1>13. DOMAIN after = 0..K /\ after[0] = start
  BY <1>1, <1>11
<1>14. ASSUME NEW n \in 1..K
       PROVE  after[n] = Turn(after[n - 1])
  <2>1. n \in 0..K /\ n # 0
    BY <1>1
  <2> QED
    BY <1>11, <2>1
<1> DEFINE T == {n \in 0..K : after[n] \in D}
<1>15. T = 0..K
  <2>1. 0 \in T
    BY <1>1, <1>4, <1>13
  <2>2. ASSUME NEW n \in 1..K, n - 1 \in T
        PROVE  n \in T
    <3>1. n \in 0..K
      BY <1>1
    <3> QED
      BY <1>5, <1>14, <2>2, <3>1
  <2>3. T \in SUBSET (0..K)
    OBVIOUS
  <2> HIDE DEF T
  <2> QED
    BY <1>1, <2>1, <2>2, <2>3, Turns
<1>16. ASSUME NEW n \in 0..K
       PROVE  \E t, z : View(names, t, z) /\ after[n] = At(Refill(names, t), z, t)
  BY <1>3, <1>15
<1>17. ASSUME NEW n \in 0..K, after[n].cursor_y > 0
       PROVE  after[n].lines[after[n].cursor_y] \in Reached(dir)
  BY <1>12, <1>13, <1>17
<1>18. IsRun(after, dir)
  BY <1>13, <1>14, <1>16, <1>17 DEF IsRun, K, start, Turn
<1> QED
  BY <1>18

\* What the highlighted line says.
LEMMA HitShows ==
  ASSUME NEW ns \in Seq(Types), NEW i \in 1..Len(ns), NEW top, NEW y, View(ns, top, y), Hit(top, y, i)
  PROVE  Refill(ns, top)[y] = <<ns[i], i>> /\ Choosable(ns, i)
<1>1. top \in 0..Len(ns) /\ top \in Nat /\ i \in Nat
  BY DEF View
<1>2. y \in Offered(Refill(ns, top))
  BY DEF View, Hit
<1>3. y \in 4..3 + Shown(ns, top) /\ Shown(ns, top) \in Nat
  BY <1>1, <1>2, OfferedIs, RefillIs
<1> DEFINE k == y - 3
<1>4. k \in 1..Shown(ns, top) /\ y = 3 + k /\ top + k = i
  BY <1>1, <1>3 DEF Hit
<1>5. Choosable(ns, i)
  BY <1>1, <1>2, PlacesAre DEF Hit
<1> HIDE DEF k
<1>6. Refill(ns, top)[3 + k] = <<ns[top + k], top + k>>
  BY <1>1, <1>4, RefillIs
<1> QED
  BY <1>4, <1>5, <1>6

\* Which key leads from the window to a name.
LEMMA SidesAre ==
  ASSUME NEW ns \in Seq(Types), NEW i \in 1..Len(ns), Choosable(ns, i), NEW top, NEW y, View(ns, top, y)
  PROVE  /\ Hit(top, y, i) \/ Below(top, y, i) \/ Above(top, y, i)
         /\ Below(top, y, i) => Down(Len(ns), top, y, i) \in 1..2 * Len(ns)
         /\ Above(top, y, i) => Up(top, y, i) \in 1..2 * Len(ns)
<1>1. /\ top \in Nat /\ top <= Len(ns) /\ Len(ns) \in Nat /\ Rows \in Nat /\ Rows > 4
      /\ i \in Nat /\ i > 0 /\ i <= Len(ns) /\ (top = 0 \/ top + (Rows - 4) <= Len(ns))
  BY MenuAssumption DEF View, MenuAssumption
<1>2. y = 0 \/ (y \in Nat /\ y >= 4 /\ top + y - 3 \in 1..Len(ns))
  BY <1>1, PlacesAre DEF View
<1>3. i > top /\ i <= top + (Rows - 4) => y # 0
  <2> SUFFICES ASSUME i > top, i <= top + (Rows - 4)
               PROVE  y # 0
    OBVIOUS
  <2>1. i - top + 3 \in Offered(Refill(ns, top))
    BY <1>1, OfferedIs
  <2>2. y \in Offered(Refill(ns, top))
    BY <2>1 DEF View
  <2> QED
    BY <1>1, <2>2, PlacesAre
<1>4. CASE y = 0
  BY <1>1, <1>3, <1>4 DEF Hit, Below, Above, Down, Up
<1>5. CASE y # 0
  <2> DEFINE place == top + y - 3
  <2>1. place \in Nat /\ place > 0 /\ place <= Len(ns) /\ y > 0
    BY <1>1, <1>2, <1>5
  <2>2. /\ Hit(top, y, i) <=> place = i
        /\ Below(top, y, i) <=> i > place
        /\ Above(top, y, i) <=> i < place
    BY <1>5, <2>1 DEF Hit, Below, Above
  <2>3. Down(Len(ns), top, y, i) = (i - place) + (Len(ns) - top) /\ Up(top, y, i) = (place - i) + top
    BY <1>5 DEF Down, Up
  <2> HIDE DEF place
  <2> QED
    BY <1>1, <2>1, <2>2, <2>3
<1> QED
  BY <1>4, <1>5

\* A name on the side that a key leads to is reached by this key alone.
LEMMA ReachedIs ==
  ASSUME names \in Seq(Types), View(names, top_entry, cursor_y), lines = Refill(names, top_entry),
         NEW i \in 1..Len(names), Choosable(names, i), NEW dir \in {-1, 1},
         \/ Hit(top_entry, cursor_y, i)
         \/ dir = 1 /\ Below(top_entry, cursor_y, i)
         \/ dir = -1 /\ Above(top_entry, cursor_y, i)
  PROVE  <<names[i], i>> \in Reached(dir)
<1> SUFFICES ASSUME <<names[i], i>> \notin Reached(dir)
             PROVE  FALSE
  OBVIOUS
<1> DEFINE K == 2 * Len(names)
           Near(t, z, n) ==
             IF dir = 1 THEN Below(t, z, i) /\ Down(Len(names), t, z, i) <= K - n
             ELSE Above(t, z, i) /\ Up(t, z, i) <= K - n
           Is(m, t, z) == View(names, t, z) /\ m = At(Refill(names, t), z, t)
<1>1. K \in Nat
  OBVIOUS
<1>2. PICK g : IsRun(g, dir)
  BY RunExists
<1>3. g[0] = At(lines, cursor_y, top_entry)
  BY <1>2 DEF IsRun
<1>4. ASSUME NEW n \in 1..K
      PROVE  g[n] = Moved(g[n - 1].lines, g[n - 1].cursor_y, g[n - 1].top_entry, dir, names)
  BY <1>2 DEF IsRun
<1>5. ASSUME NEW n \in 0..K
      PROVE  \E t, z : Is(g[n], t, z)
  BY <1>2 DEF IsRun
<1>6. ASSUME NEW n \in 0..K, NEW t, NEW z, Is(g[n], t, z)
      PROVE  ~Hit(t, z, i)
  <2> SUFFICES ASSUME Hit(t, z, i)
               PROVE  FALSE
    OBVIOUS
  <2>1. g[n].lines = Refill(names, t) /\ g[n].cursor_y = z
    BY <1>6 DEF At
  <2>2. g[n].cursor_y > 0
    BY <2>1 DEF Hit
  <2>3. g[n].lines[g[n].cursor_y] \in Reached(dir)
    BY <1>2, <2>2 DEF IsRun
  <2>4. Refill(names, t)[z] = <<names[i], i>>
    BY <1>6, HitShows
  <2> QED
    BY <2>1, <2>3, <2>4
<1> DEFINE T == {n \in 0..K : \E t, z : Is(g[n], t, z) /\ Near(t, z, n)}
<1>7. 0 \in T
  <2>1. Is(g[0], top_entry, cursor_y)
    BY <1>3
  <2>2. ~Hit(top_entry, cursor_y, i)
    BY <1>1, <1>6, <2>1
  <2>3. Near(top_entry, cursor_y, 0)
    BY <1>1, <2>2, SidesAre
  <2> QED
    BY <1>1, <2>1, <2>3
<1>8. ASSUME NEW n \in 1..K, n - 1 \in T
      PROVE  n \in T
  <2>1. n - 1 \in 0..K /\ n \in 0..K /\ n \in Nat
    BY <1>1
  <2>2. PICK t, z : Is(g[n - 1], t, z) /\ Near(t, z, n - 1)
    BY <1>8
  <2>3. PICK u, x : Is(g[n], u, x)
    BY <1>5, <2>1
  <2>4. Moved(Refill(names, t), z, t, dir, names) = At(Refill(names, u), x, u)
    <3>1. g[n - 1].lines = Refill(names, t) /\ g[n - 1].cursor_y = z /\ g[n - 1].top_entry = t
      BY <2>2 DEF At
    <3> QED
      BY <1>4, <2>3, <3>1
  <2>5. ~Hit(u, x, i)
    BY <1>6, <2>1, <2>3
  <2>6. Near(u, x, n)
    <3>1. CASE dir = 1
      <4>1. Below(t, z, i) /\ Down(Len(names), t, z, i) <= K - (n - 1)
        BY <2>2, <3>1
      <4>2. Below(u, x, i) /\ Down(Len(names), u, x, i) < Down(Len(names), t, z, i)
        BY <2>2, <2>3, <2>4, <2>5, <3>1, <4>1, DownNearer
      <4>3. Down(Len(names), t, z, i) \in Int /\ Down(Len(names), u, x, i) \in Int
        BY <2>2, <2>3, <4>1, <4>2, SidesAre
      <4> QED
        BY <1>1, <2>1, <3>1, <4>1, <4>2, <4>3
    <3>2. CASE dir = -1
      <4>1. Above(t, z, i) /\ Up(t, z, i) <= K - (n - 1)
        BY <2>2, <3>2
      <4>2. Above(u, x, i) /\ Up(u, x, i) < Up(t, z, i)
        BY <2>2, <2>3, <2>4, <2>5, <3>2, <4>1, UpNearer
      <4>3. Up(t, z, i) \in Int /\ Up(u, x, i) \in Int
        BY <2>2, <2>3, <4>1, <4>2, SidesAre
      <4> QED
        BY <1>1, <2>1, <3>2, <4>1, <4>2, <4>3
    <3> QED
      BY <3>1, <3>2
  <2> HIDE DEF Is, Near
  <2> QED
    BY <2>1, <2>3, <2>6
<1>9. T \in SUBSET (0..K)
  OBVIOUS
<1> HIDE DEF T, K
<1>10. K \in T
  <2>1. T = 0..K
    BY <1>1, <1>7, <1>8, <1>9, Turns
  <2> QED
    BY <1>1, <2>1
<1>11. PICK t, z : Is(g[K], t, z) /\ Near(t, z, K)
  BY <1>10 DEF T
<1> QED
  <2>1. K - K = 0
    BY <1>1
  <2>2. CASE dir = 1
    <3>1. Below(t, z, i) /\ Down(Len(names), t, z, i) <= 0
      BY <1>11, <2>1, <2>2
    <3> QED
      BY <1>11, <3>1, SidesAre
  <2>3. CASE dir = -1
    <3>1. Above(t, z, i) /\ Up(t, z, i) <= 0
      BY <1>11, <2>1, <2>3
    <3> QED
      BY <1>11, <3>1, SidesAre
  <2> QED
    BY <2>2, <2>3

\* Every file and directory of the list can be highlighted.
LEMMA ListReachable ==
  ASSUME names \in Seq(Types), View(names, top_entry, cursor_y), lines = Refill(names, top_entry)
  PROVE  \A i \in DOMAIN names :
           names[i] \in {"file", "dir"} => <<names[i], i>> \in Reached(1) \cup Reached(-1)
<1> SUFFICES ASSUME NEW i \in DOMAIN names, names[i] \in {"file", "dir"}
             PROVE  <<names[i], i>> \in Reached(1) \cup Reached(-1)
  OBVIOUS
<1>1. i \in 1..Len(names) /\ Choosable(names, i)
  BY DEF Choosable
<1>2. Hit(top_entry, cursor_y, i) \/ Below(top_entry, cursor_y, i) \/ Above(top_entry, cursor_y, i)
  BY <1>1, SidesAre
<1>3. <<names[i], i>> \in Reached(1) \/ <<names[i], i>> \in Reached(-1)
  BY <1>1, <1>2, ReachedIs
<1> QED
  BY <1>3

----------------------------------------------------------------------------
(* The settings and their page.                                             *)

\* The loop over the options of a line.
LEMMA Marked3Is ==
  ASSUME NEW first \in BOOLEAN, NEW second \in BOOLEAN
  PROVE  Marked3(first, second) = IF first THEN {1} ELSE IF second THEN {2} ELSE {3}
<1> DEFINE Rest(p) == CASE p[1] -> <<FALSE, FALSE>>
                        [] ~p[1] /\ p[2] -> <<TRUE, FALSE>>
                        [] OTHER -> <<FALSE, TRUE>>
           Body(f) == [i \in 0..3 |-> IF i = 0 THEN <<first, second>> ELSE Rest(f[i - 1])]
           left == CHOOSE f : f = Body(f)
           a == Rest(<<first, second>>)
           b == Rest(a)
           c == Rest(b)
           g == [i \in 0..3 |-> IF i = 0 THEN <<first, second>> ELSE IF i = 1 THEN a ELSE IF i = 2 THEN b ELSE c]
<1>1. Marked3(first, second) = {i \in 1..3 : left[i - 1][1]}
  BY DEF Marked3
<1>2. a = IF first THEN <<FALSE, FALSE>> ELSE IF second THEN <<TRUE, FALSE>> ELSE <<FALSE, TRUE>>
  OBVIOUS
<1>3. b = IF first THEN <<FALSE, TRUE>> ELSE IF second THEN <<FALSE, FALSE>> ELSE <<TRUE, FALSE>>
  <2> HIDE DEF a
  <2> QED
    BY <1>2
<1> HIDE DEF Rest, a, b, c
<1>4. g = Body(g)
  <2>1. ASSUME NEW i \in 0..3
        PROVE  g[i] = IF i = 0 THEN <<first, second>> ELSE Rest(g[i - 1])
    <3>1. g[0] = <<first, second>> /\ g[1] = a /\ g[2] = b /\ g[3] = c
      OBVIOUS
    <3>2. a = Rest(<<first, second>>) /\ b = Rest(a) /\ c = Rest(b)
      BY DEF a, b, c
    <3> HIDE DEF g
    <3>3. CASE i = 0
      BY <3>1, <3>3
    <3>4. CASE i = 1
      BY <3>1, <3>2, <3>4
    <3>5. CASE i = 2
      BY <3>1, <3>2, <3>5
    <3>6. CASE i = 3
      BY <3>1, <3>2, <3>6
    <3> QED
      BY <3>3, <3>4, <3>5, <3>6
  <2> QED
    BY <2>1
<1>5. left = Body(left)
  <2> HIDE DEF Body
  <2> QED
    BY <1>4, Zenon
<1> HIDE DEF left, g
<1>6. left[0] = <<first, second>> /\ left[1] = a /\ left[2] = b
  <2>1. left[0] = <<first, second>>
    BY <1>5
  <2>2. left[1] = Rest(left[0])
    BY <1>5
  <2>3. left[2] = Rest(left[1])
    BY <1>5
  <2> QED
    BY <2>1, <2>2, <2>3 DEF a, b
<1>7. \A i : i \in {j \in 1..3 : left[j - 1][1]} <=>
        (i = 1 /\ left[0][1]) \/ (i = 2 /\ left[1][1]) \/ (i = 3 /\ left[2][1])
  OBVIOUS
<1>8. CASE first
  <2>1. left[0][1] /\ ~left[1][1] /\ ~left[2][1]
    BY <1>2, <1>3, <1>6, <1>8
  <2> QED
    BY <1>1, <1>7, <1>8, <2>1
<1>9. CASE ~first /\ second
  <2>1. ~left[0][1] /\ left[1][1] /\ ~left[2][1]
    BY <1>2, <1>3, <1>6, <1>9
  <2> QED
    BY <1>1, <1>7, <1>9, <2>1
<1>10. CASE ~first /\ ~second
  <2>1. ~left[0][1] /\ ~left[1][1] /\ left[2][1]
    BY <1>2, <1>3, <1>6, <1>10
  <2> QED
    BY <1>1, <1>7, <1>10, <2>1
<1> QED
  BY <1>8, <1>9, <1>10

\* The loop over two options.
LEMMA MarkedIs ==
  ASSUME NEW first \in BOOLEAN
  PROVE  Marked(first) = IF first THEN {1} ELSE {2}
<1>1. (~first) \in BOOLEAN
  OBVIOUS
<1>2. Marked3(first, ~first) = IF first THEN {1} ELSE IF ~first THEN {2} ELSE {3}
  BY <1>1, Marked3Is, Zenon
<1>3. Marked3(first, ~first) = IF first THEN {1} ELSE {2}
  BY <1>2, Zenon
<1> DEFINE marked == Marked3(first, ~first)
<1>4. Marked(first) = marked \cap 1..2
  BY DEF Marked
<1> HIDE DEF marked
<1>5. CASE first
  <2>1. marked = {1}
    BY <1>3, <1>5, Zenon DEF marked
  <2> QED
    BY <1>4, <1>5, <2>1
<1>6. CASE ~first
  <2>1. marked = {2}
    BY <1>3, <1>6, Zenon DEF marked
  <2> QED
    BY <1>4, <1>6, <2>1
<1> QED
  BY <1>5, <1>6

\* What the marks are of settings in which >1200 is only said of an enabled TIPI.
LEMMA MarksAre ==
  ASSUME NEW on, "1200" \in on => "tipi" \in on
  PROVE  /\ \A bit \in {"ram32k", "fdc", "vsp", "pcode", "internal"} :
              Marks(on)[bit] = IF bit \in on THEN {1} ELSE {2}
         /\ \A bit \in {"sp1k", "joyswp"} : Marks(on)[bit] = IF bit \in on THEN {2} ELSE {1}
         /\ Marks(on).tipi = CASE "tipi" \notin on -> {3}
                               [] "1200" \in on -> {1}
                               [] OTHER -> {2}
<1>1. ASSUME NEW bit
      PROVE  /\ Marked(bit \in on) = IF bit \in on THEN {1} ELSE {2}
             /\ Marked(bit \notin on) = IF bit \in on THEN {2} ELSE {1}
  <2>1. (bit \in on) \in BOOLEAN /\ (bit \notin on) \in BOOLEAN
    OBVIOUS
  <2> QED
    BY <2>1, MarkedIs
<1>2. Marked3("1200" \in on, "tipi" \in on) = IF "1200" \in on THEN {1} ELSE IF "tipi" \in on THEN {2} ELSE {3}
  <2>1. ("1200" \in on) \in BOOLEAN /\ ("tipi" \in on) \in BOOLEAN
    OBVIOUS
  <2> QED
    BY <2>1, Marked3Is
<1>3. /\ Marks(on).ram32k = Marked("ram32k" \in on) /\ Marks(on).fdc = Marked("fdc" \in on)
      /\ Marks(on).vsp = Marked("vsp" \in on) /\ Marks(on).pcode = Marked("pcode" \in on)
      /\ Marks(on).internal = Marked("internal" \in on)
      /\ Marks(on).sp1k = Marked("sp1k" \notin on) /\ Marks(on).joyswp = Marked("joyswp" \notin on)
      /\ Marks(on).tipi = Marked3("1200" \in on, "tipi" \in on)
  BY DEF Marks
<1>4. \A bit \in {"ram32k", "fdc", "vsp", "pcode", "internal"} : Marks(on)[bit] = Marked(bit \in on)
  BY <1>3
<1>5. \A bit \in {"sp1k", "joyswp"} : Marks(on)[bit] = Marked(bit \notin on)
  BY <1>3
<1> QED
  BY <1>1, <1>2, <1>3, <1>4, <1>5

\* No card is enabled whose ROM is missing, and >1200 is only said of an enabled TIPI.
HasRoms(on) ==
  /\ "pcode" \in on => "pcode" \in roms
  /\ "tipi" \in on \/ "internal" \in on => "tipi" \in roms
  /\ "1200" \in on => "tipi" \in on

\* Settings that are loaded lose the cards whose ROM is missing (menu.c:365-382).
LEMMA LoadedHas ==
  ASSUME NEW config, "1200" \in config => "tipi" \in config
  PROVE  HasRoms(Loaded(config))
BY DEF HasRoms, Loaded

\* The fixed lines by their numbers.
LEMMA SettingsAre ==
  /\ DOMAIN MainMenu = 1..19 /\ MainMenu[3] = Line0("rpk") /\ MainMenu[9] = Line0("tape")
  /\ MainMenu[5] = <<"disk", 0>> /\ MainMenu[6] = <<"disk", 1>> /\ MainMenu[7] = <<"disk", 2>>
  /\ MainMenu[10] = <<"savetape", 0>> /\ MainMenu[11] = <<"savetape", 1>>
  /\ MainMenu[13] = Line0("mm") /\ MainMenu[14] = Line0("savemm") /\ MainMenu[18] = Line0("reset")
  /\ DOMAIN SettingsMenu = 1..21 /\ SettingsMenu[4] = Line0("ram32k") /\ SettingsMenu[6] = Line0("fdc")
  /\ SettingsMenu[8] = Line0("vsp") /\ SettingsMenu[10] = Line0("sp1k") /\ SettingsMenu[12] = Line0("joyswp")
  /\ SettingsMenu[14] = OrMinor("pcode", "pcode") /\ SettingsMenu[16] = OrMinor("tipi", "tipi")
  /\ SettingsMenu[17] = OrMinor("tipi", "internal") /\ SettingsMenu[19] = Line0("load")
  /\ SettingsMenu[20] = Line0("save")
BY DEF MainMenu, SettingsMenu

----------------------------------------------------------------------------
(* The pages: what they say is what is behind them.                         *)

\* The lines are those of the open page, and what a list or a name is asked for is known.
LinesInv ==
  /\ page = "main" => lines = MainMenu
  /\ page = "settings" => lines = SettingsMenu /\ marks = Marks(enable)
  /\ page \in {"main", "settings"} => names = <<>> /\ top_entry = 0 /\ cursor_y \in {0} \cup Offered(lines)
  /\ page = "select" =>
       names \in Seq(Types) /\ View(names, top_entry, cursor_y) /\ lines = Refill(names, top_entry)
  /\ page = "select" \/ input => purpose = asked
  /\ HasRoms(enable)

\* A page of fixed lines.
LEMMA MovedPlain ==
  ASSUME NEW ls, NEW n \in Nat, DOMAIN ls = 1..n, NEW y \in {0} \cup Offered(ls), NEW dir \in {-1, 1}
  PROVE  \E z \in {0} \cup Offered(ls) : Moved(ls, y, 0, dir, <<>>) = At(ls, z, 0)
<1>1. ~Scroll(<<>>, 0, dir)
  <2>1. ~(Len(<<>>) > 0 + Rows - 4) /\ ~(0 > 0)
    BY MenuAssumption DEF MenuAssumption
  <2> QED
    BY <2>1 DEF Scroll
<1>2. Ahead(ls, y, dir) \in SUBSET Offered(ls) /\ Ahead(ls, y, dir) \in SUBSET (0..n)
  BY DEF Ahead, Offered
<1>3. Ahead(ls, y, dir) # {} => Nearest(Ahead(ls, y, dir), dir) \in Ahead(ls, y, dir)
  BY <1>2, EndsAre
<1>4. CASE Ahead(ls, y, dir) # {}
  <2>1. Moved(ls, y, 0, dir, <<>>) = At(ls, Nearest(Ahead(ls, y, dir), dir), 0)
    BY <1>4, MovedIs, Zenon
  <2> QED
    BY <1>2, <1>3, <1>4, <2>1
<1>5. CASE Ahead(ls, y, dir) = {}
  <2>1. Moved(ls, y, 0, dir, <<>>) = At(ls, y, 0)
    BY <1>1, <1>5, MovedIs, Zenon
  <2> QED
    BY <2>1
<1> QED
  BY <1>4, <1>5

\* A page of fixed lines is opened.
LEMMA SetPlainIs ==
  ASSUME NEW p, NEW ls, NEW n \in Nat, DOMAIN ls = 1..n, Set(p, ls, <<>>)
  PROVE  page' = p /\ names' = <<>> /\ top_entry' = 0 /\ lines' = ls /\ cursor_y' \in {0} \cup Offered(ls)
<1>1. PICK z \in {0} \cup Offered(ls) : Moved(ls, 0, 0, 1, <<>>) = At(ls, z, 0)
  BY MovedPlain
<1>2. page' = p /\ names' = <<>> /\ Show(At(ls, z, 0))
  BY <1>1 DEF Set
<1> QED
  BY <1>2 DEF Show, At

\* A list of files is opened.
LEMMA SetSelectIs ==
  ASSUME NEW ns \in Fillings, SetSelect(ns)
  PROVE  /\ page' = "select" /\ names' \in Seq(Types) /\ View(names', top_entry', cursor_y')
         /\ lines' = Refill(names', top_entry')
<1>1. ns \in Seq(Types)
  BY FillingsAre
<1>2. PICK t, z : View(ns, t, z) /\ Moved(Refill(ns, 0), 0, 0, 1, ns) = At(Refill(ns, t), z, t)
  BY <1>1, MovedView
<1>3. page' = "select" /\ names' = ns /\ Show(At(Refill(ns, t), z, t))
  BY <1>2 DEF SetSelect, Set
<1>4. lines' = Refill(ns, t) /\ cursor_y' = z /\ top_entry' = t
  BY <1>3 DEF Show, At
<1> QED
  BY <1>1, <1>2, <1>3, <1>4

\* The main page is opened.
LEMMA SetMainIs ==
  ASSUME SetMain
  PROVE  /\ page' = "main" /\ names' = <<>> /\ top_entry' = 0 /\ lines' = MainMenu
         /\ cursor_y' \in {0} \cup Offered(lines')
<1>1. DOMAIN MainMenu = 1..19 /\ 19 \in Nat
  BY SettingsAre
<1>2. Set("main", MainMenu, <<>>)
  BY DEF SetMain
<1> HIDE DEF MainMenu
<1> QED
  BY <1>1, <1>2, SetPlainIs

\* The menu is closed.
LEMMA CloseSays ==
  ASSUME LinesInv, Close, UNCHANGED settings
  PROVE  LinesInv' /\ enable' = enable
<1>1. page' \in {"main", None} /\ ~input'
  BY SetMainIs, Zenon DEF Close
<1>2. page' = "main" => lines' = MainMenu /\ names' = <<>> /\ top_entry' = 0 /\ cursor_y' \in {0} \cup Offered(lines')
  <2> SUFFICES ASSUME page' = "main"
               PROVE  SetMain
    BY SetMainIs
  <2>1. page' # None
    BY DEF None
  <2> QED
    BY <2>1, Zenon DEF Close
<1>3. enable' = enable /\ roms' = roms
  BY DEF settings
<1>4. HasRoms(enable)'
  BY <1>3 DEF LinesInv, HasRoms
<1>5. page' # "settings" /\ page' # "select"
  BY <1>1 DEF None
<1> QED
  BY <1>1, <1>2, <1>3, <1>4, <1>5 DEF LinesInv, MainMenu, Offered

\* The input is edited: the page stays.
LEMMA RestSays ==
  ASSUME LinesInv, UNCHANGED <<page, input, lines, cursor_y, top_entry, names, purpose, asked, settings>>
  PROVE  LinesInv' /\ enable' = enable
<1>1. /\ page' = page /\ input' = input /\ lines' = lines /\ cursor_y' = cursor_y /\ top_entry' = top_entry
      /\ names' = names /\ purpose' = purpose /\ asked' = asked
      /\ enable' = enable /\ roms' = roms /\ marks' = marks
  BY DEF settings
<1>2. SettingsMenu' = SettingsMenu /\ HasRoms(enable)' = HasRoms(enable)
  BY <1>1 DEF SettingsMenu, OrMinor, HasRoms, Line0
<1>3. Marks(enable)' = Marks(enable) /\ Offered(lines)' = Offered(lines) /\ MainMenu' = MainMenu
  BY <1>1
<1>4. /\ View(names, top_entry, cursor_y)' = View(names, top_entry, cursor_y)
      /\ Refill(names, top_entry)' = Refill(names, top_entry)
  BY <1>1
<1> QED
  BY <1>1, <1>2, <1>3, <1>4 DEF LinesInv

\* What a step does is what the highlighted line says.
Says ==
  /\ call' # <<>> /\ page = "select" => call'[1] = asked /\ <<"file", call'[2]>> = lines[cursor_y]
  /\ call' # <<>> /\ input => call'[1] = asked
  /\ call' # <<>> /\ page # "select" /\ ~input => call'[1] = lines[cursor_y]
  /\ enable' # enable /\ lines[cursor_y][1] # "load" =>
       \A bit \in (enable \ enable') \cup (enable' \ enable) :
         lines[cursor_y][1] = IF bit = "1200" THEN "tipi" ELSE bit

\* A step that calls nothing and sets nothing does what any line says.
LEMMA NothingSaid ==
  ASSUME enable' = enable, call' = <<>>
  PROVE  Says
BY DEF Says

\* A list is opened for what the highlighted line says.
LEMMA OpenSays ==
  ASSUME LinesInv, NEW for, for = lines[cursor_y], OpenSelector(for)
  PROVE  LinesInv' /\ Says
<1>1. PICK ns \in Fillings : SetSelect(ns)
  BY DEF OpenSelector
<1>2. purpose' = for /\ asked' = for /\ call' = <<>> /\ enable' = enable /\ roms' = roms
  BY DEF OpenSelector, NoCall, settings
<1>3. HasRoms(enable)'
  BY <1>2 DEF LinesInv, HasRoms
<1>4. /\ page' = "select" /\ names' \in Seq(Types) /\ View(names', top_entry', cursor_y')
      /\ lines' = Refill(names', top_entry')
  BY <1>1, SetSelectIs
<1> QED
  BY <1>2, <1>3, <1>4, NothingSaid DEF LinesInv

\* A name is asked for what the highlighted line says.
LEMMA AskSays ==
  ASSUME LinesInv, page = "main", NEW for, for = lines[cursor_y], AskName(for)
  PROVE  LinesInv' /\ Says
<1>1. /\ purpose' = for /\ asked' = for /\ call' = <<>> /\ enable' = enable /\ roms' = roms
      /\ page' = page /\ lines' = lines /\ cursor_y' = cursor_y /\ top_entry' = top_entry /\ names' = names
  BY DEF AskName, NoCall, settings
<1>2. HasRoms(enable)'
  BY <1>1 DEF LinesInv, HasRoms
<1>3. MainMenu' = MainMenu /\ Offered(lines)' = Offered(lines)
  BY <1>1
<1> QED
  BY <1>1, <1>2, <1>3, NothingSaid DEF LinesInv

\* Enter on the main page.
LEMMA MainSays ==
  ASSUME LinesInv, page = "main", ~input, MainMenuSelect(cursor_y)
  PROVE  LinesInv' /\ Says
<1>1. lines = MainMenu
  BY DEF LinesInv
<1>2. CASE cursor_y = 3
  BY <1>1, <1>2, SettingsAre, OpenSays DEF MainMenuSelect
<1>3. CASE cursor_y \in 5..7
  <2>1. lines[cursor_y] = <<"disk", cursor_y - 5>>
    BY <1>1, <1>3, SettingsAre
  <2> QED
    BY <1>3, <2>1, OpenSays DEF MainMenuSelect
<1>4. CASE cursor_y = 9
  BY <1>1, <1>4, SettingsAre, OpenSays DEF MainMenuSelect
<1>5. CASE cursor_y \in 10..11
  <2>1. lines[cursor_y] = <<"savetape", cursor_y - 10>>
    BY <1>1, <1>5, SettingsAre
  <2> QED
    BY <1>5, <2>1, AskSays DEF MainMenuSelect
<1>6. CASE cursor_y = 13
  BY <1>1, <1>6, SettingsAre, OpenSays DEF MainMenuSelect
<1>7. CASE cursor_y = 14
  BY <1>1, <1>7, SettingsAre, AskSays DEF MainMenuSelect
<1>8. CASE cursor_y = 16
  <2>1. /\ UpdateSettings(enable) /\ Set("settings", SettingsMenu, <<>>) /\ call' = <<>> /\ input' = input
    BY <1>8 DEF MainMenuSelect, NoCall
  <2>2. enable' = enable /\ roms' = roms /\ marks' = Marks(enable')
    BY <2>1 DEF UpdateSettings
  <2>3. DOMAIN SettingsMenu = 1..21 /\ 21 \in Nat
    BY SettingsAre
  <2>4. SettingsMenu' = SettingsMenu
    BY <2>2 DEF SettingsMenu, OrMinor, Line0
  <2>5. HasRoms(enable)'
    BY <2>2 DEF LinesInv, HasRoms
  <2> HIDE DEF SettingsMenu
  <2>6. /\ page' = "settings" /\ names' = <<>> /\ top_entry' = 0 /\ lines' = SettingsMenu
        /\ cursor_y' \in {0} \cup Offered(SettingsMenu)
    BY <2>1, <2>3, SetPlainIs
  <2>7. marks' = Marks(enable)'
    BY <2>2
  <2>8. cursor_y' \in {0} \cup Offered(lines)'
    BY <2>6
  <2>9. ~input'
    BY <2>1
  <2> QED
    BY <2>1, <2>2, <2>4, <2>5, <2>6, <2>7, <2>8, <2>9, NothingSaid DEF LinesInv
<1>9. CASE cursor_y = 18
  <2>1. Close /\ call' = <<Line0("reset")>> /\ UNCHANGED settings
    BY <1>9 DEF MainMenuSelect, Calls
  <2>2. LinesInv' /\ enable' = enable
    BY <2>1, CloseSays
  <2>3. call'[1] = lines[cursor_y]
    BY <1>1, <1>9, <2>1, SettingsAre
  <2> QED
    BY <2>2, <2>3 DEF Says
<1>10. CASE cursor_y = 19
  BY <1>10, CloseSays, NothingSaid DEF MainMenuSelect, NoCall
<1>11. CASE /\ cursor_y # 3 /\ cursor_y \notin 5..7 /\ cursor_y # 9 /\ cursor_y \notin 10..11 /\ cursor_y # 13
            /\ cursor_y # 14 /\ cursor_y # 16 /\ cursor_y # 18 /\ cursor_y # 19
  <2>1. NoCall /\ UNCHANGED <<inputvars, pagevars, settings>>
    BY <1>11, Zenon DEF MainMenuSelect
  <2> QED
    BY <2>1, RestSays, NothingSaid DEF pagevars, NoCall
<1> QED
  BY <1>2, <1>3, <1>4, <1>5, <1>6, <1>7, <1>8, <1>9, <1>10, <1>11

\* A setting that a key changes.
LEMMA ChangeSays ==
  ASSUME LinesInv, page = "settings", ~input, PagesInv, NEW on, HasRoms(on), Change(on),
         \/ lines[cursor_y][1] = "load"
         \/ \A bit \in (enable \ on) \cup (on \ enable) : lines[cursor_y][1] = IF bit = "1200" THEN "tipi" ELSE bit
  PROVE  LinesInv' /\ Says
<1>1. /\ enable' = on /\ roms' = roms /\ marks' = Marks(on) /\ call' = <<>>
      /\ page' = page /\ input' = input /\ lines' = lines /\ cursor_y' = cursor_y /\ top_entry' = top_entry
      /\ names' = names /\ purpose' = purpose /\ asked' = asked
  BY DEF Change, UpdateSettings, NoCall, pagevars
<1>2. HasRoms(enable)' /\ SettingsMenu' = SettingsMenu
  BY <1>1 DEF HasRoms, SettingsMenu, OrMinor, Line0
<1>3. Offered(lines)' = Offered(lines) /\ Marks(enable)' = Marks(on)
  BY <1>1
<1>4. LinesInv'
  BY <1>1, <1>2, <1>3 DEF LinesInv
<1>5. Says
  BY <1>1 DEF Says
<1> QED
  BY <1>4, <1>5

\* Only a card that is there can be chosen.
LEMMA CardIsThere ==
  ASSUME LinesInv, page = "settings"
  PROVE  /\ cursor_y = 14 => "pcode" \in roms /\ lines[14] = Line0("pcode")
         /\ cursor_y = 16 => "tipi" \in roms /\ lines[16] = Line0("tipi")
         /\ cursor_y = 17 => "tipi" \in roms /\ lines[17] = Line0("internal")
<1>1. lines = SettingsMenu /\ cursor_y \in {0} \cup Offered(lines)
  BY DEF LinesInv
<1>2. cursor_y # 0 => Selectable(lines[cursor_y])
  BY <1>1 DEF Offered
<1>3. ~Selectable(Line0("minor"))
  BY DEF Selectable, Line0
<1>4. /\ lines[14] = OrMinor("pcode", "pcode") /\ lines[16] = OrMinor("tipi", "tipi")
      /\ lines[17] = OrMinor("tipi", "internal")
  BY <1>1, SettingsAre
<1>5. ASSUME NEW rom, NEW line, Selectable(OrMinor(rom, line))
      PROVE  rom \in roms /\ OrMinor(rom, line) = Line0(line)
  BY <1>3, <1>5 DEF OrMinor
<1>6. CASE cursor_y = 14
  BY <1>2, <1>4, <1>5, <1>6
<1>7. CASE cursor_y = 16
  BY <1>2, <1>4, <1>5, <1>7
<1>8. CASE cursor_y = 17
  BY <1>2, <1>4, <1>5, <1>8
<1> QED
  BY <1>6, <1>7, <1>8

\* A setting that is one bit is turned over.
LEMMA FlipSays ==
  ASSUME LinesInv, page = "settings", ~input, PagesInv, NEW bit, bit \notin {"1200", "tipi"}, Change(Flip(enable, bit)),
         lines[cursor_y] = Line0(bit), bit = "pcode" => "pcode" \in roms, bit = "internal" => "tipi" \in roms
  PROVE  LinesInv' /\ Says
<1> DEFINE on == Flip(enable, bit)
<1>1. HasRoms(on)
  BY DEF HasRoms, Flip, LinesInv
<1>2. \A b \in (enable \ on) \cup (on \ enable) : b = bit /\ b # "1200"
  BY DEF Flip
<1>3. lines[cursor_y][1] = bit
  BY DEF Line0
<1> HIDE DEF on
<1>4. \A b \in (enable \ on) \cup (on \ enable) : lines[cursor_y][1] = IF b = "1200" THEN "tipi" ELSE b
  BY <1>2, <1>3
<1> QED
  BY <1>1, <1>4, ChangeSays DEF on

\* Enter on the settings page.
LEMMA SettingsSay ==
  ASSUME LinesInv, PagesInv, page = "settings", ~input, SettingsMenuSelect(cursor_y)
  PROVE  LinesInv' /\ Says
<1>1. lines = SettingsMenu
  BY DEF LinesInv
<1>2. CASE cursor_y = 4
  <2>1. Change(Flip(enable, "ram32k")) /\ lines[cursor_y] = Line0("ram32k")
    BY <1>1, <1>2, SettingsAre DEF SettingsMenuSelect
  <2> QED
    BY <2>1, FlipSays
<1>3. CASE cursor_y = 6
  <2>1. Change(Flip(enable, "fdc")) /\ lines[cursor_y] = Line0("fdc")
    BY <1>1, <1>3, SettingsAre DEF SettingsMenuSelect
  <2> QED
    BY <2>1, FlipSays
<1>4. CASE cursor_y = 8
  <2>1. Change(Flip(enable, "vsp")) /\ lines[cursor_y] = Line0("vsp")
    BY <1>1, <1>4, SettingsAre DEF SettingsMenuSelect
  <2> QED
    BY <2>1, FlipSays
<1>5. CASE cursor_y = 10
  <2>1. Change(Flip(enable, "sp1k")) /\ lines[cursor_y] = Line0("sp1k")
    BY <1>1, <1>5, SettingsAre DEF SettingsMenuSelect
  <2> QED
    BY <2>1, FlipSays
<1>6. CASE cursor_y = 12
  <2>1. Change(Flip(enable, "joyswp")) /\ lines[cursor_y] = Line0("joyswp")
    BY <1>1, <1>6, SettingsAre DEF SettingsMenuSelect
  <2> QED
    BY <2>1, FlipSays
<1>7. CASE cursor_y = 14
  <2>1. Change(Flip(enable, "pcode")) /\ lines[cursor_y] = Line0("pcode") /\ "pcode" \in roms
    BY <1>7, CardIsThere DEF SettingsMenuSelect
  <2> QED
    BY <2>1, FlipSays
<1>8. CASE cursor_y = 17
  <2>1. Change(Flip(enable, "internal")) /\ lines[cursor_y] = Line0("internal") /\ "tipi" \in roms
    BY <1>8, CardIsThere DEF SettingsMenuSelect
  <2> QED
    BY <2>1, FlipSays
<1>9. CASE cursor_y = 16
  <2> DEFINE on == NextTipi(enable)
  <2>1. Change(on) /\ lines[cursor_y][1] = "tipi" /\ "tipi" \in roms
    BY <1>9, CardIsThere DEF SettingsMenuSelect, Line0
  <2>2. \A bit \in (enable \ on) \cup (on \ enable) : bit \in {"tipi", "1200"}
    BY DEF NextTipi
  <2>3. HasRoms(on)
    BY <2>1 DEF NextTipi, HasRoms, LinesInv
  <2> HIDE DEF on
  <2>4. \A bit \in (enable \ on) \cup (on \ enable) : lines[cursor_y][1] = IF bit = "1200" THEN "tipi" ELSE bit
    BY <2>1, <2>2
  <2> QED
    BY <2>1, <2>3, <2>4, ChangeSays
<1>10. CASE cursor_y = 19
  <2>1. PICK config \in Configs \cup {enable} : Change(Loaded(config))
    BY <1>10 DEF SettingsMenuSelect
  <2>2. "1200" \in config => "tipi" \in config
    BY MenuAssumption DEF MenuAssumption, LinesInv, HasRoms
  <2>3. HasRoms(Loaded(config))
    BY <2>2, LoadedHas
  <2>4. lines[cursor_y][1] = "load"
    BY <1>1, <1>10, SettingsAre DEF Line0
  <2> QED
    BY <2>1, <2>3, <2>4, ChangeSays
<1>11. CASE cursor_y = 20
  <2>1. call' = <<Line0("save")>> /\ UNCHANGED <<inputvars, pagevars, settings>>
    BY <1>11 DEF SettingsMenuSelect, Calls
  <2>2. LinesInv' /\ enable' = enable
    BY <2>1, RestSays DEF pagevars
  <2>3. call'[1] = lines[cursor_y]
    BY <1>1, <1>11, <2>1, SettingsAre
  <2> QED
    BY <2>2, <2>3 DEF Says
<1>12. CASE cursor_y = 21
  BY <1>12, CloseSays, NothingSaid DEF SettingsMenuSelect, NoCall
<1>13. CASE cursor_y \notin {4, 6, 8, 10, 12, 14, 16, 17, 19, 20, 21}
  <2>1. NoCall /\ UNCHANGED <<inputvars, pagevars, settings>>
    BY <1>13, Zenon DEF SettingsMenuSelect
  <2> QED
    BY <2>1, RestSays, NothingSaid DEF pagevars, NoCall
<1> QED
  BY <1>2, <1>3, <1>4, <1>5, <1>6, <1>7, <1>8, <1>9, <1>10, <1>11, <1>12, <1>13

\* Enter in a list of files.
LEMMA FileSays ==
  ASSUME LinesInv, page = "select", ~input, FileselectorSelect(cursor_y)
  PROVE  LinesInv' /\ Says
<1> DEFINE i == cursor_y - 3 + top_entry
           type == IF cursor_y >= 4 /\ i <= Len(names) THEN names[i] ELSE None
<1>1. /\ names \in Seq(Types) /\ View(names, top_entry, cursor_y) /\ lines = Refill(names, top_entry)
      /\ purpose = asked
  BY DEF LinesInv
<1>2. CASE (\E ns \in Fillings : SetSelect(ns)) /\ NoCall /\ UNCHANGED <<inputvars, input, purpose, asked, settings>>
  <2>1. PICK ns \in Fillings : SetSelect(ns)
    BY <1>2
  <2>2. /\ page' = "select" /\ names' \in Seq(Types) /\ View(names', top_entry', cursor_y')
        /\ lines' = Refill(names', top_entry')
    BY <2>1, SetSelectIs
  <2>3. purpose' = purpose /\ asked' = asked /\ enable' = enable /\ roms' = roms /\ call' = <<>>
    BY <1>2 DEF settings, NoCall
  <2>4. HasRoms(enable)'
    BY <2>3 DEF LinesInv, HasRoms
  <2> QED
    BY <1>1, <2>2, <2>3, <2>4, NothingSaid DEF LinesInv
<1>3. CASE type = "file" /\ Close /\ Calls(<<purpose, i>>) /\ UNCHANGED settings
  <2>1. LinesInv' /\ enable' = enable /\ call' = <<purpose, i>>
    BY <1>3, CloseSays DEF Calls
  <2>2. cursor_y >= 4 /\ i <= Len(names) /\ names[i] = "file"
    BY <1>3 DEF None
  <2>3. top_entry \in Nat /\ cursor_y \in Nat
    <3>1. top_entry \in 0..Len(names)
      BY <1>1 DEF View
    <3>2. cursor_y = 0 \/ cursor_y \in Nat
      BY <1>1, <3>1, PlacesAre DEF View
    <3> QED
      BY <3>1, <3>2
  <2>4. Hit(top_entry, cursor_y, i) /\ i \in 1..Len(names)
    BY <1>1, <2>2, <2>3 DEF Hit
  <2> HIDE DEF i
  <2>5. lines[cursor_y] = <<names[i], i>>
    BY <1>1, <2>4, HitShows
  <2>6. call'[1] = asked /\ call'[2] = i
    BY <1>1, <2>1
  <2> QED
    BY <2>1, <2>2, <2>5, <2>6 DEF Says
<1>4. CASE Close /\ NoCall /\ UNCHANGED settings
  BY <1>4, CloseSays, NothingSaid DEF NoCall
<1> QED
  <2>1. CASE type = "dir"
    BY <1>2, <2>1, Zenon DEF FileselectorSelect
  <2>2. CASE type = "file"
    BY <1>3, <2>2, Zenon DEF FileselectorSelect
  <2>3. CASE type # "dir" /\ type # "file"
    BY <1>4, <2>3, Zenon DEF FileselectorSelect
  <2> QED
    BY <2>1, <2>2, <2>3

\* Enter, on any page or in the input.
LEMMA EnterSays ==
  ASSUME LinesInv, PagesInv, page # None, Enter
  PROVE  LinesInv' /\ Says
<1>1. CASE input
  <2>1. Close /\ call' = <<purpose, "name", Trimmed>> /\ UNCHANGED settings
    BY <1>1 DEF Enter, Calls
  <2>2. LinesInv' /\ enable' = enable
    BY <2>1, CloseSays
  <2>3. page = "main" /\ call'[1] = asked
    BY <1>1, <2>1 DEF PagesInv, LinesInv
  <2> QED
    BY <1>1, <2>2, <2>3 DEF Says
<1>2. CASE ~input /\ page = "main"
  <2>1. MainMenuSelect(cursor_y)
    BY <1>2 DEF Enter
  <2> QED
    BY <1>2, <2>1, MainSays
<1>3. CASE ~input /\ page = "settings"
  <2>1. SettingsMenuSelect(cursor_y)
    BY <1>3 DEF Enter
  <2> QED
    BY <1>3, <2>1, SettingsSay
<1>4. CASE ~input /\ page = "select"
  <2>1. FileselectorSelect(cursor_y)
    BY <1>4 DEF Enter
  <2> QED
    BY <1>4, <2>1, FileSays
<1> QED
  BY <1>1, <1>2, <1>3, <1>4 DEF PagesInv

\* Up and Down, on any page.
LEMMA MoveSays ==
  ASSUME LinesInv, PagesInv, page # None, NEW dir \in {-1, 1}, Step1(dir)
  PROVE  LinesInv' /\ Says
<1>1. /\ page' = page /\ input' = input /\ names' = names /\ purpose' = purpose /\ asked' = asked
      /\ enable' = enable /\ roms' = roms /\ marks' = marks /\ call' = <<>>
      /\ Show(Moved(lines, cursor_y, top_entry, dir, names))
  BY DEF Step1, NoCall, settings
<1>2. HasRoms(enable)' /\ SettingsMenu' = SettingsMenu
  BY <1>1 DEF LinesInv, HasRoms, SettingsMenu, OrMinor, Line0
<1>3. Marks(enable)' = Marks(enable)
  BY <1>1
<1>4. CASE page \in {"main", "settings"}
  <2>1. names = <<>> /\ top_entry = 0 /\ cursor_y \in {0} \cup Offered(lines)
    BY <1>4 DEF LinesInv
  <2>2. PICK n \in Nat : DOMAIN lines = 1..n
    BY <1>4, SettingsAre DEF LinesInv
  <2>3. PICK z \in {0} \cup Offered(lines) : Moved(lines, cursor_y, 0, dir, <<>>) = At(lines, z, 0)
    BY <2>1, <2>2, MovedPlain
  <2>4. Show(At(lines, z, 0))
    BY <1>1, <2>1, <2>3
  <2>5. lines' = lines /\ cursor_y' = z /\ top_entry' = 0
    BY <2>4 DEF Show, At
  <2>6. cursor_y' \in {0} \cup Offered(lines)'
    BY <2>5
  <2>7. LinesInv'
    BY <1>1, <1>2, <1>3, <1>4, <2>1, <2>5, <2>6 DEF LinesInv, MainMenu
  <2> QED
    BY <1>1, <2>7, NothingSaid
<1>5. CASE page = "select"
  <2>1. names \in Seq(Types) /\ View(names, top_entry, cursor_y) /\ lines = Refill(names, top_entry) /\ purpose = asked
    BY <1>5 DEF LinesInv
  <2>2. PICK t, z : View(names, t, z) /\ Moved(lines, cursor_y, top_entry, dir, names) = At(Refill(names, t), z, t)
    BY <2>1, MovedView
  <2>3. Show(At(Refill(names, t), z, t))
    BY <1>1, <2>2
  <2>4. lines' = Refill(names, t) /\ cursor_y' = z /\ top_entry' = t
    BY <2>3 DEF Show, At
  <2>5. View(names', top_entry', cursor_y') /\ lines' = Refill(names', top_entry')
    BY <1>1, <2>2, <2>4
  <2>6. LinesInv'
    BY <1>1, <1>2, <1>5, <2>1, <2>5 DEF LinesInv
  <2> QED
    BY <1>1, <2>6, NothingSaid
<1> QED
  BY <1>4, <1>5 DEF PagesInv

\* Every step keeps the lines, and does what the highlighted one says.
LEMMA LinesStep ==
  PagesInv /\ LinesInv /\ [Next]_vars => LinesInv' /\ (UNCHANGED vars \/ Says)
<1> SUFFICES ASSUME PagesInv, LinesInv, [Next]_vars
             PROVE  LinesInv' /\ (UNCHANGED vars \/ Says)
  OBVIOUS
<1>1. CASE MenuOpen
  <2>1. SetMain /\ enable' = enable /\ roms' = roms /\ call' = <<>> /\ input' = input /\ page = None
    BY <1>1 DEF MenuOpen, settings
  <2>2. ~input'
    BY <2>1 DEF PagesInv, None
  <2>3. HasRoms(enable)'
    BY <2>1 DEF LinesInv, HasRoms
  <2>4. /\ page' = "main" /\ names' = <<>> /\ top_entry' = 0 /\ lines' = MainMenu
        /\ cursor_y' \in {0} \cup Offered(lines')
    BY <2>1, SetMainIs
  <2>5. MainMenu' = MainMenu
    BY DEF MainMenu
  <2>6. LinesInv'
    BY <2>2, <2>3, <2>4, <2>5 DEF LinesInv
  <2> QED
    BY <2>1, <2>6, NothingSaid
<1>2. CASE Close /\ NoCall /\ UNCHANGED settings
  BY <1>2, CloseSays, NothingSaid DEF NoCall
<1>3. CASE page # None /\ Enter
  BY <1>3, EnterSays
<1>4. CASE NoCall /\ UNCHANGED <<pagevars, settings>>
  BY <1>4, RestSays, NothingSaid DEF pagevars, NoCall
<1>5. CASE page # None /\ \E dir \in {-1, 1} : Step1(dir)
  BY <1>5, MoveSays
<1>6. CASE Dot
  <2>1. PICK ns \in Fillings : SetSelect(ns)
    BY <1>6 DEF Dot
  <2>2. /\ page' = "select" /\ names' \in Seq(Types) /\ View(names', top_entry', cursor_y')
        /\ lines' = Refill(names', top_entry')
    BY <2>1, SetSelectIs
  <2>3. /\ purpose' = purpose /\ asked' = asked /\ enable' = enable /\ roms' = roms /\ call' = <<>>
        /\ page = "select"
    BY <1>6 DEF Dot, settings, NoCall
  <2>4. HasRoms(enable)' /\ purpose = asked
    BY <2>3 DEF LinesInv, HasRoms
  <2>5. LinesInv'
    BY <2>2, <2>3, <2>4 DEF LinesInv
  <2> QED
    BY <2>3, <2>5, NothingSaid
<1>7. CASE UNCHANGED vars
  BY <1>7, RestSays DEF vars, pagevars
<1> QED
  BY <1>1, <1>2, <1>3, <1>4, <1>5, <1>6, <1>7 DEF Next, MenuKey

\* The menu is closed at first.
LEMMA LinesStart == Init => LinesInv
<1> SUFFICES ASSUME Init
             PROVE  LinesInv
  OBVIOUS
<1>1. page = None /\ input = FALSE /\ enable = Loaded(Defaults)
  BY DEF Init
<1>2. HasRoms(enable)
  BY <1>1, LoadedHas, MenuAssumption DEF MenuAssumption
<1> QED
  BY <1>1, <1>2 DEF LinesInv, None

\* What the screen shows, from the invariants.
LEMMA ScreenIsTrue ==
  ASSUME LinesInv, EditorInv
  PROVE  ScreenTrue
<1>1. ShownIsTyped
  BY WindowShows
<1>2. AllReachable
  BY ListReachable DEF LinesInv, AllReachable
<1>3. SettingsShown
  <2>1. HasRoms(enable)
    BY DEF LinesInv
  <2>2. CASE page = "settings"
    <3>1. marks = Marks(enable)
      BY <2>2 DEF LinesInv
    <3> QED
      BY <2>1, <3>1, MarksAre DEF HasRoms, SettingsShown
  <2>3. CASE page # "settings"
    BY <2>1, <2>3 DEF HasRoms, SettingsShown
  <2> QED
    BY <2>2, <2>3
<1> QED
  BY <1>1, <1>2, <1>3 DEF ScreenTrue

----------------------------------------------------------------------------
(* The theorems.                                                            *)

\* The three invariants hold together: neither the input nor the lines are kept without the pages.
LEMMA MenuInvariant == Spec => [](PagesInv /\ EditorInv /\ LinesInv)
<1>1. Init => PagesInv /\ EditorInv /\ LinesInv
  BY PagesStart, EditorStarts, LinesStart
<1>2. PagesInv /\ EditorInv /\ LinesInv /\ [Next]_vars => (PagesInv /\ EditorInv /\ LinesInv)'
  BY PagesStep, EditorStep, LinesStep
<1> QED
  BY <1>1, <1>2, PTL DEF Spec

\* The window of the input shows what is typed around the cursor (menu.c:580-591, 792-870),
\* every file of a list can be highlighted with Down or with Up alone (menu.c:593-627),
\* and the settings page marks the options in force (menu.c:322-439), for every length of
\* the list, of the window and of the text.
THEOREM ScreenTellsTheTruth == Spec => []ScreenTrue
<1>1. PagesInv /\ EditorInv /\ LinesInv => ScreenTrue
  BY ScreenIsTrue
<1> QED
  BY <1>1, MenuInvariant, PTL

\* The input of a name is a line editor (menu.c:792-870): the cursor's place in the text,
\* known only from its column and from the offset of the window, is never lost.
THEOREM InputImplementsEditor == Spec => ImplementsEditor
<1>1. Init => Editor!Init
  BY EditorStarts
<1>2. PagesInv /\ EditorInv /\ [Next]_vars => [Editor!Next]_<<typed, input_pos>>
  BY EditorStep
<1> QED
  BY <1>1, <1>2, MenuInvariant, PTL DEF Spec, ImplementsEditor, Editor!Spec

\* What a key does is what the highlighted line says (menu.c:274-382, 697-722), though
\* lines are chosen by their numbers.
THEOREM KeysDoWhatTheySay == Spec => DoesWhatItSays
<1>1. PagesInv /\ LinesInv /\ [Next]_vars => [Says]_vars
  BY LinesStep
<1> QED
  BY <1>1, MenuInvariant, PTL DEF Spec, DoesWhatItSays, Says
============================================================================
