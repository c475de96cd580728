--------------------------- MODULE StartupProofs ---------------------------
(***************************************************************************)
(* Proofs about the start of the firmware (Startup) and the cartridge port *)
(* (Cartridge).                                                            *)
(*                                                                         *)
(* For any directories on any cards, moved at any time, a path that is     *)
(* kept leads to the directory of its handle (PathInv): a handle of a card *)
(* that has gone stays of the past (Past), since the counts of the cards   *)
(* only grow until the next start.  Settings that are saved are in the     *)
(* first place that the next start looks at (KeptInv).                     *)
(*                                                                         *)
(* For any list of ROM files, on any cards, the start gets to the main     *)
(* loop with a ROM of the console, or stops (RomInv).                      *)
(*                                                                         *)
(* For any cartridges, whatever their layouts say, and however many GROM   *)
(* chips and banks there are, what the console finds in the port is of the *)
(* cartridge that was loaded last (CartInv), and every socket of it is     *)
(* where the layout and the mode of its board want it (StageInv: true of   *)
(* the sockets that have been loaded, at every stage of loading).          *)
(*                                                                         *)
(* A loop of the code is a recursive function in the model; LoopRuns says  *)
(* that there is one for any number of turns.                              *)
(***************************************************************************)
EXTENDS Startup, SequenceTheorems, WellFoundedInduction, NaturalsInduction, TLAPS

----------------------------------------------------------------------------
(* Sequences and loops.                                                     *)

\* A sequence has its elements from its set.
LEMMA ElementIs ==
  ASSUME NEW S, NEW s \in Seq(S), NEW i \in 1..Len(s)
  PROVE  s[i] \in S
  OBVIOUS

\* A set of numbers that is not empty has a least one.
LEMMA LeastIs ==
  ASSUME NEW T \in SUBSET Nat, T # {}
  PROVE  \E x \in T : \A y \in T : x <= y
<1>1. IsWellFoundedOn(OpToRel(<, Nat), Nat)
  BY NatLessThanWellFounded
<1>2. PICK x \in T : \A y \in T : <<y, x>> \notin OpToRel(<, Nat)
  BY <1>1, WFMin
<1>3. ASSUME NEW y \in T
      PROVE  x <= y
  <2>1. ~(y < x)
    BY <1>2 DEF OpToRel
  <2> QED
    BY <2>1
<1> QED
  BY <1>3

\* A set of turns that has the first, and the next of each, has them all.
LEMMA Turns ==
  ASSUME NEW K \in Nat, NEW T \in SUBSET (0..K), 0 \in T, \A n \in 1..K : n - 1 \in T => n \in T
  PROVE  T = 0..K
<1> SUFFICES ASSUME T # 0..K
             PROVE  FALSE
  OBVIOUS
<1>1. PICK x \in (0..K) \ T : \A y \in (0..K) \ T : x <= y
  <2> DEFINE Out == (0..K) \ T
  <2>1. Out \in SUBSET Nat
    OBVIOUS
  <2>3. Out # {}
    BY Zenon
  <2> HIDE DEF Out
  <2>2. PICK x \in Out : \A y \in Out : x <= y
    BY <2>1, <2>3, LeastIs
  <2> QED
    BY <2>2 DEF Out
<1>2. x \in 1..K /\ x - 1 \in 0..K /\ ~(x <= x - 1)
  OBVIOUS
<1>3. x - 1 \in T
  BY <1>1, <1>2
<1> QED
  BY <1>2, <1>3

\* The states of a loop of K turns, from start on.
RunsOf(K, D, start, F) ==
  {g \in [0..K -> D] : g[0] = start /\ \A n \in 1..K : g[n] = F[<<n, g[n - 1]>>]}

\* A loop over states of D can be run.
LEMMA LoopRuns ==
  ASSUME NEW K \in Nat, NEW D, NEW start \in D, NEW F \in [(1..K) \X D -> D]
  PROVE  RunsOf(K, D, start, F) # {}
<1> DEFINE Runs(k, g) == g[0] = start /\ \A n \in 1..k : g[n] = F[<<n, g[n - 1]>>]
           T == {k \in 0..K : \E g \in [0..k -> D] : Runs(k, g)}
<1>1. 0 \in T
  <2> DEFINE h == [n \in 0..0 |-> start]
  <2>1. h \in [0..0 -> D] /\ Runs(0, h)
    OBVIOUS
  <2> HIDE DEF h, Runs
  <2> QED
    BY <2>1
<1>2. ASSUME NEW k \in 1..K, k - 1 \in T
      PROVE  k \in T
  <2>1. PICK g \in [0..k - 1 -> D] : Runs(k - 1, g)
    BY <1>2
  <2> DEFINE h == [n \in 0..k |-> IF n = k THEN F[<<k, g[k - 1]>>] ELSE g[n]]
  <2>2. g[k - 1] \in D /\ F[<<k, g[k - 1]>>] \in D
    OBVIOUS
  <2>3. h \in [0..k -> D]
    BY <2>2
  <2>4. h[0] = start
    BY <2>1
  <2>5. ASSUME NEW n \in 1..k
        PROVE  h[n] = F[<<n, h[n - 1]>>]
    <3>1. CASE n = k
      <4>1. h[k] = F[<<k, g[k - 1]>>] /\ h[k - 1] = g[k - 1]
        OBVIOUS
      <4> HIDE DEF h
      <4> QED
        BY <3>1, <4>1
    <3>2. CASE n # k
      <4>1. n \in 1..k - 1 /\ n \in 0..k /\ n - 1 \in 0..k /\ n - 1 # k
        BY <3>2
      <4>2. h[n] = g[n] /\ h[n - 1] = g[n - 1]
        BY <3>2, <4>1
      <4> QED
        BY <2>1, <4>1, <4>2
    <3> QED
      BY <3>1, <3>2
  <2>6. Runs(k, h)
    BY <2>4, <2>5
  <2>7. k \in 0..K
    OBVIOUS
  <2> HIDE DEF Runs, h
  <2> QED
    BY <2>3, <2>6, <2>7
<1>3. K \in T
  <2>1. T \in SUBSET (0..K)
    OBVIOUS
  <2> HIDE DEF T
  <2>2. T = 0..K
    BY <1>1, <1>2, <2>1, Turns
  <2> QED
    BY <2>2
<1> QED
  BY <1>3 DEF RunsOf

\* The least element of a set of numbers.
LEMMA MinIs ==
  ASSUME NEW S \in SUBSET Nat, S # {}
  PROVE  Min(S) \in S /\ \A y \in S : Min(S) <= y
<1>1. PICK x \in S : \A y \in S : x <= y
  BY LeastIs
<1> QED
  BY <1>1 DEF Min
-----------------------------------------------------------------------------
(* Paths and the directories they lead to.                                  *)

\* A name behind a path.
LEMMA PathAppends ==
  ASSUME NEW S, NEW s \in Seq(S), NEW x \in S, NEW y \in S
  PROVE  Append(<<x>> \o s, y) = <<x>> \o Append(s, y)
<1> DEFINE a == Append(<<x>> \o s, y)
           b == <<x>> \o Append(s, y)
<1>1. a \in Seq(S) /\ b \in Seq(S) /\ Len(a) = Len(s) + 2 /\ Len(b) = Len(s) + 2
  OBVIOUS
<1>2. \A i \in 1..Len(a) : a[i] = b[i]
  OBVIOUS
<1> HIDE DEF a, b
<1>3. a = b
  BY <1>1, <1>2, SeqEqual
<1> QED
  BY <1>3 DEF a, b

\* A sequence without its last element.
LEMMA FrontIs ==
  ASSUME NEW S, NEW s \in Seq(S), s # <<>>
  PROVE  Front(s) \in Seq(S) /\ Len(Front(s)) = Len(s) - 1 /\ \A i \in 1..Len(s)-1 : Front(s)[i] = s[i]
<1> DEFINE n == Len(s) - 1
<1>1. Len(s) \in Nat \ {0}
  OBVIOUS
<1>2. 1 \in Int /\ n \in Nat /\ n \in Int
  BY <1>1
<1>3. \A i \in 1..n : s[i] \in S
  BY <1>1
<1>4. Front(s) = SubSeq(s, 1, n)
  BY DEF Front
<1> HIDE DEF n
<1>5. /\ SubSeq(s, 1, n) \in Seq(S)
      /\ Len(SubSeq(s, 1, n)) = IF 1 <= n THEN n - 1 + 1 ELSE 0
      /\ \A i \in 1..n-1+1 : SubSeq(s, 1, n)[i] = s[1 + i - 1]
  BY <1>2, <1>3, SubSeqProperties
<1>6. Len(Front(s)) = n
  BY <1>2, <1>4, <1>5
<1>7. \A i \in 1..n : Front(s)[i] = s[i]
  BY <1>2, <1>4, <1>5
<1> QED
  BY <1>4, <1>5, <1>6, <1>7 DEF n

\* A path without its last name.
LEMMA PathShortens ==
  ASSUME NEW S, NEW s \in Seq(S), s # <<>>, NEW x \in S
  PROVE  /\ Front(s) \in Seq(S)
         /\ Front(<<x>> \o s) = <<x>> \o Front(s)
         /\ Len(<<x>> \o s) = Len(s) + 1
<1> DEFINE t == <<x>> \o s
           b == <<x>> \o Front(s)
<1>1. Len(s) \in Nat \ {0}
  OBVIOUS
<1>2. Front(s) \in Seq(S) /\ Len(Front(s)) = Len(s) - 1 /\ \A i \in 1..Len(s)-1 : Front(s)[i] = s[i]
  BY FrontIs
<1>3. t \in Seq(S) /\ Len(t) = Len(s) + 1 /\ t # <<>> /\ t[1] = x /\ \A i \in 1..Len(s) : t[i + 1] = s[i]
  OBVIOUS
<1>4. b \in Seq(S) /\ Len(b) = Len(s) /\ b[1] = x /\ \A i \in 1..Len(s)-1 : b[i + 1] = Front(s)[i]
  BY <1>1, <1>2
<1> HIDE DEF t, b
<1>5. Front(t) \in Seq(S) /\ Len(Front(t)) = Len(s) /\ \A i \in 1..Len(s) : Front(t)[i] = t[i]
  <2>1. Front(t) \in Seq(S) /\ Len(Front(t)) = Len(t) - 1 /\ \A i \in 1..Len(t)-1 : Front(t)[i] = t[i]
    BY <1>3, FrontIs
  <2> QED
    BY <1>1, <1>3, <2>1
<1>6. ASSUME NEW i \in 1..Len(s)
      PROVE  Front(t)[i] = b[i]
  <2>1. CASE i = 1
    BY <1>1, <1>3, <1>4, <1>5, <2>1
  <2>2. CASE i # 1
    <3>1. i - 1 \in 1..Len(s)-1 /\ i - 1 \in 1..Len(s) /\ (i - 1) + 1 = i
      BY <1>1, <2>2
    <3>2. b[i] = Front(s)[i - 1] /\ t[i] = s[i - 1] /\ Front(s)[i - 1] = s[i - 1]
      BY <1>2, <1>3, <1>4, <3>1
    <3> QED
      BY <1>5, <3>2
  <2> QED
    BY <2>1, <2>2
<1>7. Front(t) = b
  BY <1>4, <1>5, <1>6, SeqEqual
<1> QED
  BY <1>2, <1>3, <1>7 DEF t, b

\* A path of more than one name.
LEMMA LongPath ==
  ASSUME NEW S, NEW s \in Seq(S), s # <<>>, Len(s) # 1
  PROVE  Front(s) \in Seq(S) /\ Len(s) >= 2
<1>1. Len(s) \in Nat /\ Len(s) # 0
  OBVIOUS
<1>2. \A n \in Nat : n # 0 /\ n # 1 => n >= 2
  OBVIOUS
<1> DEFINE n == Len(s)
<1>3. n \in Nat /\ n # 0 /\ n # 1
  BY <1>1
<1> HIDE DEF n
<1>4. n >= 2
  BY <1>2, <1>3
<1> QED
  BY <1>4, FrontIs DEF n

Names    == UNION {UNION {Range(d) : d \in Tree[c]} : c \in Cards}
Letters  == Slots \cup Names \cup {"?", "/", "mega99"}
Trails   == Seq(Slots \cup Names \cup {"?"})
Dirs     == Seq(Names) \cup {Nowhere}
Dirpaths == [fh : [slot : Slots, id : Nat, dir : Dirs], path : Trails]

\* What is in the slots, and the slot used last.
SlotsInv == card \in [Slots -> Cards \cup {NoCard}] /\ id \in [Slots -> Nat] /\ sel \in Slots

\* A walk down from a root: as long as every name was there, it is at a directory of the card.
Walks ==
  {st \in [ok : BOOLEAN, sel : Slots, dp : Dirpaths] :
     /\ st.dp.fh.id = id[st.dp.fh.slot] /\ st.dp.fh.dir \in Seq(Names)
     /\ st.ok => card[st.dp.fh.slot] # NoCard /\ st.dp.fh.dir \in Tree[card[st.dp.fh.slot]]
     /\ Len(st.dp.path) <= Deep => st.dp.path = <<st.dp.fh.slot>> \o st.dp.fh.dir}

\* The directories of a card, and their names.
LEMMA NamesAre ==
  /\ \A c \in Cards : \A d \in Tree[c] : d \in Seq(Names) /\ d # Nowhere
  /\ Names \cap (Slots \cup {"..", "/", "?", "closed"}) = {}
  /\ ".." \notin Letters
<1>1. ASSUME NEW c \in Cards, NEW d \in Tree[c]
      PROVE  d \in Seq(Names) /\ d # Nowhere
  <2>1. d \in Seq(STRING) /\ d # Nowhere
    BY PathsAssumption DEF PathsAssumption
  <2>2. \A i \in 1..Len(d) : d[i] \in Range(d)
    BY <2>1 DEF Range
  <2>3. Range(d) \subseteq Names
    BY DEF Names
  <2>4. Len(d) \in Nat /\ d = [i \in 1..Len(d) |-> d[i]]
    BY <2>1
  <2> QED
    BY <2>1, <2>2, <2>3, <2>4
<1>2. ASSUME NEW n \in Names
      PROVE  n \notin Slots \cup {"..", "/", "?", "closed"}
  <2>1. PICK c \in Cards : n \in UNION {Range(d) : d \in Tree[c]}
    BY DEF Names
  <2>2. PICK d \in Tree[c] : n \in Range(d)
    BY <2>1
  <2>3. Range(d) \cap (Slots \cup {"..", "/", "?", "closed"}) = {}
    BY PathsAssumption DEF PathsAssumption
  <2> QED
    BY <2>2, <2>3
<1>3. ".." \notin Slots
  BY PathsAssumption DEF PathsAssumption
<1> QED
  BY <1>1, <1>2, <1>3 DEF Letters

\* Into a directory: the path gets its name, if there is room.
LEMMA DownWalks ==
  ASSUME SlotsInv, NEW st \in Walks, NEW name \in Letters
  PROVE  Down(st, name) \in Walks
<1> DEFINE fh == st.dp.fh
           path == st.dp.path
<1>0. /\ st \in [ok : BOOLEAN, sel : Slots, dp : Dirpaths]
      /\ fh \in [slot : Slots, id : Nat, dir : Dirs] /\ path \in Trails
      /\ fh.id = id[fh.slot] /\ fh.dir \in Seq(Names)
      /\ Len(path) <= Deep => path = <<fh.slot>> \o fh.dir
  BY DEF Walks, Dirpaths
<1>1. CASE ~st.ok \/ ~Exists(fh, name)
  <2>1. Down(st, name) = [st EXCEPT !.ok = FALSE]
    BY <1>1 DEF Down
  <2> QED
    BY <1>0, <2>1 DEF Walks
<1>2. CASE st.ok /\ Exists(fh, name)
  <2>1. name # ".."
    BY NamesAre
  <2>2. card[fh.slot] \in Cards /\ Append(fh.dir, name) \in Tree[card[fh.slot]]
    BY <1>0, <1>2, <2>1 DEF Exists, Valid, SlotsInv
  <2> DEFINE new == [fh |-> [fh EXCEPT !.dir = Append(fh.dir, name)], path |-> Longer(path, name)]
  <2>3. Down(st, name) = [st EXCEPT !.dp = new]
    BY <1>2, <2>1 DEF Down, Enter
  <2>4. Append(fh.dir, name) \in Seq(Names)
    BY <2>2, NamesAre
  <2>5. name \in Names
    <3>1. Append(fh.dir, name)[Len(fh.dir) + 1] = name /\ Len(fh.dir) + 1 \in 1..Len(Append(fh.dir, name))
      BY <1>0
    <3> QED
      BY <2>4, <3>1, ElementIs
  <2>6. Longer(path, name) \in Trails
    BY <1>0, <2>5 DEF Longer, Trails
  <2>7. new.fh \in [slot : Slots, id : Nat, dir : Dirs]
    BY <1>0, <2>4 DEF Dirs
  <2>8. new \in Dirpaths
    BY <2>6, <2>7 DEF Dirpaths
  <2>9. new.fh.slot = fh.slot /\ new.fh.id = fh.id /\ new.fh.dir = Append(fh.dir, name)
    BY <1>0
  <2>10. ASSUME Len(Longer(path, name)) <= Deep
         PROVE  Longer(path, name) = <<fh.slot>> \o Append(fh.dir, name)
    <3>1. path \in Trails /\ Deep \in Nat
      BY <1>0, PathsAssumption DEF PathsAssumption
    <3>2. Len(path) <= Deep /\ Longer(path, name) = Append(path, name)
      BY <2>10, <3>1 DEF Longer, Trails
    <3>3. path = <<fh.slot>> \o fh.dir
      BY <1>0, <3>2
    <3>4. Append(<<fh.slot>> \o fh.dir, name) = <<fh.slot>> \o Append(fh.dir, name)
      <4> DEFINE S == Slots \cup Names
                 d == fh.dir
                 x == fh.slot
      <4>1. d \in Seq(S) /\ x \in S /\ name \in S
        BY <1>0, <2>5
      <4> HIDE DEF S, d, x, fh
      <4>2. Append(<<x>> \o d, name) = <<x>> \o Append(d, name)
        BY <4>1, PathAppends
      <4> QED
        BY <4>2 DEF d, x
    <3> QED
      BY <3>2, <3>3, <3>4
  <2> HIDE DEF new
  <2>11. Down(st, name) \in [ok : BOOLEAN, sel : Slots, dp : Dirpaths]
    BY <1>0, <2>3, <2>8
  <2>12. Down(st, name).dp = new
    BY <1>0, <2>3
  <2>13. new.path = Longer(path, name)
    BY DEF new
  <2> QED
    BY <1>0, <1>2, <2>2, <2>4, <2>9, <2>10, <2>11, <2>12, <2>13 DEF Walks
<1> QED
  BY <1>1, <1>2

\* A root, the start of a walk.
LEMMA FromRootWalks ==
  ASSUME SlotsInv, NEW s \in Slots
  PROVE  FromRoot(s) \in Walks
<1> DEFINE r == FromRoot(s)
           dp == [fh |-> Root(s), path |-> <<s>>]
<1>1. r = [ok |-> card[s] # NoCard, sel |-> s, dp |-> dp]
  BY DEF FromRoot
<1>2. Root(s) = [slot |-> s, id |-> id[s], dir |-> <<>>]
  BY DEF Root
<1>3. <<>> \in Seq(Names) /\ <<s>> \in Trails /\ <<s>> \o <<>> = <<s>>
  BY DEF Trails
<1>4. Root(s) \in [slot : Slots, id : Nat, dir : Dirs]
  BY <1>2, <1>3 DEF Dirs, SlotsInv
<1>5. dp \in Dirpaths
  BY <1>3, <1>4 DEF Dirpaths
<1>6. dp.fh = Root(s) /\ dp.path = <<s>>
  OBVIOUS
<1> HIDE DEF dp, r
<1>7. r \in [ok : BOOLEAN, sel : Slots, dp : Dirpaths] /\ r.dp = dp
  BY <1>1, <1>5
<1>8. ASSUME r.ok
      PROVE  card[s] # NoCard /\ <<>> \in Tree[card[s]]
  <2>1. card[s] # NoCard
    BY <1>1, <1>8
  <2> QED
    BY <2>1, PathsAssumption DEF SlotsInv, PathsAssumption
<1>9. r.dp.fh.slot = s /\ r.dp.fh.id = id[s] /\ r.dp.fh.dir = <<>> /\ r.dp.path = <<s>>
  BY <1>2, <1>6, <1>7
<1>10. r.dp.path = <<r.dp.fh.slot>> \o r.dp.fh.dir
  BY <1>3, <1>9
<1>11. r.dp.fh.id = id[r.dp.fh.slot] /\ r.dp.fh.dir \in Seq(Names)
  BY <1>3, <1>9
<1>12. r.ok => card[r.dp.fh.slot] # NoCard /\ r.dp.fh.dir \in Tree[card[r.dp.fh.slot]]
  BY <1>8, <1>9
<1> QED
  BY <1>7, <1>10, <1>11, <1>12 DEF Walks, r

\* The walk of Chdir, to its end.
LEMMA ChdirIs ==
  ASSUME SlotsInv, NEW p \in Seq(Letters)
  PROVE  /\ Chdir(NoPath, p) \in Walks
         /\ p = <<"/">> => Chdir(NoPath, p) = FromRoot(IF "/" \in Slots THEN "/" ELSE sel)
         /\ \A s \in Slots : p = <<s>> => Chdir(NoPath, p) = FromRoot(s)
         /\ \A s \in Slots : p = <<s, "mega99">> => Chdir(NoPath, p) = Down(FromRoot(s), "mega99")
<1> DEFINE D == Walks
           s0 == IF p # <<>> /\ p[1] \in Slots THEN p[1] ELSE sel
           absolute == p # <<>> /\ p[1] \in Slots \cup {"/"}
           names == IF absolute THEN Tail(p) ELSE p
           first == FromRoot(s0)
           K == Len(names)
           Turn(n, st) == Down(st, names[n])
           F == [q \in (1..K) \X D |-> Turn(q[1], q[2])]
<1>1. names \in Seq(Letters) /\ K \in Nat
  OBVIOUS
<1>2. first \in D
  <2>1. s0 \in Slots
    BY DEF SlotsInv
  <2> HIDE DEF s0
  <2> QED
    BY <2>1, FromRootWalks
<1>3. ASSUME NEW n \in 1..K, NEW st \in D
      PROVE  Turn(n, st) \in D
  <2> HIDE DEF names
  <2>1. names[n] \in Letters
    BY <1>1, ElementIs
  <2> QED
    BY <2>1, DownWalks
<1>4. Chdir(NoPath, p) = (LET down[n \in 0..K] == IF n = 0 THEN first ELSE Turn(n, down[n - 1]) IN down[K])
  <2>1. NoPath.path = <<>>
    BY DEF NoPath
  <2> QED
    BY <2>1 DEF Chdir
<1> HIDE DEF D, K, Turn, first, names
<1>5. F \in [(1..K) \X D -> D]
  BY <1>3
<1>6. \A n \in 1..K : \A st \in D : F[<<n, st>>] = Turn(n, st)
  OBVIOUS
<1> HIDE DEF F
<1>7. PICK g \in [0..K -> D] : g[0] = first /\ \A n \in 1..K : g[n] = F[<<n, g[n - 1]>>]
  <2>1. RunsOf(K, D, first, F) # {}
    BY <1>1, <1>2, <1>5, LoopRuns
  <2> QED
    BY <2>1 DEF RunsOf
<1>8. ASSUME NEW n \in 1..K
      PROVE  g[n] = Turn(n, g[n - 1])
  <2>1. n - 1 \in 0..K
    BY <1>1
  <2> QED
    BY <1>6, <1>7, <2>1
<1> DEFINE Body(f) == [n \in 0..K |-> IF n = 0 THEN first ELSE Turn(n, f[n - 1])]
           down == CHOOSE f : f = Body(f)
<1>9. g = Body(g)
  <2>1. ASSUME NEW n \in 0..K
        PROVE  g[n] = IF n = 0 THEN first ELSE Turn(n, g[n - 1])
    <3>1. CASE n = 0
      BY <1>7, <3>1
    <3>2. CASE n # 0
      <4>1. n \in 1..K
        BY <1>1, <3>2
      <4> QED
        BY <1>8, <3>2, <4>1
    <3> QED
      BY <3>1, <3>2
  <2> QED
    BY <2>1
<1>10. down = Body(down)
  <2> HIDE DEF Body
  <2> QED
    BY <1>9, Zenon
<1>11. Chdir(NoPath, p) = down[K]
  BY <1>4
<1> HIDE DEF down
<1>12. down[0] = first /\ \A n \in 1..K : down[n] = Turn(n, down[n - 1])
  BY <1>1, <1>10
<1> DEFINE T == {n \in 0..K : down[n] \in D}
<1>13. 0 \in T
  BY <1>1, <1>2, <1>12
<1>14. ASSUME NEW n \in 1..K, n - 1 \in T
       PROVE  n \in T
  BY <1>1, <1>3, <1>12, <1>14
<1>15. K \in T
  <2>1. T \in SUBSET (0..K)
    OBVIOUS
  <2> HIDE DEF T
  <2>2. T = 0..K
    BY <1>1, <1>13, <1>14, <2>1, Turns
  <2> QED
    BY <1>1, <2>2
<1>16. Chdir(NoPath, p) \in Walks
  BY <1>11, <1>15 DEF D
<1>17. ASSUME p = <<"/">>
       PROVE  Chdir(NoPath, p) = FromRoot(IF "/" \in Slots THEN "/" ELSE sel)
  <2>1. names = <<>> /\ first = FromRoot(IF "/" \in Slots THEN "/" ELSE sel)
    BY <1>17 DEF names, first
  <2>2. K = 0
    BY <2>1 DEF K
  <2> QED
    BY <1>11, <1>12, <2>1, <2>2
<1>18. ASSUME NEW s \in Slots, p = <<s>>
       PROVE  Chdir(NoPath, p) = FromRoot(s)
  <2>1. names = <<>> /\ first = FromRoot(s)
    BY <1>18 DEF names, first
  <2>2. K = 0
    BY <2>1 DEF K
  <2> QED
    BY <1>11, <1>12, <2>1, <2>2
<1>19. ASSUME NEW s \in Slots, p = <<s, "mega99">>
       PROVE  Chdir(NoPath, p) = Down(FromRoot(s), "mega99")
  <2>1. names = <<"mega99">> /\ first = FromRoot(s)
    BY <1>19 DEF names, first
  <2>2. K = 1 /\ names[1] = "mega99"
    BY <2>1 DEF K
  <2>3. 1 \in 1..K /\ 1 - 1 = 0
    BY <2>2
  <2>4. down[1] = Turn(1, first)
    BY <1>12, <2>3
  <2> QED
    BY <1>11, <2>1, <2>2, <2>4 DEF Turn
<1> QED
  BY <1>16, <1>17, <1>18, <1>19

-----------------------------------------------------------------------------
(* The paths that are kept.                                                 *)

\* dp is of a card that has been in its slot, given the counts i of the cards.
Past(dp, i) == dp \in Dirpaths /\ dp.fh.id <= i[dp.fh.slot]

\* The path of dp leads where its handle does, given the cards c and their counts i.
Leads(dp, c, i) ==
  c[dp.fh.slot] # NoCard /\ i[dp.fh.slot] = dp.fh.id /\ dp.fh.dir # Nowhere /\ Len(dp.path) <= Deep =>
    dp.path = <<dp.fh.slot>> \o dp.fh.dir

Homes     == {<<>>, <<"mega99">>}
Files     == [there : BOOLEAN, full : BOOLEAN, enable : SUBSET AllSettings, dir : Trails]

\* A place for the configuration file, the file there, and what finddir looks for.
Standing(k) ==
  /\ Places[k][1] \in Slots /\ card[Places[k][1]] # NoCard
  /\ Tail(Places[k]) \in Tree[card[Places[k][1]]]
FileOf(k) == cfg[card[Places[k][1]]][Tail(Places[k])]
Fits(k, need_file) == Standing(k) /\ IF need_file THEN FileOf(k).there ELSE k \in {1, 3}
HandleOf(k) == [slot |-> Places[k][1], id |-> id[Places[k][1]], dir |-> Tail(Places[k])]

\* The paths of the places, and a directory that is one of them as long as its card is there.
HomePaths == {<<>>} \cup {Places[k] : k \in {k \in 1..4 : Places[k][1] \in Slots}}
AtHome(dp) ==
  /\ dp.path \in HomePaths
  /\ Valid(dp.fh) /\ dp.fh.dir # Nowhere => \E k \in 1..4 : Standing(k) /\ dp.fh = HandleOf(k)

\* The configuration file is in one of the places.
HomeInv == AtHome(config_dirpath)

\* What the selector shows is in its directory.
ShownInv ==
  shown # Closed /\ shown # {} =>
    /\ shown \subseteq Names \cup {".."}
    /\ Leads(fileselector_dir, card, id) /\ fileselector_dir.fh.dir # Nowhere
    /\ ".." \in shown => fileselector_dir.fh.dir # <<>>

\* What is kept of directories.
PathInv ==
  /\ SlotsInv
  /\ Past(config_dirpath, id) /\ Leads(config_dirpath, card, id)
  /\ Past(saved_rpk_dir, id) /\ Leads(saved_rpk_dir, card, id)
  /\ Past(fileselector_dir, id)
  /\ ShownInv /\ HomeInv
  /\ enable \subseteq AllSettings
  /\ cfg \in [Cards -> [Homes -> Files]]

\* A walk ends at a path that leads to its handle.
LEMMA WalkLeads ==
  ASSUME SlotsInv, NEW st \in Walks
  PROVE  Past(st.dp, id) /\ Leads(st.dp, card, id) /\ st.sel \in Slots /\ st.dp.fh.slot \in Slots
<1>1. /\ st.dp \in Dirpaths /\ st.sel \in Slots /\ st.dp.fh.id = id[st.dp.fh.slot]
      /\ Len(st.dp.path) <= Deep => st.dp.path = <<st.dp.fh.slot>> \o st.dp.fh.dir
  BY DEF Walks
<1>2. st.dp.fh.slot \in Slots /\ st.dp.fh.id \in Nat
  BY <1>1 DEF Dirpaths
<1> QED
  BY <1>1, <1>2 DEF Past, Leads

\* No path at all, and a path whose directory is not known.
LEMMA NoPathLeads ==
  ASSUME SlotsInv, NEW p \in Trails
  PROVE  LET dp == [fh |-> NoHandle, path |-> p] IN Past(dp, id) /\ Leads(dp, card, id)
<1> DEFINE dp == [fh |-> NoHandle, path |-> p]
<1>1. "sd0" \in Slots
  BY PathsAssumption DEF PathsAssumption
<1>2. NoHandle \in [slot : Slots, id : Nat, dir : Dirs] /\ NoHandle.dir = Nowhere
      /\ NoHandle.slot = "sd0" /\ NoHandle.id = 0
  BY <1>1 DEF NoHandle, Dirs
<1>3. dp \in Dirpaths /\ dp.fh = NoHandle
  BY <1>2 DEF Dirpaths
<1>4. id["sd0"] \in Nat
  BY <1>1 DEF SlotsInv
<1> HIDE DEF dp
<1>5. Past(dp, id) /\ Leads(dp, card, id)
  BY <1>2, <1>3, <1>4 DEF Past, Leads
<1> QED
  BY <1>5 DEF dp

\* A path that is restored, from any that is kept.
LEMMA RestoreLeads ==
  ASSUME SlotsInv, NEW old, Past(old, id), Leads(old, card, id)
  PROVE  /\ Past(Restore(old).dp, id) /\ Leads(Restore(old).dp, card, id)
         /\ Restore(old).sel \in Slots
         /\ Restore(old).ok => /\ card[Restore(old).dp.fh.slot] # NoCard
                               /\ Restore(old).dp.fh.dir # Nowhere
<1>1. old \in Dirpaths /\ old.path \in Trails /\ old.fh.slot \in Slots
  BY DEF Past, Dirpaths
<1>2. CASE old.fh.dir # Nowhere /\ Valid(old.fh)
  <2>1. Restore(old) = [ok |-> TRUE, sel |-> old.fh.slot, dp |-> old]
    BY <1>2 DEF Restore
  <2> QED
    BY <1>1, <1>2, <2>1 DEF Valid
<1>3. CASE ~(old.fh.dir # Nowhere /\ Valid(old.fh))
  <2>1. Restore(old) = Chdir(NoPath, old.path)
    BY <1>3 DEF Restore
  <2>2. old.path \in Seq(Letters)
    BY <1>1 DEF Trails, Letters
  <2>3. Restore(old) \in Walks
    BY <2>1, <2>2, ChdirIs
  <2>4. /\ Past(Restore(old).dp, id) /\ Leads(Restore(old).dp, card, id)
        /\ Restore(old).sel \in Slots /\ Restore(old).dp.fh.slot \in Slots
    BY <2>3, WalkLeads
  <2>5. ASSUME Restore(old).ok
        PROVE  card[Restore(old).dp.fh.slot] # NoCard /\ Restore(old).dp.fh.dir # Nowhere
    <3>1. /\ card[Restore(old).dp.fh.slot] # NoCard
          /\ Restore(old).dp.fh.dir \in Tree[card[Restore(old).dp.fh.slot]]
      BY <2>3, <2>5 DEF Walks
    <3>2. card[Restore(old).dp.fh.slot] \in Cards
      BY <2>4, <3>1 DEF SlotsInv
    <3> QED
      BY <3>1, <3>2, NamesAre
  <2> QED
    BY <2>4, <2>5
<1> QED
  BY <1>2, <1>3

\* The directories where a configuration file may be, and how to get there.
LEMMA ChdirHome ==
  ASSUME SlotsInv, NEW s \in Slots, NEW p \in {<<s>>, <<s, "mega99">>}
  PROVE  /\ Chdir(NoPath, p) \in Walks
         /\ Chdir(NoPath, p).ok <=> card[s] # NoCard /\ Tail(p) \in Tree[card[s]]
         /\ Chdir(NoPath, p).ok =>
              /\ Chdir(NoPath, p).dp.fh = [slot |-> s, id |-> id[s], dir |-> Tail(p)]
              /\ Chdir(NoPath, p).dp.path \in {<<s>>, <<s, "mega99">>}
<1> DEFINE r == Chdir(NoPath, p)
<1>1. <<s>> \in Seq(Letters) /\ <<s, "mega99">> \in Seq(Letters)
  BY DEF Letters
<1>2. r \in Walks
  BY <1>1, ChdirIs
<1>3. card[s] # NoCard => card[s] \in Cards /\ <<>> \in Tree[card[s]] /\ <<>> # Nowhere
  BY NamesAre, PathsAssumption DEF PathsAssumption, SlotsInv
<1>4. /\ FromRoot(s) = [ok |-> card[s] # NoCard, sel |-> s, dp |-> [fh |-> Root(s), path |-> <<s>>]]
      /\ Root(s) = [slot |-> s, id |-> id[s], dir |-> <<>>]
  BY DEF FromRoot, Root
<1>5. CASE p = <<s>>
  <2>1. r = FromRoot(s)
    BY <1>1, <1>5, ChdirIs
  <2>2. Tail(p) = <<>>
    BY <1>5
  <2>3. FromRoot(s).ok <=> card[s] # NoCard
    BY DEF FromRoot
  <2>4. r.dp.fh = Root(s) /\ r.dp.path = <<s>>
    BY <1>4, <2>1
  <2> HIDE DEF r
  <2>5. r.ok <=> card[s] # NoCard
    BY <2>1, <2>3
  <2> QED
    BY <1>2, <1>3, <1>4, <2>2, <2>4, <2>5 DEF r
<1>6. CASE p = <<s, "mega99">>
  <2>1. r = Down(FromRoot(s), "mega99")
    BY <1>1, <1>6, ChdirIs
  <2>2. Tail(p) = <<"mega99">>
    BY <1>6
  <2>3. FromRoot(s).dp.fh = Root(s) /\ FromRoot(s).dp.path = <<s>> /\ (FromRoot(s).ok <=> card[s] # NoCard)
    BY DEF FromRoot
  <2>4. Exists(Root(s), "mega99") <=> card[s] # NoCard /\ <<"mega99">> \in Tree[card[s]]
    <3>1. Root(s).slot = s /\ Root(s).id = id[s] /\ Root(s).dir = <<>> /\ Append(<<>>, "mega99") = <<"mega99">>
      BY <1>4
    <3> QED
      BY <1>3, <3>1 DEF Exists, Valid
  <2>5. CASE ~FromRoot(s).ok \/ ~Exists(Root(s), "mega99")
    <3>1. r = [FromRoot(s) EXCEPT !.ok = FALSE]
      BY <2>1, <2>3, <2>5 DEF Down
    <3>2. ~r.ok
      BY <1>4, <3>1
    <3> QED
      BY <1>2, <2>2, <2>3, <2>4, <2>5, <3>2
  <2>6. CASE FromRoot(s).ok /\ Exists(Root(s), "mega99")
    <3> DEFINE new == [fh |-> Enter(Root(s), "mega99"), path |-> Longer(<<s>>, "mega99")]
    <3>1. r = [FromRoot(s) EXCEPT !.dp = new]
      BY <1>4, <2>1, <2>3, <2>6 DEF Down
    <3>2. Enter(Root(s), "mega99") = [slot |-> s, id |-> id[s], dir |-> <<"mega99">>]
      BY <1>4 DEF Enter
    <3>3. Longer(<<s>>, "mega99") \in {<<s>>, <<s, "mega99">>}
      <4>1. Append(<<s>>, "mega99") = <<s, "mega99">>
        <5> DEFINE S == {s, "mega99"}
                   a == Append(<<s>>, "mega99")
                   b == <<s, "mega99">>
        <5>1. a \in Seq(S) /\ Len(a) = 2 /\ a[1] = s /\ a[2] = "mega99"
          OBVIOUS
        <5>2. b \in Seq(S) /\ Len(b) = 2 /\ b[1] = s /\ b[2] = "mega99"
          OBVIOUS
        <5> HIDE DEF S, a, b
        <5>3. ASSUME NEW i \in 1..Len(a)
              PROVE  a[i] = b[i]
          <6>1. i = 1 \/ i = 2
            BY <5>1
          <6> QED
            BY <5>1, <5>2, <6>1
        <5>4. a = b
          BY <5>1, <5>2, <5>3, SeqEqual
        <5> QED
          BY <5>4 DEF a, b
      <4> QED
        BY <4>1 DEF Longer
    <3>4. new.fh = [slot |-> s, id |-> id[s], dir |-> <<"mega99">>] /\ new.path \in {<<s>>, <<s, "mega99">>}
      BY <3>2, <3>3
    <3> HIDE DEF new
    <3>5. r.ok /\ r.dp = new
      BY <1>4, <2>3, <2>6, <3>1
    <3> QED
      BY <1>2, <2>2, <2>3, <2>4, <2>6, <3>4, <3>5
  <2> QED
    BY <2>5, <2>6
<1> QED
  BY <1>5, <1>6

\* The places are the two directories of each of the two slots.
LEMMA PlacesAre ==
  /\ DOMAIN Places = 1..4
  /\ Places[1] = <<"sd0", "mega99">> /\ Places[2] = <<"sd0">>
  /\ Places[3] = <<"sd1", "mega99">> /\ Places[4] = <<"sd1">>
  /\ Places[1][1] = "sd0" /\ Places[2][1] = "sd0" /\ Places[3][1] = "sd1" /\ Places[4][1] = "sd1"
  /\ Tail(Places[1]) = <<"mega99">> /\ Tail(Places[2]) = <<>>
  /\ Tail(Places[3]) = <<"mega99">> /\ Tail(Places[4]) = <<>>
  /\ \A k \in 1..4 : /\ Places[k] \in {<<Places[k][1]>>, <<Places[k][1], "mega99">>}
                     /\ Tail(Places[k]) \in Homes
                     /\ Len(Places[k]) = 2 <=> k \in {1, 3}
<1>1. /\ DOMAIN Places = 1..4
      /\ Places[1] = <<"sd0", "mega99">> /\ Places[2] = <<"sd0">>
      /\ Places[3] = <<"sd1", "mega99">> /\ Places[4] = <<"sd1">>
  BY DEF Places
<1>2. /\ Places[1][1] = "sd0" /\ Places[2][1] = "sd0" /\ Places[3][1] = "sd1" /\ Places[4][1] = "sd1"
      /\ Tail(Places[1]) = <<"mega99">> /\ Tail(Places[2]) = <<>>
      /\ Tail(Places[3]) = <<"mega99">> /\ Tail(Places[4]) = <<>>
      /\ Len(Places[1]) = 2 /\ Len(Places[2]) = 1 /\ Len(Places[3]) = 2 /\ Len(Places[4]) = 1
  BY <1>1
<1>3. ASSUME NEW k \in 1..4
      PROVE  /\ Places[k] \in {<<Places[k][1]>>, <<Places[k][1], "mega99">>}
             /\ Tail(Places[k]) \in Homes
             /\ Len(Places[k]) = 2 <=> k \in {1, 3}
  <2>1. k = 1 \/ k = 2 \/ k = 3 \/ k = 4
    OBVIOUS
  <2> QED
    BY <1>1, <1>2, <2>1 DEF Homes
<1> QED
  BY <1>1, <1>2, <1>3

\* To one of the places, if it is there.
LEMMA ChdirPlace ==
  ASSUME SlotsInv, NEW k \in 1..4, Places[k][1] \in Slots
  PROVE  /\ Chdir(NoPath, Places[k]) \in Walks
         /\ Chdir(NoPath, Places[k]).ok <=> Standing(k)
         /\ Chdir(NoPath, Places[k]).ok =>
              /\ Chdir(NoPath, Places[k]).dp.fh = HandleOf(k)
              /\ Chdir(NoPath, Places[k]).dp.path \in HomePaths \ {<<>>}
<1> DEFINE s == Places[k][1]
           p == Places[k]
<1>1. p \in {<<s>>, <<s, "mega99">>} /\ s \in Slots
  BY PlacesAre
<1>2. {<<s>>, <<s, "mega99">>} \subseteq HomePaths \ {<<>>}
  <2>1. \A j \in 1..4 : Places[j][1] = s => Places[j] \in HomePaths
    BY <1>1 DEF HomePaths
  <2>2. s = "sd0" \/ s = "sd1"
    BY PlacesAre
  <2>3. \/ s = "sd0" /\ <<s, "mega99">> = Places[1] /\ <<s>> = Places[2]
        \/ s = "sd1" /\ <<s, "mega99">> = Places[3] /\ <<s>> = Places[4]
    BY <2>2, PlacesAre
  <2>4. <<s>> \in HomePaths /\ <<s, "mega99">> \in HomePaths
    <3> HIDE DEF s
    <3> QED
      BY <2>1, <2>3, PlacesAre
  <2> QED
    BY <2>4
<1> HIDE DEF s, p
<1>3. /\ Chdir(NoPath, p) \in Walks
      /\ Chdir(NoPath, p).ok <=> card[s] # NoCard /\ Tail(p) \in Tree[card[s]]
      /\ Chdir(NoPath, p).ok =>
           /\ Chdir(NoPath, p).dp.fh = [slot |-> s, id |-> id[s], dir |-> Tail(p)]
           /\ Chdir(NoPath, p).dp.path \in {<<s>>, <<s, "mega99">>}
  BY <1>1, ChdirHome
<1>4. (card[s] # NoCard /\ Tail(p) \in Tree[card[s]]) <=> Standing(k)
  BY <1>1 DEF s, p, Standing
<1>5. [slot |-> s, id |-> id[s], dir |-> Tail(p)] = HandleOf(k)
  BY DEF s, p, HandleOf
<1>6. Chdir(NoPath, p).ok => Chdir(NoPath, p).dp.path \in HomePaths \ {<<>>}
  BY <1>2, <1>3
<1>7. /\ Chdir(NoPath, p) \in Walks
      /\ Chdir(NoPath, p).ok <=> Standing(k)
      /\ Chdir(NoPath, p).ok => Chdir(NoPath, p).dp.fh = HandleOf(k)
  BY <1>3, <1>4, <1>5
<1> QED
  BY <1>6, <1>7 DEF p

\* The file in a place.
LEMMA FileOfIs ==
  ASSUME PathInv, NEW k \in 1..4, Standing(k)
  PROVE  /\ Places[k][1] \in Slots /\ card[Places[k][1]] \in Cards /\ Tail(Places[k]) \in Homes
         /\ FileOf(k) \in Files /\ FileAt(HandleOf(k)) = FileOf(k)
<1>1. Places[k][1] \in Slots /\ card[Places[k][1]] \in Cards /\ Tail(Places[k]) \in Homes
  BY PlacesAre DEF PathInv, SlotsInv, Standing
<1>2. FileOf(k) \in Files
  BY <1>1 DEF PathInv, FileOf
<1>3. FileAt(HandleOf(k)) = FileOf(k)
  BY DEF FileAt, HandleOf, FileOf
<1> QED
  BY <1>1, <1>2, <1>3

\* A directory stays one of the places as long as no card moves.
LEMMA HomeStays ==
  ASSUME UNCHANGED <<card, id>>, AtHome(config_dirpath')
  PROVE  HomeInv'
  BY DEF HomeInv, AtHome, Valid, Standing, HandleOf

\* Where the configuration file is, if it has a place, is still one of the places.
LEMMA PlaceIs ==
  ASSUME PathInv
  PROVE  /\ Place.sel \in Slots
         /\ Place.ok => /\ Past(Place.dp, id) /\ Leads(Place.dp, card, id) /\ AtHome(Place.dp)
                        /\ \E k \in 1..4 : Standing(k) /\ Place.dp.fh = HandleOf(k)
                        /\ card[Place.dp.fh.slot] \in Cards /\ Place.dp.fh.dir \in Homes
                        /\ FileAt(Place.dp.fh) \in Files
<1>1. CASE config_dirpath.path = <<>>
  <2>1. Place = [ok |-> FALSE, sel |-> sel, dp |-> config_dirpath]
    BY <1>1 DEF Place
  <2> QED
    BY <2>1 DEF PathInv, SlotsInv
<1>2. CASE config_dirpath.path # <<>>
  <2>1. Place = Restore(config_dirpath)
    BY <1>2 DEF Place
  <2>2. Past(Place.dp, id) /\ Leads(Place.dp, card, id) /\ Place.sel \in Slots
    BY <2>1, RestoreLeads DEF PathInv
  <2>3. ASSUME Place.ok
        PROVE  /\ Place.dp.path \in HomePaths
               /\ \E k \in 1..4 : Standing(k) /\ Place.dp.fh = HandleOf(k)
    <3>1. CASE config_dirpath.fh.dir # Nowhere /\ Valid(config_dirpath.fh)
      <4>1. Place.dp = config_dirpath
        BY <2>1, <3>1 DEF Restore
      <4> QED
        BY <3>1, <4>1 DEF PathInv, HomeInv, AtHome
    <3>2. CASE ~(config_dirpath.fh.dir # Nowhere /\ Valid(config_dirpath.fh))
      <4>1. Place = Chdir(NoPath, config_dirpath.path)
        BY <2>1, <3>2 DEF Restore
      <4>2. PICK k \in 1..4 : config_dirpath.path = Places[k] /\ Places[k][1] \in Slots
        BY <1>2 DEF PathInv, HomeInv, AtHome, HomePaths
      <4>3. /\ Chdir(NoPath, Places[k]).ok <=> Standing(k)
            /\ Chdir(NoPath, Places[k]).ok =>
                 /\ Chdir(NoPath, Places[k]).dp.fh = HandleOf(k)
                 /\ Chdir(NoPath, Places[k]).dp.path \in HomePaths \ {<<>>}
        BY <4>2, ChdirPlace DEF PathInv
      <4>4. Place = Chdir(NoPath, Places[k])
        BY <4>1, <4>2
      <4> QED
        BY <2>3, <4>3, <4>4
    <3> QED
      BY <3>1, <3>2
  <2>4. ASSUME Place.ok, NEW k \in 1..4, Standing(k), Place.dp.fh = HandleOf(k)
        PROVE  /\ card[Place.dp.fh.slot] \in Cards /\ Place.dp.fh.dir \in Homes
               /\ FileAt(Place.dp.fh) \in Files
    <3>1. Place.dp.fh.slot = Places[k][1] /\ Place.dp.fh.dir = Tail(Places[k])
      BY <2>4 DEF HandleOf
    <3>2. FileAt(Place.dp.fh) = FileAt(HandleOf(k))
      BY <2>4
    <3> QED
      BY <2>4, <3>1, <3>2, FileOfIs
  <2>5. ASSUME Place.ok
        PROVE  AtHome(Place.dp)
    BY <2>3, <2>5 DEF AtHome
  <2> QED
    BY <2>2, <2>3, <2>4, <2>5
<1> QED
  BY <1>1, <1>2

\* The file stays in its place, or gets one of its directories.
LEMMA PlacedIs ==
  ASSUME PathInv, Placed, UNCHANGED <<card, id>>
  PROVE  /\ Past(config_dirpath', id) /\ Leads(config_dirpath', card, id)
         /\ sel' \in Slots /\ HomeInv'
<1>1. CASE Place.ok
  <2>1. config_dirpath' = Place.dp /\ sel' = Place.sel
    BY <1>1 DEF Placed
  <2> QED
    BY <1>1, <2>1, PlaceIs, HomeStays
<1>2. CASE ~Place.ok
  <2>1. config_dirpath' = config_dirpath /\ sel' = Place.sel
    BY <1>2 DEF Placed
  <2> QED
    BY <2>1, PlaceIs, HomeStays DEF PathInv, HomeInv
<1> QED
  BY <1>1, <1>2

\* A directory that the file names has its path, and a handle only if the path was that already.
LEMMA LoadedIs ==
  ASSUME PathInv, NEW f \in Files, LoadFrom(f)
  PROVE  enable' \subseteq AllSettings /\ Past(saved_rpk_dir', id) /\ Leads(saved_rpk_dir', card, id)
<1>1. enable' \subseteq AllSettings
  BY DEF LoadFrom, Files, PathInv
<1>2. f.dir \in Trails
  BY DEF Files
<1>3. \/ saved_rpk_dir' = saved_rpk_dir
      \/ saved_rpk_dir' = [fh |-> NoHandle, path |-> f.dir]
  BY DEF LoadFrom, ParseDir
<1>4. SlotsInv /\ Past(saved_rpk_dir, id) /\ Leads(saved_rpk_dir, card, id)
  BY DEF PathInv
<1>5. CASE saved_rpk_dir' = saved_rpk_dir
  BY <1>1, <1>4, <1>5
<1>6. CASE saved_rpk_dir' = [fh |-> NoHandle, path |-> f.dir]
  <2> DEFINE dp == [fh |-> NoHandle, path |-> f.dir]
  <2>1. Past(dp, id) /\ Leads(dp, card, id)
    BY <1>2, <1>4, NoPathLeads
  <2> HIDE DEF dp
  <2>2. saved_rpk_dir' = dp
    BY <1>6 DEF dp
  <2> QED
    BY <1>1, <2>1, <2>2
<1> QED
  BY <1>3, <1>5, <1>6

\* What can be selected has names of directories, and leads up only from below the root.
LEMMA ListingIs ==
  ASSUME SlotsInv, NEW fh \in [slot : Slots, id : Nat, dir : Dirs], Listing(fh) # {}
  PROVE  /\ fh.dir # Nowhere /\ Listing(fh) \subseteq Names \cup {".."}
         /\ ".." \in Listing(fh) => fh.dir # <<>>
<1>1. Valid(fh) /\ fh.dir # Nowhere
  BY DEF Listing
<1>2. card[fh.slot] \in Cards
  BY <1>1 DEF Valid, SlotsInv
<1> DEFINE below == {n \in UNION {Range(d) : d \in Tree[card[fh.slot]]} : Exists(fh, n)}
<1>3. below \subseteq Names
  BY <1>2 DEF Names
<1>4. Listing(fh) = below \cup (IF fh.dir # <<>> THEN {".."} ELSE {})
  BY <1>1 DEF Listing
<1>5. ".." \notin below
  BY <1>3, NamesAre
<1> HIDE DEF below
<1> QED
  BY <1>1, <1>3, <1>4, <1>5

\* A directory that is shown can be kept.
LEMMA FillHolds ==
  ASSUME PathInv, NEW dp, Past(dp, id), Leads(dp, card, id), Fill(dp), card' = card, id' = id
  PROVE  /\ Past(saved_rpk_dir', id) /\ Leads(saved_rpk_dir', card, id)
         /\ Past(fileselector_dir', id) /\ ShownInv'
<1>1. fileselector_dir' = dp /\ saved_rpk_dir' = dp /\ shown' = Listing(dp.fh)
  BY DEF Fill
<1>2. dp.fh \in [slot : Slots, id : Nat, dir : Dirs] /\ SlotsInv
  BY DEF Past, Dirpaths, PathInv
<1>3. Listing(dp.fh) # {} => /\ dp.fh.dir # Nowhere /\ Listing(dp.fh) \subseteq Names \cup {".."}
                             /\ ".." \in Listing(dp.fh) => dp.fh.dir # <<>>
  BY <1>2, ListingIs
<1>4. Leads(fileselector_dir, card, id)'
  BY <1>1 DEF Leads
<1> QED
  BY <1>1, <1>3, <1>4 DEF ShownInv

\* A root is shown, or nothing is and the path alone changes.
LEMMA FillRootHolds ==
  ASSUME PathInv, NEW s \in Slots, FillRoot(s), card' = card, id' = id
  PROVE  /\ Past(saved_rpk_dir', id) /\ Leads(saved_rpk_dir', card, id)
         /\ Past(fileselector_dir', id) /\ ShownInv' /\ sel' \in Slots
<1>1. sel' = s
  BY DEF FillRoot
<1>2. CASE FromRoot(s).ok
  <2> DEFINE dp == FromRoot(s).dp
  <2>1. Past(dp, id) /\ Leads(dp, card, id)
    BY FromRootWalks, WalkLeads DEF PathInv
  <2>2. Fill(dp)
    BY <1>2 DEF FillRoot
  <2> HIDE DEF dp
  <2> QED
    BY <1>1, <2>1, <2>2, FillHolds
<1>3. CASE ~FromRoot(s).ok
  <2>1. /\ fileselector_dir' = [fileselector_dir EXCEPT !.path = <<s>>]
        /\ shown' = {} /\ saved_rpk_dir' = saved_rpk_dir
    BY <1>3 DEF FillRoot
  <2>2. <<s>> \in Trails
    BY DEF Trails
  <2>3. fileselector_dir \in Dirpaths /\ fileselector_dir.fh.id <= id[fileselector_dir.fh.slot]
    BY DEF PathInv, Past
  <2>4. fileselector_dir' \in Dirpaths /\ fileselector_dir'.fh = fileselector_dir.fh
    BY <2>1, <2>2, <2>3 DEF Dirpaths
  <2> QED
    BY <1>1, <2>1, <2>3, <2>4 DEF PathInv, Past, ShownInv
<1> QED
  BY <1>2, <1>3

\* The other slot is one.
LEMMA OtherIs ==
  ASSUME NEW s \in Slots
  PROVE  Other(s) \in Slots
<1>1. CASE Slots = {s}
  BY <1>1 DEF Other
<1>2. CASE Slots # {s}
  <2>1. \E t \in Slots : t # s
    BY <1>2
  <2>2. (CHOOSE t \in Slots : t # s) \in Slots
    BY <2>1
  <2> QED
    BY <1>2, <2>2 DEF Other
<1> QED
  BY <1>1, <1>2

(***************************************************************************)
(* Into a directory of the list, or out of it: the path changes with the   *)
(* handle, or, with the card gone or no room for the name, no longer       *)
(* counts.                                                                 *)
(***************************************************************************)
LEMMA SubdirLeads ==
  ASSUME PathInv, shown # Closed, NEW name \in shown,
         Enter(fileselector_dir.fh, name).dir # Nowhere
  PROVE  LET dp == Subdir(fileselector_dir, Enter(fileselector_dir.fh, name), name)
         IN  Past(dp, id) /\ Leads(dp, card, id)
<1> DEFINE old == fileselector_dir
           fh == Enter(old.fh, name)
           path == Subdir(old, fh, name).path
           Up == IF Len(old.fh.dir) = 1 THEN Nowhere ELSE Front(old.fh.dir)
<1>1. /\ SlotsInv /\ old \in Dirpaths /\ old.fh.id <= id[old.fh.slot]
      /\ name \in Names \cup {".."} /\ Leads(old, card, id) /\ old.fh.dir # Nowhere
      /\ name = ".." => old.fh.dir # <<>>
  BY DEF PathInv, Past, ShownInv
<1>2. /\ old.fh \in [slot : Slots, id : Nat, dir : Dirs] /\ old.path \in Trails
      /\ old.fh.dir \in Seq(Names) /\ old.fh.slot \in Slots
  BY <1>1 DEF Dirpaths, Dirs
<1>3. fh = [old.fh EXCEPT !.dir = IF name # ".." THEN Append(old.fh.dir, name) ELSE Up]
  BY DEF Enter
<1>4. Subdir(old, fh, name) = [fh |-> fh, path |-> path]
  BY DEF Subdir
<1>5. path = IF ~Valid(fh) \/ Len(old.path) > Deep THEN Lost(old.path)
             ELSE IF name = ".." THEN Shorter(old.path) ELSE Append(old.path, name)
  BY DEF Subdir
<1>6. fh.slot = old.fh.slot /\ fh.id = old.fh.id /\ fh.dir # Nowhere
      /\ fh.dir = IF name # ".." THEN Append(old.fh.dir, name) ELSE Up
  BY <1>2, <1>3
<1> HIDE DEF fh, path, old
<1>7. Deep \in Nat /\ Len(old.path) \in Nat
  BY <1>2, PathsAssumption DEF PathsAssumption, Trails
<1>8. name = ".." => /\ fh.dir = Front(old.fh.dir) /\ Front(old.fh.dir) \in Seq(Names)
                     /\ Len(old.fh.dir) >= 2
  <2> DEFINE d == old.fh.dir
             S == Names
  <2>1. ASSUME name = ".."
        PROVE  d \in Seq(S) /\ d # <<>> /\ Len(d) # 1
    BY <1>1, <1>2, <1>6, <2>1
  <2> HIDE DEF S
  <2>2. ASSUME name = ".."
        PROVE  Front(d) \in Seq(S) /\ Len(d) >= 2
    <3>1. d \in Seq(S) /\ d # <<>> /\ Len(d) # 1
      BY <2>1, <2>2
    <3> HIDE DEF d
    <3> QED
      BY <3>1, LongPath
  <2> QED
    BY <1>6, <2>1, <2>2 DEF S
<1>9. fh.dir \in Seq(Names)
  BY <1>1, <1>2, <1>6, <1>8
<1>10. fh \in [slot : Slots, id : Nat, dir : Dirs]
  BY <1>2, <1>3, <1>6, <1>9 DEF Dirs
<1>11. path \in Trails
  <2>1. Lost(old.path) \in Trails
    BY <1>2 DEF Lost, Trails
  <2>2. name # ".." => Append(old.path, name) \in Trails
    BY <1>1, <1>2 DEF Trails
  <2>3. Shorter(old.path) \in Trails
    <3> DEFINE S == Slots \cup Names \cup {"?"}
               p == old.path
    <3>1. p \in Seq(S) /\ Len(p) \in Nat
      BY <1>2 DEF Trails
    <3> HIDE DEF S, p
    <3>2. p # <<>> => Front(p) \in Seq(S)
      BY <3>1, FrontIs
    <3>3. Len(p) > 1 => p # <<>>
      BY <3>1
    <3>4. Shorter(p) \in Seq(S)
      BY <3>1, <3>2, <3>3 DEF Shorter
    <3> QED
      BY <3>4 DEF S, p, Trails
  <2> QED
    BY <1>5, <2>1, <2>2, <2>3
<1>12. ASSUME Valid(fh), Len(path) <= Deep
       PROVE  path = <<fh.slot>> \o fh.dir
  <2>1. Len(old.path) <= Deep
    BY <1>5, <1>7, <1>12 DEF Lost
  <2>2. old.path = <<old.fh.slot>> \o old.fh.dir
    BY <1>1, <1>6, <1>12, <2>1 DEF Leads, Valid
  <2> DEFINE S == Slots \cup Names
             d == old.fh.dir
             x == old.fh.slot
  <2>3. d \in Seq(S) /\ x \in S
    BY <1>2
  <2>4. CASE name # ".."
    <3>1. path = Append(old.path, name) /\ fh.dir = Append(d, name) /\ name \in S
      BY <1>1, <1>5, <1>6, <1>7, <1>12, <2>1, <2>4
    <3> HIDE DEF S, d, x
    <3>2. Append(<<x>> \o d, name) = <<x>> \o Append(d, name)
      BY <2>3, <3>1, PathAppends
    <3> QED
      BY <1>6, <2>2, <3>1, <3>2 DEF d, x
  <2>5. CASE name = ".."
    <3>1. path = Shorter(old.path) /\ fh.dir = Front(d) /\ Len(d) >= 2 /\ d # <<>>
      BY <1>1, <1>5, <1>7, <1>8, <1>12, <2>1, <2>5
    <3> HIDE DEF S, d, x
    <3>2. Front(<<x>> \o d) = <<x>> \o Front(d) /\ Len(<<x>> \o d) = Len(d) + 1
      BY <2>3, <3>1, PathShortens
    <3>3. old.path = <<x>> \o d
      BY <2>2 DEF d, x
    <3>4. Len(d) \in Nat
      BY <2>3
    <3>5. path = Front(<<x>> \o d)
      BY <3>1, <3>2, <3>3, <3>4 DEF Shorter
    <3> QED
      BY <1>6, <3>1, <3>2, <3>5 DEF d, x
  <2> QED
    BY <2>4, <2>5
<1> DEFINE dp == [fh |-> fh, path |-> path]
<1>13. dp \in Dirpaths /\ dp.fh = fh /\ dp.path = path
  BY <1>10, <1>11 DEF Dirpaths
<1> HIDE DEF dp
<1>14. Past(dp, id) /\ Leads(dp, card, id)
  BY <1>1, <1>6, <1>12, <1>13 DEF Past, Leads, Valid
<1>15. Subdir(fileselector_dir, Enter(fileselector_dir.fh, name), name) = dp
  BY <1>4 DEF dp, old, fh
<1> QED
  BY <1>14, <1>15

\* What finddir finds is the first place that fits, or nothing.
FoundAt(need_file, k) ==
  /\ Fits(k, need_file) /\ \A j \in 1..k-1 : ~Fits(j, need_file)
  /\ Found(need_file) # NoPath
  /\ Past(Found(need_file), id) /\ Leads(Found(need_file), card, id)
  /\ Found(need_file).fh = HandleOf(k) /\ Found(need_file).path \in HomePaths \ {<<>>}

\* The first place that fits is found, if any does.
LEMMA FoundIs ==
  ASSUME SlotsInv, NEW need_file \in BOOLEAN
  PROVE  \/ Found(need_file) = NoPath /\ \A k \in 1..4 : ~Fits(k, need_file)
         \/ \E k \in 1..4 : FoundAt(need_file, k)
<1> DEFINE r(p) == Chdir(NoPath, p)
           fits(p) == /\ p[1] \in Slots /\ r(p).ok
                      /\ IF need_file THEN FileAt(r(p).dp.fh).there ELSE Len(p) = 2
           ks == {k \in DOMAIN Places : fits(Places[k])}
<1>1. ASSUME NEW k \in 1..4
      PROVE  fits(Places[k]) <=> Fits(k, need_file)
  <2>1. CASE Places[k][1] \in Slots /\ r(Places[k]).ok
    <3>1. Standing(k) /\ r(Places[k]).dp.fh = HandleOf(k)
      BY <2>1, ChdirPlace
    <3>2. FileAt(HandleOf(k)) = FileOf(k)
      BY DEF FileAt, HandleOf, FileOf
    <3>3. Len(Places[k]) = 2 <=> k \in {1, 3}
      BY PlacesAre
    <3> QED
      BY <2>1, <3>1, <3>2, <3>3 DEF Fits
  <2>2. CASE ~(Places[k][1] \in Slots /\ r(Places[k]).ok)
    <3>1. ~Standing(k)
      <4>1. CASE Places[k][1] \in Slots
        BY <2>2, <4>1, ChdirPlace
      <4>2. CASE Places[k][1] \notin Slots
        BY <4>2 DEF Standing
      <4> QED
        BY <4>1, <4>2
    <3> QED
      BY <2>2, <3>1 DEF Fits
  <2> QED
    BY <2>1, <2>2
<1>2. Found(need_file) = IF ks = {} THEN NoPath ELSE r(Places[Min(ks)]).dp
  BY DEF Found
<1>3. ks \in SUBSET (1..4)
  BY PlacesAre
<1>4. \A k \in 1..4 : k \in ks <=> Fits(k, need_file)
  BY <1>1, PlacesAre
<1> HIDE DEF ks, fits
<1>5. CASE ks = {}
  BY <1>2, <1>4, <1>5
<1>6. CASE ks # {}
  <2> DEFINE k == Min(ks)
  <2>1. k \in ks /\ \A j \in ks : k <= j
    <3>1. ks \in SUBSET Nat
      BY <1>3
    <3> QED
      BY <1>6, <3>1, MinIs
  <2> HIDE DEF k
  <2>2. k \in 1..4 /\ Fits(k, need_file)
    BY <1>3, <1>4, <2>1
  <2>3. ASSUME NEW j \in 1..k-1
        PROVE  ~Fits(j, need_file)
    <3>1. j \in 1..4 /\ ~(k <= j)
      BY <2>2
    <3> QED
      BY <1>4, <2>1, <3>1
  <2>4. Standing(k) /\ Places[k][1] \in Slots
    BY <2>2 DEF Fits, Standing
  <2>5. Found(need_file) = r(Places[k]).dp
    BY <1>2, <1>6 DEF k
  <2>6. /\ r(Places[k]) \in Walks /\ r(Places[k]).ok
        /\ r(Places[k]).dp.fh = HandleOf(k)
        /\ r(Places[k]).dp.path \in HomePaths \ {<<>>}
    BY <2>2, <2>4, ChdirPlace
  <2>7. Past(r(Places[k]).dp, id) /\ Leads(r(Places[k]).dp, card, id)
    BY <2>6, WalkLeads
  <2>8. Found(need_file) # NoPath
    BY <2>5, <2>6 DEF NoPath
  <2>9. FoundAt(need_file, k)
    BY <2>2, <2>3, <2>5, <2>6, <2>7, <2>8 DEF FoundAt
  <2> QED
    BY <2>2, <2>9
<1> QED
  BY <1>5, <1>6

\* The parts of the invariant, after a step that moves no card.
LEMMA PathParts ==
  ASSUME PathInv, card' = card, id' = id, sel' \in Slots, enable' \subseteq AllSettings,
         Past(config_dirpath', id), Leads(config_dirpath', card, id), HomeInv',
         Past(saved_rpk_dir', id), Leads(saved_rpk_dir', card, id),
         Past(fileselector_dir', id), ShownInv', cfg' \in [Cards -> [Homes -> Files]]
  PROVE  PathInv'
<1>1. SlotsInv'
  BY DEF PathInv, SlotsInv
<1>2. /\ Past(config_dirpath, id)' /\ Leads(config_dirpath, card, id)'
      /\ Past(saved_rpk_dir, id)' /\ Leads(saved_rpk_dir, card, id)'
      /\ Past(fileselector_dir, id)'
  BY DEF Past, Leads
<1> QED
  BY <1>1, <1>2 DEF PathInv

\* What is shown stays as long as the selector does.
LEMMA ShownStays ==
  ASSUME PathInv, UNCHANGED <<card, id, fileselector_dir, shown>>
  PROVE  ShownInv' /\ Past(fileselector_dir', id)
  BY DEF PathInv, ShownInv, Leads

\* A step that touches no directory.
LEMMA PathStays ==
  ASSUME PathInv, UNCHANGED <<card, id, config_dirpath, saved_rpk_dir, fileselector_dir, shown, cfg>>,
         sel' \in Slots, enable' \subseteq AllSettings
  PROVE  PathInv'
<1>1. HomeInv' /\ ShownInv'
  BY ShownStays, HomeStays DEF PathInv, HomeInv
<1> QED
  BY <1>1, PathParts DEF PathInv

\* A card that moves leaves behind only handles of the past.
LEMMA MoveHolds ==
  ASSUME PathInv, NEW s \in Slots, Move(s)
  PROVE  PathInv'
<1>1. /\ card \in [Slots -> Cards \cup {NoCard}] /\ id \in [Slots -> Nat] /\ sel \in Slots
  BY DEF PathInv, SlotsInv
<1>2. PICK c \in (Cards \ Range(card)) \cup {NoCard} : card' = [card EXCEPT ![s] = c]
  BY DEF Move
<1>3. /\ id' = [id EXCEPT ![s] = @ + 1]
      /\ UNCHANGED <<sel, config_dirpath, saved_rpk_dir, fileselector_dir, shown, enable, cfg>>
  BY DEF Move, firmware
<1>4. SlotsInv'
  BY <1>1, <1>2, <1>3 DEF SlotsInv
<1>5. ASSUME NEW dp, Past(dp, id)
      PROVE  Past(dp, id') /\ (Leads(dp, card, id) => Leads(dp, card', id'))
  <2>1. dp \in Dirpaths /\ dp.fh.slot \in Slots /\ dp.fh.id \in Nat /\ dp.fh.id <= id[dp.fh.slot]
    BY <1>5 DEF Past, Dirpaths
  <2>2. CASE dp.fh.slot = s
    <3>1. id[s] \in Nat /\ id'[s] = id[s] + 1
      BY <1>1, <1>3
    <3> QED
      BY <2>1, <2>2, <3>1 DEF Past, Leads
  <2>3. CASE dp.fh.slot # s
    <3>1. id'[dp.fh.slot] = id[dp.fh.slot] /\ card'[dp.fh.slot] = card[dp.fh.slot]
      BY <1>1, <1>2, <1>3, <2>1, <2>3
    <3> QED
      BY <2>1, <3>1 DEF Past, Leads
  <2> QED
    BY <2>2, <2>3
<1>6. /\ Past(config_dirpath, id') /\ Leads(config_dirpath, card', id')
      /\ Past(saved_rpk_dir, id') /\ Leads(saved_rpk_dir, card', id')
      /\ Past(fileselector_dir, id')
      /\ Leads(fileselector_dir, card, id) => Leads(fileselector_dir, card', id')
  BY <1>5 DEF PathInv
<1>7. ShownInv'
  BY <1>3, <1>6 DEF PathInv, ShownInv
<1>9. HomeInv'
  <2> DEFINE fh == config_dirpath.fh
  <2>1. fh.slot \in Slots /\ fh.id \in Nat /\ fh.id <= id[fh.slot]
    BY DEF PathInv, Past, Dirpaths
  <2>2. ASSUME card'[fh.slot] # NoCard, id'[fh.slot] = fh.id, fh.dir # Nowhere
        PROVE  \E k \in 1..4 : (Standing(k))' /\ fh = (HandleOf(k))'
    <3>1. fh.slot # s
      <4>1. id'[s] = id[s] + 1 /\ id[s] \in Nat
        BY <1>1, <1>3
      <4> QED
        BY <2>1, <2>2, <4>1
    <3>2. id'[fh.slot] = id[fh.slot] /\ card'[fh.slot] = card[fh.slot]
      BY <1>1, <1>2, <1>3, <2>1, <3>1
    <3>3. Valid(fh)
      BY <2>2, <3>2 DEF Valid
    <3>4. PICK k \in 1..4 : Standing(k) /\ fh = HandleOf(k)
      BY <2>2, <3>3 DEF PathInv, HomeInv, AtHome
    <3>5. Places[k][1] = fh.slot
      BY <3>4 DEF HandleOf
    <3>6. (Standing(k))'
      BY <3>2, <3>4, <3>5 DEF Standing
    <3>7. (HandleOf(k))' = HandleOf(k)
      BY <3>2, <3>5 DEF HandleOf
    <3> QED
      BY <3>4, <3>6, <3>7
  <2>3. config_dirpath' = config_dirpath /\ config_dirpath.path \in HomePaths
    BY <1>3 DEF PathInv, HomeInv, AtHome
  <2> QED
    BY <2>2, <2>3 DEF HomeInv, AtHome, Valid
<1>8. enable' \subseteq AllSettings /\ cfg' \in [Cards -> [Homes -> Files]]
  BY <1>3 DEF PathInv
<1> QED
  BY <1>3, <1>4, <1>6, <1>7, <1>8, <1>9 DEF PathInv

\* A start knows no directories.
LEMMA NoDirs ==
  ASSUME SlotsInv
  PROVE  Past(NoPath, id) /\ Leads(NoPath, card, id) /\ NoPath.path = <<>> /\ NoPath.fh.dir = Nowhere
<1>1. <<>> \in Trails
  BY DEF Trails
<1>2. NoPath = [fh |-> NoHandle, path |-> <<>>]
  BY DEF NoPath
<1>3. Past(NoPath, id) /\ Leads(NoPath, card, id)
  BY <1>1, <1>2, NoPathLeads
<1>4. NoPath.path = <<>> /\ NoPath.fh = NoHandle
  BY <1>2
<1> QED
  BY <1>3, <1>4 DEF NoHandle

\* At power on no directory is known.
LEMMA PowerOnHolds ==
  ASSUME SlotsInv, PowerOn, cfg \in [Cards -> [Homes -> Files]]
  PROVE  PathInv
<1>1. /\ config_dirpath = NoPath /\ saved_rpk_dir = NoPath /\ fileselector_dir = NoPath
      /\ shown = Closed /\ enable = Default
  BY DEF PowerOn
<1>2. Past(NoPath, id) /\ Leads(NoPath, card, id) /\ NoPath.path = <<>> /\ NoPath.fh.dir = Nowhere
  BY NoDirs
<1>3. HomeInv /\ ShownInv
  BY <1>1, <1>2 DEF HomeInv, AtHome, HomePaths, ShownInv
<1>4. enable \subseteq AllSettings
  BY <1>1 DEF Default, AllSettings
<1> QED
  BY <1>1, <1>2, <1>3, <1>4 DEF PathInv

\* No file, and an empty one, are files.
LEMMA NoFileIs == NoFile \in Files /\ EmptyFile \in Files /\ ~EmptyFile.full
<1>1. <<>> \in Trails
  BY DEF Trails
<1> QED
  BY <1>1 DEF NoFile, EmptyFile, Files

\* The first start.
LEMMA PathsBegin == StartInit => PathInv
<1> SUFFICES ASSUME StartInit PROVE PathInv
  OBVIOUS
<1>1. SlotsInv
  <2>1. "sd0" \in Slots
    BY PathsAssumption DEF PathsAssumption
  <2> QED
    BY <2>1 DEF StartInit, SlotsInv
<1>2. cfg \in [Cards -> [Homes -> Files]]
  BY NoFileIs DEF StartInit, Homes
<1> QED
  BY <1>1, <1>2, PowerOnHolds DEF StartInit

\* Any other start.
LEMMA RestartHolds ==
  ASSUME PathInv, Restart
  PROVE  PathInv'
<1>1. SlotsInv'
  <2>1. "sd0" \in Slots
    BY PathsAssumption DEF PathsAssumption
  <2> QED
    BY <2>1 DEF PathInv, Restart, SlotsInv
<1>2. cfg' \in [Cards -> [Homes -> Files]]
  BY DEF PathInv, Restart
<1>3. /\ config_dirpath' = NoPath /\ saved_rpk_dir' = NoPath /\ fileselector_dir' = NoPath
      /\ shown' = Closed /\ enable' = Default
  BY DEF Restart
<1>4. (Past(NoPath, id) /\ Leads(NoPath, card, id))' /\ NoPath.path = <<>> /\ NoPath.fh.dir = Nowhere
  <2>1. NoPath \in Dirpaths /\ NoPath.fh.id = 0 /\ NoPath.fh.slot \in Slots /\ NoPath.path = <<>> /\ NoPath.fh.dir = Nowhere
    BY NoDirs DEF PathInv, NoPath, NoHandle, Past, Dirpaths
  <2>2. id'[NoPath.fh.slot] \in Nat
    BY <1>1, <2>1 DEF SlotsInv
  <2> QED
    BY <2>1, <2>2 DEF Past, Leads
<1>5. HomeInv' /\ ShownInv'
  BY <1>3, <1>4 DEF HomeInv, AtHome, HomePaths, ShownInv
<1>6. enable' \subseteq AllSettings
  BY <1>3 DEF Default, AllSettings
<1> QED
  BY <1>1, <1>2, <1>3, <1>4, <1>5, <1>6 DEF PathInv

\* What finddir gives is a place that may be kept.
LEMMA FoundPlace ==
  ASSUME PathInv, NEW need_file \in BOOLEAN
  PROVE  LET dp == Found(need_file)
         IN  Past(dp, id) /\ Leads(dp, card, id) /\ AtHome(dp)
<1>1. CASE Found(need_file) = NoPath
  BY <1>1, NoDirs DEF PathInv, AtHome, HomePaths
<1>2. ASSUME NEW k \in 1..4, FoundAt(need_file, k)
      PROVE  LET dp == Found(need_file)
             IN  Past(dp, id) /\ Leads(dp, card, id) /\ AtHome(dp)
  BY <1>2 DEF FoundAt, Fits, AtHome
<1> QED
  BY <1>1, <1>2, FoundIs DEF PathInv

\* The start keeps the place that it has found.
LEMMA ConfigInitHolds ==
  ASSUME PathInv, ConfigInit
  PROVE  PathInv'
<1>1. UNCHANGED <<card, id, fileselector_dir, shown, cfg>>
  BY DEF ConfigInit, cardVars
<1>2. sel' \in Slots
  BY PathsAssumption DEF PathsAssumption, ConfigInit
<1>3. Past(config_dirpath', id) /\ Leads(config_dirpath', card, id) /\ HomeInv'
  <2>1. PICK b \in BOOLEAN : config_dirpath' = Found(b)
    BY DEF ConfigInit
  <2> QED
    BY <1>1, <2>1, FoundPlace, HomeStays
<1>4. enable' \subseteq AllSettings /\ Past(saved_rpk_dir', id) /\ Leads(saved_rpk_dir', card, id)
  <2>1. CASE Found(TRUE) # NoPath
    <3>1. PICK k \in 1..4 : FoundAt(TRUE, k)
      BY <2>1, FoundIs DEF PathInv
    <3>2. Standing(k) /\ Found(TRUE).fh = HandleOf(k)
      BY <3>1 DEF FoundAt, Fits
    <3>3. FileAt(Found(TRUE).fh) \in Files
      BY <3>2, FileOfIs
    <3>4. LoadFrom(FileAt(Found(TRUE).fh))
      BY <2>1 DEF ConfigInit
    <3> QED
      BY <3>3, <3>4, LoadedIs
  <2>2. CASE Found(TRUE) = NoPath
    <3>1. UNCHANGED <<enable, saved_rpk_dir>>
      BY <2>2 DEF ConfigInit
    <3> QED
      BY <3>1 DEF PathInv
  <2> QED
    BY <2>1, <2>2
<1>5. ShownInv' /\ Past(fileselector_dir', id)
  BY <1>1, ShownStays
<1>6. cfg' \in [Cards -> [Homes -> Files]]
  BY <1>1 DEF PathInv
<1> QED
  BY <1>1, <1>2, <1>3, <1>4, <1>5, <1>6, PathParts

\* A configuration file brings a path without a handle.
LEMMA LoadConfigHolds ==
  ASSUME PathInv, LoadConfig
  PROVE  PathInv'
<1>1. UNCHANGED <<card, id, fileselector_dir, shown, cfg>> /\ Placed
  BY DEF LoadConfig, cardVars
<1>2. /\ Past(config_dirpath', id) /\ Leads(config_dirpath', card, id)
      /\ sel' \in Slots /\ HomeInv'
  BY <1>1, PlacedIs
<1>3. enable' \subseteq AllSettings /\ Past(saved_rpk_dir', id) /\ Leads(saved_rpk_dir', card, id)
  <2>1. CASE Place.ok /\ FileAt(Place.dp.fh).there
    <3>1. FileAt(Place.dp.fh) \in Files
      BY <2>1, PlaceIs
    <3>2. LoadFrom(FileAt(Place.dp.fh))
      BY <2>1 DEF LoadConfig
    <3> QED
      BY <3>1, <3>2, LoadedIs
  <2>2. CASE ~(Place.ok /\ FileAt(Place.dp.fh).there)
    <3>1. UNCHANGED <<enable, saved_rpk_dir>>
      BY <2>2 DEF LoadConfig
    <3> QED
      BY <3>1 DEF PathInv
  <2> QED
    BY <2>1, <2>2
<1>4. ShownInv' /\ Past(fileselector_dir', id)
  BY <1>1, ShownStays
<1>5. cfg' \in [Cards -> [Homes -> Files]]
  BY <1>1 DEF PathInv
<1> QED
  BY <1>1, <1>2, <1>3, <1>4, <1>5, PathParts

\* A file that is saved holds a path that can be loaded.
LEMMA SaveConfigHolds ==
  ASSUME PathInv, SaveConfig
  PROVE  PathInv'
<1>1. UNCHANGED <<card, id, enable, saved_rpk_dir, fileselector_dir, shown>> /\ Placed
  BY DEF SaveConfig, cardVars
<1>2. /\ Past(config_dirpath', id) /\ Leads(config_dirpath', card, id)
      /\ sel' \in Slots /\ HomeInv'
  BY <1>1, PlacedIs
<1> DEFINE new == [there |-> TRUE, full |-> TRUE, enable |-> enable, dir |-> saved_rpk_dir.path]
<1>3. new \in Files
  <2>1. enable \in SUBSET AllSettings /\ saved_rpk_dir.path \in Trails
    BY DEF PathInv, Past, Dirpaths
  <2> QED
    BY <2>1 DEF Files
<1> HIDE DEF new
<1>4. PICK f \in {new, EmptyFile, NoFile} :
        /\ f = NoFile \/ Place.ok
        /\ cfg' = IF f = NoFile THEN cfg
                  ELSE [cfg EXCEPT ![card[Place.dp.fh.slot]][Place.dp.fh.dir] = f]
  BY DEF SaveConfig, new
<1>5. f \in Files
  BY <1>3, <1>4, NoFileIs
<1>6. cfg' \in [Cards -> [Homes -> Files]]
  <2>1. CASE f = NoFile
    BY <1>4, <2>1 DEF PathInv
  <2>2. CASE f # NoFile
    <3>1. card[Place.dp.fh.slot] \in Cards /\ Place.dp.fh.dir \in Homes
      BY <1>4, <2>2, PlaceIs
    <3> QED
      BY <1>4, <1>5, <2>2, <3>1 DEF PathInv
  <2> QED
    BY <2>1, <2>2
<1>7. enable' \subseteq AllSettings /\ Past(saved_rpk_dir', id) /\ Leads(saved_rpk_dir', card, id)
  BY <1>1 DEF PathInv
<1>8. ShownInv' /\ Past(fileselector_dir', id)
  BY <1>1, ShownStays
<1> QED
  BY <1>1, <1>2, <1>6, <1>7, <1>8, PathParts

\* The selector changes its own directory and the one it opens in next time.
SelectorStep == card' = card /\ id' = id /\ enable' = enable /\ config_dirpath' = config_dirpath /\ cfg' = cfg

\* A step of the selector keeps the rest.
LEMMA SelectorHolds ==
  ASSUME PathInv, SelectorStep, sel' \in Slots,
         Past(saved_rpk_dir', id), Leads(saved_rpk_dir', card, id),
         Past(fileselector_dir', id), ShownInv'
  PROVE  PathInv'
<1>1. HomeInv'
  BY HomeStays DEF SelectorStep, PathInv, HomeInv
<1> QED
  BY <1>1, PathParts DEF SelectorStep, PathInv

\* The selector opens where it was, or at a root.
LEMMA OpenSelectorHolds ==
  ASSUME PathInv, OpenSelector
  PROVE  PathInv'
<1>1. SelectorStep
  BY DEF OpenSelector, SelectorStep, cardVars
<1> DEFINE r == Restore(saved_rpk_dir)
<1>2. Past(r.dp, id) /\ Leads(r.dp, card, id) /\ r.sel \in Slots
  BY RestoreLeads DEF PathInv
<1>3. CASE r.ok
  <2>1. Fill(r.dp) /\ sel' = r.sel
    BY <1>3 DEF OpenSelector
  <2> HIDE DEF r
  <2>2. /\ Past(saved_rpk_dir', id) /\ Leads(saved_rpk_dir', card, id)
        /\ Past(fileselector_dir', id) /\ ShownInv'
    BY <1>1, <1>2, <2>1, FillHolds DEF SelectorStep
  <2> QED
    BY <1>1, <1>2, <2>1, <2>2, SelectorHolds
<1>4. CASE ~r.ok
  <2>1. PICK s \in Slots : FillRoot(s)
    BY <1>2, <1>4, OtherIs DEF OpenSelector
  <2> QED
    BY <1>1, <2>1, FillRootHolds, SelectorHolds DEF SelectorStep
<1> QED
  BY <1>3, <1>4

\* In the selector, into a directory or out of it.
LEMMA BrowseHolds ==
  ASSUME PathInv, NEW name \in shown, Browse(name)
  PROVE  PathInv'
<1> DEFINE fh == Enter(fileselector_dir.fh, name)
           dp == Subdir(fileselector_dir, fh, name)
<1>1. SelectorStep /\ shown # Closed
  BY DEF Browse, SelectorStep, cardVars, NoSelector
<1>2. fh.slot \in Slots
  <2>1. fileselector_dir.fh \in [slot : Slots, id : Nat, dir : Dirs]
    BY DEF PathInv, Past, Dirpaths
  <2> QED
    BY <2>1 DEF Enter
<1>3. CASE fh.dir = Nowhere
  <2>1. FillRoot(fh.slot)
    BY <1>3 DEF Browse
  <2> HIDE DEF fh
  <2> QED
    BY <1>1, <1>2, <2>1, FillRootHolds, SelectorHolds DEF SelectorStep
<1>4. CASE fh.dir # Nowhere
  <2>1. Fill(dp) /\ sel' = fh.slot
    BY <1>4 DEF Browse
  <2>2. Past(dp, id) /\ Leads(dp, card, id)
    BY <1>1, <1>4, SubdirLeads
  <2> HIDE DEF dp, fh
  <2>3. /\ Past(saved_rpk_dir', id) /\ Leads(saved_rpk_dir', card, id)
        /\ Past(fileselector_dir', id) /\ ShownInv'
    BY <1>1, <2>1, <2>2, FillHolds DEF SelectorStep
  <2> QED
    BY <1>1, <1>2, <2>1, <2>3, SelectorHolds
<1> QED
  BY <1>3, <1>4

\* To the other card.
LEMMA SwitchCardHolds ==
  ASSUME PathInv, SwitchCard
  PROVE  PathInv'
<1>1. SelectorStep
  BY DEF SwitchCard, SelectorStep, cardVars
<1>2. Other(sel) \in Slots /\ FillRoot(Other(sel))
  BY OtherIs DEF SwitchCard, PathInv, SlotsInv
<1> QED
  BY <1>1, <1>2, FillRootHolds, SelectorHolds DEF SelectorStep

\* The selector is left.
LEMMA CloseSelectorHolds ==
  ASSUME PathInv, fileselector_dir' = fileselector_dir, saved_rpk_dir' = saved_rpk_dir,
         shown' = Closed, sel' = sel, SelectorStep
  PROVE  PathInv'
<1>1. ShownInv'
  BY DEF ShownInv
<1> QED
  BY <1>1, SelectorHolds DEF PathInv, SlotsInv

\* Every step keeps the paths that are kept where their handles are.
LEMMA PathStep ==
  ASSUME PathInv, [StartNext]_startVars
  PROVE  PathInv'
<1>1. CASE \E s \in Slots : Move(s)
  BY <1>1, MoveHolds
<1>2. CASE Restart
  BY <1>2, RestartHolds
<1>3. CASE ConfigInit
  BY <1>3, ConfigInitHolds
<1>4. CASE LoadRomFile
  BY <1>4, PathStays DEF LoadRomFile, cardVars, PathInv, SlotsInv
<1>5. CASE StartConsole
  <2>1. sel' \in Slots
    BY <1>5, PathsAssumption DEF PathsAssumption, StartConsole
  <2>2. enable' \subseteq AllSettings
    BY <1>5 DEF StartConsole, Possible
  <2> QED
    BY <1>5, <2>1, <2>2, PathStays DEF StartConsole, cardVars
<1>6. CASE \E b \in AllSettings : Toggle(b)
  <2>1. PICK b \in AllSettings : Toggle(b)
    BY <1>6
  <2>2. enable' \subseteq AllSettings
    BY <2>1 DEF Toggle, PathInv, SymDiff
  <2> QED
    BY <2>1, <2>2, PathStays DEF Toggle, cardVars, PathInv, SlotsInv
<1>7. CASE LoadConfig
  BY <1>7, LoadConfigHolds
<1>8. CASE SaveConfig
  BY <1>8, SaveConfigHolds
<1>9. CASE OpenSelector
  BY <1>9, OpenSelectorHolds
<1>10. CASE SwitchCard
  BY <1>10, SwitchCardHolds
<1>11. CASE CloseSelector
  BY <1>11, CloseSelectorHolds DEF CloseSelector, cardVars, SelectorStep
<1>12. CASE \E name \in shown : Browse(name)
  BY <1>12, BrowseHolds
<1>13. CASE \E r \in Rpks : Select(r)
  BY <1>13, CloseSelectorHolds DEF Select, cardVars, SelectorStep
<1>14. CASE CartStep
  BY <1>14, PathStays DEF CartStep, cardVars, firmware, PathInv, SlotsInv
<1>15. CASE UNCHANGED startVars
  BY <1>15, PathStays DEF startVars, cardVars, firmware, PathInv, SlotsInv
<1>16. CASE Correct
  <2>1. enable' \subseteq AllSettings
    BY <1>16 DEF Correct, Possible
  <2> QED
    BY <1>16, <2>1, PathStays DEF Correct, cardVars, PathInv, SlotsInv
<1> QED
  BY <1>1, <1>2, <1>3, <1>4, <1>5, <1>6, <1>7, <1>8, <1>9, <1>10, <1>11, <1>12, <1>13, <1>14, <1>15, <1>16
     DEF StartNext

\* The invariant of the directories.
LEMMA PathsAlways == Spec => []PathInv
<1>1. PathInv /\ [StartNext]_startVars => PathInv'
  BY PathStep
<1> QED
  BY <1>1, PathsBegin, PTL DEF Spec

(***************************************************************************)
(* However the cards move, whatever the configuration files say, and       *)
(* wherever the selector goes: as long as a path has room for its names,   *)
(* it leads to the directory of its handle (dirpath.c, menu.c,             *)
(* configfile.c).                                                          *)
(***************************************************************************)
THEOREM PathsLead == Spec => []PathsAgree
<1>1. ASSUME NEW dp, Leads(dp, card, id)
      PROVE  Agrees(dp)
  BY <1>1 DEF Leads, Agrees, Valid
<1>2. PathInv => PathsAgree
  BY <1>1 DEF PathInv, ShownInv, PathsAgree, NoSelector
<1> QED
  BY <1>2, PathsAlways, PTL

-----------------------------------------------------------------------------
(* The settings that are kept.                                              *)

\* No earlier place has the file.
First(k) == \A j \in 1..k-1 : ~(Standing(j) /\ FileOf(j).there)

\* Where the settings are, as long as no card moves, is where the next start looks.
SteadyInv ==
  steady /\ pc # "config" /\ config_dirpath.path # <<>> =>
    \E k \in 1..4 : Standing(k) /\ First(k) /\ config_dirpath.fh = HandleOf(k)

\* What must be found is what the next start finds.
SavedInv ==
  kept # {} => \E k \in 1..4 : /\ Standing(k) /\ First(k) /\ kept = {FileOf(k)}
                               /\ FileOf(k).there /\ FileOf(k).full

\* The settings and where they are.
KeptInv ==
  /\ \A s, t \in Slots : s # t /\ card[s] = card[t] => card[s] = NoCard
  /\ SteadyInv /\ SavedInv /\ SettingsKept

\* As long as the cards and their files stay, so do the places.
LEMMA PlacesStay ==
  ASSUME card' = card, cfg' = cfg
  PROVE  /\ \A k \in 1..4 : (Standing(k))' <=> Standing(k)
         /\ \A k \in 1..4 : (FileOf(k))' = FileOf(k)
         /\ \A k \in 1..4 : (First(k))' <=> First(k)
<1>1. ASSUME NEW k \in Nat
      PROVE  ((Standing(k))' <=> Standing(k)) /\ (FileOf(k))' = FileOf(k)
  BY DEF Standing, FileOf
<1>2. ASSUME NEW k \in 1..4
      PROVE  (First(k))' <=> First(k)
  BY <1>1 DEF First
<1> QED
  BY <1>1, <1>2

\* What must be found stays as long as the files do.
LEMMA SavedStays ==
  ASSUME SavedInv, card' = card, cfg' = cfg, kept' = kept
  PROVE  SavedInv'
  BY PlacesStay DEF SavedInv

\* The place of the settings stays, too.
LEMMA SteadyStays ==
  ASSUME SteadyInv, card' = card, id' = id, cfg' = cfg, config_dirpath' = config_dirpath,
         steady' = steady, pc # "config" \/ ~steady
  PROVE  SteadyInv'
<1>1. CASE steady /\ config_dirpath.path # <<>>
  <2>1. PICK k \in 1..4 : Standing(k) /\ First(k) /\ config_dirpath.fh = HandleOf(k)
    BY <1>1 DEF SteadyInv
  <2>2. (Standing(k))' /\ (First(k))'
    BY <2>1, PlacesStay
  <2>3. config_dirpath'.fh = (HandleOf(k))'
    BY <2>1 DEF HandleOf
  <2> QED
    BY <2>2, <2>3 DEF SteadyInv
<1>2. CASE ~(steady /\ config_dirpath.path # <<>>)
  BY <1>2 DEF SteadyInv
<1> QED
  BY <1>1, <1>2

\* A step that leaves the places, and is past the configuration.
LEMMA KeptStays ==
  ASSUME KeptInv, UNCHANGED <<card, id, cfg, config_dirpath, steady, kept>>, pc # "config",
         SettingsKept'
  PROVE  KeptInv'
  BY SavedStays, SteadyStays DEF KeptInv

\* A card that moves ends what is known of the settings.
LEMMA MoveKeeps ==
  ASSUME PathInv, KeptInv, NEW s \in Slots, Move(s)
  PROVE  KeptInv'
<1>1. kept' = {} /\ steady' = FALSE
  BY DEF Move
<1>2. PICK c \in (Cards \ Range(card)) \cup {NoCard} : card' = [card EXCEPT ![s] = c]
  BY DEF Move
<1>3. card \in [Slots -> Cards \cup {NoCard}]
  BY DEF PathInv, SlotsInv
<1>4. ASSUME NEW t \in Slots
      PROVE  card[t] \in Range(card)
  BY <1>3 DEF Range
<1>5. ASSUME NEW t \in Slots, NEW u \in Slots, t # u, card'[t] = card'[u]
      PROVE  card'[t] = NoCard
  BY <1>2, <1>3, <1>4, <1>5 DEF KeptInv
<1>6. SteadyInv' /\ SavedInv' /\ SettingsKept'
  BY <1>1 DEF SteadyInv, SavedInv, SettingsKept
<1> QED
  BY <1>5, <1>6 DEF KeptInv

\* A start changes no file.
LEMMA RestartKeeps ==
  ASSUME KeptInv, Restart
  PROVE  KeptInv'
<1>1. card' = card /\ cfg' = cfg /\ kept' = kept /\ pc' = "config"
  BY DEF Restart
<1>2. SavedInv'
  BY <1>1, SavedStays DEF KeptInv
<1>3. SteadyInv' /\ SettingsKept'
  BY <1>1 DEF SteadyInv, SettingsKept
<1> QED
  BY <1>1, <1>2, <1>3 DEF KeptInv

\* The first place that has the file is the only first one.
LEMMA OneFirst ==
  ASSUME NEW j \in 1..4, NEW k \in 1..4, First(j), First(k),
         Standing(j), FileOf(j).there, Standing(k), FileOf(k).there
  PROVE  j = k
<1>1. CASE j < k
  <2>1. j \in 1..k-1
    BY <1>1
  <2> QED
    BY <2>1 DEF First
<1>2. CASE k < j
  <2>1. k \in 1..j-1
    BY <1>2
  <2> QED
    BY <2>1 DEF First
<1> QED
  BY <1>1, <1>2

(***************************************************************************)
(* The start finds what has been kept: the file is in the first place that *)
(* has one, and with no file anywhere the place it would be saved to comes *)
(* before any other.                                                       *)
(***************************************************************************)
LEMMA ConfigInitKeeps ==
  ASSUME PathInv, KeptInv, ConfigInit
  PROVE  KeptInv'
<1>1. /\ UNCHANGED <<card, id, cfg, kept, steady>> /\ pc' = "roms"
      /\ config_dirpath' = IF Found(TRUE) # NoPath THEN Found(TRUE) ELSE Found(FALSE)
  BY DEF ConfigInit, cardVars
<1>2. SavedInv'
  BY <1>1, SavedStays DEF KeptInv
<1>3. CASE Found(TRUE) # NoPath
  <2>1. PICK k \in 1..4 : FoundAt(TRUE, k)
    BY <1>3, FoundIs DEF PathInv
  <2>2. Standing(k) /\ FileOf(k).there /\ First(k) /\ Found(TRUE).fh = HandleOf(k)
    BY <2>1 DEF FoundAt, Fits, First
  <2>3. SteadyInv'
    <3>1. config_dirpath'.fh = (HandleOf(k))'
      BY <1>1, <1>3, <2>2 DEF HandleOf
    <3>2. (Standing(k))' /\ (First(k))'
      BY <1>1, <2>2, PlacesStay
    <3> QED
      BY <3>1, <3>2 DEF SteadyInv
  <2>4. SettingsKept'
    <3>1. CASE kept = {}
      BY <1>1, <3>1 DEF SettingsKept
    <3>2. CASE kept # {}
      <4>1. PICK j \in 1..4 : /\ Standing(j) /\ First(j) /\ kept = {FileOf(j)}
                              /\ FileOf(j).there /\ FileOf(j).full
        BY <3>2 DEF KeptInv, SavedInv
      <4>2. j = k
        BY <2>2, <4>1, OneFirst
      <4> DEFINE f == FileOf(k)
      <4>3. kept = {f} /\ f.full /\ f \in Files /\ FileAt(Found(TRUE).fh) = f
        BY <2>2, <4>1, <4>2, FileOfIs
      <4>4. LoadFrom(FileAt(Found(TRUE).fh))
        BY <1>3 DEF ConfigInit
      <4> HIDE DEF f
      <4>5. saved_rpk_dir' = ParseDir(saved_rpk_dir, f.dir)
        BY <4>3, <4>4 DEF LoadFrom
      <4>6. enable' = f.enable
        BY <4>3, <4>4 DEF LoadFrom
      <4>7. saved_rpk_dir'.path = f.dir
        BY <4>5 DEF ParseDir
      <4> QED
        BY <1>1, <4>3, <4>6, <4>7 DEF SettingsKept
    <3> QED
      BY <3>1, <3>2
  <2> QED
    BY <1>1, <1>2, <2>3, <2>4 DEF KeptInv
<1>4. CASE Found(TRUE) = NoPath
  <2>1. \A k \in 1..4 : ~Fits(k, TRUE)
    BY <1>4, FoundIs DEF PathInv, FoundAt
  <2>2. kept = {}
    BY <2>1 DEF KeptInv, SavedInv, Fits
  <2>3. SteadyInv'
    <3>1. CASE Found(FALSE) = NoPath
      <4>1. config_dirpath'.path = <<>>
        BY <1>1, <1>4, <3>1, NoDirs DEF PathInv
      <4> QED
        BY <4>1 DEF SteadyInv
    <3>2. CASE Found(FALSE) # NoPath
      <4>1. PICK k \in 1..4 : FoundAt(FALSE, k)
        BY <3>2, FoundIs DEF PathInv
      <4>2. Standing(k) /\ Found(FALSE).fh = HandleOf(k)
        BY <4>1 DEF FoundAt, Fits
      <4>3. First(k)
        <5>1. \A j \in 1..k-1 : j \in 1..4
          OBVIOUS
        <5> QED
          BY <2>1, <5>1 DEF First, Fits
      <4>4. config_dirpath'.fh = (HandleOf(k))'
        BY <1>1, <1>4, <4>2 DEF HandleOf
      <4>5. (Standing(k))' /\ (First(k))'
        BY <1>1, <4>2, <4>3, PlacesStay
      <4> QED
        BY <4>4, <4>5 DEF SteadyInv
    <3> QED
      BY <3>1, <3>2
  <2>4. SettingsKept'
    BY <1>1, <2>2 DEF SettingsKept
  <2> QED
    BY <1>1, <1>2, <2>3, <2>4 DEF KeptInv
<1> QED
  BY <1>3, <1>4

\* A place that was found stays the place as long as no card moves.
LEMMA SteadyPlace ==
  ASSUME PathInv, KeptInv, steady, pc = "loop", config_dirpath.path # <<>>
  PROVE  /\ Place.ok /\ Place.dp = config_dirpath
         /\ \E k \in 1..4 : Standing(k) /\ First(k) /\ config_dirpath.fh = HandleOf(k)
<1>1. PICK k \in 1..4 : Standing(k) /\ First(k) /\ config_dirpath.fh = HandleOf(k)
  BY DEF KeptInv, SteadyInv
<1>2. Tail(Places[k]) # Nowhere
  BY <1>1, FileOfIs, NamesAre DEF Standing
<1>3. config_dirpath.fh.dir # Nowhere /\ Valid(config_dirpath.fh)
  BY <1>1, <1>2 DEF HandleOf, Valid, Standing
<1>4. Place = [ok |-> TRUE, sel |-> config_dirpath.fh.slot, dp |-> config_dirpath]
  BY <1>3 DEF Place, Restore
<1> QED
  BY <1>1, <1>4

\* With no card moved, or no place found, the place stays as it was.
LEMMA PlacedStays ==
  ASSUME PathInv, KeptInv, Placed, pc = "loop", steady
  PROVE  config_dirpath' = config_dirpath
<1>1. CASE config_dirpath.path = <<>>
  BY <1>1 DEF Placed, Place
<1>2. CASE config_dirpath.path # <<>>
  BY <1>2, SteadyPlace DEF Placed
<1> QED
  BY <1>1, <1>2

\* Loading leaves the place, as long as no card has moved.
LEMMA LoadConfigKeeps ==
  ASSUME PathInv, KeptInv, LoadConfig
  PROVE  KeptInv'
<1>1. UNCHANGED <<card, id, cfg, kept, steady>> /\ Placed /\ pc = "loop" /\ pc' = "loaded"
  BY DEF LoadConfig, cardVars, InMenu
<1>2. SavedInv'
  BY <1>1, SavedStays DEF KeptInv
<1>3. SteadyInv'
  <2>1. CASE steady
    BY <1>1, <2>1, PlacedStays, SteadyStays DEF KeptInv
  <2>2. CASE ~steady
    BY <1>1, <2>2 DEF SteadyInv
  <2> QED
    BY <2>1, <2>2
<1>4. SettingsKept'
  BY <1>1 DEF SettingsKept
<1> QED
  BY <1>1, <1>2, <1>3, <1>4 DEF KeptInv

\* Two places are two files.
LEMMA PlacesApart ==
  ASSUME PathInv, KeptInv, NEW j \in 1..4, NEW k \in 1..4, j # k, Standing(j), Standing(k)
  PROVE  card[Places[j][1]] # card[Places[k][1]] \/ Tail(Places[j]) # Tail(Places[k])
<1>1. CASE Places[j][1] = Places[k][1]
  <2>1. <<>> # <<"mega99">> /\ "sd0" # "sd1"
    OBVIOUS
  <2>2. k = 1 \/ k = 2 \/ k = 3 \/ k = 4
    OBVIOUS
  <2>3. CASE j = 1
    BY <1>1, <2>1, <2>2, <2>3, PlacesAre
  <2>4. CASE j = 2
    BY <1>1, <2>1, <2>2, <2>4, PlacesAre
  <2>5. CASE j = 3
    BY <1>1, <2>1, <2>2, <2>5, PlacesAre
  <2>6. CASE j = 4
    BY <1>1, <2>1, <2>2, <2>6, PlacesAre
  <2> QED
    BY <2>3, <2>4, <2>5, <2>6
<1>2. CASE Places[j][1] # Places[k][1]
  BY <1>2 DEF KeptInv, Standing
<1> QED
  BY <1>1, <1>2

(***************************************************************************)
(* The place that a file is saved to is the first that has one: with no    *)
(* card moved since the start has looked, or if none is found before it.   *)
(***************************************************************************)
LEMMA SavedFirst ==
  ASSUME PathInv, KeptInv, pc = "loop", Place.ok, steady \/ Unhidden
  PROVE  \E k \in 1..4 : Standing(k) /\ First(k) /\ Place.dp.fh = HandleOf(k)
<1>1. CASE steady
  <2>1. config_dirpath.path # <<>>
    BY DEF Place
  <2> QED
    BY <1>1, <2>1, SteadyPlace
<1>2. CASE Unhidden
  <2>1. PICK k \in 1..4 : Standing(k) /\ Place.dp.fh = HandleOf(k)
    BY PlaceIs
  <2>2. ASSUME \A j \in 1..k-1 : ~Fits(j, TRUE)
        PROVE  First(k)
    BY <2>2 DEF First, Fits
  <2>3. CASE \A j \in 1..4 : ~Fits(j, TRUE)
    <3>1. \A j \in 1..k-1 : j \in 1..4
      OBVIOUS
    <3> QED
      BY <2>1, <2>2, <2>3, <3>1
  <2>4. ASSUME NEW j \in 1..4, FoundAt(TRUE, j)
        PROVE  First(k)
    <3>1. Found(TRUE).path # <<>> /\ Found(TRUE).fh = HandleOf(j) /\ Standing(j)
      BY <2>4 DEF FoundAt, Fits
    <3>2. HandleOf(j) = HandleOf(k)
      BY <1>2, <2>1, <3>1 DEF Unhidden
    <3>3. Places[j][1] = Places[k][1] /\ Tail(Places[j]) = Tail(Places[k])
      BY <3>2 DEF HandleOf
    <3>4. j = k
      BY <2>1, <3>1, <3>3, PlacesApart
    <3> QED
      BY <2>2, <2>4, <3>4 DEF FoundAt
  <2> QED
    BY <2>1, <2>3, <2>4, FoundIs DEF PathInv
<1> QED
  BY <1>1, <1>2

\* What is saved is put where the next start looks first.
LEMMA SaveConfigKeeps ==
  ASSUME PathInv, KeptInv, SaveConfig
  PROVE  KeptInv'
<1> DEFINE new == [there |-> TRUE, full |-> TRUE, enable |-> enable, dir |-> saved_rpk_dir.path]
<1>1. UNCHANGED <<card, id, steady, pc>> /\ Placed /\ pc = "loop"
  BY DEF SaveConfig, cardVars, InMenu
<1>2. PICK f \in {new, EmptyFile, NoFile} :
        /\ f = NoFile \/ Place.ok
        /\ cfg' = IF f = NoFile THEN cfg
                  ELSE [cfg EXCEPT ![card[Place.dp.fh.slot]][Place.dp.fh.dir] = f]
        /\ kept' = IF f = NoFile THEN kept
                   ELSE IF f = new /\ (steady \/ Unhidden) THEN {new} ELSE {}
  BY DEF SaveConfig
<1>3. new.there /\ new.full /\ new # NoFile
  BY DEF NoFile
<1> HIDE DEF new
<1>4. SettingsKept'
  BY <1>1 DEF SettingsKept
<1>5. CASE f = NoFile
  <2>1. cfg' = cfg /\ kept' = kept
    BY <1>2, <1>5
  <2>2. SteadyInv'
    <3>1. CASE steady
      BY <1>1, <2>1, <3>1, PlacedStays, SteadyStays DEF KeptInv
    <3>2. CASE ~steady
      BY <1>1, <3>2 DEF SteadyInv
    <3> QED
      BY <3>1, <3>2
  <2>3. SavedInv'
    BY <1>1, <2>1, SavedStays DEF KeptInv
  <2> QED
    BY <1>1, <1>4, <2>2, <2>3 DEF KeptInv
<1>6. CASE f # NoFile /\ ~(steady \/ Unhidden)
  <2>1. kept' = {} /\ ~steady'
    BY <1>1, <1>2, <1>6
  <2>2. SteadyInv' /\ SavedInv'
    BY <2>1 DEF SteadyInv, SavedInv
  <2> QED
    BY <1>1, <1>4, <2>2 DEF KeptInv
<1>7. CASE f # NoFile /\ (steady \/ Unhidden)
  <2>1. Place.ok /\ config_dirpath' = Place.dp
    BY <1>1, <1>2, <1>7 DEF Placed
  <2>2. PICK k \in 1..4 : Standing(k) /\ First(k) /\ Place.dp.fh = HandleOf(k)
    BY <1>1, <1>7, <2>1, SavedFirst
  <2> DEFINE c == card[Places[k][1]]
             d == Tail(Places[k])
  <2>3. c \in Cards /\ d \in Homes
    BY <2>2, FileOfIs
  <2>4. cfg' = [cfg EXCEPT ![c][d] = f]
    BY <1>2, <1>7, <2>2 DEF HandleOf
  <2>5. cfg \in [Cards -> [Homes -> Files]]
    BY DEF PathInv
  <2>6. (FileOf(k))' = f
    BY <1>1, <2>3, <2>4, <2>5 DEF FileOf
  <2>7. ASSUME NEW j \in 1..4, j # k, (Standing(j))'
        PROVE  Standing(j) /\ (FileOf(j))' = FileOf(j)
    <3>1. Standing(j)
      BY <1>1, <2>7 DEF Standing
    <3>2. card[Places[j][1]] \in Cards /\ Tail(Places[j]) \in Homes
      BY <3>1, FileOfIs
    <3>3. card[Places[j][1]] # c \/ Tail(Places[j]) # d
      BY <2>2, <2>7, <3>1, PlacesApart
    <3> HIDE DEF c, d
    <3>4. cfg'[card[Places[j][1]]][Tail(Places[j])] = cfg[card[Places[j][1]]][Tail(Places[j])]
      BY <2>3, <2>4, <2>5, <3>2, <3>3
    <3> QED
      BY <1>1, <3>1, <3>4 DEF FileOf
  <2>8. (Standing(k))' /\ (First(k))' /\ (HandleOf(k))' = HandleOf(k)
    <3>1. (Standing(k))' /\ (HandleOf(k))' = HandleOf(k)
      BY <1>1, <2>2 DEF Standing, HandleOf
    <3>2. ASSUME NEW j \in 1..k-1
          PROVE  ~(Standing(j) /\ FileOf(j).there)'
      <4>1. j \in 1..4 /\ j # k
        OBVIOUS
      <4>2. ~(Standing(j) /\ FileOf(j).there)
        BY <2>2 DEF First
      <4> QED
        BY <2>7, <4>1, <4>2
    <3> QED
      BY <3>1, <3>2 DEF First
  <2>9. SteadyInv'
    BY <2>1, <2>2, <2>8 DEF SteadyInv
  <2>10. SavedInv'
    <3>1. CASE f = new
      <4>1. kept' = {(FileOf(k))'} /\ (FileOf(k))'.there /\ (FileOf(k))'.full
        BY <1>2, <1>3, <1>7, <2>6, <3>1
      <4> QED
        BY <2>8, <4>1 DEF SavedInv
    <3>2. CASE f # new
      <4>1. kept' = {}
        BY <1>2, <1>7, <3>2
      <4> QED
        BY <4>1 DEF SavedInv
    <3> QED
      BY <3>1, <3>2
  <2> QED
    BY <1>1, <1>4, <2>9, <2>10 DEF KeptInv
<1> QED
  BY <1>5, <1>6, <1>7

\* Nothing has been saved to begin with.
LEMMA KeptBegins == StartInit => KeptInv
  BY DEF StartInit, PowerOn, KeptInv, SteadyInv, SavedInv, SettingsKept

\* Every step keeps what was saved where it is looked for.
LEMMA KeptStep ==
  ASSUME PathInv, KeptInv, [StartNext]_startVars
  PROVE  KeptInv'
<1>1. CASE \E s \in Slots : Move(s)
  BY <1>1, MoveKeeps
<1>2. CASE Restart
  BY <1>2, RestartKeeps
<1>3. CASE ConfigInit
  BY <1>3, ConfigInitKeeps
<1>4. CASE LoadRomFile
  BY <1>4, KeptStays DEF LoadRomFile, cardVars, SettingsKept, KeptInv
<1>5. CASE StartConsole
  BY <1>5, KeptStays DEF StartConsole, cardVars, SettingsKept
<1>6. CASE \E b \in AllSettings : Toggle(b)
  BY <1>6, KeptStays DEF Toggle, InMenu, cardVars, SettingsKept
<1>7. CASE LoadConfig
  BY <1>7, LoadConfigKeeps
<1>8. CASE SaveConfig
  BY <1>8, SaveConfigKeeps
<1>9. CASE OpenSelector
  BY <1>9, KeptStays DEF OpenSelector, InMenu, cardVars, SettingsKept
<1>10. CASE SwitchCard
  BY <1>10, KeptStays DEF SwitchCard, InMenu, cardVars, SettingsKept
<1>11. CASE CloseSelector
  BY <1>11, KeptStays DEF CloseSelector, cardVars, SettingsKept
<1>12. CASE \E name \in shown : Browse(name)
  BY <1>12, KeptStays DEF Browse, InMenu, cardVars, SettingsKept
<1>13. CASE \E r \in Rpks : Select(r)
  BY <1>13, KeptStays DEF Select, InMenu, cardVars, SettingsKept
<1>14. CASE CartStep
  BY <1>14, KeptStays DEF CartStep, cardVars, firmware, SettingsKept
<1>15. CASE UNCHANGED startVars
  <2>1. UNCHANGED <<card, id, cfg, config_dirpath, steady, kept, pc, enable, saved_rpk_dir>>
    BY <1>15 DEF startVars, cardVars, firmware
  <2>2. SettingsKept'
    BY <2>1 DEF KeptInv, SettingsKept
  <2>3. CASE pc = "config"
    BY <2>1, <2>2, <2>3, SavedStays DEF KeptInv, SteadyInv
  <2>4. CASE pc # "config"
    BY <2>1, <2>2, <2>4, KeptStays
  <2> QED
    BY <2>3, <2>4
<1>16. CASE Correct
  BY <1>16, KeptStays DEF Correct, cardVars, SettingsKept
<1> QED
  BY <1>1, <1>2, <1>3, <1>4, <1>5, <1>6, <1>7, <1>8, <1>9, <1>10, <1>11, <1>12, <1>13, <1>14, <1>15, <1>16
     DEF StartNext

(***************************************************************************)
(* Saved settings are those of the next start, on any cards, with any      *)
(* files and directories: the start looks through the places in an order   *)
(* in which no earlier one has a file.  That is so if no card was moved    *)
(* since the start that found the place of the file, and otherwise if no   *)
(* file elsewhere comes before it; and until a card is moved or a later    *)
(* save breaks off after it has opened the file.  Without a place nothing  *)
(* is ever saved (configfile.c:115-184, dirpath.c:52-162, main.c:144-150). *)
(***************************************************************************)
THEOREM SettingsComeBack == Spec => []SettingsKept
<1>1. PathInv /\ KeptInv /\ [StartNext]_startVars => KeptInv'
  BY KeptStep
<1>2. KeptInv => SettingsKept
  BY DEF KeptInv
<1> QED
  BY <1>1, <1>2, KeptBegins, PathsAlways, PTL DEF Spec
-----------------------------------------------------------------------------
(* The start: a ROM of the console that has been passed is there.           *)

\* What the start has loaded when it gets to a file of the list.
RomInv ==
  /\ pc \in {"config", "roms", "loop", "loaded", "halted"} /\ nr \in Nat \ {0}
  /\ pc = "config" => nr = 1
  /\ pc = "roms" => \A i \in 1..Len(Roms) : i < nr /\ Roms[i].board = "console" => "console" \in have
  /\ pc \in {"loop", "loaded"} => "console" \in have
  /\ pc = "loop" => enable \subseteq Possible

\* The file that is loaded is one of the list.
LEMMA RomIs ==
  ASSUME RomInv, LoadRomFile
  PROVE  /\ nr \in 1..Len(Roms)
         /\ Roms[nr] \in [name : STRING, zip : STRING, board : Boards, grom : Console \cup {NoGrom}]
<1>1. nr <= Len(Roms) /\ nr \in Nat \ {0}
  BY DEF RomInv, LoadRomFile
<1>2. Roms \in Seq([name : STRING, zip : STRING, board : Boards, grom : Console \cup {NoGrom}])
  BY StartupAssumption DEF StartupAssumption
<1>3. nr \in 1..Len(Roms)
  BY <1>1, <1>2
<1> QED
  BY <1>2, <1>3, ElementIs

\* A ROM of another board does not take the console's away, a missing one of the console stops the start.
LEMMA RomLoaded ==
  ASSUME RomInv, LoadRomFile
  PROVE  RomInv'
<1> DEFINE rom == Roms[nr]
<1>1. nr \in 1..Len(Roms) /\ rom.board \in Boards /\ pc = "roms" /\ nr' = nr + 1
  BY RomIs DEF LoadRomFile
<1>2. pc' = IF rom.board = "console" /\ ~Loads(rom) THEN "halted" ELSE pc
  BY DEF LoadRomFile
<1>3. have' = IF ~Wanted(rom) THEN have
              ELSE IF Loads(rom) THEN have \cup {rom.board}
              ELSE IF rom.board = "pcode" THEN have \ {"pcode"} ELSE have
  BY DEF LoadRomFile
<1>4. rom.board = "console" => Wanted(rom)
  BY DEF Wanted
<1>5. "console" \in have => "console" \in have'
  BY <1>3
<1> HIDE DEF rom
<1>6. rom.board = "console" /\ pc' = "roms" => "console" \in have'
  BY <1>2, <1>3, <1>4
<1>7. pc' \in {"roms", "halted"} /\ nr' \in Nat \ {0}
  BY <1>1, <1>2 DEF RomInv
<1>8. ASSUME pc' = "roms", NEW i \in 1..Len(Roms), i < nr', Roms[i].board = "console"
      PROVE  "console" \in have'
  <2>1. CASE i = nr
    BY <1>6, <1>8, <2>1 DEF rom
  <2>2. CASE i # nr
    BY <1>1, <1>5, <1>8, <2>2 DEF RomInv
  <2> QED
    BY <2>1, <2>2
<1> QED
  BY <1>7, <1>8 DEF RomInv

\* No step of the start loses the console's ROM.
LEMMA RomStep ==
  ASSUME RomInv, [StartNext]_startVars
  PROVE  RomInv'
<1>1. ASSUME NEW s \in Slots, Move(s)
      PROVE  RomInv'
  BY <1>1 DEF RomInv, Move, firmware, Possible
<1>2. CASE Restart
  BY <1>2 DEF RomInv, Restart
<1>3. CASE ConfigInit
  <2>1. pc' = "roms" /\ nr' = nr /\ have' = have /\ nr = 1
    BY <1>3 DEF ConfigInit, RomInv
  <2> QED
    BY <2>1 DEF RomInv
<1>4. CASE LoadRomFile
  BY <1>4, RomLoaded
<1>5. CASE StartConsole
  BY <1>5, StartupAssumption DEF RomInv, StartConsole, Possible, StartupAssumption
<1>6. ASSUME NEW b \in AllSettings, Toggle(b)
      PROVE  RomInv'
  BY <1>6 DEF RomInv, Toggle, InMenu, Possible, SymDiff
<1>7. CASE LoadConfig
  BY <1>7 DEF RomInv, LoadConfig, InMenu
<1>8. CASE SaveConfig
  BY <1>8 DEF RomInv, SaveConfig, InMenu, Possible
<1>9. CASE OpenSelector
  BY <1>9 DEF RomInv, OpenSelector, Possible
<1>10. CASE SwitchCard
  BY <1>10 DEF RomInv, SwitchCard, Possible
<1>11. CASE CloseSelector
  BY <1>11 DEF RomInv, CloseSelector, Possible
<1>12. ASSUME NEW name \in shown, Browse(name)
       PROVE  RomInv'
  BY <1>12 DEF RomInv, Browse, Possible
<1>13. ASSUME NEW r \in Rpks, Select(r)
       PROVE  RomInv'
  BY <1>13 DEF RomInv, Select, Possible
<1>14. CASE CartStep
  BY <1>14 DEF RomInv, CartStep, firmware, Possible
<1>15. CASE UNCHANGED startVars
  BY <1>15 DEF RomInv, startVars, firmware, Possible
<1>16. CASE Correct
  BY <1>16 DEF RomInv, Correct, Possible
<1> QED
  BY <1>1, <1>2, <1>3, <1>4, <1>5, <1>6, <1>7, <1>8, <1>9, <1>10, <1>11, <1>12, <1>13, <1>14, <1>15, <1>16
  DEF StartNext

(***************************************************************************)
(* The machine runs only with the console's ROMs, and a board is enabled   *)
(* in it only with its own, however it starts, whatever is chosen in the   *)
(* menu and after any configuration file has been loaded; but not while    *)
(* the load is still to be corrected, menu.c:366 to 372, where what the    *)
(* file says is enabled (main.c:144-218, menu.c:322-373).                  *)
(***************************************************************************)
THEOREM BoardsHaveTheirRoms == Spec => []BoardHasItsRom
<1>1. StartInit => RomInv
  BY DEF StartInit, PowerOn, RomInv
<1>2. RomInv /\ [StartNext]_startVars => RomInv'
  BY RomStep
<1>3. RomInv => BoardHasItsRom
  BY DEF RomInv, BoardHasItsRom
<1> QED
  BY <1>1, <1>2, <1>3, PTL DEF Spec


-----------------------------------------------------------------------------
(* What the layout of a cartridge gives.                                    *)

\* The modes, sockets and layouts of cartridges.
ModeSet == {Modes[t] : t \in DOMAIN Modes}
SocketNames == {"grom_socket", "rom_socket", "rom2_socket"}
Socketings == UNION {[S -> STRING] : S \in SUBSET SocketNames}
RomElements == [el : {"rom"}, id : STRING, file : STRING]
Layouts == [ok : BOOLEAN, mode : ModeSet, roms : Seq(RomElements), socket : Socketings]

\* The sockets, as a set.
LEMMA SocketsAre == Range(Sockets) = SocketNames
<1>1. DOMAIN Sockets = 1..3
  BY DEF Sockets
<1>2. Sockets[1] = "grom_socket" /\ Sockets[2] = "rom_socket" /\ Sockets[3] = "rom2_socket"
  BY DEF Sockets
<1> QED
  BY <1>1, <1>2 DEF Range, SocketNames

\* A mode that pcb types stand for.
LEMMA ModesAre ==
  ASSUME NEW m \in ModeSet
  PROVE  \/ m \in {[width |-> 0, kind |-> "rom"], [width |-> 1, kind |-> "rom"], [width |-> 0, kind |-> "mm"]}
         \/ m \in {[width |-> 2, kind |-> "mbx"], [width |-> 8, kind |-> "rom"], [width |-> 6, kind |-> "rom"]}
         \/ m \in {[width |-> 4, kind |-> "inv"], [width |-> 12, kind |-> "rom"]}
  BY DEF ModeSet, Modes, Standard

\* The place of a resource that is found by its name.
LEMMA NamedIs ==
  ASSUME NEW roms, NEW i, Len(roms) \in Nat
  PROVE  Named(roms, i) # 0 => Named(roms, i) \in 1..Len(roms)
<1> DEFINE I == {j \in 1..Len(roms) : roms[j].id = i}
<1>1. Named(roms, i) = IF I # {} THEN Min(I) ELSE 0
  BY DEF Named, SelectInSeq
<1>2. I \in SUBSET Nat
  OBVIOUS
<1>3. I # {} => Min(I) \in I
  <2> HIDE DEF I
  <2> QED
    BY <1>2, MinIs
<1> QED
  BY <1>1, <1>3

\* An element leaves a layout a layout.
LEMMA ElementIsLaid ==
  ASSUME NEW l \in Layouts, NEW e \in Elements
  PROVE  Element(l, e) \in Layouts
<1> USE DEF Layouts
<1>1. e.el \in {"rom", "pcb", "socket"}
  BY DEF Elements
<1>2. CASE ~l.ok
  BY <1>2 DEF Element
<1>3. CASE l.ok /\ e.el = "rom"
  <2>1. e \in RomElements
    BY <1>3 DEF Elements, RomElements
  <2>2. Append(l.roms, e) \in Seq(RomElements)
    BY <2>1
  <2>3. Element(l, e) = IF Len(l.roms) < MaxRes THEN [l EXCEPT !.roms = Append(@, e)] ELSE l
    BY <1>3 DEF Element
  <2> QED
    BY <2>2, <2>3
<1>4. CASE l.ok /\ e.el = "pcb"
  <2>1. Element(l, e) = IF e.type \in DOMAIN Modes THEN [l EXCEPT !.mode = Modes[e.type]]
                        ELSE [l EXCEPT !.ok = FALSE]
    BY <1>4 DEF Element
  <2>2. e.type \in DOMAIN Modes => Modes[e.type] \in ModeSet
    BY DEF ModeSet
  <2> QED
    BY <2>1, <2>2
<1>5. CASE l.ok /\ e.el = "socket"
  <2> DEFINE n == Named(l.roms, e.uses)
             new == [s \in DOMAIN l.socket \cup {e.id} |-> IF s = e.id THEN l.roms[n].file ELSE l.socket[s]]
  <2>1. \/ Element(l, e) \in {l, [l EXCEPT !.ok = FALSE]}
        \/ n > 0 /\ e.id \in Range(Sockets) /\ Element(l, e) = [l EXCEPT !.socket = new]
    BY <1>5 DEF Element
  <2>2. ASSUME n > 0, e.id \in SocketNames
        PROVE  new \in Socketings
    <3>1. PICK S \in SUBSET SocketNames : l.socket \in [S -> STRING]
      BY DEF Socketings
    <3>2. n \in 1..Len(l.roms)
      BY <2>2, NamedIs
    <3>3. l.roms[n] \in RomElements
      <4> HIDE DEF n
      <4> QED
        BY <3>2, ElementIs
    <3>4. l.roms[n].file \in STRING
      BY <3>3 DEF RomElements
    <3>5. new \in [S \cup {e.id} -> STRING]
      <4> HIDE DEF n
      <4> QED
        BY <3>1, <3>4
    <3>6. S \cup {e.id} \in SUBSET SocketNames
      BY <2>2
    <3> HIDE DEF new
    <3> QED
      BY <3>5, <3>6 DEF Socketings
  <2> HIDE DEF n, new
  <2> QED
    BY <2>1, <2>2, SocketsAre
<1> QED
  BY <1>1, <1>2, <1>3, <1>4, <1>5

\* What the layout says is worked out to its end.
LEMMA LayoutIs ==
  ASSUME NEW r \in Rpks
  PROVE  Layout(r) \in Layouts
<1> DEFINE D == Layouts
           K == Len(r.layout)
           Turn(n, l) == Element(l, r.layout[n])
           F == [p \in (1..K) \X D |-> Turn(p[1], p[2])]
<1>1. r.layout \in Seq(Elements)
  BY CartridgeAssumption DEF CartridgeAssumption
<1>2. K \in Nat /\ NoLayout \in D
  <2>1. <<>> \in [{} -> STRING]
    OBVIOUS
  <2>2. <<>> \in Socketings
    BY <2>1 DEF Socketings
  <2>3. Standard \in ModeSet
    BY DEF ModeSet, Modes
  <2> QED
    BY <1>1, <2>2, <2>3 DEF NoLayout, Layouts
<1>3. ASSUME NEW n \in 1..K, NEW l \in D
      PROVE  Turn(n, l) \in D
  <2>1. r.layout[n] \in Elements
    BY <1>1, ElementIs
  <2> QED
    BY <2>1, ElementIsLaid
<1>4. F \in [(1..K) \X D -> D]
  BY <1>3
<1>5. \A n \in 1..K : \A l \in D : F[<<n, l>>] = Turn(n, l)
  OBVIOUS
<1> HIDE DEF F, D, K, Turn
<1>6. PICK g \in [0..K -> D] : g[0] = NoLayout /\ \A n \in 1..K : g[n] = F[<<n, g[n - 1]>>]
  <2>1. RunsOf(K, D, NoLayout, F) # {}
    BY <1>2, <1>4, LoopRuns
  <2> QED
    BY <2>1 DEF RunsOf
<1>7. ASSUME NEW n \in 1..K
      PROVE  g[n] = Turn(n, g[n - 1])
  <2>1. n - 1 \in 0..K
    BY <1>2
  <2> QED
    BY <1>5, <1>6, <2>1
<1> DEFINE Body(f) == [n \in 0..K |-> IF n = 0 THEN NoLayout ELSE Turn(n, f[n - 1])]
           read == CHOOSE f : f = Body(f)
<1>8. g = Body(g)
  <2>1. ASSUME NEW n \in 0..K
        PROVE  g[n] = IF n = 0 THEN NoLayout ELSE Turn(n, g[n - 1])
    <3>1. CASE n = 0
      BY <1>6, <3>1
    <3>2. CASE n # 0
      <4>1. n \in 1..K
        BY <1>2, <3>2
      <4> QED
        BY <1>7, <3>2, <4>1
    <3> QED
      BY <3>1, <3>2
  <2> QED
    BY <2>1
<1>9. read = Body(read)
  <2> HIDE DEF Body
  <2> QED
    BY <1>8, Zenon
<1>10. Layout(r) = read[K]
  BY DEF Layout, K, Turn
<1> HIDE DEF read
<1> DEFINE T == {n \in 0..K : read[n] \in D}
<1>11. 0 \in T
  BY <1>2, <1>9
<1>12. ASSUME NEW n \in 1..K, n - 1 \in T
       PROVE  n \in T
  <2>1. read[n] = Turn(n, read[n - 1])
    BY <1>2, <1>9
  <2> QED
    BY <1>2, <1>3, <1>12, <2>1
<1>13. K \in T
  <2>1. T \in SUBSET (0..K)
    OBVIOUS
  <2> HIDE DEF T
  <2>2. T = 0..K
    BY <1>2, <1>11, <1>12, <2>1, Turns
  <2> QED
    BY <1>2, <2>2
<1> QED
  BY <1>10, <1>13 DEF D

\* Two to the power of a width.
LEMMA PowerStep ==
  /\ Power[0] = 1
  /\ \A w \in 1..12 : Power[w - 1] \in Nat => Power[w] = 2 * Power[w - 1] /\ Power[w] \in Nat
<1> DEFINE K == 12
           F == [p \in (1..K) \X Nat |-> 2 * p[2]]
           Body(f) == [w \in 0..12 |-> IF w = 0 THEN 1 ELSE 2 * f[w - 1]]
<1>1. F \in [(1..K) \X Nat -> Nat]
  OBVIOUS
<1>2. \A n \in 1..K : \A l \in Nat : F[<<n, l>>] = 2 * l
  OBVIOUS
<1>3. K \in Nat
  OBVIOUS
<1>4. PICK g \in [0..K -> Nat] : g[0] = 1 /\ \A n \in 1..K : g[n] = F[<<n, g[n - 1]>>]
  <2> HIDE DEF F, K
  <2>1. RunsOf(K, Nat, 1, F) # {}
    BY <1>1, <1>3, LoopRuns
  <2> QED
    BY <2>1 DEF RunsOf
<1>5. g = Body(g)
  <2>1. ASSUME NEW n \in 1..K
        PROVE  g[n] = 2 * g[n - 1]
    <3>1. n - 1 \in 0..K
      OBVIOUS
    <3>2. g[n - 1] \in Nat
      BY <3>1
    <3> HIDE DEF F
    <3> QED
      BY <1>2, <1>4, <3>2
  <2>2. ASSUME NEW n \in 0..K
        PROVE  g[n] = IF n = 0 THEN 1 ELSE 2 * g[n - 1]
    BY <1>4, <2>1
  <2> HIDE DEF F
  <2> QED
    BY <2>2
<1>6. Power = CHOOSE f : f = Body(f)
  BY DEF Power
<1>7. Power = Body(Power)
  <2> HIDE DEF Body
  <2> QED
    BY <1>5, <1>6, Zenon
<1> QED
  BY <1>7

\* The powers that the registers need.
LEMMA PowerIs ==
  /\ Power[0] = 1 /\ Power[1] = 2 /\ Power[2] = 4 /\ Power[3] = 8 /\ Power[4] = 16 /\ Power[5] = 32
  /\ Power[6] = 64 /\ Power[7] = 128 /\ Power[8] = 256 /\ Power[9] = 512 /\ Power[10] = 1024
  /\ Power[11] = 2048 /\ Power[12] = 4096
<1>1. Power[0] = 1 /\ Power[1] = 2 /\ Power[2] = 4 /\ Power[3] = 8 /\ Power[4] = 16
  BY PowerStep
<1>2. Power[5] = 32 /\ Power[6] = 64 /\ Power[7] = 128 /\ Power[8] = 256
  BY <1>1, PowerStep
<1>3. Power[9] = 512 /\ Power[10] = 1024 /\ Power[11] = 2048 /\ Power[12] = 4096
  BY <1>2, PowerStep
<1> QED
  BY <1>1, <1>2, <1>3

-----------------------------------------------------------------------------
(* The GROM chips and the windows they are mapped to.                       *)

\* What a chip holds: a piece of the console's GROM, of a cartridge, or nothing.
Contents == [rpk : SUBSET Rpks, name : {"zero"} \cup STRING, n : Nat]
Chips == [free : BOOLEAN, base : Windows, data : Contents]
GromSets == [window : [Windows -> 0..NumGroms], chip : [1..NumGroms -> Chips]]

\* A window that is mapped has a chip of its own, with its piece of the console's or of r.
Mapped(g, r) ==
  \A w \in Windows : g.window[w] # 0 =>
    /\ ~g.chip[g.window[w]].free /\ g.chip[g.window[w]].base = w
    /\ g.chip[g.window[w]].data.rpk = (IF w \in Console THEN {} ELSE r)

\* g shows in window w what h does.
SameIn(g, h, w) ==
  /\ g.window[w] = h.window[w]
  /\ g.window[w] # 0 => g.chip[g.window[w]] = h.chip[h.window[w]]

\* The windows and the chips of an empty GROM memory.
LEMMA ChipsAre ==
  NumGroms \in Nat /\ Windows = 0..7 /\ Console = 0..2 /\ Port = 3..7 /\ Zero \in Contents /\ FreeChip \in Chips
<1>1. NumGroms \in Nat
  BY CartridgeAssumption DEF CartridgeAssumption
<1>2. Windows = 0..7 /\ Console = 0..2 /\ Port = 3..7
  BY DEF Windows, Console, Port
<1>3. Zero \in Contents
  <2>1. {} \in SUBSET Rpks /\ "zero" \in {"zero"} \cup STRING /\ 0 \in Nat
    OBVIOUS
  <2> QED
    BY <2>1 DEF Zero, Contents
<1>4. FreeChip \in Chips
  BY <1>2, <1>3 DEF FreeChip, Chips
<1> QED
  BY <1>1, <1>2, <1>3, <1>4

\* The chip of a window that is mapped.
LEMMA ChipOf ==
  ASSUME NEW g \in GromSets, NEW w \in Windows, g.window[w] # 0
  PROVE  g.window[w] \in 1..NumGroms /\ g.chip[g.window[w]] \in Chips
<1>1. g.window \in [Windows -> 0..NumGroms] /\ g.chip \in [1..NumGroms -> Chips]
  BY DEF GromSets
<1>2. g.window[w] \in 0..NumGroms
  BY <1>1
<1>3. g.window[w] \in 1..NumGroms
  BY <1>2, ChipsAre
<1> QED
  BY <1>1, <1>3

\* Windows that are freed are empty, and the others as they were.
LEMMA Freed ==
  ASSUME NEW g \in GromSets, NEW r, Mapped(g, r), NEW ws \in SUBSET Windows
  PROVE  /\ FreeRange(g, ws) \in GromSets
         /\ \A w \in Windows : IF w \in ws THEN FreeRange(g, ws).window[w] = 0
                               ELSE SameIn(FreeRange(g, ws), g, w)
<1> DEFINE f == FreeRange(g, ws)
<1>1. f = [window |-> [w \in Windows |-> IF w \in ws THEN 0 ELSE g.window[w]],
           chip |-> [i \in 1..NumGroms |->
                       IF g.chip[i].base \in ws THEN [g.chip[i] EXCEPT !.free = TRUE] ELSE g.chip[i]]]
  BY DEF FreeRange
<1> HIDE DEF f
<1>2. NumGroms \in Nat /\ Windows = 0..7
  BY ChipsAre
<1>3. g.window \in [Windows -> 0..NumGroms] /\ g.chip \in [1..NumGroms -> Chips]
  BY DEF GromSets
<1>4. f.window \in [Windows -> 0..NumGroms]
  <2>1. f.window = [w \in Windows |-> IF w \in ws THEN 0 ELSE g.window[w]]
    BY <1>1
  <2>2. ASSUME NEW w \in Windows
        PROVE  (IF w \in ws THEN 0 ELSE g.window[w]) \in 0..NumGroms
    <3>1. 0 \in 0..NumGroms
      BY <1>2
    <3>2. g.window[w] \in 0..NumGroms
      BY <1>3
    <3> QED
      BY <3>1, <3>2
  <2> QED
    BY <2>1, <2>2
<1>5. f.chip \in [1..NumGroms -> Chips]
  <2>1. \A c \in Chips : [c EXCEPT !.free = TRUE] \in Chips
    BY DEF Chips
  <2> QED
    BY <1>1, <1>3, <2>1
<1>6. f = [window |-> f.window, chip |-> f.chip]
  BY <1>1
<1>7. f \in GromSets
  BY <1>4, <1>5, <1>6 DEF GromSets
<1>8. ASSUME NEW w \in Windows
      PROVE  IF w \in ws THEN f.window[w] = 0 ELSE SameIn(f, g, w)
  <2>1. CASE w \in ws
    BY <1>1, <2>1
  <2>2. CASE w \notin ws
    <3>1. f.window[w] = g.window[w]
      BY <1>1, <2>2
    <3>2. ASSUME g.window[w] # 0
          PROVE  f.chip[g.window[w]] = g.chip[g.window[w]]
      <4>1. g.window[w] \in 1..NumGroms /\ g.chip[g.window[w]].base = w
        BY <3>2, ChipOf DEF Mapped
      <4> QED
        BY <1>1, <2>2, <4>1
    <3> QED
      BY <2>2, <3>1, <3>2 DEF SameIn
  <2> QED
    BY <2>1, <2>2
<1> QED
  BY <1>7, <1>8 DEF f

\* Chips stay mapped where nothing changes.
LEMMA StaysMapped ==
  ASSUME NEW g, NEW h, NEW r, NEW ws, Mapped(g, r),
         \A w \in Windows : h.window[w] = 0 \/ SameIn(h, g, w)
  PROVE  Mapped(h, r)
  BY DEF Mapped, SameIn

\* A window that gets a chip has it alone, what is in the others stays.
LEMMA Allocated ==
  ASSUME NEW g \in GromSets, NEW r, Mapped(g, r), NEW w \in Windows, NEW data \in Contents,
         data.rpk = IF w \in Console THEN {} ELSE r
  PROVE  /\ Allocate(g, w, data) \in [ok : BOOLEAN, g : GromSets]
         /\ Mapped(Allocate(g, w, data).g, r)
         /\ \A v \in Windows \ {w} : SameIn(Allocate(g, w, data).g, g, v)
         /\ LET a == Allocate(g, w, data) IN
            IF a.ok THEN a.g.window[w] # 0 /\ a.g.chip[a.g.window[w]].data = data ELSE a.g.window[w] = 0
<1> DEFINE f == FreeRange(g, {w})
           free == {i \in 1..NumGroms : f.chip[i].free}
           i == Min(free)
           h == [window |-> [f.window EXCEPT ![w] = i],
                 chip |-> [f.chip EXCEPT ![i] = [free |-> FALSE, base |-> w, data |-> data]]]
           a == Allocate(g, w, data)
<1>1. a = IF free = {} THEN [ok |-> FALSE, g |-> f] ELSE [ok |-> TRUE, g |-> h]
  BY DEF Allocate
<1> HIDE DEF a
<1>2. /\ f \in GromSets /\ f.window[w] = 0
      /\ \A v \in Windows \ {w} : SameIn(f, g, v)
  <2>1. {w} \in SUBSET Windows
    OBVIOUS
  <2> HIDE DEF f
  <2>2. /\ FreeRange(g, {w}) \in GromSets
        /\ \A v \in Windows : IF v \in {w} THEN FreeRange(g, {w}).window[v] = 0
                              ELSE SameIn(FreeRange(g, {w}), g, v)
    BY <2>1, Freed
  <2> QED
    BY <2>2 DEF f
<1> HIDE DEF f
<1>3. Mapped(f, r)
  BY <1>2 DEF Mapped, SameIn
<1>4. CASE free = {}
  <2>1. a = [ok |-> FALSE, g |-> f]
    BY <1>1, <1>4
  <2>2. ~a.ok /\ a.g = f /\ a \in [ok : BOOLEAN, g : GromSets]
    BY <1>2, <2>1
  <2> HIDE DEF free, i, h
  <2> QED
    BY <1>2, <1>3, <2>2 DEF a
<1>5. CASE free # {}
  <2>1. a = [ok |-> TRUE, g |-> h]
    BY <1>1, <1>5
  <2>2. i \in free /\ i \in 1..NumGroms /\ f.chip[i].free /\ i # 0
    <3>1. free \in SUBSET Nat
      BY ChipsAre
    <3> HIDE DEF free
    <3>2. i \in free
      BY <1>5, <3>1, MinIs
    <3> QED
      BY <3>2, ChipsAre DEF free
  <2> HIDE DEF i, free
  <2>3. f.window \in [Windows -> 0..NumGroms] /\ f.chip \in [1..NumGroms -> Chips]
    BY <1>2 DEF GromSets
  <2>4. h.window \in [Windows -> 0..NumGroms]
    <3>1. i \in 0..NumGroms
      BY <2>2, ChipsAre
    <3>2. [f.window EXCEPT ![w] = i] \in [Windows -> 0..NumGroms]
      BY <2>3, <3>1
    <3> QED
      BY <3>2
  <2>5. h.chip \in [1..NumGroms -> Chips]
    <3>1. [free |-> FALSE, base |-> w, data |-> data] \in Chips
      BY DEF Chips
    <3> QED
      BY <2>2, <2>3, <3>1
  <2>6. h \in GromSets
    BY <2>4, <2>5 DEF GromSets
  <2>7. ASSUME NEW v \in Windows \ {w}
        PROVE  SameIn(h, f, v)
    <3>1. h.window[v] = f.window[v]
      BY <2>3
    <3>2. ASSUME f.window[v] # 0
          PROVE  h.chip[f.window[v]] = f.chip[f.window[v]]
      <4>1. f.window[v] \in 1..NumGroms /\ ~f.chip[f.window[v]].free
        BY <1>2, <1>3, <3>2, ChipOf DEF Mapped
      <4>2. f.window[v] # i
        BY <2>2, <4>1
      <4> QED
        BY <2>3, <4>1, <4>2
    <3> QED
      BY <3>1, <3>2 DEF SameIn
  <2>8. h.window[w] = i /\ h.chip[i] = [free |-> FALSE, base |-> w, data |-> data]
    BY <2>2, <2>3
  <2> HIDE DEF h
  <2>9. Mapped(h, r)
    <3>1. ASSUME NEW v \in Windows, h.window[v] # 0
          PROVE  /\ ~h.chip[h.window[v]].free /\ h.chip[h.window[v]].base = v
                 /\ h.chip[h.window[v]].data.rpk = (IF v \in Console THEN {} ELSE r)
      <4>1. CASE v = w
        BY <2>8, <4>1
      <4>2. CASE v # w
        <5>1. h.window[v] = f.window[v] /\ h.chip[h.window[v]] = f.chip[f.window[v]]
          BY <2>7, <3>1, <4>2 DEF SameIn
        <5> QED
          BY <1>3, <3>1, <5>1 DEF Mapped
      <4> QED
        BY <4>1, <4>2
    <3> QED
      BY <3>1 DEF Mapped
  <2>10. \A v \in Windows \ {w} : SameIn(h, g, v)
    BY <1>2, <2>7 DEF SameIn
  <2>11. a.ok /\ a.g = h
    BY <2>1
  <2>12. h.window[w] # 0 /\ h.chip[h.window[w]].data = data
    BY <2>2, <2>8
  <2>13. a \in [ok : BOOLEAN, g : GromSets]
    BY <2>1, <2>6
  <2> QED
    BY <2>9, <2>10, <2>11, <2>12, <2>13 DEF a
<1> QED
  BY <1>4, <1>5 DEF a

\* What a file of the cartridge fills a chip or a unit with.
LEMMA ContentIs ==
  ASSUME NEW s, NEW n \in Nat, step.socket[s] \in STRING, rpk \in SUBSET Rpks
  PROVE  Content(s, n) \in Contents /\ Content(s, n).rpk = rpk
  BY DEF Content, From, Contents

\* A GROM socket is read in five pieces at the most.
LEMMA PiecesAre ==
  ASSUME NEW size \in Nat
  PROVE  Pieces(size) \in 0..5
  BY DEF Pieces, Smaller

(***************************************************************************)
(* The pieces of a GROM file go to the windows of the port in their order; *)
(* with a chip for each of them, all are there.                            *)
(***************************************************************************)
LEMMA GromsLoaded ==
  ASSUME Groms \in GromSets, Mapped(Groms, rpk), rpk \in SUBSET Rpks,
         step.socket["grom_socket"] \in STRING, Size("grom_socket") \in Nat, LoadGroms
  PROVE  \E a \in [ok : BOOLEAN, g : GromSets] :
           /\ Mapped(a.g, rpk) /\ Groms' = a.g
           /\ step' = IF a.ok THEN [step EXCEPT !.pc = "rom_socket"] ELSE Idle
           /\ a.ok => \A w \in Port :
                        IF w - 2 <= Pieces(Size("grom_socket"))
                        THEN a.g.window[w] # 0 /\ a.g.chip[a.g.window[w]].data = Content("grom_socket", w - 2)
                        ELSE SameIn(a.g, Groms, w)
<1> DEFINE D == {a \in [ok : BOOLEAN, g : GromSets] : Mapped(a.g, rpk)}
           K == Pieces(Size("grom_socket"))
           start == [ok |-> TRUE, g |-> Groms]
           Turn(n, a) == IF ~a.ok THEN a ELSE Allocate(a.g, 2 + n, Content("grom_socket", n))
           F == [p \in (1..K) \X D |-> Turn(p[1], p[2])]
           Done(n, a) ==
             \A w \in Port :
               IF w - 2 <= n
               THEN a.g.window[w] # 0 /\ a.g.chip[a.g.window[w]].data = Content("grom_socket", w - 2)
               ELSE SameIn(a.g, Groms, w)
<1>1. K \in 0..5
  BY PiecesAre
<1>2. start \in D /\ Done(0, start)
  <2>1. start \in D
    OBVIOUS
  <2>2. Done(0, start)
    BY ChipsAre DEF SameIn
  <2> QED
    BY <2>1, <2>2
<1>3. ASSUME NEW n \in 1..K, NEW a \in D
      PROVE  Turn(n, a) \in D /\ (a.ok /\ Turn(n, a).ok /\ Done(n - 1, a) => Done(n, Turn(n, a)))
  <2>1. CASE ~a.ok
    BY <2>1
  <2>2. CASE a.ok
    <3> DEFINE w == 2 + n
               b == Turn(n, a)
    <3>1. w \in Windows /\ w \notin Console /\ w \in Port /\ n \in Nat
      BY <1>1, ChipsAre
    <3>2. Content("grom_socket", n) \in Contents /\ Content("grom_socket", n).rpk = rpk
      BY <3>1, ContentIs
    <3>3. b = Allocate(a.g, w, Content("grom_socket", n))
      BY <2>2
    <3> HIDE DEF b, w
    <3>4. /\ b \in [ok : BOOLEAN, g : GromSets] /\ Mapped(b.g, rpk)
          /\ \A v \in Windows \ {w} : SameIn(b.g, a.g, v)
          /\ b.ok => b.g.window[w] # 0 /\ b.g.chip[b.g.window[w]].data = Content("grom_socket", n)
      <4>1. a.g \in GromSets /\ Mapped(a.g, rpk)
        OBVIOUS
      <4> QED
        BY <3>1, <3>2, <3>3, <4>1, Allocated
    <3>5. ASSUME b.ok, Done(n - 1, a), NEW v \in Port
          PROVE  IF v - 2 <= n
                 THEN b.g.window[v] # 0 /\ b.g.chip[b.g.window[v]].data = Content("grom_socket", v - 2)
                 ELSE SameIn(b.g, Groms, v)
      <4>1. v \in 3..7 /\ v \in Windows /\ w = 2 + n /\ n \in 1..5
        BY <1>1, ChipsAre DEF w
      <4>2. CASE v = w
        <5>1. v - 2 = n
          BY <4>1, <4>2
        <5> QED
          BY <3>4, <3>5, <4>2, <5>1
      <4>3. CASE v # w
        <5>1. SameIn(b.g, a.g, v)
          BY <3>4, <4>1, <4>3
        <5>2. CASE v - 2 <= n
          <6>1. v - 2 <= n - 1
            BY <4>1, <4>3, <5>2
          <6>2. a.g.window[v] # 0 /\ a.g.chip[a.g.window[v]].data = Content("grom_socket", v - 2)
            BY <3>5, <6>1
          <6> QED
            BY <5>1, <5>2, <6>2 DEF SameIn
        <5>3. CASE ~(v - 2 <= n)
          <6>1. ~(v - 2 <= n - 1)
            BY <4>1, <5>3
          <6>2. SameIn(a.g, Groms, v)
            BY <3>5, <6>1
          <6> QED
            BY <5>1, <5>3, <6>2 DEF SameIn
        <5> QED
          BY <5>2, <5>3
      <4> QED
        BY <4>2, <4>3
    <3>6. b \in D /\ (b.ok /\ Done(n - 1, a) => Done(n, b))
      BY <3>4, <3>5
    <3> HIDE DEF Done, D
    <3> QED
      BY <2>2, <3>6 DEF b
  <2> QED
    BY <2>1, <2>2
<1>4. F \in [(1..K) \X D -> D]
  BY <1>3
<1>5. \A n \in 1..K : \A a \in D : F[<<n, a>>] = Turn(n, a)
  OBVIOUS
<1> DEFINE Body(f) == [n \in 0..K |-> IF n = 0 THEN start ELSE Turn(n, f[n - 1])]
           loaded == CHOOSE f : f = Body(f)
<1>6. /\ Groms' = loaded[K].g \/ loaded[K].g \notin GromSets
      /\ step' = IF loaded[K].ok THEN [step EXCEPT !.pc = "rom_socket"] ELSE Idle
  <2> DEFINE Body2(f) == [n \in 0..K |-> IF n = 0 THEN start
                                         ELSE IF ~f[n - 1].ok THEN f[n - 1]
                                         ELSE Allocate(f[n - 1].g, 2 + n, Content("grom_socket", n))]
             loaded2 == CHOOSE f : f = Body2(f)
  <2>1. SetGroms(loaded2[K].g) /\ step' = IF loaded2[K].ok THEN [step EXCEPT !.pc = "rom_socket"] ELSE Idle
    BY DEF LoadGroms
  <2>2. loaded2 = loaded
    OBVIOUS
  <2>3. window' = loaded[K].g.window /\ chip' = loaded[K].g.chip
    BY <2>1, <2>2 DEF SetGroms
  <2> HIDE DEF loaded, loaded2
  <2> QED
    BY <2>1, <2>2, <2>3 DEF Groms, GromSets
<1> HIDE DEF F, D, K, Turn, start, Done
<1>7. PICK g \in [0..K -> D] : g[0] = start /\ \A n \in 1..K : g[n] = F[<<n, g[n - 1]>>]
  <2>1. K \in Nat /\ start \in D
    BY <1>1, <1>2
  <2>2. RunsOf(K, D, start, F) # {}
    BY <1>4, <2>1, LoopRuns
  <2> QED
    BY <2>2 DEF RunsOf
<1>8. ASSUME NEW n \in 1..K
      PROVE  g[n] = Turn(n, g[n - 1])
  <2>1. n - 1 \in 0..K
    BY <1>1
  <2> QED
    BY <1>5, <1>7, <2>1
<1>9. g = Body(g)
  <2>1. ASSUME NEW n \in 0..K
        PROVE  g[n] = IF n = 0 THEN start ELSE Turn(n, g[n - 1])
    <3>1. CASE n = 0
      BY <1>7, <3>1
    <3>2. CASE n # 0
      <4>1. n \in 1..K
        BY <1>1, <3>2
      <4> QED
        BY <1>8, <3>2, <4>1
    <3> QED
      BY <3>1, <3>2
  <2> QED
    BY <1>7, <2>1
<1>10. loaded = Body(loaded)
  <2> HIDE DEF Body
  <2> QED
    BY <1>9, Zenon
<1> HIDE DEF loaded
<1> DEFINE T == {n \in 0..K : loaded[n] \in D /\ (loaded[n].ok => Done(n, loaded[n]))}
<1>11. 0 \in T
  BY <1>1, <1>2, <1>10
<1>12. ASSUME NEW n \in 1..K, n - 1 \in T
       PROVE  n \in T
  <2>1. n \in 0..K /\ n - 1 \in 0..K
    BY <1>1
  <2>2. loaded[n] = Turn(n, loaded[n - 1])
    BY <1>1, <1>10, <2>1
  <2>3. loaded[n] \in D
    BY <1>3, <1>12, <2>2
  <2>4. loaded[n].ok => loaded[n - 1].ok
    BY <2>2 DEF Turn
  <2>5. loaded[n].ok => Done(n, loaded[n])
    BY <1>3, <1>12, <2>2, <2>4
  <2> QED
    BY <2>1, <2>3, <2>5
<1>13. K \in T
  <2>1. T \in SUBSET (0..K) /\ K \in Nat
    BY <1>1
  <2> HIDE DEF T
  <2>2. T = 0..K
    BY <1>11, <1>12, <2>1, Turns
  <2> QED
    BY <2>1, <2>2
<1>14. loaded[K] \in [ok : BOOLEAN, g : GromSets] /\ Mapped(loaded[K].g, rpk) /\ (loaded[K].ok => Done(K, loaded[K]))
  BY <1>13 DEF D
<1>15. Groms' = loaded[K].g
  BY <1>6, <1>14
<1> QED
  BY <1>6, <1>14, <1>15 DEF Done, K

-----------------------------------------------------------------------------
(* The width of the bank register.                                          *)

\* A power of two is a number that is not 0.
LEMMA PowersAre ==
  \A w \in 0..12 : Power[w] \in Nat \ {0}
<1>1. ASSUME NEW w \in 0..12
      PROVE  Power[w] \in Nat \ {0}
  <2>1. \/ w \in {0, 1, 2, 3, 4, 5, 6}
        \/ w \in {7, 8, 9, 10, 11, 12}
    OBVIOUS
  <2> QED
    BY <2>1, PowerIs
<1> QED
  BY <1>1

\* What a pcb can select, in units.
LEMMA RomSizes ==
  ASSUME NEW m \in ModeSet
  PROVE  /\ m.width \in 0..12 /\ m.kind \in {"rom", "mm", "mbx", "inv"}
         /\ RomSize(m) \in Nat
         /\ m.kind = "mbx" => m.width = 2 /\ RomSize(m) = 4
         /\ m.kind # "mbx" => /\ RomSize(m) = 2 * Power[m.width]
                              /\ m.width > 8 => RomSize(m) = 8192
                              /\ RomSize(m) <= 2 => m.width = 0
                              /\ m.width = 1 => RomSize(m) = 4
                              /\ m.width > 1 => RomSize(m) = 4 * Power[m.width - 1]
<1>1. CASE m \in {[width |-> 0, kind |-> "rom"], [width |-> 1, kind |-> "rom"], [width |-> 0, kind |-> "mm"]}
  BY <1>1, PowerIs DEF RomSize
<1>2. CASE m \in {[width |-> 2, kind |-> "mbx"], [width |-> 8, kind |-> "rom"], [width |-> 6, kind |-> "rom"]}
  BY <1>2, PowerIs DEF RomSize
<1>3. CASE m \in {[width |-> 4, kind |-> "inv"], [width |-> 12, kind |-> "rom"]}
  BY <1>3, PowerIs DEF RomSize
<1> QED
  BY <1>1, <1>2, <1>3, ModesAre

(***************************************************************************)
(* The register with which a ROM is left, of which f units were in the     *)
(* file: it selects them all, and half of it would not.                    *)
(***************************************************************************)
LEMMA WidthFits ==
  ASSUME NEW m \in ModeSet, m.kind # "mbx", NEW f \in Nat, NEW got, NEW adjust,
         got = Smaller(f, Smaller(RomSize(m), Storage)),
         adjust <=> got < RomSize(m) /\ RomSize(m) > 2,
         ~(adjust /\ RomSize(m) > Storage /\ f > got)
  PROVE  LET w == IF adjust THEN Narrow(m.width, got) ELSE m.width IN
         /\ got = Smaller(f, RomSize(m)) /\ w \in 0..8 /\ got <= 2 * Power[w] /\ got <= 2 * Banks
         /\ w > 1 => f > 2 * Power[w - 1]
<1> DEFINE size == RomSize(m)
           width == m.width
           w == IF adjust THEN Narrow(width, got) ELSE width
<1>1. /\ size \in Nat /\ width \in 0..12 /\ size = 2 * Power[width]
      /\ width > 8 => size = 8192
      /\ size <= 2 => width = 0
      /\ width = 1 => size = 4
      /\ width > 1 => size = 4 * Power[width - 1]
  BY RomSizes
<1>2. Storage = 2 * Banks /\ Banks \in 3..256
  BY CartridgeAssumption DEF Storage, CartridgeAssumption
<1>3. got = Smaller(f, Smaller(size, Storage)) /\ (adjust <=> got < size /\ size > 2) /\ ~(adjust /\ size > Storage /\ f > got)
  OBVIOUS
<1> HIDE DEF size, width
<1>4. /\ got \in Nat /\ got <= f /\ got <= size /\ got <= Storage /\ got <= 512
      /\ got \in {f, size, Storage}
  BY <1>1, <1>2, <1>3 DEF Smaller
<1>5. got = Smaller(f, size)
  BY <1>1, <1>2, <1>3 DEF Smaller
<1>6. CASE adjust /\ width > 1
  <2> DEFINE S == {v \in 1..width : got <= 2 * Power[v]}
  <2>1. w = Min(S)
    BY <1>1, <1>6 DEF Narrow
  <2>2. S \in SUBSET Nat
    BY <1>1
  <2>3. \E v \in S : v <= 8
    <3>1. CASE width <= 8
      <4>1. width \in S
        BY <1>1, <1>4, <1>6, <3>1
      <4> QED
        BY <3>1, <4>1
    <3>2. CASE width > 8
      <4>1. 8 \in S
        BY <1>1, <1>4, <3>2, PowerIs
      <4> QED
        BY <4>1
    <3> QED
      BY <1>1, <3>1, <3>2
  <2>4. w \in S /\ \A v \in S : w <= v
    <3> HIDE DEF S
    <3> QED
      BY <2>1, <2>2, <2>3, MinIs
  <2> HIDE DEF w
  <2>5. w \in 1..8 /\ got <= 2 * Power[w]
    BY <1>1, <2>3, <2>4
  <2>6. ASSUME w > 1
        PROVE  f > 2 * Power[w - 1]
    <3>1. w - 1 \in 1..width /\ ~(w <= w - 1)
      BY <1>1, <2>4, <2>5, <2>6
    <3>2. w - 1 \notin S
      BY <2>4, <3>1
    <3>3. ~(got <= 2 * Power[w - 1])
      BY <3>1, <3>2
    <3>4. w - 1 \in 0..12
      BY <2>5, <2>6
    <3>5. Power[w - 1] \in Nat
      BY <3>4, PowersAre
    <3> QED
      BY <1>4, <3>3, <3>5
  <2>7. w \in 0..8
    BY <2>5
  <2> QED
    BY <1>2, <1>4, <1>5, <2>5, <2>6, <2>7 DEF w, size, width
<1>7. CASE adjust /\ ~(width > 1)
  <2>1. w = width
    BY <1>1, <1>7 DEF Narrow
  <2> HIDE DEF w
  <2>2. w \in 0..8 /\ ~(w > 1) /\ got <= 2 * Power[w]
    BY <1>1, <1>4, <1>7, <2>1
  <2> QED
    BY <1>2, <1>4, <1>5, <2>2 DEF w, size, width
<1>8. CASE ~adjust
  <2>1. w = width
    BY <1>8
  <2>2. got = size \/ width = 0
    BY <1>1, <1>3, <1>4, <1>8
  <2>3. width <= 8
    BY <1>1, <1>4, <2>2
  <2>4. width > 1 => f > 2 * Power[width - 1]
    <3>1. width > 1 => width - 1 \in 0..12
      BY <1>1
    <3>2. width > 1 => Power[width - 1] \in Nat \ {0}
      BY <3>1, PowersAre
    <3> QED
      BY <1>1, <1>4, <2>2, <3>2
  <2> HIDE DEF w
  <2>5. w \in 0..8 /\ got <= 2 * Power[w] /\ (w > 1 => f > 2 * Power[w - 1])
    BY <1>1, <1>4, <2>1, <2>3, <2>4
  <2> QED
    BY <1>2, <1>4, <1>5, <2>5 DEF w, size, width
<1> QED
  BY <1>6, <1>7, <1>8

-----------------------------------------------------------------------------
(* The cartridge port.                                                      *)

\* The stages of loading.
Steps == {"idle", "grom_socket", "rom_socket", "rom2_socket", "ram", "in"}

\* What is in the port is of one cartridge.
CartInv ==
  /\ mode \in [width : 0..12, kind : {"rom", "mm", "mbx", "inv"}]
  /\ step \in [pc : Steps, socket : Socketings, mode : ModeSet]
  /\ rpk = {} \/ \E r \in Rpks : rpk = {r}
  /\ step.pc # "idle" => rpk # {}
  /\ crom = [u \in Units |-> crom[u]]
  /\ \A u \in Units : /\ crom[u].rpk \in {{}, rpk}
                      /\ crom[u] = Ram => <<mode.kind, u>> \in {<<"mm", 1>>, <<"mbx", 4>>}
  /\ Groms \in GromSets /\ Mapped(Groms, rpk)

\* As far as it has been loaded, it is as the layout says.
GromsRight ==
  \A w \in Port :
    IF Used("grom_socket") /\ w - 2 <= Pieces(Size("grom_socket"))
    THEN window[w] # 0 /\ chip[window[w]].data = Content("grom_socket", w - 2)
    ELSE window[w] = 0

\* How much of the ROM is read.
RomThere == Smaller(Size("rom_socket"), RomSize(step.mode))

\* The ROM as its layout wants it, under a register that is as narrow as it may be.
RomRight ==
  Used("rom_socket") =>
    /\ RomThere \in Nat /\ RomThere <= 2 * Banks
    /\ \A u \in 0..RomThere-1 : Covered(u) \/ crom[u] = Content("rom_socket", u)
    /\ mode.kind = "mbx" => RomThere <= 4
    /\ mode.kind # "mbx" => /\ mode.width \in 0..8 /\ RomThere <= 2 * Power[mode.width]
                            /\ mode.width > 1 => Size("rom_socket") > 2 * Power[mode.width - 1]

\* The second ROM as its layout wants it.
Rom2Right ==
  Used("rom2_socket") =>
    /\ Size("rom2_socket") \in Nat
    /\ \A h \in 0..Smaller(Size("rom2_socket"), 2)-1 : crom[2 + h] = Content("rom2_socket", h)

\* What has been loaded at every stage.
StageInv ==
  step.pc # "idle" =>
    /\ mode.kind = step.mode.kind
    /\ step.pc \in {"grom_socket", "rom_socket"} => mode = step.mode
    /\ mode.kind = "mbx" => mode.width = 2
    /\ IF step.pc = "grom_socket" THEN \A w \in Port : window[w] = 0 ELSE GromsRight
    /\ step.pc \in {"rom2_socket", "ram", "in"} => RomRight
    /\ step.pc \in {"ram", "in"} => Rom2Right

\* The port and its loader.
PortInv == CartInv /\ StageInv

\* There is room for the smallest bank and its RAM.
LEMMA UnitsAre ==
  Units = 0..2*Banks-1 /\ Banks \in 3..256 /\ {1, 2, 3, 4} \subseteq Units
  BY CartridgeAssumption DEF Units, CartridgeAssumption

\* A file that is there has a size.
LEMMA SizeIs ==
  ASSUME CartInv, step.pc # "idle", NEW s \in SocketNames, There(s)
  PROVE  Size(s) \in Nat /\ step.socket[s] \in STRING /\ rpk \in SUBSET Rpks /\ rpk # {}
<1>1. PICK r \in Rpks : rpk = {r}
  BY DEF CartInv
<1>2. Rpk = r
  BY <1>1 DEF Rpk
<1>3. step.socket[s] \in DOMAIN r.files /\ s \in DOMAIN step.socket
  BY <1>2 DEF There, Used
<1>4. Size(s) \in Nat
  BY <1>2, <1>3, CartridgeAssumption DEF Size, CartridgeAssumption
<1>5. step.socket \in Socketings
  BY DEF CartInv
<1>6. PICK S \in SUBSET SocketNames : step.socket \in [S -> STRING]
  BY <1>5 DEF Socketings
<1> QED
  BY <1>1, <1>3, <1>4, <1>6

\* While a cartridge is loaded, what its layout says stays.
SameLayout ==
  /\ rpk' = rpk /\ step' \in [pc : Steps, socket : Socketings, mode : ModeSet]
  /\ step'.socket = step.socket /\ step'.mode = step.mode

\* As long as the layout stays, so does what it says of the sockets.
LEMMA LayoutKept ==
  ASSUME SameLayout
  PROVE  /\ \A s \in SocketNames : (Used(s))' <=> Used(s)
         /\ \A s \in SocketNames : (Size(s))' = Size(s)
         /\ \A s \in SocketNames : \A n : (Content(s, n))' = Content(s, n)
         /\ \A u : (Covered(u))' <=> Covered(u)
         /\ RomThere' = RomThere
  BY DEF SameLayout, Used, Size, Rpk, Content, From, Covered, RomThere, RomSize, Smaller

\* GROMs that nobody touches stay as they were loaded.
LEMMA GromsStay ==
  ASSUME SameLayout, UNCHANGED <<window, chip>>, GromsRight
  PROVE  GromsRight'
<1>1. "grom_socket" \in SocketNames
  BY DEF SocketNames
<1>2. (Used("grom_socket"))' <=> Used("grom_socket")
  BY <1>1, LayoutKept
<1>3. (Size("grom_socket"))' = Size("grom_socket") /\ \A n : (Content("grom_socket", n))' = Content("grom_socket", n)
  BY <1>1, LayoutKept
<1>4. (Pieces(Size("grom_socket")))' = Pieces(Size("grom_socket"))
  BY <1>3 DEF Pieces, Smaller
<1> QED
  BY <1>2, <1>3, <1>4 DEF GromsRight

\* The second ROM stays as long as its two units do.
LEMMA Rom2Stays ==
  ASSUME SameLayout, Rom2Right, crom'[2] = crom[2], crom'[3] = crom[3]
  PROVE  Rom2Right'
<1>1. "rom2_socket" \in SocketNames
  BY DEF SocketNames
<1>2. (Used("rom2_socket"))' <=> Used("rom2_socket")
  BY <1>1, LayoutKept
<1>3. (Size("rom2_socket"))' = Size("rom2_socket") /\ \A n : (Content("rom2_socket", n))' = Content("rom2_socket", n)
  BY <1>1, LayoutKept
<1>4. (Smaller(Size("rom2_socket"), 2))' = Smaller(Size("rom2_socket"), 2)
  BY <1>3 DEF Smaller
<1>5. ASSUME Size("rom2_socket") \in Nat, NEW h \in 0..Smaller(Size("rom2_socket"), 2)-1
      PROVE  crom'[2 + h] = crom[2 + h]
  <2>1. h = 0 \/ h = 1
    BY <1>5 DEF Smaller
  <2> QED
    BY <2>1
<1> QED
  BY <1>2, <1>3, <1>4, <1>5 DEF Rom2Right

\* The ROM stays as long as the units it takes do.
LEMMA RomStays ==
  ASSUME SameLayout, RomRight, mode' = mode,
         \A u \in Nat : u < RomThere => Covered(u) \/ crom'[u] = crom[u]
  PROVE  RomRight'
<1>1. "rom_socket" \in SocketNames
  BY DEF SocketNames
<1>2. (Used("rom_socket"))' <=> Used("rom_socket")
  BY <1>1, LayoutKept
<1>3. (Size("rom_socket"))' = Size("rom_socket") /\ \A n : (Content("rom_socket", n))' = Content("rom_socket", n)
  BY <1>1, LayoutKept
<1>4. RomThere' = RomThere /\ \A u : (Covered(u))' <=> Covered(u)
  BY LayoutKept
<1> SUFFICES ASSUME Used("rom_socket")
             PROVE  RomRight'
  BY <1>2 DEF RomRight
<1>5. ASSUME NEW u \in 0..RomThere-1
      PROVE  (Covered(u))' \/ crom'[u] = (Content("rom_socket", u))'
  <2>1. RomThere \in Nat
    BY DEF RomRight
  <2>2. u \in Nat /\ u < RomThere
    BY <2>1
  <2>3. Covered(u) \/ crom[u] = Content("rom_socket", u)
    BY DEF RomRight
  <2> QED
    BY <1>3, <1>4, <2>2, <2>3
<1>6. \A u \in 0..RomThere'-1 : (Covered(u))' \/ crom'[u] = (Content("rom_socket", u))'
  BY <1>4, <1>5
<1>7. /\ RomThere' \in Nat /\ RomThere' <= 2 * Banks
      /\ mode'.kind = "mbx" => RomThere' <= 4
      /\ mode'.kind # "mbx" => /\ mode'.width \in 0..8 /\ RomThere' <= 2 * Power[mode'.width]
                               /\ mode'.width > 1 => (Size("rom_socket"))' > 2 * Power[mode'.width - 1]
  BY <1>3, <1>4 DEF RomRight
<1> QED
  BY <1>6, <1>7 DEF RomRight

\* Moving on, and stopping, leave what is there.
LEMMA MovesOn ==
  ASSUME CartInv, NEW p \in Steps, step' = [step EXCEPT !.pc = p]
  PROVE  step' \in [pc : Steps, socket : Socketings, mode : ModeSet] /\ step'.pc = p
         /\ step'.socket = step.socket /\ step'.mode = step.mode
  BY DEF CartInv

\* The state between cartridges is one of the loader's.
LEMMA IdleIs ==
  Idle \in [pc : Steps, socket : Socketings, mode : ModeSet] /\ Idle.pc = "idle"
<1>1. <<>> \in [{} -> STRING]
  OBVIOUS
<1>2. <<>> \in Socketings
  BY <1>1 DEF Socketings
<1>3. Standard \in ModeSet
  BY DEF ModeSet, Modes
<1> QED
  BY <1>2, <1>3 DEF Idle, Steps

\* A cartridge that cannot be read ends the loading.
LEMMA BrokenHolds ==
  ASSUME PortInv, Broken
  PROVE  PortInv'
<1>1. step' = Idle /\ UNCHANGED <<mode, crom, window, chip, rpk>>
  BY DEF Broken
<1>2. CartInv'
  BY <1>1, IdleIs DEF PortInv, CartInv, Groms, Mapped
<1>3. StageInv'
  BY <1>1, IdleIs DEF StageInv
<1> QED
  BY <1>2, <1>3 DEF PortInv

\* A socket that is not used is passed.
LEMMA NotUsedHolds ==
  ASSUME PortInv, NotUsed
  PROVE  PortInv'
<1>1. step.pc \in SocketNames /\ ~Used(step.pc) /\ step' = [step EXCEPT !.pc = After(step.pc)]
  BY SocketsAre DEF NotUsed
<1>2. UNCHANGED <<mode, crom, window, chip, rpk>>
  BY DEF NotUsed
<1>3. /\ step.pc = "grom_socket" => After(step.pc) = "rom_socket"
      /\ step.pc = "rom_socket" => After(step.pc) = "rom2_socket"
      /\ step.pc = "rom2_socket" => After(step.pc) = "ram"
  BY DEF After
<1>4. After(step.pc) \in Steps
  BY <1>1, <1>3 DEF SocketNames, Steps
<1>5. SameLayout /\ step'.pc = After(step.pc)
  BY <1>1, <1>2, <1>4, MovesOn DEF PortInv, SameLayout
<1>6. CartInv'
  BY <1>1, <1>2, <1>5, SocketsAre DEF PortInv, CartInv, Groms, Mapped, SameLayout, SocketNames
<1>7. /\ mode.kind = step.mode.kind
      /\ step.pc \in {"grom_socket", "rom_socket"} => mode = step.mode
      /\ mode.kind = "mbx" => mode.width = 2
      /\ IF step.pc = "grom_socket" THEN \A w \in Port : window[w] = 0 ELSE GromsRight
      /\ step.pc = "rom2_socket" => RomRight
  BY <1>1 DEF PortInv, StageInv, SocketNames
<1>8. GromsRight'
  <2>1. GromsRight
    <3>1. CASE step.pc = "grom_socket"
      BY <1>1, <1>7, <3>1 DEF GromsRight
    <3>2. CASE step.pc # "grom_socket"
      BY <1>7, <3>2
    <3> QED
      BY <3>1, <3>2
  <2> QED
    BY <1>2, <1>5, <2>1, GromsStay
<1>9. step'.pc \in {"rom2_socket", "ram"} => RomRight'
  <2>1. step'.pc \in {"rom2_socket", "ram"} => RomRight
    BY <1>1, <1>3, <1>5, <1>7 DEF SocketNames, RomRight
  <2>2. RomRight => RomRight'
    BY <1>2, <1>5, RomStays
  <2> QED
    BY <2>1, <2>2
<1>10. step'.pc = "ram" => Rom2Right'
  <2>1. step'.pc = "ram" => Rom2Right
    BY <1>1, <1>3, <1>5 DEF SocketNames, Rom2Right
  <2>2. Rom2Right => Rom2Right'
    BY <1>2, <1>5, Rom2Stays
  <2> QED
    BY <2>1, <2>2
<1>11. StageInv'
  <2>1. step'.pc \in {"rom_socket", "rom2_socket", "ram"}
    BY <1>1, <1>3, <1>5 DEF SocketNames
  <2>2. step'.pc = "rom_socket" => mode' = step'.mode
    BY <1>1, <1>2, <1>3, <1>5, <1>7 DEF SocketNames, SameLayout
  <2> QED
    BY <1>2, <1>5, <1>7, <1>8, <1>9, <1>10, <2>1, <2>2 DEF StageInv, SameLayout
<1> QED
  BY <1>6, <1>11 DEF PortInv

\* The GROMs are loaded in order, or the loading ends.
LEMMA LoadGromsHolds ==
  ASSUME PortInv, LoadGroms
  PROVE  PortInv'
<1> DEFINE s == "grom_socket"
<1>1. step.pc = s /\ There(s) /\ UNCHANGED <<mode, crom, rpk>> /\ s \in SocketNames
  BY DEF LoadGroms, SocketNames
<1>2. Size(s) \in Nat /\ step.socket[s] \in STRING /\ rpk \in SUBSET Rpks
  BY <1>1, SizeIs DEF PortInv
<1>3. Groms \in GromSets /\ Mapped(Groms, rpk)
  BY DEF PortInv, CartInv
<1>4. PICK a \in [ok : BOOLEAN, g : GromSets] :
        /\ Mapped(a.g, rpk) /\ Groms' = a.g
        /\ step' = IF a.ok THEN [step EXCEPT !.pc = "rom_socket"] ELSE Idle
        /\ a.ok => \A w \in Port :
                     IF w - 2 <= Pieces(Size(s))
                     THEN a.g.window[w] # 0 /\ a.g.chip[a.g.window[w]].data = Content(s, w - 2)
                     ELSE SameIn(a.g, Groms, w)
  BY <1>2, <1>3, GromsLoaded
<1>5. (Groms \in GromSets)' /\ (Mapped(Groms, rpk))'
  BY <1>1, <1>4 DEF Mapped
<1>6. CASE ~a.ok
  <2>1. step' = Idle
    BY <1>4, <1>6
  <2>2. CartInv'
    BY <1>1, <1>5, <2>1, IdleIs DEF PortInv, CartInv
  <2>3. StageInv'
    BY <2>1, IdleIs DEF StageInv
  <2> QED
    BY <2>2, <2>3 DEF PortInv
<1>7. CASE a.ok
  <2>1. SameLayout /\ step'.pc = "rom_socket"
    BY <1>1, <1>4, <1>7, MovesOn DEF PortInv, SameLayout, Steps
  <2>2. CartInv'
    BY <1>1, <1>5, <2>1 DEF PortInv, CartInv, SameLayout
  <2>3. /\ mode = step.mode /\ (mode.kind = "mbx" => mode.width = 2)
        /\ \A w \in Port : window[w] = 0
    BY <1>1 DEF PortInv, StageInv
  <2>4. window' = a.g.window /\ chip' = a.g.chip /\ Groms.window = window
    BY <1>4 DEF Groms, GromSets
  <2>5. GromsRight'
    <3>1. (Size(s))' = Size(s) /\ (\A n : (Content(s, n))' = Content(s, n)) /\ (Used(s))'
      BY <1>1, <2>1, LayoutKept DEF There
    <3>2. (Pieces(Size(s)))' = Pieces(Size(s))
      BY <3>1 DEF Pieces, Smaller
    <3>3. ASSUME NEW w \in Port
          PROVE  IF w - 2 <= Pieces(Size(s))
                 THEN window'[w] # 0 /\ chip'[window'[w]].data = Content(s, w - 2)
                 ELSE window'[w] = 0
      BY <1>4, <1>7, <2>3, <2>4 DEF SameIn
    <3> QED
      BY <3>1, <3>2, <3>3 DEF GromsRight
  <2>6. StageInv'
    BY <1>1, <2>1, <2>3, <2>5 DEF StageInv, SameLayout
  <2> QED
    BY <2>2, <2>6 DEF PortInv
<1> QED
  BY <1>6, <1>7

\* A unit that gets a piece of a file of the cartridge is neither RAM nor of another one.
LEMMA UnitIs ==
  ASSUME CartInv, rpk # {}, NEW s, NEW n
  PROVE  Content(s, n).rpk = rpk /\ Content(s, n) # Ram
<1>1. Content(s, n).rpk = rpk
  BY DEF Content, From
<1>2. Ram.rpk = {}
  BY DEF Ram, Zero
<1> QED
  BY <1>1, <1>2

\* The ROM is loaded from its start, as far as it and the register go.
LEMMA LoadRomHolds ==
  ASSUME PortInv, LoadRom
  PROVE  PortInv'
<1> DEFINE s == "rom_socket"
           m == step.mode
           f == Size(s)
           size == RomSize(m)
           got == Smaller(f, Smaller(size, Storage))
           adjust == got < size /\ size > 2 /\ m.kind # "mbx"
           refused == adjust /\ size > Storage /\ f > got
<1>1. step.pc = s /\ There(s) /\ s \in SocketNames /\ UNCHANGED <<window, chip, rpk>>
  BY DEF LoadRom, SocketNames
<1>2. f \in Nat /\ rpk # {} /\ Used(s)
  BY <1>1, SizeIs DEF PortInv, There
<1>3. m \in ModeSet /\ mode = m /\ GromsRight
  BY <1>1 DEF PortInv, CartInv, StageInv
<1>4. crom' = [u \in Units |-> IF u < got THEN Content(s, u) ELSE crom[u]]
  BY DEF LoadRom
<1>5. \/ refused /\ step' = Idle /\ mode' = mode
      \/ /\ ~refused /\ step' = [step EXCEPT !.pc = "rom2_socket"]
         /\ mode' = IF adjust THEN [mode EXCEPT !.width = Narrow(@, got)] ELSE mode
  BY DEF LoadRom
<1>6. RomThere = Smaller(f, size)
  BY DEF RomThere
<1>7. size \in Nat /\ m.width \in 0..12 /\ (m.kind = "mbx" => m.width = 2 /\ size = 4)
  BY <1>3, RomSizes
<1>8. Storage = 2 * Banks /\ Banks \in 3..256
  BY UnitsAre DEF Storage
<1> HIDE DEF f, size, m
<1>9. ASSUME ~refused
      PROVE  LET w == IF adjust THEN Narrow(m.width, got) ELSE m.width IN
             /\ got = Smaller(f, size) /\ got <= 2 * Banks /\ got \in Nat /\ w \in 0..12
             /\ m.kind # "mbx" => /\ w \in 0..8 /\ got <= 2 * Power[w]
                                  /\ w > 1 => f > 2 * Power[w - 1]
             /\ m.kind = "mbx" => got <= 4 /\ w = 2
  <2> DEFINE w == IF adjust THEN Narrow(m.width, got) ELSE m.width
  <2>1. CASE m.kind # "mbx"
    <3>1. got = Smaller(f, Smaller(RomSize(m), Storage)) /\ (adjust <=> got < RomSize(m) /\ RomSize(m) > 2)
          /\ ~(adjust /\ RomSize(m) > Storage /\ f > got) /\ size = RomSize(m)
      BY <1>9, <2>1 DEF size
    <3> HIDE DEF got, adjust
    <3>2. /\ got = Smaller(f, RomSize(m)) /\ w \in 0..8 /\ got <= 2 * Power[w] /\ got <= 2 * Banks
          /\ w > 1 => f > 2 * Power[w - 1]
      BY <1>2, <1>3, <2>1, <3>1, WidthFits
    <3>3. got \in Nat /\ w \in 0..12
      BY <1>2, <1>7, <3>1, <3>2 DEF Smaller
    <3> HIDE DEF w
    <3> QED
      BY <2>1, <3>1, <3>2, <3>3 DEF w
  <2>2. CASE m.kind = "mbx"
    <3>1. ~adjust /\ w = 2 /\ size = 4
      BY <1>7, <2>2
    <3>2. got = Smaller(f, size) /\ got <= 4 /\ got <= 2 * Banks /\ got \in Nat
      BY <1>2, <1>8, <3>1 DEF Smaller
    <3> HIDE DEF w, got, adjust
    <3> QED
      BY <2>2, <3>1, <3>2 DEF w
  <2> QED
    BY <2>1, <2>2
<1> HIDE DEF got, adjust
<1>10. /\ crom' = [u \in Units |-> crom'[u]]
       /\ \A u \in Units : /\ crom'[u].rpk \in {{}, rpk}
                           /\ crom'[u] = Ram => <<mode.kind, u>> \in {<<"mm", 1>>, <<"mbx", 4>>}
  <2>1. crom' = [u \in Units |-> crom'[u]]
    BY <1>4
  <2>2. ASSUME NEW u \in Units
        PROVE  /\ crom'[u].rpk \in {{}, rpk}
               /\ crom'[u] = Ram => <<mode.kind, u>> \in {<<"mm", 1>>, <<"mbx", 4>>}
    <3>1. CASE u < got
      <4>1. crom'[u] = Content(s, u)
        BY <1>4, <3>1
      <4> QED
        BY <1>2, <4>1, UnitIs DEF PortInv
    <3>2. CASE ~(u < got)
      <4>1. crom'[u] = crom[u]
        BY <1>4, <3>2
      <4> QED
        BY <4>1 DEF PortInv, CartInv
    <3> QED
      BY <3>1, <3>2
  <2> QED
    BY <2>1, <2>2
<1>11. (Groms \in GromSets)' /\ (Mapped(Groms, rpk))'
  BY <1>1 DEF PortInv, CartInv, Groms, Mapped
<1>12. CASE refused
  <2>1. step' = Idle /\ mode' = mode
    BY <1>5, <1>12
  <2>2. CartInv'
    BY <1>1, <1>10, <1>11, <2>1, IdleIs DEF PortInv, CartInv
  <2>3. StageInv'
    BY <2>1, IdleIs DEF StageInv
  <2> QED
    BY <2>2, <2>3 DEF PortInv
<1>13. CASE ~refused
  <2> DEFINE w == IF adjust THEN Narrow(m.width, got) ELSE m.width
  <2>1. /\ got = Smaller(f, size) /\ got <= 2 * Banks /\ got \in Nat /\ w \in 0..12
        /\ m.kind # "mbx" => /\ w \in 0..8 /\ got <= 2 * Power[w]
                             /\ w > 1 => f > 2 * Power[w - 1]
        /\ m.kind = "mbx" => got <= 4 /\ w = 2
    BY <1>9, <1>13
  <2>2. mode' = [mode EXCEPT !.width = w] \/ (mode' = mode /\ w = mode.width)
    BY <1>3, <1>5, <1>13
  <2> HIDE DEF w
  <2>3. mode' \in [width : 0..12, kind : {"rom", "mm", "mbx", "inv"}] /\ mode'.kind = m.kind /\ mode'.width = w
    BY <1>3, <2>1, <2>2 DEF PortInv, CartInv
  <2>4. SameLayout /\ step'.pc = "rom2_socket"
    BY <1>1, <1>5, <1>13, MovesOn DEF PortInv, SameLayout, Steps
  <2>5. CartInv'
    BY <1>1, <1>3, <1>10, <1>11, <2>3, <2>4 DEF PortInv, CartInv, SameLayout
  <2>6. GromsRight'
    BY <1>1, <1>3, <2>4, GromsStay
  <2>7. RomRight'
    <3>1. /\ (Size(s))' = f /\ \A n : (Content(s, n))' = Content(s, n)
          /\ RomThere' = got
      BY <1>1, <1>6, <2>1, <2>4, LayoutKept DEF f
    <3>2. ASSUME NEW u \in 0..got-1
          PROVE  crom'[u] = Content(s, u)
      <4>1. u \in Units /\ u < got
        BY <2>1, UnitsAre
      <4> QED
        BY <1>4, <4>1
    <3> QED
      BY <2>1, <2>3, <3>1, <3>2 DEF RomRight
  <2>8. StageInv'
    BY <1>3, <2>1, <2>3, <2>4, <2>6, <2>7 DEF StageInv, SameLayout, m
  <2> QED
    BY <2>5, <2>8 DEF PortInv
<1> QED
  BY <1>12, <1>13

\* Units that change to the cartridge's own, to nothing or to RAM where there is RAM.
LEMMA CromHolds ==
  ASSUME CartInv, UNCHANGED <<mode, window, chip>>, SameLayout, step'.pc # "idle" => step.pc # "idle",
         crom' = [u \in Units |-> crom'[u]],
         \A u \in Units : \/ crom'[u] \in {crom[u], Zero}
                          \/ crom'[u].rpk = rpk /\ crom'[u] # Ram
                          \/ crom'[u] = Ram /\ <<mode.kind, u>> \in {<<"mm", 1>>, <<"mbx", 4>>}
  PROVE  CartInv'
<1>1. ASSUME NEW u \in Units
      PROVE  /\ crom'[u].rpk \in {{}, rpk}
             /\ crom'[u] = Ram => <<mode.kind, u>> \in {<<"mm", 1>>, <<"mbx", 4>>}
  <2>1. Zero.rpk = {} /\ Ram.rpk = {} /\ Zero # Ram
    BY DEF Zero, Ram
  <2> QED
    BY <2>1 DEF CartInv
<1>2. rpk' = rpk
  BY DEF SameLayout
<1> QED
  BY <1>1, <1>2 DEF CartInv, SameLayout, Groms, Mapped

\* The second ROM is loaded behind the first bank.
LEMMA LoadRom2Holds ==
  ASSUME PortInv, LoadRom2
  PROVE  PortInv'
<1> DEFINE s == "rom2_socket"
           k == Smaller(Size(s), 2)
<1>1. step.pc = s /\ There(s) /\ s \in SocketNames /\ UNCHANGED <<mode, window, chip, rpk>>
      /\ step' = [step EXCEPT !.pc = "ram"]
  BY DEF LoadRom2, SocketNames
<1>2. Size(s) \in Nat /\ rpk # {} /\ Used(s)
  BY <1>1, SizeIs DEF PortInv, There
<1>3. crom' = [u \in Units |-> IF u \in 2..1+k THEN Content(s, u - 2) ELSE crom[u]]
  BY DEF LoadRom2
<1>4. k \in 0..2
  BY <1>2 DEF Smaller
<1>5. SameLayout /\ step'.pc = "ram"
  BY <1>1, MovesOn DEF PortInv, SameLayout, Steps
<1>6. CartInv'
  <2>1. \A u \in Units : crom'[u] = crom[u] \/ (crom'[u].rpk = rpk /\ crom'[u] # Ram)
    <3>1. ASSUME NEW u \in Units
          PROVE  crom'[u] = crom[u] \/ (crom'[u].rpk = rpk /\ crom'[u] # Ram)
      <4>1. crom'[u] = crom[u] \/ crom'[u] = Content(s, u - 2)
        BY <1>3
      <4> QED
        BY <1>2, <4>1, UnitIs DEF PortInv
    <3> QED
      BY <3>1
  <2>2. crom' = [u \in Units |-> crom'[u]]
    BY <1>3
  <2> QED
    BY <1>1, <1>5, <2>1, <2>2, CromHolds DEF PortInv
<1>7. mode.kind = step.mode.kind /\ (mode.kind = "mbx" => mode.width = 2) /\ GromsRight /\ RomRight
  BY <1>1 DEF PortInv, StageInv
<1>8. GromsRight'
  BY <1>1, <1>5, <1>7, GromsStay
<1>9. RomRight'
  <2>1. CASE Used("rom_socket")
    <3>1. ASSUME NEW u \in Nat, u < RomThere
          PROVE  Covered(u) \/ crom'[u] = crom[u]
      <4>1. u \in Units
        BY <1>7, <2>1, <3>1, UnitsAre DEF RomRight
      <4>2. u \in {2, 3} => Covered(u)
        BY <1>2 DEF Covered
      <4>3. u \in 2..1+k => u \in {2, 3}
        BY <1>4
      <4> QED
        BY <1>3, <4>1, <4>2, <4>3
    <3> QED
      BY <1>1, <1>5, <1>7, <3>1, RomStays
  <2>2. CASE ~Used("rom_socket")
    <3>1. ~(Used("rom_socket"))'
      BY <1>5, <2>2, LayoutKept DEF SocketNames
    <3> QED
      BY <3>1 DEF RomRight
  <2> QED
    BY <2>1, <2>2
<1>10. Rom2Right'
  <2>1. (Size(s))' = Size(s) /\ \A n : (Content(s, n))' = Content(s, n)
    BY <1>1, <1>5, LayoutKept
  <2>2. (Smaller(Size(s), 2))' = k
    BY <2>1 DEF Smaller
  <2>3. ASSUME NEW h \in 0..k-1
        PROVE  crom'[2 + h] = Content(s, h)
    <3>1. h \in {0, 1} /\ 2 + h \in Units /\ 2 + h \in 2..1+k /\ (2 + h) - 2 = h
      BY <1>4, UnitsAre
    <3> QED
      BY <1>3, <3>1
  <2> QED
    BY <1>2, <2>1, <2>2, <2>3 DEF Rom2Right
<1>11. StageInv'
  BY <1>1, <1>5, <1>7, <1>8, <1>9, <1>10 DEF StageInv, SameLayout
<1> QED
  BY <1>6, <1>11 DEF PortInv

\* A unit of the ROM is one of the memory.
LEMMA UnitOfRom ==
  ASSUME NEW k \in Nat, k <= 2 * Banks, NEW u \in Nat, u < k
  PROVE  u \in Units
  BY UnitsAre

\* Where the RAM of a cartridge is.
RamUnit == IF mode.kind = "mm" THEN 1 ELSE 4

\* RAM is where no ROM is that the cartridge shows.
LEMMA RamHolds ==
  ASSUME PortInv, mode.kind \in {"mm", "mbx"},
         crom' \in {[crom EXCEPT ![RamUnit] = Zero], [crom EXCEPT ![RamUnit] = Ram]},
         SameLayout, UNCHANGED <<mode, window, chip>>,
         step'.pc = step.pc \/ (step.pc = "ram" /\ step'.pc = "in")
  PROVE  PortInv'
<1> DEFINE x == RamUnit
<1>1. PICK v \in {Zero, Ram} : crom' = [crom EXCEPT ![x] = v]
  OBVIOUS
<1>0. x \in Units /\ x = IF mode.kind = "mm" THEN 1 ELSE 4
  BY UnitsAre DEF RamUnit
<1> HIDE DEF x
<1>2. crom' = [u \in Units |-> IF u = x THEN v ELSE crom[u]]
  BY <1>1 DEF PortInv, CartInv
<1>3. <<mode.kind, x>> \in {<<"mm", 1>>, <<"mbx", 4>>}
  BY <1>0
<1>4. CartInv'
  <2>1. \A u \in Units : \/ crom'[u] \in {crom[u], Zero}
                         \/ crom'[u] = Ram /\ <<mode.kind, u>> \in {<<"mm", 1>>, <<"mbx", 4>>}
    BY <1>2, <1>3
  <2>2. crom' = [u \in Units |-> crom'[u]]
    BY <1>2
  <2> QED
    BY <2>1, <2>2, CromHolds DEF PortInv
<1>5. ASSUME RomRight, mode.kind = step.mode.kind
      PROVE  RomRight'
  <2>1. CASE Used("rom_socket")
    <3>1. ASSUME NEW u \in Nat, u < RomThere
          PROVE  Covered(u) \/ crom'[u] = crom[u]
      <4>0. RomThere \in Nat /\ RomThere <= 2 * Banks
        BY <1>5, <2>1 DEF RomRight
      <4>1. u \in Units
        BY <3>1, <4>0, UnitOfRom
      <4>2. CASE mode.kind = "mm"
        <5>1. u = 1 => Covered(u)
          BY <1>5, <4>2 DEF Covered
        <5> QED
          BY <1>0, <1>2, <4>1, <4>2, <5>1
      <4>3. CASE mode.kind = "mbx"
        <5>1. u # 4
          BY <1>5, <2>1, <3>1, <4>3 DEF RomRight
        <5> QED
          BY <1>0, <1>2, <4>1, <4>3, <5>1
      <4> QED
        BY <4>2, <4>3
    <3> QED
      BY <1>5, <3>1, RomStays
  <2>2. CASE ~Used("rom_socket")
    <3>1. ~(Used("rom_socket"))'
      BY <2>2, LayoutKept DEF SocketNames
    <3> QED
      BY <3>1 DEF RomRight
  <2> QED
    BY <2>1, <2>2
<1>6. Rom2Right => Rom2Right'
  <2>1. crom'[2] = crom[2] /\ crom'[3] = crom[3]
    BY <1>0, <1>2, UnitsAre
  <2> QED
    BY <2>1, Rom2Stays
<1>7. GromsRight => GromsRight'
  BY GromsStay
<1>8. StageInv'
  BY <1>5, <1>6, <1>7 DEF PortInv, StageInv, SameLayout
<1> QED
  BY <1>4, <1>8 DEF PortInv

\* The RAM is cleared outside of what was loaded.
LEMMA ClearRamHolds ==
  ASSUME PortInv, ClearRam
  PROVE  PortInv'
<1>1. step.pc = "ram" /\ step' = [step EXCEPT !.pc = "in"] /\ UNCHANGED <<mode, window, chip, rpk>>
      /\ crom' = IF mode.kind = "mbx" THEN [crom EXCEPT ![4] = Zero] ELSE crom
  BY DEF ClearRam
<1>2. SameLayout /\ step'.pc = "in"
  BY <1>1, MovesOn DEF PortInv, SameLayout, Steps
<1>3. CASE mode.kind = "mbx"
  <2>1. crom' = [crom EXCEPT ![RamUnit] = Zero]
    BY <1>1, <1>3 DEF RamUnit
  <2> QED
    BY <1>1, <1>2, <1>3, <2>1, RamHolds
<1>4. CASE mode.kind # "mbx"
  <2>1. SameLayout /\ step'.pc = "in" /\ crom' = crom
    BY <1>1, <1>2, <1>4
  <2>2. CartInv'
    BY <1>1, <2>1 DEF PortInv, CartInv, SameLayout, Groms, Mapped
  <2>3. GromsRight' /\ RomRight' /\ Rom2Right'
    BY <1>1, <2>1, GromsStay, RomStays, Rom2Stays DEF PortInv, StageInv
  <2>4. StageInv'
    BY <1>1, <2>1, <2>3 DEF PortInv, StageInv, SameLayout
  <2> QED
    BY <2>2, <2>4 DEF PortInv
<1> QED
  BY <1>3, <1>4

\* The program changes the RAM alone.
LEMMA WriteRamHolds ==
  ASSUME PortInv, WriteRam
  PROVE  PortInv'
<1>1. mode.kind \in {"mm", "mbx"} /\ crom' = [crom EXCEPT ![RamUnit] = Ram]
      /\ UNCHANGED <<mode, window, chip, rpk, step>>
  BY DEF WriteRam, RamUnit
<1>2. SameLayout /\ step'.pc = step.pc
  BY <1>1 DEF PortInv, CartInv, SameLayout
<1>3. crom' \in {[crom EXCEPT ![RamUnit] = Zero], [crom EXCEPT ![RamUnit] = Ram]}
  BY <1>1
<1>4. UNCHANGED <<mode, window, chip>> /\ mode.kind \in {"mm", "mbx"}
  BY <1>1
<1>5. step'.pc = step.pc \/ (step.pc = "ram" /\ step'.pc = "in")
  BY <1>2
<1>6. SameLayout
  BY <1>2
<1> QED
  BY <1>3, <1>4, <1>5, <1>6, RamHolds

\* Every step of the cartridge port.
LEMMA CartNextHolds ==
  ASSUME PortInv, CartNext
  PROVE  PortInv'
  BY NotUsedHolds, BrokenHolds, LoadGromsHolds, LoadRomHolds, LoadRom2Holds, ClearRamHolds, WriteRamHolds
  DEF CartNext

\* What nobody touches stays as it was.
LEMMA PortStays ==
  ASSUME PortInv, UNCHANGED cartVars
  PROVE  PortInv'
<1>1. UNCHANGED <<mode, crom, window, chip, rpk, step>>
  BY DEF cartVars
<1>2. CartInv'
  BY <1>1 DEF PortInv, CartInv, Groms, Mapped
<1>3. SameLayout
  BY <1>1 DEF PortInv, CartInv, SameLayout
<1>4. (GromsRight => GromsRight') /\ (RomRight => RomRight') /\ (Rom2Right => Rom2Right')
  BY <1>1, <1>3, GromsStay, RomStays, Rom2Stays
<1>5. StageInv'
  BY <1>1, <1>4 DEF PortInv, StageInv
<1> QED
  BY <1>2, <1>5 DEF PortInv

\* An empty port, to begin with.
LEMMA PortIsEmpty == CartInit => PortInv
<1> SUFFICES ASSUME CartInit
             PROVE  PortInv
  OBVIOUS
<1>1. /\ mode = Standard /\ crom = [u \in Units |-> Zero] /\ rpk = {} /\ step = Idle
      /\ window = [w \in Windows |-> 0] /\ chip = [i \in 1..NumGroms |-> FreeChip]
  BY DEF CartInit
<1>2. Groms \in GromSets /\ Mapped(Groms, rpk)
  BY <1>1, ChipsAre DEF Groms, GromSets, Mapped
<1>3. Zero.rpk = {} /\ Zero # Ram
  BY DEF Zero, Ram
<1>4. mode \in [width : 0..12, kind : {"rom", "mm", "mbx", "inv"}]
  BY <1>1 DEF Standard
<1>5. CartInv
  BY <1>1, <1>2, <1>3, <1>4, IdleIs DEF CartInv
<1>6. StageInv
  BY <1>1, IdleIs DEF StageInv
<1> QED
  BY <1>5, <1>6 DEF PortInv

\* A new cartridge finds the port empty, but for the console's GROMs.
LEMMA InsertHolds ==
  ASSUME PortInv, NEW r \in Rpks, Insert(r)
  PROVE  PortInv'
<1> DEFINE l == Layout(r)
           g == FreeRange(Groms, Port)
<1>1. \/ UNCHANGED cartVars
      \/ /\ mode' = l.mode /\ window' = g.window /\ chip' = g.chip
         /\ crom' = [u \in Units |-> Zero] /\ rpk' = {r}
         /\ step' = [pc |-> "grom_socket", socket |-> l.socket, mode |-> l.mode]
  BY DEF Insert, SetGroms
<1>2. l \in Layouts
  BY LayoutIs
<1>3. /\ g \in GromSets
      /\ \A w \in Windows : IF w \in Port THEN g.window[w] = 0 ELSE SameIn(g, Groms, w)
  <2>1. Groms \in GromSets /\ Mapped(Groms, rpk) /\ Port \in SUBSET Windows
    BY ChipsAre DEF PortInv, CartInv
  <2> QED
    BY <2>1, Freed
<1> HIDE DEF l, g
<1>4. CASE UNCHANGED cartVars
  BY <1>4, PortStays
<1>5. ASSUME mode' = l.mode, window' = g.window, chip' = g.chip,
             crom' = [u \in Units |-> Zero], rpk' = {r},
             step' = [pc |-> "grom_socket", socket |-> l.socket, mode |-> l.mode]
      PROVE  PortInv'
  <2>1. l.mode \in ModeSet /\ l.socket \in Socketings
    BY <1>2 DEF Layouts
  <2>2. /\ mode' \in [width : 0..12, kind : {"rom", "mm", "mbx", "inv"}]
        /\ mode'.kind = "mbx" => mode'.width = 2
    <3>1. \/ l.mode \in {[width |-> 0, kind |-> "rom"], [width |-> 1, kind |-> "rom"], [width |-> 0, kind |-> "mm"]}
          \/ l.mode \in {[width |-> 2, kind |-> "mbx"], [width |-> 8, kind |-> "rom"], [width |-> 6, kind |-> "rom"]}
          \/ l.mode \in {[width |-> 4, kind |-> "inv"], [width |-> 12, kind |-> "rom"]}
      BY <2>1, ModesAre
    <3> QED
      BY <1>5, <3>1
  <2>3. Groms' = g
    BY <1>3, <1>5 DEF Groms, GromSets
  <2>4. Mapped(g, {r})
    <3>1. ASSUME NEW w \in Windows, g.window[w] # 0
          PROVE  /\ ~g.chip[g.window[w]].free /\ g.chip[g.window[w]].base = w
                 /\ g.chip[g.window[w]].data.rpk = (IF w \in Console THEN {} ELSE {r})
      <4>1. w \notin Port /\ w \in Console
        BY <1>3, <3>1, ChipsAre
      <4>2. SameIn(g, Groms, w)
        BY <1>3, <4>1
      <4> QED
        BY <3>1, <4>1, <4>2 DEF PortInv, CartInv, Mapped, SameIn
    <3> QED
      BY <3>1 DEF Mapped
  <2>5. (Mapped(Groms, rpk))'
    BY <1>5, <2>3, <2>4 DEF Mapped
  <2>6. Zero.rpk = {} /\ Zero # Ram
    BY DEF Zero, Ram
  <2>7. step' \in [pc : Steps, socket : Socketings, mode : ModeSet] /\ step'.pc = "grom_socket" /\ step'.mode = mode'
    BY <1>5, <2>1 DEF Steps
  <2>8. CartInv'
    BY <1>3, <1>5, <2>2, <2>3, <2>5, <2>6, <2>7 DEF CartInv
  <2>9. \A w \in Port : window'[w] = 0
    BY <1>3, <1>5, ChipsAre
  <2>10. StageInv'
    BY <2>2, <2>7, <2>9 DEF StageInv
  <2> QED
    BY <2>8, <2>10 DEF PortInv
<1> QED
  BY <1>1, <1>4, <1>5

\* The console's GROMs are put into its own windows.
LEMMA ConsoleGroms ==
  ASSUME RomInv, PortInv, step.pc = "idle", LoadRomFile
  PROVE  PortInv'
<1> DEFINE rom == Roms[nr]
           a == Allocate(Groms, rom.grom, From({}, rom.name, 0))
<1>1. UNCHANGED <<mode, crom, rpk, step>>
  BY DEF LoadRomFile
<1>2. (Groms \in GromSets)' /\ (Mapped(Groms, rpk))'
  <2>1. Groms \in GromSets /\ Mapped(Groms, rpk)
    BY DEF PortInv, CartInv
  <2>2. CASE UNCHANGED <<window, chip>>
    BY <1>1, <2>1, <2>2 DEF Groms, Mapped
  <2>3. CASE ~UNCHANGED <<window, chip>>
    <3>1. rom.grom # NoGrom /\ window' = a.g.window /\ chip' = a.g.chip
      BY <2>3 DEF LoadRomFile, SetGroms
    <3>2. rom.grom \in Console /\ rom.name \in STRING
      <4>1. rom \in [name : STRING, zip : STRING, board : Boards, grom : Console \cup {NoGrom}]
        BY RomIs
      <4> HIDE DEF rom
      <4> QED
        BY <3>1, <4>1
    <3> HIDE DEF rom
    <3>3. From({}, rom.name, 0) \in Contents /\ From({}, rom.name, 0).rpk = {}
      BY <3>2 DEF From, Contents
    <3>4. rom.grom \in Windows
      BY <3>2, ChipsAre
    <3>5. a \in [ok : BOOLEAN, g : GromSets] /\ Mapped(a.g, rpk)
      BY <2>1, <3>2, <3>3, <3>4, Allocated
    <3> HIDE DEF a
    <3>6. Groms' = a.g
      BY <3>1, <3>5 DEF Groms, GromSets
    <3> QED
      BY <1>1, <3>5, <3>6 DEF Mapped
  <2> QED
    BY <2>2, <2>3
<1>3. CartInv'
  BY <1>1, <1>2 DEF PortInv, CartInv
<1>4. StageInv'
  BY <1>1 DEF StageInv
<1> QED
  BY <1>3, <1>4 DEF PortInv

\* All of it: before the console runs, nothing is put into the port.
CartridgeInv == RomInv /\ PortInv /\ (pc \notin {"loop", "loaded"} => step.pc = "idle")

\* Every step of the start and of the port.
LEMMA CartridgeStep ==
  ASSUME CartridgeInv, [StartNext]_startVars
  PROVE  CartridgeInv'
<1>1. RomInv'
  BY RomStep DEF CartridgeInv
<1>2. ASSUME UNCHANGED <<cartVars, pc>>
      PROVE  PortInv' /\ (pc' \notin {"loop", "loaded"} => step'.pc = "idle")
  BY <1>2, PortStays DEF CartridgeInv, cartVars
<1>3. ASSUME NEW s \in Slots, Move(s)
      PROVE  PortInv' /\ (pc' \notin {"loop", "loaded"} => step'.pc = "idle")
  BY <1>2, <1>3 DEF Move, firmware
<1>4. CASE Restart
  <2>1. CartInit'
    BY <1>4 DEF Restart, CartInit
  <2>2. PortInv'
    BY <2>1, PortIsEmpty, PTL
  <2> QED
    BY <1>1, <1>4, <2>2, IdleIs DEF Restart, CartridgeInv
<1>5. CASE ConfigInit
  <2>1. UNCHANGED cartVars /\ pc = "config"
    BY <1>5 DEF ConfigInit
  <2>2. PortInv' /\ step'.pc = "idle"
    BY <2>1, PortStays DEF CartridgeInv, cartVars
  <2> QED
    BY <1>1, <2>2 DEF CartridgeInv
<1>6. CASE LoadRomFile
  <2>1. pc = "roms" /\ step' = step
    BY <1>6 DEF LoadRomFile
  <2>2. PortInv' /\ step'.pc = "idle"
    BY <1>6, <2>1, ConsoleGroms DEF CartridgeInv
  <2> QED
    BY <1>1, <2>2 DEF CartridgeInv
<1>7. CASE StartConsole
  <2>1. UNCHANGED cartVars /\ pc' = "loop"
    BY <1>7 DEF StartConsole
  <2> QED
    BY <1>1, <2>1, PortStays DEF CartridgeInv
<1>8. ASSUME NEW b \in AllSettings, Toggle(b)
      PROVE  PortInv' /\ (pc' \notin {"loop", "loaded"} => step'.pc = "idle")
  BY <1>2, <1>8 DEF Toggle
<1>9. CASE LoadConfig \/ Correct
  <2>1. UNCHANGED cartVars /\ pc' \in {"loop", "loaded"}
    BY <1>9 DEF LoadConfig, Correct
  <2> QED
    BY <1>1, <2>1, PortStays DEF CartridgeInv
<1>10. CASE SaveConfig
  BY <1>1, <1>2, <1>10 DEF SaveConfig, CartridgeInv
<1>11. CASE OpenSelector
  BY <1>1, <1>2, <1>11 DEF OpenSelector, CartridgeInv
<1>12. CASE SwitchCard
  BY <1>1, <1>2, <1>12 DEF SwitchCard, CartridgeInv
<1>13. CASE CloseSelector
  BY <1>1, <1>2, <1>13 DEF CloseSelector, CartridgeInv
<1>14. ASSUME NEW name \in shown, Browse(name)
       PROVE  PortInv' /\ (pc' \notin {"loop", "loaded"} => step'.pc = "idle")
  BY <1>2, <1>14 DEF Browse
<1>15. ASSUME NEW r \in Rpks, Select(r)
       PROVE  PortInv' /\ (pc' \notin {"loop", "loaded"} => step'.pc = "idle")
  <2>1. pc = "loop" /\ pc' = pc /\ Insert(r)
    BY <1>15 DEF Select, InMenu
  <2> QED
    BY <2>1, InsertHolds DEF CartridgeInv
<1>16. CASE CartStep
  <2>1. pc = "loop" /\ pc' = pc /\ CartNext
    BY <1>16 DEF CartStep, firmware
  <2> QED
    BY <1>1, <2>1, CartNextHolds DEF CartridgeInv
<1>17. CASE UNCHANGED startVars
  BY <1>1, <1>2, <1>17 DEF startVars, firmware, CartridgeInv
<1> QED
  BY <1>1, <1>3, <1>4, <1>5, <1>6, <1>7, <1>8, <1>9, <1>10, <1>11, <1>12, <1>13, <1>14, <1>15, <1>16, <1>17
  DEF StartNext, CartridgeInv

\* The invariant of the port.
LEMMA CartridgeAlways == Spec => []CartridgeInv
<1>1. StartInit => CartridgeInv
  <2> SUFFICES ASSUME StartInit
               PROVE  CartridgeInv
    OBVIOUS
  <2>1. RomInv
    BY DEF StartInit, PowerOn, RomInv
  <2>2. CartInit
    BY DEF StartInit
  <2>3. step.pc = "idle"
    BY <2>2, IdleIs DEF CartInit
  <2> QED
    BY <2>1, <2>2, <2>3, PortIsEmpty DEF CartridgeInv
<1>2. CartridgeInv /\ [StartNext]_startVars => CartridgeInv'
  BY CartridgeStep
<1> QED
  BY <1>1, <1>2, PTL DEF Spec

(***************************************************************************)
(* Whatever became of loading a cartridge, the port holds nothing of the   *)
(* one before, the console's GROMs are where they were, and no chip serves *)
(* two windows: for any RPK files and any number of banks and of chips     *)
(* (rpk.c:165-266, groms.c).                                               *)
(***************************************************************************)
THEOREM PortHoldsOneCartridge == Spec => []OneCartridge
<1>1. CartridgeInv => OneCartridge
  <2> SUFFICES ASSUME CartInv
               PROVE  OneCartridge
    BY DEF CartridgeInv, PortInv
  <2>1. ASSUME NEW w \in Windows, window[w] # 0
        PROVE  /\ ~chip[window[w]].free /\ chip[window[w]].base = w
               /\ chip[window[w]].data.rpk = (IF w \in Console THEN {} ELSE rpk)
    BY <2>1 DEF CartInv, Mapped, Groms
  <2>2. ASSUME NEW w \in Windows, window[w] # 0, NEW v \in Windows \ {w}
        PROVE  window[v] # window[w]
    BY <2>1, <2>2
  <2> QED
    BY <2>1, <2>2 DEF CartInv, OneCartridge
<1> QED
  BY <1>1, CartridgeAlways, PTL

(***************************************************************************)
(* A cartridge that is in is as its layout says: every unit of its ROM can *)
(* be selected, as far as the register of its pcb goes, and no narrower    *)
(* register would do; the second ROM is the second bank; each window has   *)
(* its piece of the GROM file (rpk.c:165-266, cartridge_rom.v).            *)
(***************************************************************************)
THEOREM CartridgeIsAsLaidOut == Spec => []AsLaidOut
<1>1. CartridgeInv => AsLaidOut
  <2> SUFFICES ASSUME PortInv, step.pc = "in"
               PROVE  AsLaidOut
    BY DEF CartridgeInv, AsLaidOut
  <2>1. /\ mode.kind = step.mode.kind /\ (mode.kind = "mbx" => mode.width = 2)
        /\ GromsRight /\ RomRight /\ Rom2Right
    BY DEF PortInv, StageInv
  <2>2. mode.width \in 0..12
    BY DEF PortInv, CartInv
  <2>3. ASSUME Used("rom_socket"), NEW u \in 0..RomThere-1, ~Covered(u)
        PROVE  Content("rom_socket", u) \in Shown
    <3>1. crom[u] = Content("rom_socket", u) /\ RomThere \in Nat /\ RomThere <= 2 * Banks
      BY <2>1, <2>3 DEF RomRight
    <3>2. Shown = {ReadRom(b, h) : b \in {b \in Selectable : mode.kind = "mbx" \/ b < Banks}, h \in {0, 1}}
      BY DEF Shown
    <3>3. CASE mode.kind = "mbx"
      <4>0. RomThere <= 4
        BY <2>1, <2>3, <3>3 DEF RomRight
      <4>1. u \in 0..3
        BY <3>1, <4>0
      <4>2. Selectable = 0..3
        BY <2>1, <3>3, PowerIs DEF Selectable
      <4>3. ReadRom(u, 1) = crom[u % 4] /\ u % 4 = u
        BY <3>3, <4>1 DEF ReadRom
      <4> QED
        BY <3>1, <3>2, <3>3, <4>1, <4>2, <4>3
    <3>4. CASE mode.kind # "mbx"
      <4> DEFINE b == u \div 2
                 h == u % 2
      <4>1. mode.width \in 0..8 /\ RomThere <= 2 * Power[mode.width]
        BY <2>1, <2>3, <3>4 DEF RomRight
      <4>2. Power[mode.width] \in Nat \ {0} /\ Banks \in Nat
        <5>1. Power[mode.width] \in Nat \ {0}
          BY <2>2, PowersAre
        <5>2. Banks \in Nat
          BY UnitsAre
        <5> QED
          BY <5>1, <5>2
      <4>3. u \in Nat /\ u < RomThere
        BY <3>1
      <4>4. u = 2 * b + h /\ h \in {0, 1} /\ b \in Nat
        BY <4>3
      <4> HIDE DEF b, h
      <4>5. b < Banks /\ b < Power[mode.width]
        BY <3>1, <4>1, <4>2, <4>3, <4>4
      <4>6. Selectable = 0..Power[mode.width] - 1
        BY <4>1 DEF Selectable
      <4>7. b \in Selectable
        BY <4>2, <4>4, <4>5, <4>6
      <4>8. ReadRom(b, h) = crom[u]
        BY <3>4, <4>4 DEF ReadRom
      <4> QED
        BY <3>1, <3>2, <4>4, <4>5, <4>7, <4>8
    <3> QED
      BY <3>3, <3>4
  <2>4. ASSUME Used("rom2_socket"), mode.kind # "mbx", NEW h \in 0..Smaller(Size("rom2_socket"), 2)-1
        PROVE  ReadRom(1, h) = Content("rom2_socket", h)
    <3>1. crom[2 + h] = Content("rom2_socket", h)
      BY <2>1, <2>4 DEF Rom2Right
    <3>2. ReadRom(1, h) = crom[2 * 1 + h]
      BY <2>4 DEF ReadRom
    <3> QED
      BY <3>1, <3>2
  <2>5. ASSUME Used("rom_socket"), mode.width > 1, mode.kind # "mbx"
        PROVE  Size("rom_socket") > 2 * Power[mode.width - 1]
    BY <2>1, <2>5 DEF RomRight
  <2> QED
    BY <2>1, <2>3, <2>4, <2>5 DEF AsLaidOut, GromsRight, RomThere
<1> QED
  BY <1>1, CartridgeAlways, PTL
=============================================================================
