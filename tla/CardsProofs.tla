---------------------------- MODULE CardsProofs ----------------------------
(***************************************************************************)
(* Proofs about Cards: whatever the cards do, a transfer reaches the card  *)
(* that the file was opened on, and a card is refused only for a reason.   *)
(* And, in the second part, about FatDirectory: a directory on a card      *)
(* lists each file once and shows nothing that was not written in it.      *)
(*                                                                         *)
(* The second argument follows the end mark, in front of which everything  *)
(* is read: until a save has blanked all the slots up to the new mark, the *)
(* old one stays (ExtendInv), or the slots in front of which there is none *)
(* hold nothing that looks like an entry (RawInv); then the new entries    *)
(* come from the front on (FillInv), the part that is searched for last.   *)
(***************************************************************************)
EXTENDS Cards, FatDirectory, FiniteSetTheorems, WellFoundedInduction, SequenceTheorems, TLAPS

Looks     == {"fs pre", "fs io", "fs post", "fs done"}   \* in fatfs_check_fs
Transfers == {"aim", "pre", "io", "post", "done"}
Aims      == {<<>>} \cup [geo : Cards \cup {NoCard}, type : Types]

Calls ==
  [pc : {"enter", "activate"} \cup Looks \cup Transfers, op : {"open", "read", "write"},
   slot : Slots, n : Nat, h : Handles, todo : Seq({"read", "write"}), tries : Nat,
   aim : Aims, fsaim : {Block0} \cup Types, part : BOOLEAN, got : Cards \cup {NoCard},
   fs : BOOLEAN, new : BOOLEAN, then : {"aim", "opened"}]

TypeOK ==
  /\ card \in [Slots -> Cards \cup {NoCard}]
  /\ awake \in [Slots -> BOOLEAN] /\ changed \in [Slots -> BOOLEAN]
  /\ sel \in Slots /\ last_cn \in Slots
  /\ type \in [Slots -> Types] /\ count \in [Slots -> Nat]
  /\ geo \in Cards \cup {NoCard}
  /\ file \in [Handles -> [slot : Slots, n : Nat, card : Cards \cup {NoCard}]]
  /\ call \in Calls \cup {Idle}

\* The card in the slot has been activated, and passes for what it is.
Known(s) == awake[s] /\ Usable(type[s])

Identified == \A s \in Slots : Known(s) => card[s] # NoCard /\ type[s] = TypeOf(card[s])

\* The count of a slot tells the cards that handles were opened on apart; an
\* id that may be taken back is no handle's yet.
HandlesTell ==
  \A h \in Handles : file[h] # NoFile =>
    LET s == file[h].slot IN
    /\ file[h].n <= count[s]
    /\ Known(s) /\ file[h].n = count[s] => file[h].card = card[s]
    /\ Busy /\ call.new /\ s = call.slot => file[h].n < count[s]

\* The parameters are those of the slot that was used last.
GeoKnown ==
  call.pc \notin Looks \cup {"activate"} /\ Known(last_cn) => geo = card[last_cn]

Shape ==
  /\ call.fs <=> call.pc \in Looks
  /\ call.new => call.fs /\ count[call.slot] > 0
  /\ call.op = "open" => call.pc \notin Transfers
  /\ call.op # "open" =>
       /\ call.pc # "activate" /\ ~call.new /\ call.todo # <<>>
       /\ file[call.h] # NoFile /\ call.slot = file[call.h].slot /\ call.n = file[call.h].n
  /\ call.fs => (call.then = "opened" <=> call.op = "open")
  /\ call.pc # "enter" => sel = call.slot /\ last_cn = call.slot
  /\ call.pc \in Looks \cup Transfers => Usable(type[call.slot]) /\ count[call.slot] = call.n

Aimed ==
  awake[call.slot] =>
    LET c == card[call.slot] IN
    /\ call.pc \in {"pre", "io"} => call.aim = [geo |-> c, type |-> TypeOf(c)]
    /\ call.pc = "io" /\ call.todo[1] = "write" => ~Kind[c].wp
    /\ call.pc \in Looks => call.fsaim \in {Block0, TypeOf(c)}
    /\ call.pc \in {"fs post", "fs done"} => call.got = c

CardsInv == TypeOK /\ Identified /\ HandlesTell /\ GeoKnown /\ (Busy => Shape /\ Aimed)

-----------------------------------------------------------------------------
\* A call under way is one.
LEMMA CallInCalls ==
  ASSUME TypeOK, Busy
  PROVE  /\ call \in Calls /\ call.slot \in Slots /\ call.n \in Nat /\ call.h \in Handles
         /\ call.fs \in BOOLEAN /\ call.new \in BOOLEAN /\ call.pc # "idle"
BY DEF TypeOK, Busy, Idle, Calls

\* What is in the slots once the invariant is known to hold of the rest.
LEMMA WhileIdle ==
  ASSUME call' = Idle
  PROVE  ~Busy' /\ call'.pc = "idle"
BY DEF Busy, Idle

\* A card that comes or goes is not awake: nothing is claimed of it.
LEMMA MovedKeeps ==
  ASSUME CardsInv, NEW s \in Slots, NEW c \in Cards \cup {NoCard},
         card' = [card EXCEPT ![s] = c], awake' = [awake EXCEPT ![s] = FALSE],
         changed' = [changed EXCEPT ![s] = TRUE],
         UNCHANGED <<sel, type, count, last_cn, geo, file, call>>
  PROVE  CardsInv'
<1>1. TypeOK'
  BY DEF CardsInv, TypeOK
<1>2. \A t \in Slots : Known(t)' => t # s /\ Known(t) /\ card'[t] = card[t]
  BY DEF CardsInv, TypeOK, Known
<1>3. Identified'
  BY <1>2 DEF CardsInv, Identified, TypeOf
<1>4. HandlesTell'
  BY <1>2 DEF CardsInv, TypeOK, HandlesTell, Busy
<1>5. GeoKnown'
  BY <1>2 DEF CardsInv, TypeOK, GeoKnown
<1>6. ASSUME Busy'
      PROVE  Shape' /\ Aimed'
  <2>1. Busy /\ Shape /\ Aimed /\ call.slot \in Slots
    BY <1>6, CallInCalls DEF CardsInv, Busy
  <2>2. Shape'
    BY <2>1 DEF Shape
  <2>3. awake'[call.slot] => call.slot # s /\ awake[call.slot] /\ card'[call.slot] = card[call.slot]
    BY <2>1 DEF CardsInv, TypeOK
  <2>4. Aimed'
    BY <2>1, <2>3 DEF Aimed, TypeOf
  <2> QED
    BY <2>2, <2>4
<1> QED
  BY <1>1, <1>3, <1>4, <1>5, <1>6 DEF CardsInv

\* A call that ends: the slot's card is known no more, or what is known of it
\* is what was known before.
LEMMA EndedKeeps ==
  ASSUME CardsInv, Busy, UNCHANGED <<card, awake, geo, file, last_cn>>,
         sel' \in Slots, changed' \in [Slots -> BOOLEAN], call' = Idle,
         NEW t \in Types, type' = [type EXCEPT ![call.slot] = t],
         Usable(t) => t = type[call.slot] /\ call.pc \notin Looks \cup {"activate"},
         count' = IF call.new THEN [count EXCEPT ![call.slot] = @ - 1] ELSE count
  PROVE  CardsInv'
<1>1. /\ call \in Calls /\ call.slot \in Slots /\ Shape /\ TypeOK
      /\ call.new => ~Usable(t) /\ count[call.slot] > 0
  <2>1. call.new => call.pc \in Looks /\ count[call.slot] > 0
    BY DEF CardsInv, Shape
  <2> QED
    BY <2>1, CallInCalls DEF CardsInv
<1>2. ~Busy' /\ call'.pc = "idle"
  BY WhileIdle
<1>3. TypeOK'
  <2>1. count' \in [Slots -> Nat]
    <3>1. CASE call.new
      BY <1>1, <3>1 DEF TypeOK
    <3>2. CASE ~call.new
      BY <1>1, <3>2 DEF TypeOK
    <3> QED
      BY <3>1, <3>2
  <2> QED
    BY <1>1, <2>1 DEF TypeOK
<1>4. \A s \in Slots : Known(s)' => Known(s) /\ type'[s] = type[s]
  BY <1>1 DEF TypeOK, Known
<1>5. Identified'
  BY <1>4 DEF CardsInv, Identified, TypeOf
<1>6. HandlesTell'
  <2> SUFFICES ASSUME NEW h \in Handles, file[h] # NoFile
               PROVE  /\ file[h].n <= count'[file[h].slot]
                      /\ Known(file[h].slot)' /\ file[h].n = count'[file[h].slot] =>
                           file[h].card = card[file[h].slot]
    BY <1>2 DEF HandlesTell
  <2> DEFINE s == file[h].slot
  <2>1. s \in Slots /\ file[h].n \in Nat /\ count[s] \in Nat
    BY <1>1 DEF TypeOK
  <2>2. /\ file[h].n <= count[s]
        /\ Known(s) /\ file[h].n = count[s] => file[h].card = card[s]
        /\ call.new /\ s = call.slot => file[h].n < count[s]
    BY DEF CardsInv, HandlesTell
  <2>3. CASE call.new /\ s = call.slot
    <3>1. count'[s] = count[s] - 1 /\ type'[s] = t
      BY <1>1, <2>1, <2>3 DEF TypeOK
    <3>2. ~Known(s)'
      BY <1>1, <2>3, <3>1 DEF Known
    <3> QED
      BY <2>1, <2>2, <2>3, <3>1, <3>2
  <2>4. CASE ~(call.new /\ s = call.slot)
    <3>1. count'[s] = count[s]
      BY <1>1, <2>1, <2>4 DEF TypeOK
    <3> QED
      BY <1>4, <2>1, <2>2, <3>1
  <2> QED
    BY <2>3, <2>4
<1>7. GeoKnown'
  <2> SUFFICES ASSUME Known(last_cn)'
               PROVE  geo = card[last_cn]
    BY DEF GeoKnown
  <2>1. Known(last_cn) /\ last_cn \in Slots
    BY <1>1, <1>4 DEF TypeOK
  <2>2. call.pc \notin Looks \cup {"activate"}
    <3>1. CASE last_cn = call.slot
      <4>1. type'[last_cn] = t
        BY <1>1, <3>1 DEF TypeOK
      <4> QED
        BY <4>1 DEF Known
    <3>2. CASE last_cn # call.slot
      BY <1>1, <3>2 DEF Shape, Looks
    <3> QED
      BY <3>1, <3>2
  <2> QED
    BY <2>1, <2>2 DEF CardsInv, GeoKnown
<1> QED
  BY <1>2, <1>3, <1>5, <1>6, <1>7 DEF CardsInv

\* A call that goes on: what is left to show is about the call itself.
LEMMA GoesOn ==
  ASSUME CardsInv, Busy, UNCHANGED <<card, awake, type, count, file>>,
         sel' \in Slots, last_cn' \in Slots, geo' \in Cards \cup {NoCard},
         changed' \in [Slots -> BOOLEAN],
         call' \in Calls, call'.slot = call.slot, call'.new = call.new,
         GeoKnown', Shape', Aimed'
  PROVE  CardsInv'
<1>1. TypeOK'
  BY DEF CardsInv, TypeOK
<1>2. Identified'
  BY DEF CardsInv, Identified, Known, TypeOf
<1>3. HandlesTell'
  BY DEF CardsInv, HandlesTell, Known
<1> QED
  BY <1>1, <1>2, <1>3 DEF CardsInv

\* A call that goes on from pc to another place, all else as it was.
LEMMA NextPc ==
  ASSUME call \in Calls, NEW pc \in Looks \cup Transfers, call' = [call EXCEPT !.pc = pc]
  PROVE  /\ call' \in Calls /\ call'.pc = pc
         /\ call'.op = call.op /\ call'.slot = call.slot /\ call'.n = call.n /\ call'.h = call.h
         /\ call'.todo = call.todo /\ call'.aim = call.aim /\ call'.fsaim = call.fsaim
         /\ call'.got = call.got /\ call'.fs = call.fs /\ call'.new = call.new
         /\ call'.then = call.then
BY DEF Calls

\* The check of a handle's card keeps the invariant.
LEMMA CheckKeeps ==
  ASSUME CardsInv, Busy, NEW pc, Check(pc),
         <<call.pc, pc>> \in {<<"enter", "aim">>, <<"pre", "io">>, <<"post", "done">>,
                              <<"fs pre", "fs io">>, <<"fs post", "fs done">>},
         call.pc = "enter" => call.op # "open"
  PROVE  CardsInv'
<1> DEFINE s == call.slot
<1>1. /\ TypeOK /\ Shape /\ Aimed /\ call \in Calls /\ s \in Slots /\ call.n \in Nat
      /\ pc \in Looks \cup Transfers /\ call.pc # "activate"
  BY CallInCalls DEF CardsInv, Looks, Transfers
<1>2. /\ UNCHANGED <<card, awake, geo, file>> /\ sel' = s
      /\ changed' = Latches(s) /\ changed' \in [Slots -> BOOLEAN]
  BY <1>1 DEF Check, Look, Latches, TypeOK
<1>3. CASE ~Same(s)
  <2> DEFINE t == IF call.fs THEN "invalid" ELSE Seen(s)
  <2>1. /\ call' = Idle /\ type' = [type EXCEPT ![s] = t] /\ UNCHANGED last_cn
        /\ count' = IF call.new THEN [count EXCEPT ![s] = @ - 1] ELSE count
    BY <1>3 DEF Check, GiveUp, Return
  <2>2. t \in Types /\ (Usable(t) => t = type[s] /\ ~call.fs)
    BY <1>1 DEF Seen, Types, Usable, TypeOK
  <2>3. ~call.fs => call.pc \notin Looks \cup {"activate"}
    BY <1>1 DEF Shape
  <2> HIDE DEF t
  <2> QED
    BY <1>1, <1>2, <2>1, <2>2, <2>3, EndedKeeps
<1>4. ASSUME Same(s)
      PROVE  Usable(type[s]) /\ count[s] = call.n /\ card[s] # NoCard
    BY <1>4 DEF Same, Seen, Settled, Usable
<1>5. CASE Same(s) /\ Writing /\ Kind[card[s]].wp
  <2>1. call' = Idle /\ UNCHANGED <<type, count, last_cn>>
    BY <1>5 DEF Check, Return
  <2>2. ~call.fs /\ call.pc \notin Looks \cup {"activate"} /\ ~call.new
    BY <1>1, <1>5 DEF Writing, Shape
  <2>3. type' = [type EXCEPT ![s] = type[s]] /\ type[s] \in Types
    BY <1>1, <2>1 DEF TypeOK
  <2> QED
    BY <1>1, <1>2, <2>1, <2>2, <2>3, EndedKeeps
<1>6. CASE Same(s) /\ ~(Writing /\ Kind[card[s]].wp) /\ s # last_cn
  <2>1. call' = CheckFs(call.n, pc, Block0) /\ last_cn' = s /\ UNCHANGED <<type, count>>
    BY <1>6 DEF Check
  <2>2. call.pc = "enter" /\ pc = "aim" /\ call.op # "open"
    BY <1>1, <1>6 DEF Shape
  <2>3. /\ call' \in Calls /\ call'.pc = "fs pre" /\ call'.n = call.n /\ call'.fs
        /\ call'.then = "aim" /\ call'.fsaim = Block0
        /\ call'.op = call.op /\ call'.slot = s /\ call'.h = call.h /\ call'.todo = call.todo
        /\ call'.new = call.new
    <3>1. call' = CheckFs(call.n, "aim", Block0)
      BY <2>1, <2>2
    <3> QED
      BY <1>1, <3>1 DEF CheckFs, Calls, Looks
  <2>4. GeoKnown'
    BY <2>3 DEF GeoKnown, Looks
  <2>5. Shape'
    BY ZenonT(60), <1>1, <1>2, <1>4, <1>6, <2>1, <2>2, <2>3 DEF Shape, Looks, Transfers
  <2>6. Aimed'
    BY <2>3 DEF Aimed
  <2>7. geo' \in Cards \cup {NoCard}
    BY <1>1, <1>2 DEF TypeOK
  <2> QED
    BY <1>1, <1>2, <2>1, <2>3, <2>4, <2>5, <2>6, <2>7, GoesOn
<1>7. CASE Same(s) /\ ~(Writing /\ Kind[card[s]].wp) /\ s = last_cn
  <2>1. call' = [call EXCEPT !.pc = pc] /\ last_cn' = s /\ UNCHANGED <<type, count>>
    BY <1>7 DEF Check
  <2>2. /\ call' \in Calls /\ call'.pc = pc
        /\ call'.op = call.op /\ call'.slot = s /\ call'.n = call.n /\ call'.h = call.h
        /\ call'.todo = call.todo /\ call'.aim = call.aim /\ call'.fsaim = call.fsaim
        /\ call'.got = call.got /\ call'.fs = call.fs /\ call'.new = call.new
        /\ call'.then = call.then
    BY <1>1, <2>1, NextPc
  <2>3. GeoKnown'
    BY <1>2, <1>7, <2>1, <2>2 DEF CardsInv, GeoKnown, Known, Looks
  <2>4. Shape'
    BY <1>1, <1>2, <1>4, <1>7, <2>1, <2>2 DEF Shape, Looks, Transfers
  <2>5. Aimed'
    <3>1. pc = "io" /\ call.todo[1] = "write" => ~Kind[card[s]].wp
      <4>1. pc = "io" => call.pc = "pre" /\ ~call.fs /\ call.op # "open"
        BY <1>1 DEF Shape, Looks, Transfers
      <4> QED
        BY <1>1, <1>7, <4>1 DEF Writing, Shape
    <3> QED
      BY <1>1, <1>2, <2>2, <3>1 DEF Aimed, Looks, TypeOf
  <2>6. geo' \in Cards \cup {NoCard}
    BY <1>1, <1>2 DEF TypeOK
  <2> QED
    BY <1>1, <1>2, <2>1, <2>2, <2>3, <2>4, <2>5, <2>6, GoesOn
<1> QED
  BY <1>3, <1>5, <1>6, <1>7

\* A handle that is opened gets the id of the card that is there.
LEMMA OpenedKeeps ==
  ASSUME CardsInv, Busy, UNCHANGED <<card, awake, type, count, last_cn>>,
         sel' \in Slots, changed' \in [Slots -> BOOLEAN],
         NEW c \in Cards \cup {NoCard}, Opened(call.slot, count[call.slot], c),
         awake[call.slot] => c = card[call.slot],
         geo' \in Cards \cup {NoCard}, Known(last_cn) => geo' = card[last_cn]
  PROVE  CardsInv'
<1> DEFINE s == call.slot
           f == [slot |-> s, n |-> count[s], card |-> c]
<1>1. /\ TypeOK /\ s \in Slots /\ call.h \in Handles /\ count[s] \in Nat /\ file \in [Handles -> [slot : Slots, n : Nat, card : Cards \cup {NoCard}]]
      /\ file' = [file EXCEPT ![call.h] = f] /\ call' = Idle
  BY CallInCalls DEF CardsInv, TypeOK, Opened, Return
<1>2. ~Busy' /\ call'.pc = "idle"
  BY <1>1, WhileIdle
<1>3. f \in [slot : Slots, n : Nat, card : Cards \cup {NoCard}] /\ f.slot = s /\ f.n = count[s] /\ f.card = c
  BY <1>1
<1> HIDE DEF f
<1>4. TypeOK'
  BY <1>1, <1>3 DEF TypeOK
<1>5. Identified'
  BY DEF CardsInv, Identified, Known, TypeOf
<1>6. HandlesTell'
  <2> SUFFICES ASSUME NEW h \in Handles, file'[h] # NoFile
               PROVE  /\ file'[h].n <= count[file'[h].slot]
                      /\ Known(file'[h].slot) /\ file'[h].n = count[file'[h].slot] =>
                           file'[h].card = card[file'[h].slot]
    BY <1>2 DEF HandlesTell, Known
  <2>1. CASE h = call.h
    <3>1. file'[h] = f
      BY <1>1, <2>1
    <3> QED
      BY <1>1, <1>3, <3>1 DEF Known
  <2>2. CASE h # call.h
    <3>1. file'[h] = file[h]
      BY <1>1, <2>2
    <3> QED
      BY <3>1 DEF CardsInv, HandlesTell
  <2> QED
    BY <2>1, <2>2
<1>7. GeoKnown'
  BY <1>2 DEF GeoKnown, Known
<1> QED
  BY <1>2, <1>4, <1>5, <1>6, <1>7 DEF CardsInv

\* Calls that begin, and choosing a slot, keep the invariant.
LEMMA CallsKeep ==
  ASSUME CardsInv, \/ \E s \in Slots : SelectSlot(s)
                   \/ \E h \in Handles : OpenRoot(h) \/ \E t \in Todos : Access(h, t)
  PROVE  CardsInv'
<1>1. ~Busy /\ UNCHANGED <<card, awake, changed, type, count, last_cn, geo, file>>
  BY DEF SelectSlot, OpenRoot, Access, hardware
<1>2. TypeOK /\ call.pc = "idle" /\ call.pc \notin Looks \cup {"activate"}
  BY <1>1 DEF CardsInv, Busy, Looks
<1>3. Identified'
  BY <1>1 DEF CardsInv, Identified, Known, TypeOf
<1>4. \A h \in Handles : file[h] # NoFile =>
        /\ file[h].n <= count[file[h].slot]
        /\ Known(file[h].slot) /\ file[h].n = count[file[h].slot] =>
             file[h].card = card[file[h].slot]
  BY DEF CardsInv, HandlesTell
<1>5. Known(last_cn) => geo = card[last_cn]
  BY <1>2 DEF CardsInv, GeoKnown
<1>6. ASSUME NEW s \in Slots, SelectSlot(s)
      PROVE  CardsInv'
  <2>1. sel' = s /\ UNCHANGED call
    BY <1>6 DEF SelectSlot
  <2>2. TypeOK'
    BY <1>1, <1>2, <2>1 DEF TypeOK
  <2>3. ~Busy'
    BY <1>1, <2>1 DEF Busy
  <2>4. HandlesTell'
    BY <1>1, <1>4, <2>3 DEF HandlesTell, Known
  <2>5. GeoKnown'
    BY <1>1, <1>5 DEF GeoKnown, Known
  <2> QED
    BY <1>3, <2>2, <2>3, <2>4, <2>5 DEF CardsInv
<1>7. ASSUME UNCHANGED sel, NEW kind \in {"open", "read", "write"}, NEW s \in Slots, NEW n \in Nat,
             NEW h \in Handles, NEW todo \in Seq({"read", "write"}),
             call' = NewCall(kind, s, n, h, todo),
             kind # "open" => todo # <<>> /\ file[h] # NoFile /\ s = file[h].slot /\ n = file[h].n
      PROVE  CardsInv'
  <2>1. /\ call' \in Calls /\ call'.pc = "enter" /\ call'.op = kind /\ call'.slot = s /\ call'.n = n
        /\ call'.h = h /\ call'.todo = todo /\ ~call'.fs /\ ~call'.new
    BY <1>7 DEF NewCall, Calls, Aims
  <2>2. TypeOK'
    BY <1>1, <1>2, <1>7, <2>1 DEF TypeOK
  <2>3. HandlesTell'
    BY <1>1, <1>4, <2>1 DEF HandlesTell, Known
  <2>4. GeoKnown'
    BY <1>1, <1>5 DEF GeoKnown, Known
  <2>5. Shape'
    BY <1>1, <1>7, <2>1 DEF Shape, Looks, Transfers
  <2>6. Aimed'
    BY <2>1 DEF Aimed, Looks
  <2> QED
    BY <1>3, <2>2, <2>3, <2>4, <2>5, <2>6 DEF CardsInv
<1>8. ASSUME NEW h \in Handles, OpenRoot(h)
      PROVE  CardsInv'
  <2>1. UNCHANGED sel /\ call' = NewCall("open", sel, 0, h, <<>>) /\ sel \in Slots
        /\ <<>> \in Seq({"read", "write"})
    BY <1>2, <1>8 DEF OpenRoot, TypeOK
  <2> QED
    BY <1>7, <2>1
<1>9. ASSUME NEW h \in Handles, NEW todo \in Todos, Access(h, todo)
      PROVE  CardsInv'
  <2>1. PICK kind \in {"read", "write"} : call' = NewCall(kind, file[h].slot, file[h].n, h, todo)
    BY <1>9 DEF Access
  <2>2. UNCHANGED sel /\ file[h] # NoFile /\ file[h].slot \in Slots /\ file[h].n \in Nat
    BY <1>2, <1>9 DEF Access, TypeOK
  <2>3. todo \in Seq({"read", "write"}) /\ todo # <<>>
    <3>1. todo = <<"read">> \/ todo = <<"write">> \/ todo = <<"read", "write">>
      BY DEF Todos
    <3>2. <<"read">> \in Seq({"read", "write"}) /\ <<"write">> \in Seq({"read", "write"})
      OBVIOUS
    <3>3. <<"read", "write">> \in Seq({"read", "write"})
      OBVIOUS
    <3>4. <<"read">> # <<>> /\ <<"write">> # <<>> /\ <<"read", "write">> # <<>>
      OBVIOUS
    <3>5. CASE todo = <<"read">>
      BY <3>2, <3>4, <3>5
    <3>6. CASE todo = <<"write">>
      BY <3>2, <3>4, <3>6
    <3>7. CASE todo = <<"read", "write">>
      BY <3>3, <3>4, <3>7
    <3> QED
      BY <3>1, <3>5, <3>6, <3>7
  <2>4. PICK s \in Slots : s = file[h].slot
    BY <2>2
  <2>5. PICK n \in Nat : n = file[h].n
    BY <2>2
  <2>6. call' = NewCall(kind, s, n, h, todo) /\ kind \in {"open", "read", "write"}
    BY <2>1, <2>4, <2>5
  <2> QED
    BY <1>7, <2>2, <2>3, <2>4, <2>5, <2>6
<1> QED
  BY <1>6, <1>8, <1>9

\* Facts about a call that is under way.
LEMMA UnderWay ==
  ASSUME CardsInv, Busy
  PROVE  /\ TypeOK /\ Shape /\ Aimed /\ call \in Calls /\ call.slot \in Slots /\ call.n \in Nat
         /\ type[call.slot] \in Types /\ geo \in Cards \cup {NoCard}
BY CallInCalls DEF CardsInv, TypeOK

\* So does looking at a card whose root directory is opened,
LEMMA EnterOpenKeeps ==
  ASSUME CardsInv, EnterOpen
  PROVE  CardsInv'
<1> DEFINE s == call.slot
<1>1. Busy /\ call.pc = "enter" /\ call.op = "open"
  BY DEF EnterOpen, Busy
<1>2. /\ TypeOK /\ Shape /\ call \in Calls /\ s \in Slots /\ type[s] \in Types
      /\ ~call.fs /\ ~call.new /\ call.pc \notin Looks \cup {"activate"}
  BY <1>1, UnderWay DEF Shape, Looks
<1>3. /\ UNCHANGED <<card, awake, count, geo>> /\ sel' = s /\ type' = [type EXCEPT ![s] = Seen(s)]
      /\ changed' \in [Slots -> BOOLEAN]
  BY <1>2 DEF EnterOpen, Look, Latches, TypeOK
<1>4. Seen(s) \in Types /\ (Usable(Seen(s)) => Seen(s) = type[s] /\ UNCHANGED type)
  BY <1>2, <1>3 DEF Seen, Usable, Types, TypeOK
<1>5. CASE call' = Idle /\ UNCHANGED <<last_cn, file>>
  BY <1>1, <1>2, <1>3, <1>4, <1>5, EndedKeeps
<1>6. CASE Usable(Seen(s)) /\ s = last_cn /\ Opened(s, count[s], card[s]) /\ UNCHANGED last_cn
  <2>1. Known(last_cn) => geo' = card[last_cn]
    BY <1>1, <1>2, <1>3 DEF CardsInv, GeoKnown
  <2>2. geo' \in Cards \cup {NoCard} /\ card[s] \in Cards \cup {NoCard}
    BY <1>2, <1>3 DEF TypeOK
  <2> QED
    BY <1>1, <1>2, <1>3, <1>4, <1>6, <2>1, <2>2, OpenedKeeps
<1>7. CASE Usable(Seen(s)) /\ last_cn' = s /\ call' = CheckFs(count[s], "opened", Block0)
           /\ UNCHANGED file
  <2>1. count[s] \in Nat /\ geo' \in Cards \cup {NoCard}
    BY <1>2, <1>3 DEF TypeOK
  <2>2. /\ call' \in Calls /\ call'.pc = "fs pre" /\ call'.n = count[s] /\ call'.fs
        /\ call'.then = "opened" /\ call'.fsaim = Block0
        /\ call'.op = "open" /\ call'.slot = s /\ call'.new = call.new
    BY <1>1, <1>2, <1>7, <2>1 DEF CheckFs, Calls, Looks
  <2>3. GeoKnown'
    BY <2>2 DEF GeoKnown, Looks
  <2>4. Shape'
    BY <1>2, <1>3, <1>4, <1>7, <2>2 DEF Shape, Looks, Transfers
  <2>5. Aimed'
    BY <2>2 DEF Aimed
  <2> QED
    BY <1>1, <1>2, <1>3, <1>4, <1>7, <2>1, <2>2, <2>3, <2>4, <2>5, GoesOn
<1>8. CASE Seen(s) = "removed" /\ last_cn' = s /\ call' = [call EXCEPT !.pc = "activate"]
           /\ UNCHANGED file
  <2>1. /\ call' \in Calls /\ call'.pc = "activate" /\ call'.op = "open" /\ call'.slot = s
        /\ call'.fs = call.fs /\ call'.new = call.new
    BY <1>1, <1>2, <1>8 DEF Calls
  <2>2. \A t \in Slots : Known(t)' => Known(t) /\ type'[t] = type[t]
    BY <1>2, <1>3, <1>4 DEF Known, TypeOK
  <2>3. TypeOK'
    BY <1>2, <1>3, <1>4, <1>8, <2>1 DEF TypeOK
  <2>4. Identified'
    BY <1>3, <2>2 DEF CardsInv, Identified, TypeOf
  <2>5. HandlesTell'
    BY <1>2, <1>3, <1>8, <2>1, <2>2 DEF CardsInv, HandlesTell, TypeOK
  <2>6. GeoKnown'
    BY <2>1 DEF GeoKnown
  <2>7. Shape' /\ Aimed'
    BY <1>2, <1>3, <1>8, <2>1 DEF Shape, Aimed, Looks, Transfers
  <2> QED
    BY <2>3, <2>4, <2>5, <2>6, <2>7 DEF CardsInv
<1> QED
  BY <1>5, <1>6, <1>7, <1>8 DEF EnterOpen, Return

\* activating it,
LEMMA ActivateKeeps ==
  ASSUME CardsInv, Activate
  PROVE  CardsInv'
<1> DEFINE s == call.slot
           c == card[s]
<1>1. Busy /\ call.pc = "activate"
  BY DEF Activate, Busy
<1>2. /\ TypeOK /\ Shape /\ call \in Calls /\ s \in Slots /\ ~call.fs /\ ~call.new
      /\ call.op = "open" /\ sel = s /\ last_cn = s
  BY <1>1, UnderWay DEF Shape, Looks
<1>3. UNCHANGED <<card, changed, sel, last_cn, geo, file>>
  BY DEF Activate
<1>4. ASSUME NEW t \in {"removed", "invalid"}, type' = [type EXCEPT ![s] = t], call' = Idle,
             UNCHANGED <<awake, count>>
      PROVE  CardsInv'
  <2>1. t \in Types /\ ~Usable(t)
    BY DEF Types, Usable
  <2>2. sel' \in Slots /\ changed' \in [Slots -> BOOLEAN]
    BY <1>2, <1>3 DEF TypeOK
  <2> QED
    BY <1>1, <1>2, <1>3, <1>4, <2>1, <2>2, EndedKeeps
<1>5. CASE /\ c # NoCard /\ awake' = [awake EXCEPT ![s] = TRUE]
           /\ type' = [type EXCEPT ![s] = TypeOf(c)] /\ count' = NextId(s)
           /\ call' = [CheckFs(count'[s], "opened", Block0) EXCEPT !.new = TRUE]
  <2>1. /\ TypeOf(c) \in Types /\ Usable(TypeOf(c)) /\ count[s] \in Nat /\ count'[s] = count[s] + 1
        /\ count' = [count EXCEPT ![s] = @ + 1] /\ type'[s] = TypeOf(c)
    BY <1>2, <1>5 DEF NextId, TypeOK, TypeOf, Types, Usable
  <2>2. /\ call' \in Calls /\ call'.pc = "fs pre" /\ call'.n = count'[s] /\ call'.fs
        /\ call'.then = "opened" /\ call'.fsaim = Block0
        /\ call'.op = "open" /\ call'.slot = s /\ call'.new
    <3>1. PICK n \in Nat : n = count'[s]
      BY <2>1
    <3>2. call' = [CheckFs(n, "opened", Block0) EXCEPT !.new = TRUE]
      BY <1>5, <3>1
    <3> QED
      BY <1>2, <3>1, <3>2 DEF CheckFs, Calls, Looks
  <2>3. TypeOK'
    <3>1. awake' \in [Slots -> BOOLEAN] /\ count' \in [Slots -> Nat] /\ type' \in [Slots -> Types]
      <4>1. awake' \in [Slots -> BOOLEAN]
        BY <1>2, <1>5 DEF TypeOK
      <4>2. count' \in [Slots -> Nat]
        BY <1>2, <2>1 DEF TypeOK
      <4>3. type' \in [Slots -> Types]
        BY <1>2, <1>5, <2>1 DEF TypeOK
      <4> QED
        BY <4>1, <4>2, <4>3
    <3> QED
      BY <1>2, <1>3, <2>2, <3>1 DEF TypeOK
  <2>4. \A t \in Slots \ {s} : (Known(t)' <=> Known(t)) /\ type'[t] = type[t] /\ count'[t] = count[t]
    BY <1>2, <1>5, <2>1 DEF Known, TypeOK
  <2>5. Identified'
    <3> SUFFICES ASSUME NEW t \in Slots, Known(t)'
                 PROVE  card[t] # NoCard /\ type'[t] = TypeOf(card[t])
      BY <1>3 DEF Identified, TypeOf
    <3>1. CASE t = s
      BY <1>5, <2>1, <3>1
    <3>2. CASE t # s
      BY <2>4, <3>2 DEF CardsInv, Identified
    <3> QED
      BY <3>1, <3>2
  <2>6. HandlesTell'
    <3> SUFFICES ASSUME NEW h \in Handles, file[h] # NoFile
                 PROVE  /\ file[h].n <= count'[file[h].slot]
                        /\ Known(file[h].slot)' /\ file[h].n = count'[file[h].slot] =>
                             file[h].card = card[file[h].slot]
                        /\ s = file[h].slot => file[h].n < count'[file[h].slot]
      BY <1>3, <2>2 DEF HandlesTell
    <3>1. /\ file[h].slot \in Slots /\ file[h].n \in Nat /\ file[h].n <= count[file[h].slot]
          /\ Known(file[h].slot) /\ file[h].n = count[file[h].slot] =>
               file[h].card = card[file[h].slot]
      BY <1>2 DEF CardsInv, HandlesTell, TypeOK
    <3>2. CASE file[h].slot = s
      BY <2>1, <3>1, <3>2
    <3>3. CASE file[h].slot # s
      <4>1. PICK t \in Slots \ {s} : t = file[h].slot /\ file' = file
        BY <1>3, <3>1, <3>3
      <4>2. /\ file[h].n <= count'[t]
            /\ Known(t)' /\ file[h].n = count'[t] => file[h].card = card[t]
        BY <2>4, <3>1, <4>1
      <4> QED
        BY <3>3, <4>1, <4>2
    <3> QED
      BY <3>2, <3>3
  <2>7. GeoKnown'
    BY <2>2 DEF GeoKnown, Looks
  <2>8. Shape'
    <3>1. Usable(type'[s]) /\ count'[s] > 0
      BY <2>1
    <3>2. sel' = s /\ last_cn' = s
      BY <1>2, <1>3
    <3> QED
      BY <2>2, <3>1, <3>2 DEF Shape, Looks, Transfers
  <2>9. Aimed'
    BY <2>2 DEF Aimed
  <2> QED
    BY <2>3, <2>5, <2>6, <2>7, <2>8, <2>9 DEF CardsInv
<1> QED
  BY <1>4, <1>5 DEF Activate, Return

\* Where the slot's card is not touched and its parameters are not either.
LEMMA SameCards ==
  ASSUME CardsInv, Busy, UNCHANGED <<card, awake, changed, sel, type, count, last_cn, geo, file>>,
         call' \in Calls, call'.slot = call.slot, call'.new = call.new,
         call'.pc \notin Looks \cup {"activate"} => call.pc \notin Looks \cup {"activate"},
         Shape', Aimed'
  PROVE  CardsInv'
<1>1. /\ sel' \in Slots /\ last_cn' \in Slots /\ geo' \in Cards \cup {NoCard}
      /\ changed' \in [Slots -> BOOLEAN]
  BY DEF CardsInv, TypeOK
<1>2. GeoKnown'
  BY DEF CardsInv, GeoKnown, Known
<1> QED
  BY <1>1, <1>2, GoesOn

\* working out an address,
LEMMA AimKeeps ==
  ASSUME CardsInv, Aim
  PROVE  CardsInv'
<1> DEFINE s == call.slot
           a == [geo |-> geo, type |-> type[s]]
<1>1. Busy /\ call.pc = "aim"
  BY DEF Aim, Busy
<1>2. /\ TypeOK /\ Shape /\ call \in Calls /\ s \in Slots /\ ~call.fs
      /\ call.op # "open" /\ last_cn = s /\ Usable(type[s])
  BY <1>1, UnderWay DEF Shape, Looks, Transfers
<1>3. /\ call' = [call EXCEPT !.pc = "pre", !.tries = 0, !.aim = a]
      /\ UNCHANGED <<card, awake, changed, sel, type, count, last_cn, geo, file>>
  BY DEF Aim, hardware
<1>4. a \in Aims
  BY <1>1, UnderWay DEF Aims
<1>5. awake[s] => a = [geo |-> card[s], type |-> TypeOf(card[s])]
  BY <1>1, <1>2 DEF CardsInv, GeoKnown, Identified, Known, Looks
<1> HIDE DEF a
<1>6. /\ call' \in Calls /\ call'.pc = "pre" /\ call'.aim = a /\ call'.op = call.op
      /\ call'.slot = s /\ call'.n = call.n /\ call'.h = call.h /\ call'.todo = call.todo
      /\ call'.fs = call.fs /\ call'.new = call.new
  BY <1>2, <1>3, <1>4 DEF Calls, Transfers
<1>7. Shape'
  BY <1>1, <1>2, <1>3, <1>6 DEF Shape, Looks, Transfers
<1>8. Aimed'
  BY <1>3, <1>5, <1>6 DEF Aimed, Looks, TypeOf
<1>9. call.pc \notin Looks \cup {"activate"}
  BY <1>1 DEF Looks
<1> QED
  BY <1>1, <1>3, <1>6, <1>7, <1>8, <1>9, SameCards

\* a transfer that works,
LEMMA TransferKeeps ==
  ASSUME CardsInv, Transfer
  PROVE  CardsInv'
<1> DEFINE s == call.slot
           pc == IF call.fs THEN "fs post" ELSE "post"
<1>1. Busy /\ call.pc \in {"io", "fs io"}
  BY DEF Transfer, Busy
<1>2. /\ TypeOK /\ Shape /\ Aimed /\ call \in Calls /\ s \in Slots /\ sel = s
      /\ call.fs <=> call.pc = "fs io"
  BY <1>1, UnderWay DEF Shape, Looks, Transfers
<1>3. /\ call' = [call EXCEPT !.pc = pc, !.got = card[s]]
      /\ UNCHANGED <<card, awake, changed, sel, type, count, last_cn, geo, file>>
  BY <1>2 DEF Transfer, hardware
<1>4. pc \in {"post", "fs post"} /\ (pc = "fs post" <=> call.pc = "fs io")
  BY <1>2
<1> HIDE DEF pc
<1>5. /\ call' \in Calls /\ call'.pc = pc /\ call'.got = card[s] /\ call'.op = call.op
      /\ call'.slot = s /\ call'.n = call.n /\ call'.h = call.h /\ call'.todo = call.todo
      /\ call'.fs = call.fs /\ call'.new = call.new /\ call'.fsaim = call.fsaim
      /\ call'.then = call.then
  <2>1. card[s] \in Cards \cup {NoCard}
    BY <1>2 DEF TypeOK
  <2> QED
    BY <1>2, <1>3, <1>4, <2>1 DEF Calls, Looks, Transfers
<1>6. Shape'
  BY ZenonT(60), <1>1, <1>2, <1>3, <1>4, <1>5 DEF Shape, Looks, Transfers
<1>7. Aimed'
  BY ZenonT(60), <1>1, <1>2, <1>3, <1>4, <1>5 DEF Aimed, Looks, TypeOf
<1>8. call'.pc \notin Looks \cup {"activate"} => call.pc \notin Looks \cup {"activate"}
  BY <1>1, <1>4, <1>5 DEF Looks
<1> QED
  BY <1>1, <1>3, <1>5, <1>6, <1>7, <1>8, SameCards

\* one that fails,
LEMMA FailsKeeps ==
  ASSUME CardsInv, Fails
  PROVE  CardsInv'
<1> DEFINE s == call.slot
           pc == IF call.fs THEN "fs pre" ELSE "pre"
<1>1. Busy /\ call.pc \in {"io", "fs io"}
  BY DEF Fails, Busy
<1>2. /\ TypeOK /\ Shape /\ Aimed /\ call \in Calls /\ s \in Slots
      /\ call.fs <=> call.pc = "fs io"
  BY <1>1, UnderWay DEF Shape, Looks, Transfers
<1>3. UNCHANGED <<card, awake, changed, sel, last_cn, geo, file>>
  BY DEF Fails
<1>4. CASE call' = [call EXCEPT !.pc = pc, !.tries = @ + 1] /\ UNCHANGED <<type, count>>
  <2>1. pc \in {"pre", "fs pre"} /\ (pc = "fs pre" <=> call.pc = "fs io")
    BY <1>2
  <2> HIDE DEF pc
  <2>2. /\ call' \in Calls /\ call'.pc = pc /\ call'.op = call.op
        /\ call'.slot = s /\ call'.n = call.n /\ call'.h = call.h /\ call'.todo = call.todo
        /\ call'.fs = call.fs /\ call'.new = call.new /\ call'.fsaim = call.fsaim
        /\ call'.then = call.then /\ call'.aim = call.aim
    <3>1. PICK n \in Nat : n = call.tries + 1
      <4>1. call \in Calls
        BY <1>2
      <4>2. call.tries \in Nat
        BY <4>1 DEF Calls
      <4> QED
        BY <4>2
    <3>2. call' = [call EXCEPT !.pc = pc, !.tries = n]
      BY <1>4, <3>1
    <3> QED
      BY <1>2, <2>1, <3>1, <3>2 DEF Calls, Looks, Transfers
  <2>3. Shape'
    BY ZenonT(60), <1>1, <1>2, <1>3, <1>4, <2>1, <2>2 DEF Shape, Looks, Transfers
  <2>4. Aimed'
    BY ZenonT(60), <1>1, <1>2, <1>3, <1>4, <2>1, <2>2 DEF Aimed, Looks, TypeOf
  <2>5. call'.pc \notin Looks \cup {"activate"} => call.pc \notin Looks \cup {"activate"}
    BY <1>1, <2>1, <2>2 DEF Looks
  <2> QED
    BY <1>1, <1>3, <1>4, <2>2, <2>3, <2>4, <2>5, SameCards
<1>5. CASE /\ call' = Idle
           /\ type' = IF call.fs THEN [type EXCEPT ![s] = "invalid"] ELSE type
           /\ count' = IF call.new THEN [count EXCEPT ![s] = @ - 1] ELSE count
  <2> DEFINE t == IF call.fs THEN "invalid" ELSE type[s]
  <2>1. t \in Types /\ type' = [type EXCEPT ![s] = t]
    <3>1. CASE call.fs
      BY <1>2, <1>5, <3>1 DEF TypeOK, Types
    <3>2. CASE ~call.fs
      BY <1>2, <1>5, <3>2 DEF TypeOK
    <3> QED
      BY <3>1, <3>2
  <2>2. Usable(t) => t = type[s] /\ call.pc \notin Looks \cup {"activate"}
    BY <1>1, <1>2 DEF Usable, Looks
  <2>3. sel' \in Slots /\ changed' \in [Slots -> BOOLEAN]
    BY <1>2, <1>3 DEF TypeOK
  <2> HIDE DEF t
  <2> QED
    BY <1>1, <1>3, <1>5, <2>1, <2>2, <2>3, EndedKeeps
<1> QED
  BY <1>4, <1>5 DEF Fails, Return

\* judging block 0,
LEMMA FsDoneKeeps ==
  ASSUME CardsInv, FsDone
  PROVE  CardsInv'
<1> DEFINE s == call.slot
           c == call.got
<1>1. Busy /\ call.pc = "fs done" /\ UNCHANGED <<card, awake, changed, sel, last_cn>>
  BY DEF FsDone, Busy, hardware
<1>2. /\ TypeOK /\ Shape /\ Aimed /\ call \in Calls /\ s \in Slots /\ call.fs /\ last_cn = s
      /\ sel = s /\ Usable(type[s]) /\ type[s] \in Types /\ count[s] = call.n
      /\ c \in Cards \cup {NoCard} /\ (awake[s] => c = card[s])
      /\ sel' \in Slots /\ changed' \in [Slots -> BOOLEAN]
  <2>1. /\ TypeOK /\ Shape /\ Aimed /\ call \in Calls /\ s \in Slots /\ type[s] \in Types
    BY <1>1, UnderWay
  <2>2. c \in Cards \cup {NoCard}
    BY <2>1 DEF Calls
  <2>3. awake[s] => c = card[s]
    BY <1>1, <2>1 DEF Aimed
  <2>4. sel' \in Slots /\ changed' \in [Slots -> BOOLEAN]
    BY <1>1, <2>1 DEF TypeOK
  <2> QED
    BY <1>1, <2>1, <2>2, <2>3, <2>4 DEF Shape, Looks
<1>3. CASE geo' = c /\ UNCHANGED <<type, count>> /\ call.then = "opened" /\ Opened(s, call.n, c)
  <2>1. Known(last_cn) => geo' = card[last_cn]
    BY <1>2, <1>3 DEF Known
  <2>2. Opened(s, count[s], c) /\ geo' \in Cards \cup {NoCard}
    BY <1>2, <1>3
  <2> QED
    BY <1>1, <1>2, <1>3, <2>1, <2>2, OpenedKeeps
<1>4. CASE /\ geo' = c /\ UNCHANGED <<type, count, file>> /\ call.then # "opened"
           /\ call' = [call EXCEPT !.pc = call.then, !.fs = FALSE, !.part = FALSE]
  <2>1. call.then = "aim" /\ call.op # "open"
    BY <1>2, <1>4 DEF Shape, Calls
  <2>2. /\ call' \in Calls /\ call'.pc = "aim" /\ call'.op = call.op
        /\ call'.slot = s /\ call'.n = call.n /\ call'.h = call.h /\ call'.todo = call.todo
        /\ ~call'.fs /\ call'.new = call.new
    BY <1>2, <1>4, <2>1 DEF Calls, Transfers
  <2>3. GeoKnown'
    BY <1>1, <1>2, <1>4 DEF GeoKnown, Known
  <2>4. Shape'
    BY <1>1, <1>2, <1>4, <2>1, <2>2 DEF Shape, Looks, Transfers
  <2>5. Aimed'
    BY <2>2 DEF Aimed, Looks
  <2>6. last_cn' \in Slots /\ geo' \in Cards \cup {NoCard}
    BY <1>1, <1>2, <1>4
  <2> QED
    BY <1>1, <1>2, <1>4, <2>2, <2>3, <2>4, <2>5, <2>6, GoesOn
<1>5. CASE /\ call' = [CheckFs(call.n, call.then, type[s]) EXCEPT !.part = TRUE]
           /\ UNCHANGED <<type, count, geo, file>>
  <2>1. /\ call' \in Calls /\ call'.pc = "fs pre" /\ call'.n = call.n /\ call'.fs
        /\ call'.then = call.then /\ call'.fsaim = type[s] /\ call'.todo = call.todo
        /\ call'.op = call.op /\ call'.slot = s /\ call'.new = call.new /\ call'.h = call.h
    BY <1>2, <1>5 DEF CheckFs, Calls, Looks
  <2>2. Shape'
    BY ZenonT(60), <1>1, <1>2, <1>5, <2>1 DEF Shape, Looks, Transfers
  <2>3. awake[s] => type[s] = TypeOf(card[s])
    BY <1>2 DEF CardsInv, Identified, Known
  <2>4. Aimed'
    BY <1>1, <1>2, <2>1, <2>3 DEF Aimed, TypeOf
  <2>5. call'.pc \in Looks
    BY <2>1 DEF Looks
  <2> QED
    BY <1>1, <1>5, <2>1, <2>2, <2>4, <2>5, SameCards
<1>6. CASE /\ type' = [type EXCEPT ![s] = "invalid"] /\ call' = Idle /\ UNCHANGED <<geo, file>>
           /\ count' = IF call.new THEN [count EXCEPT ![s] = @ - 1] ELSE count
  <2>1. "invalid" \in Types /\ ~Usable("invalid")
    BY DEF Types, Usable
  <2> QED
    BY <1>1, <1>2, <1>6, <2>1, EndedKeeps
<1> QED
  BY <1>3, <1>4, <1>5, <1>6 DEF FsDone, Return

\* and the end of a block.
LEMMA BlockDoneKeeps ==
  ASSUME CardsInv, BlockDone
  PROVE  CardsInv'
<1> DEFINE s == call.slot
<1>1. Busy /\ call.pc = "done" /\ call.pc \notin Looks \cup {"activate"}
      /\ UNCHANGED <<card, awake, changed, sel, type, count, last_cn, geo, file>>
  BY DEF BlockDone, Busy, hardware, Looks
<1>2. /\ TypeOK /\ Shape /\ call \in Calls /\ s \in Slots /\ type[s] \in Types
      /\ ~call.fs /\ ~call.new /\ call.todo \in Seq({"read", "write"})
  <2>1. TypeOK /\ Shape /\ call \in Calls /\ s \in Slots /\ type[s] \in Types
    BY <1>1, UnderWay
  <2> QED
    BY <1>1, <2>1 DEF Shape, Looks, Calls
<1>3. CASE Len(call.todo) > 1 /\ call' = [call EXCEPT !.pc = "aim", !.todo = Tail(call.todo)]
  <2>1. Tail(call.todo) \in Seq({"read", "write"}) /\ Tail(call.todo) # <<>>
    <3>1. Len(call.todo) \in Nat /\ call.todo # <<>>
      BY <1>2, <1>3
    <3>2. Tail(call.todo) \in Seq({"read", "write"}) /\ Len(Tail(call.todo)) = Len(call.todo) - 1
      BY <1>2, <3>1
    <3>3. Len(Tail(call.todo)) > 0
      BY <1>3, <3>1, <3>2
    <3>4. \A q \in Seq({"read", "write"}) : Len(q) > 0 => q # <<>>
      OBVIOUS
    <3> QED
      BY <3>2, <3>3, <3>4
  <2>2. /\ call' \in Calls /\ call'.pc = "aim" /\ call'.op = call.op
        /\ call'.slot = s /\ call'.n = call.n /\ call'.h = call.h /\ call'.todo = Tail(call.todo)
        /\ call'.fs = call.fs /\ call'.new = call.new /\ call'.then = call.then
    BY <1>2, <1>3, <2>1 DEF Calls, Transfers
  <2>3. Shape'
    BY <1>1, <1>2, <2>1, <2>2 DEF Shape, Looks, Transfers
  <2>4. Aimed'
    BY <2>2 DEF Aimed, Looks
  <2> QED
    BY <1>1, <2>2, <2>3, <2>4, SameCards
<1>4. CASE call' = Idle
  <2>1. /\ type' = [type EXCEPT ![s] = type[s]]
        /\ sel' \in Slots /\ changed' \in [Slots -> BOOLEAN]
    BY <1>1, <1>2 DEF TypeOK
  <2> QED
    BY <1>1, <1>2, <1>4, <2>1, EndedKeeps
<1> QED
  BY <1>3, <1>4 DEF BlockDone, Return

-----------------------------------------------------------------------------
\* It holds at first.
LEMMA CardsStart == Init => CardsInv
<1> SUFFICES ASSUME Init
             PROVE  CardsInv
  OBVIOUS
<1>1. 0 \in Slots
  BY CardsAssumption
<1>2. TypeOK
  BY <1>1 DEF Init, TypeOK, Types, NoFile
<1>3. ~Busy /\ \A h \in Handles : file[h] = NoFile
  BY DEF Init, Busy, Idle
<1>4. \A s \in Slots : ~Known(s)
  BY DEF Init, Known
<1>5. last_cn \in Slots
  BY <1>2 DEF TypeOK
<1> QED
  BY <1>2, <1>3, <1>4, <1>5 DEF CardsInv, Identified, HandlesTell, GeoKnown

\* Every step keeps it.
LEMMA CardsStep == CardsInv /\ [Next]_vars => CardsInv'
<1> SUFFICES ASSUME CardsInv, [Next]_vars
             PROVE  CardsInv'
  OBVIOUS
<1>1. ASSUME NEW s \in Slots, NEW c \in Cards, Inserted(s, c)
      PROVE  CardsInv'
  BY <1>1, MovedKeeps DEF Inserted
<1>2. ASSUME NEW s \in Slots, Removed(s)
      PROVE  CardsInv'
  BY <1>2, MovedKeeps DEF Removed
<1>3. CASE \/ \E s \in Slots : SelectSlot(s)
           \/ \E h \in Handles : OpenRoot(h) \/ \E t \in Todos : Access(h, t)
  BY <1>3, CallsKeep
<1>4. CASE EnterAccess
  <2>1. Busy /\ call.pc = "enter" /\ call.op # "open" /\ Check("aim")
    BY <1>4 DEF EnterAccess, Busy
  <2> QED
    BY <2>1, CheckKeeps
<1>5. CASE Before
  <2>1. PICK pc \in {"fs io", "io"} :
          /\ Busy /\ Check(pc) /\ call.pc \in {"pre", "fs pre"}
          /\ pc = IF call.fs THEN "fs io" ELSE "io"
    BY <1>5 DEF Before, Busy
  <2>2. call.fs <=> call.pc = "fs pre"
    BY <2>1, UnderWay DEF Shape, Looks
  <2> QED
    BY <2>1, <2>2, CheckKeeps
<1>6. CASE After
  <2>1. PICK pc \in {"fs done", "done"} :
          /\ Busy /\ Check(pc) /\ call.pc \in {"post", "fs post"}
          /\ pc = IF call.fs THEN "fs done" ELSE "done"
    BY <1>6 DEF After, Busy
  <2>2. call.fs <=> call.pc = "fs post"
    BY <2>1, UnderWay DEF Shape, Looks
  <2> QED
    BY <2>1, <2>2, CheckKeeps
<1>7. CASE UNCHANGED vars
  <2> USE DEF CardsInv
  <2>1. TypeOK'
    BY <1>7 DEF vars, hardware, TypeOK
  <2>2. Identified' /\ GeoKnown'
    BY <1>7 DEF vars, hardware, Identified, GeoKnown, Known
  <2>3. HandlesTell'
    BY <1>7 DEF vars, hardware, HandlesTell, Known, Busy
  <2>4. (Busy => Shape)'
    BY <1>7 DEF vars, hardware, Shape, Busy
  <2>5. (Busy => Aimed)'
    BY <1>7 DEF vars, hardware, Aimed, Busy, TypeOf
  <2> QED
    BY <2>1, <2>2, <2>3, <2>4, <2>5
<1> QED
  BY <1>1, <1>2, <1>3, <1>4, <1>5, <1>6, <1>7, EnterOpenKeeps, ActivateKeeps, AimKeeps,
     TransferKeeps, FailsKeeps, FsDoneKeeps, BlockDoneKeeps DEF Next, Step

\* However often cards come and go, and in the middle of what, a transfer for a
\* file reaches the card that the file was opened on, where this card has it
\* (sdcard.c, fatfs_check_card).
THEOREM TransfersHitTheirCard == Spec => []RightCard
<1>1. CardsInv => RightCard
  <2> SUFFICES ASSUME CardsInv, call.pc \in {"io", "fs io"}, Answers
               PROVE  RightCard
    BY DEF RightCard
  <2> DEFINE s == call.slot
             c == card[s]
  <2>1. Busy /\ call.pc # "enter"
    BY DEF Busy
  <2>2. /\ TypeOK /\ Shape /\ Aimed /\ call \in Calls /\ s \in Slots /\ call.h \in Handles
        /\ sel = s /\ Usable(type[s]) /\ count[s] = call.n
    BY <2>1, UnderWay, CallInCalls DEF Shape, Looks, Transfers
  <2>3. awake[s] /\ Known(s)
    BY <2>2 DEF Answers, Known
  <2>4. call.op # "open" => c = file[call.h].card
    BY <2>2, <2>3 DEF Shape, CardsInv, HandlesTell
  <2>5. CASE call.pc = "io"
    <3>1. call.op # "open"
      BY <2>2, <2>5 DEF Shape, Transfers
    <3> QED
      BY <2>2, <2>3, <2>4, <2>5, <3>1 DEF Aimed, RightCard
  <2>6. CASE call.pc = "fs io"
    BY <2>2, <2>3, <2>4, <2>6 DEF Aimed, RightCard, Looks
  <2> QED
    BY <2>5, <2>6
<1> QED
  BY <1>1, CardsStart, CardsStep, PTL DEF Spec
-----------------------------------------------------------------------------
(* No false alarm: what the firmware refuses, it has reason to.             *)

\* A card that is in use without anything having gone wrong with its slot is one that was
\* activated, and a good one is not taken for an invalid one.
SlotCalm(s) ==
  calm[s] /\ Settled(s) =>
    /\ Usable(type[s]) => awake[s]
    /\ Kind[card[s]].fs # "none" => type[s] # "invalid"

\* A handle whose card has stayed has the slot's count, unless the slot has failed.
HandleKept(h) ==
  kept[h] =>
    LET s == file[h].slot IN
    /\ file[h] # NoFile /\ Settled(s) /\ type[s] # "removed"
    /\ Usable(type[s]) => count[s] = file[h].n
    /\ calm[s] => Kind[card[s]].fs # "none"

\* In a call: a card that comes in the middle of it is not calm, one that was looked at in
\* block 0 is awake if it is still there, and one that is activated passed for removed.
CallCalm ==
  Busy =>
    LET s == call.slot IN
    /\ call.pc # "enter" /\ changed[s] /\ card[s] # NoCard => ~calm[s]
    /\ call.pc \in {"fs post", "fs done"} /\ Settled(s) => awake[s]
    /\ call.pc = "activate" => type[s] = "removed"

\* The inductive invariant behind NoFalseAlarm.
CalmInv ==
  /\ calm \in [Slots -> BOOLEAN] /\ kept \in [Handles -> BOOLEAN]
  /\ \A s \in Slots : SlotCalm(s)
  /\ \A h \in Handles : HandleKept(h)
  /\ geo # NoCard => Kind[geo].fs # "none"
  /\ CallCalm
  /\ Busy => result = Nothing
  /\ NoFalseAlarm

\* Nothing is claimed of no answer.
LEMMA SilentIsHonest == ASSUME result' = Nothing PROVE NoFalseAlarm'
<1>1. result'.op = "none"
  BY DEF Nothing
<1> QED
  BY <1>1 DEF NoFalseAlarm, WorksWhenCalm, HonestlyChanged

\* Slots that a step leaves alone stay calm, but for latches that it clears there.
LEMMA OthersStayCalm ==
  ASSUME TypeOK, CalmInv, UNCHANGED card, NEW S \in SUBSET Slots,
         \A t \in S :
           /\ type'[t] = type[t] /\ count'[t] = count[t] /\ (awake[t] => awake'[t])
           /\ changed'[t] => changed[t]
           /\ calm'[t] => calm[t] /\ changed'[t] = changed[t]
  PROVE  /\ \A t \in S : SlotCalm(t)'
         /\ \A h \in Handles :
              kept'[h] = kept[h] /\ file'[h] = file[h] /\ file[h].slot \in S => HandleKept(h)'
<1>1. ASSUME NEW t \in S PROVE SlotCalm(t)'
  <2>1. SlotCalm(t)
    BY DEF CalmInv
  <2> QED
    BY <2>1 DEF SlotCalm, Settled
<1>2. ASSUME NEW h \in Handles, kept'[h] = kept[h], file'[h] = file[h], file[h].slot \in S
      PROVE  HandleKept(h)'
  <2>1. HandleKept(h)
    BY DEF CalmInv
  <2> QED
    BY <1>2, <2>1 DEF HandleKept, Settled
<1> QED
  BY <1>1, <1>2

\* A step that leaves slots and handles alone.
LEMMA AllStayCalm ==
  ASSUME TypeOK, CalmInv, UNCHANGED <<card, awake, changed, type, count, geo, file, calm, kept>>,
         CallCalm', Busy' => result' = Nothing, NoFalseAlarm'
  PROVE  CalmInv'
<1>1. /\ \A t \in Slots : SlotCalm(t)'
      /\ \A h \in Handles :
           kept'[h] = kept[h] /\ file'[h] = file[h] /\ file[h].slot \in Slots => HandleKept(h)'
  BY OthersStayCalm
<1>2. \A h \in Handles : file[h].slot \in Slots
  BY DEF TypeOK
<1> QED
  BY <1>1, <1>2 DEF CalmInv

\* A card that comes.
LEMMA InsertedCalm ==
  ASSUME TypeOK, CalmInv, NEW s \in Slots, NEW c \in Cards, Inserted(s, c)
  PROVE  CalmInv'
<1>1. /\ card[s] = NoCard /\ card' = [card EXCEPT ![s] = c]
      /\ awake' = [awake EXCEPT ![s] = FALSE] /\ changed' = [changed EXCEPT ![s] = TRUE]
      /\ calm' = [calm EXCEPT ![s] = ~(Busy /\ call.slot = s)]
      /\ result' = Nothing /\ UNCHANGED <<type, count, geo, file, call, kept>>
  BY DEF Inserted
<1>2. \A t \in Slots \ {s} : card'[t] = card[t] /\ awake'[t] = awake[t]
                             /\ changed'[t] = changed[t] /\ calm'[t] = calm[t]
  BY <1>1 DEF TypeOK, CalmInv
<1>3. changed'[s] /\ calm'[s] = ~(Busy /\ call.slot = s) /\ calm' \in [Slots -> BOOLEAN]
  BY <1>1 DEF TypeOK, CalmInv
<1>4. \A t \in Slots : SlotCalm(t)'
  <2>1. SlotCalm(s)'
    BY <1>3 DEF SlotCalm, Settled
  <2>2. ASSUME NEW t \in Slots \ {s} PROVE SlotCalm(t)'
    <3>1. SlotCalm(t)
      BY DEF CalmInv
    <3> QED
      BY <1>1, <1>2, <3>1 DEF SlotCalm, Settled
  <2> QED
    BY <2>1, <2>2
<1>5. ASSUME NEW h \in Handles PROVE HandleKept(h)'
  <2>1. HandleKept(h) /\ file[h].slot \in Slots
    BY DEF CalmInv, TypeOK
  <2>2. CASE file[h].slot = s
    BY <1>1, <2>1, <2>2 DEF HandleKept, Settled
  <2>3. CASE file[h].slot # s
    BY <1>1, <1>2, <2>1, <2>3 DEF HandleKept, Settled
  <2> QED
    BY <2>2, <2>3
<1>6. CallCalm'
  <2> SUFFICES ASSUME Busy PROVE CallCalm'
    BY <1>1 DEF CallCalm, Busy
  <2>1. CallCalm /\ call.slot \in Slots
    BY CallInCalls DEF CalmInv
  <2>2. CASE call.slot = s
    BY <1>1, <1>3, <2>1, <2>2 DEF CallCalm, Settled, Busy
  <2>3. CASE call.slot # s
    <3>1. /\ card'[call.slot] = card[call.slot] /\ awake'[call.slot] = awake[call.slot]
          /\ changed'[call.slot] = changed[call.slot] /\ calm'[call.slot] = calm[call.slot]
          /\ call' = call /\ type' = type
      BY <1>1, <1>2, <2>1, <2>3
    <3> QED
      BY <2>1, <3>1 DEF CallCalm, Settled, Busy
  <2> QED
    BY <2>2, <2>3
<1>7. NoFalseAlarm' /\ (geo' # NoCard => Kind[geo'].fs # "none")
  BY <1>1, SilentIsHonest DEF CalmInv
<1> QED
  BY <1>1, <1>3, <1>4, <1>5, <1>6, <1>7 DEF CalmInv

\* A card that goes.
LEMMA RemovedCalm ==
  ASSUME TypeOK, CalmInv, NEW s \in Slots, Removed(s)
  PROVE  CalmInv'
<1>1. /\ card' = [card EXCEPT ![s] = NoCard]
      /\ awake' = [awake EXCEPT ![s] = FALSE] /\ changed' = [changed EXCEPT ![s] = TRUE]
      /\ calm' = [calm EXCEPT ![s] = FALSE]
      /\ kept' = [h \in Handles |-> kept[h] /\ file[h].slot # s]
      /\ result' = Nothing /\ UNCHANGED <<type, count, geo, file, call>>
  BY DEF Removed
<1>2. \A t \in Slots \ {s} : card'[t] = card[t] /\ awake'[t] = awake[t]
                             /\ changed'[t] = changed[t] /\ calm'[t] = calm[t]
  BY <1>1 DEF TypeOK, CalmInv
<1>3. /\ changed'[s] /\ ~calm'[s] /\ calm' \in [Slots -> BOOLEAN]
      /\ kept' \in [Handles -> BOOLEAN] /\ \A h \in Handles : kept'[h] => kept[h] /\ file[h].slot # s
  BY <1>1 DEF TypeOK, CalmInv
<1>4. \A t \in Slots : SlotCalm(t)'
  <2>1. SlotCalm(s)'
    BY <1>3 DEF SlotCalm, Settled
  <2>2. ASSUME NEW t \in Slots \ {s} PROVE SlotCalm(t)'
    <3>1. SlotCalm(t)
      BY DEF CalmInv
    <3> QED
      BY <1>1, <1>2, <3>1 DEF SlotCalm, Settled
  <2> QED
    BY <2>1, <2>2
<1>5. ASSUME NEW h \in Handles PROVE HandleKept(h)'
  <2>1. HandleKept(h) /\ file[h].slot \in Slots
    BY DEF CalmInv, TypeOK
  <2> QED
    BY <1>1, <1>2, <1>3, <2>1 DEF HandleKept, Settled
<1>6. CallCalm'
  <2> SUFFICES ASSUME Busy PROVE CallCalm'
    BY <1>1 DEF CallCalm, Busy
  <2>1. CallCalm /\ call.slot \in Slots
    BY CallInCalls DEF CalmInv
  <2>2. CASE call.slot = s
    BY <1>1, <1>3, <2>1, <2>2 DEF CallCalm, Settled, Busy
  <2>3. CASE call.slot # s
    <3>1. /\ card'[call.slot] = card[call.slot] /\ awake'[call.slot] = awake[call.slot]
          /\ changed'[call.slot] = changed[call.slot] /\ calm'[call.slot] = calm[call.slot]
          /\ call' = call /\ type' = type
      BY <1>1, <1>2, <2>1, <2>3
    <3> QED
      BY <2>1, <3>1 DEF CallCalm, Settled, Busy
  <2> QED
    BY <2>2, <2>3
<1>7. NoFalseAlarm' /\ (geo' # NoCard => Kind[geo'].fs # "none")
  BY <1>1, SilentIsHonest DEF CalmInv
<1> QED
  BY <1>1, <1>3, <1>4, <1>5, <1>6, <1>7 DEF CalmInv

\* A call that begins, and one that is not under way.
LEMMA CallsBeginCalm ==
  ASSUME TypeOK, CalmInv,
         \/ \E s \in Slots : SelectSlot(s)
         \/ \E h \in Handles : OpenRoot(h) \/ \E t \in Todos : Access(h, t)
  PROVE  CalmInv'
<1>1. /\ UNCHANGED <<card, awake, changed, type, count, geo, file, calm, kept>>
      /\ result' = Nothing /\ ~Busy
      /\ call' = call \/ call'.pc = "enter"
  BY DEF SelectSlot, OpenRoot, Access, hardware, NewCall
<1>2. CallCalm'
  BY <1>1 DEF CallCalm, Busy
<1>3. NoFalseAlarm'
  BY <1>1, SilentIsHonest
<1> QED
  BY <1>1, <1>2, <1>3, AllStayCalm

\* What looking at the status of slot s leaves of the others.
LEMMA LookCalm ==
  ASSUME TypeOK, CalmInv, NEW s \in Slots, Look(s)
  PROVE  /\ changed' \in [Slots -> BOOLEAN] /\ ~changed'[s]
         /\ calm' \in [Slots -> BOOLEAN] /\ calm'[s] = calm[s]
         /\ \A t \in Slots : /\ changed'[t] => changed[t]
                             /\ calm'[t] => calm[t]
         /\ \A t \in Slots \ {s} : calm'[t] => changed'[t] = changed[t]
<1>1. changed' = Latches(s) /\ calm' = [t \in Slots |-> calm[t] /\ t \notin Overheard(s)]
  BY DEF Look
<1>2. changed \in [Slots -> BOOLEAN] /\ calm \in [Slots -> BOOLEAN]
  BY DEF TypeOK, CalmInv
<1>3. /\ changed' \in [Slots -> BOOLEAN] /\ ~changed'[s]
      /\ \A t \in Slots : changed'[t] => changed[t]
  BY <1>1, <1>2 DEF Latches
<1>4. calm' \in [Slots -> BOOLEAN] /\ \A t \in Slots : calm'[t] = (calm[t] /\ t \notin Overheard(s))
  BY <1>1, <1>2
<1>5. calm'[s] = calm[s]
  BY <1>2, <1>4 DEF Overheard
<1>6. ASSUME NEW t \in Slots \ {s}, calm'[t] PROVE changed'[t] = changed[t]
  <2>1. ~(changed[s] /\ changed[t])
    BY <1>4, <1>6 DEF Overheard
  <2> QED
    BY <1>1, <1>2, <2>1 DEF Latches
<1> QED
  BY <1>3, <1>4, <1>5, <1>6

\* The check of a handle's card, before, in and after a transfer.
LEMMA CheckCalm ==
  ASSUME CardsInv, CalmInv, Busy, NEW pc, Check(pc),
         <<call.pc, pc>> \in {<<"enter", "aim">>, <<"pre", "io">>, <<"post", "done">>,
                              <<"fs pre", "fs io">>, <<"fs post", "fs done">>},
         call.pc = "enter" => call.op # "open"
  PROVE  CalmInv'
<1>0. PICK s \in Slots : s = call.slot
  BY CallInCalls DEF CardsInv
<1>1. /\ TypeOK /\ Shape /\ s = call.slot /\ call.h \in Handles /\ call \in Calls
      /\ call.op \in {"open", "read", "write"}
  BY <1>0, UnderWay, CallInCalls DEF Calls
<1>2. Look(s) /\ UNCHANGED <<card, awake, geo, file, kept>>
  BY <1>1 DEF Check
<1>3. /\ changed' \in [Slots -> BOOLEAN] /\ ~changed'[s]
      /\ calm' \in [Slots -> BOOLEAN] /\ calm'[s] = calm[s]
      /\ \A t \in Slots : (changed'[t] => changed[t]) /\ (calm'[t] => calm[t])
      /\ \A t \in Slots \ {s} : calm'[t] => changed'[t] = changed[t]
  BY <1>1, <1>2, LookCalm
<1>4. call.fs \/ call.new => Usable(type[s]) /\ count[s] = call.n
  BY <1>1 DEF Shape, Looks
<1>5. CallCalm /\ SlotCalm(s) /\ result = Nothing
  BY <1>1 DEF CalmInv
<1>6. CASE Same(s)
  <2>1. Usable(type[s]) /\ count[s] = call.n /\ Settled(s) /\ UNCHANGED <<type, count>>
    BY <1>1, <1>6 DEF Same, Seen, Usable, Check
  <2>2. \A t \in Slots : SlotCalm(t)'
    <3>1. \A t \in Slots \ {s} : SlotCalm(t)'
      <4> DEFINE S == Slots \ {s}
      <4>1. S \in SUBSET Slots /\ \A t \in S :
              /\ type'[t] = type[t] /\ count'[t] = count[t] /\ (awake[t] => awake'[t])
              /\ changed'[t] => changed[t]
              /\ calm'[t] => calm[t] /\ changed'[t] = changed[t]
        BY <1>2, <1>3, <2>1
      <4> HIDE DEF S
      <4>2. \A t \in S : SlotCalm(t)'
        BY <1>1, <1>2, <4>1, OthersStayCalm
      <4> QED
        BY <4>2 DEF S
    <3>2. SlotCalm(s)'
      BY <1>2, <1>3, <1>5, <2>1 DEF SlotCalm, Settled
    <3> QED
      BY <3>1, <3>2
  <2>3. \A h \in Handles : HandleKept(h)'
    <3> SUFFICES ASSUME NEW h \in Handles PROVE HandleKept(h)'
      OBVIOUS
    <3>1. HandleKept(h) /\ file[h].slot \in Slots
      BY <1>1 DEF CalmInv, TypeOK
    <3> QED
      BY <1>2, <1>3, <2>1, <3>1 DEF HandleKept, Settled
  <2>4. \/ call' = Idle /\ result' = [op |-> call.op, slot |-> s, h |-> call.h, r |-> "protected"]
           /\ call.op # "open"
        \/ /\ result' = Nothing /\ call'.slot = s
           /\ call'.pc = pc \/ call'.pc = "fs pre"
    <3>1. CASE Writing /\ Kind[card[s]].wp
      <4>1. call' = Idle /\ result' = [op |-> call.op, slot |-> s, h |-> call.h, r |-> "protected"]
        BY <1>1, <1>6, <3>1 DEF Check, Return
      <4>2. ~call.fs
        BY <3>1 DEF Writing
      <4>3. call.op # "open"
        BY <1>1, <4>2 DEF Shape, Looks, Transfers
      <4> QED
        BY <4>1, <4>3
    <3>2. CASE ~(Writing /\ Kind[card[s]].wp)
      <4>1. /\ UNCHANGED result
            /\ call' = CheckFs(call.n, pc, Block0) \/ call' = [call EXCEPT !.pc = pc]
        BY <1>1, <1>6, <3>2 DEF Check
      <4> QED
        BY <1>1, <1>5, <4>1 DEF CheckFs, Calls
    <3> QED
      BY <3>1, <3>2
  <2>5. CallCalm'
    <3>1. CASE call' = Idle
      BY <3>1 DEF CallCalm, Busy, Idle
    <3>2. CASE call'.slot = s /\ (call'.pc = pc \/ call'.pc = "fs pre")
      <4>1. pc = "fs done" => awake[s]
        BY <1>1, <1>5, <2>1 DEF CallCalm
      <4>2. pc \notin {"enter", "activate", "fs post"}
        OBVIOUS
      <4> QED
        BY <1>2, <1>3, <3>2, <4>1, <4>2 DEF CallCalm
    <3> QED
      BY <2>4, <3>1, <3>2
  <2>6. NoFalseAlarm' /\ (Busy' => result' = Nothing)
    <3>1. CASE result' = Nothing
      BY <3>1, SilentIsHonest
    <3>2. CASE call' = Idle /\ call.op # "open"
               /\ result' = [op |-> call.op, slot |-> s, h |-> call.h, r |-> "protected"]
      <4>1. result'.r = "protected" /\ result'.op # "open"
        BY <3>2
      <4> QED
        BY <3>2, <4>1 DEF NoFalseAlarm, WorksWhenCalm, HonestlyChanged, Busy, Idle
    <3> QED
      BY <2>4, <3>1, <3>2
  <2> QED
    BY <1>2, <1>3, <2>2, <2>3, <2>5, <2>6 DEF CalmInv
<1>7. CASE ~Same(s)
  <2> DEFINE t == IF call.fs THEN "invalid" ELSE Seen(s)
  <2>1. /\ call' = Idle /\ type' = [type EXCEPT ![s] = t]
        /\ count' = IF call.new THEN [count EXCEPT ![s] = @ - 1] ELSE count
        /\ result' = [op |-> call.op, slot |-> s, h |-> call.h, r |-> "changed"]
    BY <1>1, <1>7 DEF Check, GiveUp, Return
  <2>2. /\ \A u \in Slots \ {s} : type'[u] = type[u] /\ count'[u] = count[u]
        /\ type'[s] = t
    BY <1>1, <2>1 DEF TypeOK
  \* A settled card is not given up in fatfs_check_fs, so the slot keeps what it had.
  <2>3. Settled(s) => ~call.fs /\ ~call.new /\ UNCHANGED <<type, count>>
    <3> SUFFICES ASSUME Settled(s) PROVE ~call.fs /\ ~call.new /\ UNCHANGED <<type, count>>
      OBVIOUS
    <3>1. Seen(s) = type[s]
      BY DEF Seen
    <3>2. ~call.fs /\ ~call.new
      BY <1>4, <1>7, <3>1 DEF Same
    <3> QED
      BY <1>1, <2>1, <3>1, <3>2 DEF TypeOK
  <2>4. ~Settled(s) => t \in {"invalid", "removed"}
    BY DEF Seen
  <2>5. ~Settled(s) /\ t = "invalid" /\ card[s] # NoCard => ~calm[s]
    <3> SUFFICES ASSUME ~Settled(s), t = "invalid", card[s] # NoCard PROVE ~calm[s]
      OBVIOUS
    <3>1. call.fs
      BY DEF Seen
    <3>2. call.pc # "enter"
      BY <1>1, <3>1 DEF Shape, Looks
    <3> QED
      BY <1>1, <1>5, <3>2 DEF CallCalm, Settled
  <2> HIDE DEF t
  <2>6. \A u \in Slots : SlotCalm(u)'
    <3>1. \A u \in Slots \ {s} : SlotCalm(u)'
      <4> DEFINE S == Slots \ {s}
      <4>1. S \in SUBSET Slots /\ \A u \in S :
              /\ type'[u] = type[u] /\ count'[u] = count[u] /\ (awake[u] => awake'[u])
              /\ changed'[u] => changed[u]
              /\ calm'[u] => calm[u] /\ changed'[u] = changed[u]
        BY <1>2, <1>3, <2>2
      <4> HIDE DEF S
      <4>2. \A u \in S : SlotCalm(u)'
        BY <1>1, <1>2, <4>1, OthersStayCalm
      <4> QED
        BY <4>2 DEF S
    <3>2. SlotCalm(s)'
      <4>1. CASE Settled(s)
        BY <1>2, <1>3, <1>5, <2>3, <4>1 DEF SlotCalm, Settled
      <4>2. CASE ~Settled(s)
        BY <1>2, <1>3, <2>2, <2>4, <2>5, <4>2 DEF SlotCalm, Settled, Usable
      <4> QED
        BY <4>1, <4>2
    <3> QED
      BY <3>1, <3>2
  <2>7. \A h \in Handles : HandleKept(h)'
    <3> SUFFICES ASSUME NEW h \in Handles, kept[h] PROVE HandleKept(h)'
      BY <1>2 DEF HandleKept
    <3>1. HandleKept(h) /\ file[h].slot \in Slots
      BY <1>1 DEF CalmInv, TypeOK
    <3>2. type'[file[h].slot] = type[file[h].slot] /\ count'[file[h].slot] = count[file[h].slot]
      <4>1. CASE file[h].slot = s
        BY <2>3, <3>1, <4>1 DEF HandleKept
      <4>2. CASE file[h].slot # s
        BY <2>2, <3>1, <4>2
      <4> QED
        BY <4>1, <4>2
    <3> QED
      BY <1>2, <1>3, <3>1, <3>2 DEF HandleKept, Settled
  <2>8. NoFalseAlarm'
    <3>1. /\ result'.op = call.op /\ result'.slot = s /\ result'.h = call.h
          /\ result'.r = "changed"
      BY <2>1
    <3>2. WorksWhenCalm'
      <4>1. call.op = "open" => call.fs
        BY <1>1 DEF Shape, Looks, Transfers
      <4>2. call.op = "open" => call.pc # "enter" /\ ~Settled(s)
        BY <1>1, <2>3, <4>1 DEF Shape, Looks
      <4>3. call.op = "open" /\ card[s] # NoCard => ~calm[s]
        BY <1>1, <1>5, <4>2 DEF CallCalm, Settled
      <4> QED
        BY <1>2, <1>3, <3>1, <4>3 DEF WorksWhenCalm
    <3>3. HonestlyChanged'
      <4> SUFFICES ASSUME call.op # "open", kept[call.h], calm[s] PROVE FALSE
        BY <1>1, <1>2, <1>3, <3>1 DEF HonestlyChanged
      <4>1. HandleKept(call.h) /\ file[call.h].slot = s /\ file[call.h].n = call.n
        BY <1>1 DEF CalmInv, Shape
      <4>2. Settled(s) /\ type[s] # "removed" /\ Kind[card[s]].fs # "none"
            /\ (Usable(type[s]) => count[s] = call.n)
        BY <4>1 DEF HandleKept
      <4>3. Usable(type[s])
        BY <1>5, <4>2 DEF SlotCalm, Usable
      <4> QED
        BY <1>7, <4>2, <4>3 DEF Same, Seen
    <3> QED
      BY <3>2, <3>3 DEF NoFalseAlarm
  <2>9. ~Busy' /\ CallCalm'
    BY <2>1 DEF CallCalm, Busy, Idle
  <2> QED
    BY <1>2, <1>3, <2>6, <2>7, <2>8, <2>9 DEF CalmInv
<1> QED
  BY <1>6, <1>7

\* A look at a card that is settled, or at one that passes for removed from then on.
LEMMA LookStaysCalm ==
  ASSUME TypeOK, CalmInv, NEW s \in Slots, Look(s), UNCHANGED <<card, awake, count>>,
         \/ Settled(s) /\ type' = type
         \/ Seen(s) = "removed" /\ type' = [type EXCEPT ![s] = "removed"]
  PROVE  /\ \A t \in Slots : SlotCalm(t)'
         /\ \A h \in Handles :
              kept'[h] = kept[h] /\ file'[h] = file[h] => HandleKept(h)'
<1>1. /\ changed' \in [Slots -> BOOLEAN] /\ ~changed'[s]
      /\ calm' \in [Slots -> BOOLEAN] /\ calm'[s] = calm[s]
      /\ \A t \in Slots : (changed'[t] => changed[t]) /\ (calm'[t] => calm[t])
      /\ \A t \in Slots \ {s} : calm'[t] => changed'[t] = changed[t]
  BY LookCalm
<1>2. \A t \in Slots \ {s} : type'[t] = type[t]
  BY DEF TypeOK
<1>3. SlotCalm(s) /\ type[s] \in Types
  BY DEF CalmInv, TypeOK
<1>4. /\ \A t \in Slots \ {s} : SlotCalm(t)'
      /\ \A h \in Handles :
           kept'[h] = kept[h] /\ file'[h] = file[h] /\ file[h].slot # s => HandleKept(h)'
  <2> DEFINE S == Slots \ {s}
  <2>1. S \in SUBSET Slots /\ \A t \in S :
          /\ type'[t] = type[t] /\ count'[t] = count[t] /\ (awake[t] => awake'[t])
          /\ changed'[t] => changed[t]
          /\ calm'[t] => calm[t] /\ changed'[t] = changed[t]
    BY <1>1, <1>2
  <2>2. \A h \in Handles : file[h].slot # s => file[h].slot \in S
    BY DEF TypeOK
  <2> HIDE DEF S
  <2>3. /\ \A t \in S : SlotCalm(t)'
        /\ \A h \in Handles :
             kept'[h] = kept[h] /\ file'[h] = file[h] /\ file[h].slot \in S => HandleKept(h)'
    BY <2>1, OthersStayCalm
  <2>4. \A t \in Slots \ {s} : SlotCalm(t)'
    BY <2>3 DEF S
  <2> QED
    BY <2>2, <2>3, <2>4
<1>5. SlotCalm(s)' /\ \A h \in Handles :
        kept'[h] = kept[h] /\ file'[h] = file[h] /\ file[h].slot = s => HandleKept(h)'
  <2>1. CASE Settled(s) /\ type' = type
    <3>1. SlotCalm(s)'
      BY <1>1, <1>3, <2>1 DEF SlotCalm, Settled
    <3>2. ASSUME NEW h \in Handles, kept'[h] = kept[h], file'[h] = file[h], file[h].slot = s
          PROVE  HandleKept(h)'
      <4>1. HandleKept(h)
        BY DEF CalmInv
      <4> QED
        BY <1>1, <2>1, <3>2, <4>1 DEF HandleKept, Settled
    <3> QED
      BY <3>1, <3>2
  <2>2. CASE Seen(s) = "removed" /\ type' = [type EXCEPT ![s] = "removed"]
    <3>1. type'[s] = "removed"
      BY <2>2 DEF TypeOK
    <3>2. SlotCalm(s)'
      BY <3>1 DEF SlotCalm, Usable
    <3>3. ASSUME NEW h \in Handles, kept'[h] = kept[h], file'[h] = file[h], file[h].slot = s
          PROVE  HandleKept(h)'
      <4>1. HandleKept(h)
        BY DEF CalmInv
      <4>2. ~kept[h]
        BY <2>2, <3>3, <4>1 DEF HandleKept, Seen
      <4> QED
        BY <3>3, <4>2 DEF HandleKept
    <3> QED
      BY <3>2, <3>3
  <2> QED
    BY <2>1, <2>2
<1> QED
  BY <1>4, <1>5

\* A handle that is opened on a settled card keeps what it finds.
LEMMA OpenedCalm ==
  ASSUME TypeOK, CalmInv, Busy, NEW s \in Slots, s = call.slot, call.op = "open",
         NEW c, Opened(s, count[s], c), UNCHANGED <<card, type, count>>,
         Settled(s) => /\ c \in Cards /\ ~changed'[s] /\ Usable(type[s])
                       /\ calm'[s] => Kind[card[s]].fs # "none",
         calm' \in [Slots -> BOOLEAN], geo' # NoCard => Kind[geo'].fs # "none",
         \A t \in Slots : SlotCalm(t)',
         \A h \in Handles : kept'[h] = kept[h] /\ file'[h] = file[h] => HandleKept(h)'
  PROVE  CalmInv'
<1> DEFINE f == [slot |-> s, n |-> count[s], card |-> c]
<1>1. /\ call.h \in Handles /\ file' = [file EXCEPT ![call.h] = f]
      /\ kept' = [kept EXCEPT ![call.h] = Settled(s)]
      /\ call' = Idle /\ result' = [op |-> "open", slot |-> s, h |-> call.h, r |-> "ok"]
  BY CallInCalls DEF Opened, Return
<1>2. \A h \in Handles : HandleKept(h)'
  <2>1. ASSUME NEW h \in Handles \ {call.h} PROVE HandleKept(h)'
    <3>1. kept'[h] = kept[h] /\ file'[h] = file[h]
      BY <1>1, <2>1 DEF TypeOK, CalmInv
    <3> QED
      BY <3>1
  <2>2. ASSUME NEW h \in Handles, h = call.h PROVE HandleKept(h)'
    <3>1. file'[h] = f /\ kept'[h] = Settled(s)
      BY <1>1, <2>2 DEF TypeOK, CalmInv
    <3>2. f.slot = s /\ f.n = count[s] /\ f.card = c /\ (c \in Cards => f # NoFile)
      BY CardsAssumption DEF NoFile
    <3> HIDE DEF f
    <3> SUFFICES ASSUME Settled(s) PROVE HandleKept(h)'
      BY <3>1 DEF HandleKept
    <3>3. type[s] # "removed"
      BY DEF Usable
    <3>4. card'[s] # NoCard /\ ~changed'[s]
      BY DEF Settled
    <3> QED
      BY <3>1, <3>2, <3>3, <3>4 DEF HandleKept, Settled
  <2> QED
    BY <2>1, <2>2
<1>3. NoFalseAlarm'
  <2>1. result'.op = "open" /\ result'.r = "ok"
    BY <1>1
  <2> QED
    BY <2>1 DEF NoFalseAlarm, WorksWhenCalm, HonestlyChanged
<1>4. ~Busy' /\ CallCalm' /\ kept' \in [Handles -> BOOLEAN]
  BY <1>1 DEF CalmInv, CallCalm, Busy, Idle, Settled
<1> QED
  BY <1>2, <1>3, <1>4 DEF CalmInv

\* fatfs_open_rootdir looks at the card.
LEMMA EnterOpenCalm ==
  ASSUME CardsInv, CalmInv, EnterOpen
  PROVE  CalmInv'
<1>1. Busy /\ call.pc = "enter" /\ call.op = "open"
  BY DEF EnterOpen, Busy
<1>2. PICK s \in Slots : s = call.slot
  BY <1>1, CallInCalls DEF CardsInv
<1>3. /\ TypeOK /\ Shape /\ Look(s) /\ UNCHANGED <<card, awake, count, geo>>
      /\ type' = [type EXCEPT ![s] = Seen(s)]
      /\ type[s] \in Types /\ result = Nothing /\ SlotCalm(s)
  BY <1>1, <1>2, UnderWay DEF EnterOpen, CalmInv
<1>4. /\ ~changed'[s] /\ calm' \in [Slots -> BOOLEAN] /\ calm'[s] = calm[s]
  BY <1>3, LookCalm
<1>5. Seen(s) # "removed" => Settled(s) /\ type' = type
  BY <1>3 DEF Seen, TypeOK
<1>6. /\ \A t \in Slots : SlotCalm(t)'
      /\ \A h \in Handles :
           kept'[h] = kept[h] /\ file'[h] = file[h] => HandleKept(h)'
  BY <1>3, <1>5, LookStaysCalm
<1>7. ASSUME UNCHANGED <<file, kept>>, CallCalm', Busy' => result' = Nothing, NoFalseAlarm'
      PROVE  CalmInv'
  BY <1>3, <1>4, <1>6, <1>7 DEF CalmInv
<1>8. CASE card[s] = NoCard /\ Return("no card") /\ UNCHANGED <<last_cn, file, kept>>
  <2>1. call' = Idle /\ result'.op = "open" /\ result'.slot = s
    BY <1>1, <1>2, <1>8 DEF Return
  <2>2. NoFalseAlarm'
    BY <1>3, <1>8, <2>1 DEF NoFalseAlarm, WorksWhenCalm, HonestlyChanged
  <2> QED
    BY <1>7, <1>8, <2>1, <2>2 DEF CallCalm, Busy, Idle
<1>9. CASE /\ card[s] # NoCard /\ Seen(s) = "removed"
           /\ call' = [call EXCEPT !.pc = "activate"] /\ UNCHANGED <<result, file, kept>>
  <2>1. call'.pc = "activate" /\ call'.slot = s
    BY <1>1, <1>2, <1>9, CallInCalls, <1>3 DEF Calls
  <2>2. type'[s] = "removed"
    BY <1>3, <1>9 DEF TypeOK
  <2>3. CallCalm'
    BY <1>4, <2>1, <2>2 DEF CallCalm
  <2> QED
    BY <1>3, <1>7, <1>9, <2>3, SilentIsHonest
<1>10. CASE /\ Usable(Seen(s)) /\ call' = CheckFs(count[s], "opened", Block0)
            /\ UNCHANGED <<result, file, kept>>
  <2>1. call'.pc = "fs pre" /\ call'.slot = s
    BY <1>1, <1>2, <1>10, CallInCalls, <1>3 DEF Calls, CheckFs
  <2>2. CallCalm'
    BY <1>4, <2>1 DEF CallCalm
  <2> QED
    BY <1>3, <1>7, <1>10, <2>2, SilentIsHonest
<1>11. CASE Usable(Seen(s)) /\ s = last_cn /\ Opened(s, count[s], card[s])
  <2>1. Settled(s) /\ Usable(type[s]) /\ type' = type
    BY <1>5, <1>11 DEF Usable, Seen
  <2>2. card[s] \in Cards
    BY <1>3, <2>1 DEF TypeOK, Settled
  <2>3. calm'[s] => Kind[card[s]].fs # "none"
    <3> SUFFICES ASSUME calm[s] PROVE Kind[card[s]].fs # "none"
      BY <1>4
    <3>1. Known(last_cn)
      BY <1>3, <1>11, <2>1 DEF SlotCalm, Known
    <3>2. geo = card[s]
      BY <1>1, <1>11, <3>1 DEF CardsInv, GeoKnown, Looks
    <3> QED
      BY <2>1, <3>2 DEF CalmInv, Settled
  <2>4. geo' # NoCard => Kind[geo'].fs # "none"
    BY <1>3 DEF CalmInv
  <2> QED
    BY <1>1, <1>2, <1>3, <1>4, <1>6, <1>11, <2>1, <2>2, <2>3, <2>4, OpenedCalm
<1>12. CASE Seen(s) = "invalid" /\ Return("bad card") /\ UNCHANGED <<last_cn, file, kept>>
  <2>1. call' = Idle /\ result'.op = "open" /\ result'.slot = s /\ result'.r = "bad card"
    BY <1>1, <1>2, <1>12 DEF Return
  <2>2. Settled(s) /\ type[s] = "invalid"
    BY <1>5, <1>12 DEF Seen
  <2>3. NoFalseAlarm'
    BY <1>3, <1>4, <2>1, <2>2 DEF NoFalseAlarm, WorksWhenCalm, HonestlyChanged, SlotCalm
  <2> QED
    BY <1>7, <1>12, <2>1, <2>3 DEF CallCalm, Busy, Idle
<1> QED
  BY <1>2, <1>8, <1>9, <1>10, <1>11, <1>12 DEF EnterOpen

\* A step about one slot, as far as the others and their handles are concerned.
LEMMA SlotStaysCalm ==
  ASSUME TypeOK, CalmInv, NEW s \in Slots, UNCHANGED <<card, changed, file, kept>>,
         \A t \in Slots \ {s} : /\ type'[t] = type[t] /\ count'[t] = count[t]
                                /\ awake'[t] = awake[t] /\ calm'[t] = calm[t],
         SlotCalm(s)',
         \A h \in Handles : kept[h] /\ file[h].slot = s => HandleKept(h)'
  PROVE  (\A t \in Slots : SlotCalm(t)') /\ \A h \in Handles : HandleKept(h)'
<1> DEFINE S == Slots \ {s}
<1>1. S \in SUBSET Slots /\ \A t \in S :
        /\ type'[t] = type[t] /\ count'[t] = count[t] /\ (awake[t] => awake'[t])
        /\ changed'[t] => changed[t]
        /\ calm'[t] => calm[t] /\ changed'[t] = changed[t]
  OBVIOUS
<1>2. \A h \in Handles : file[h].slot # s => file[h].slot \in S
  BY DEF TypeOK
<1> HIDE DEF S
<1>3. /\ \A t \in S : SlotCalm(t)'
      /\ \A h \in Handles : file[h].slot \in S => HandleKept(h)'
  BY <1>1, OthersStayCalm
<1>4. \A t \in Slots : SlotCalm(t)'
  BY <1>3 DEF S
<1>5. ASSUME NEW h \in Handles PROVE HandleKept(h)'
  <2>1. CASE ~kept[h]
    BY <2>1 DEF HandleKept
  <2>2. CASE kept[h]
    BY <1>2, <1>3, <2>2
  <2> QED
    BY <2>1, <2>2
<1> QED
  BY <1>4, <1>5

\* sdcard_activate wakes a card that passed for removed, or says that it cannot.
LEMMA ActivateCalm ==
  ASSUME CardsInv, CalmInv, Activate
  PROVE  CalmInv'
<1>1. Busy /\ call.pc = "activate"
  BY DEF Activate, Busy
<1>2. PICK s \in Slots : s = call.slot
  BY <1>1, CallInCalls DEF CardsInv
<1>3. /\ TypeOK /\ Shape /\ call \in Calls /\ call.op = "open" /\ result = Nothing
      /\ type[s] = "removed" /\ (changed[s] /\ card[s] # NoCard => ~calm[s])
      /\ calm \in [Slots -> BOOLEAN] /\ kept \in [Handles -> BOOLEAN]
  BY <1>1, <1>2, UnderWay DEF Shape, CalmInv, CallCalm
<1>4. UNCHANGED <<card, changed, geo, file, kept>>
  BY DEF Activate
<1>5. \A h \in Handles : ~(kept[h] /\ file[h].slot = s)
  BY <1>3 DEF CalmInv, HandleKept
<1>6. ASSUME \A t \in Slots \ {s} : /\ type'[t] = type[t] /\ count'[t] = count[t]
                                    /\ awake'[t] = awake[t] /\ calm'[t] = calm[t],
             SlotCalm(s)', calm' \in [Slots -> BOOLEAN],
             CallCalm', Busy' => result' = Nothing, NoFalseAlarm'
      PROVE  CalmInv'
  <2>1. (\A t \in Slots : SlotCalm(t)') /\ \A h \in Handles : HandleKept(h)'
    BY <1>3, <1>4, <1>5, <1>6, SlotStaysCalm
  <2> QED
    BY <1>3, <1>4, <1>6, <2>1 DEF CalmInv
<1>7. CASE /\ card[s] = NoCard /\ type' = [type EXCEPT ![s] = "removed"]
           /\ Return("no card") /\ UNCHANGED <<awake, count, calm>>
  <2>1. call' = Idle /\ result'.op = "open" /\ result'.slot = s
    BY <1>2, <1>3, <1>7 DEF Return
  <2>2. NoFalseAlarm'
    BY <1>4, <1>7, <2>1 DEF NoFalseAlarm, WorksWhenCalm, HonestlyChanged
  <2>3. SlotCalm(s)' /\ \A t \in Slots \ {s} : type'[t] = type[t]
    BY <1>3, <1>4, <1>7 DEF SlotCalm, Settled, TypeOK
  <2> QED
    BY <1>3, <1>6, <1>7, <2>1, <2>2, <2>3 DEF CallCalm, Busy, Idle
<1>8. CASE /\ type' = [type EXCEPT ![s] = "invalid"] /\ calm' = [calm EXCEPT ![s] = FALSE]
           /\ Return("bad card") /\ UNCHANGED <<awake, count>>
  <2>1. call' = Idle /\ result'.op = "open" /\ result'.slot = s
    BY <1>2, <1>3, <1>8 DEF Return
  <2>2. ~calm'[s] /\ calm' \in [Slots -> BOOLEAN]
    BY <1>3, <1>8
  <2>3. NoFalseAlarm'
    BY <2>1, <2>2 DEF NoFalseAlarm, WorksWhenCalm, HonestlyChanged
  <2>4. SlotCalm(s)' /\ \A t \in Slots \ {s} : type'[t] = type[t] /\ calm'[t] = calm[t]
    BY <1>3, <1>8, <2>2 DEF SlotCalm, TypeOK
  <2> QED
    BY <1>6, <1>8, <2>1, <2>2, <2>3, <2>4 DEF CallCalm, Busy, Idle
<1>9. CASE /\ card[s] # NoCard
           /\ awake' = [awake EXCEPT ![s] = TRUE] /\ type' = [type EXCEPT ![s] = TypeOf(card[s])]
           /\ count' = NextId(s)
           /\ call' = [CheckFs(count'[s], "opened", Block0) EXCEPT !.new = TRUE]
           /\ UNCHANGED <<result, calm>>
  <2>1. call'.pc = "fs pre" /\ call'.slot = s
    BY <1>2, <1>3, <1>9 DEF CheckFs, Calls
  <2>2. /\ awake'[s] /\ type'[s] = TypeOf(card[s])
        /\ \A t \in Slots \ {s} : /\ type'[t] = type[t] /\ count'[t] = count[t]
                                  /\ awake'[t] = awake[t]
    BY <1>3, <1>9 DEF TypeOK, NextId
  <2>3. SlotCalm(s)'
    BY <2>2 DEF SlotCalm, TypeOf
  <2>4. CallCalm'
    BY <1>3, <1>4, <1>9, <2>1 DEF CallCalm
  <2> QED
    BY <1>3, <1>6, <1>9, <2>2, <2>3, <2>4, SilentIsHonest
<1> QED
  BY <1>2, <1>7, <1>8, <1>9 DEF Activate

\* Working out the address, a transfer that works, and the end of a block.
LEMMA TransfersCalm ==
  ASSUME CardsInv, CalmInv, Aim \/ Transfer \/ BlockDone
  PROVE  CalmInv'
<1>1. Busy /\ call.pc \in {"aim", "io", "fs io", "done"}
  BY DEF Aim, Transfer, BlockDone, Busy
<1>2. /\ TypeOK /\ Shape /\ call \in Calls /\ result = Nothing /\ CallCalm
  BY <1>1, UnderWay DEF CalmInv
<1>3. UNCHANGED <<card, awake, changed, type, count, geo, file, calm, kept>>
  BY DEF Aim, Transfer, BlockDone, hardware
<1>4. CASE /\ call'.slot = call.slot /\ call'.pc \in {"pre", "post", "fs post", "aim"}
           /\ (call'.pc = "fs post" => awake[call.slot]) /\ UNCHANGED result
  <2>1. CallCalm'
    <3>1. changed[call.slot] /\ card[call.slot] # NoCard => ~calm[call.slot]
      BY <1>1, <1>2 DEF CallCalm
    <3> QED
      BY <1>3, <1>4, <3>1 DEF CallCalm
  <2> QED
    BY <1>2, <1>3, <1>4, <2>1, AllStayCalm, SilentIsHonest
<1>5. CASE Aim
  <2>1. call'.slot = call.slot /\ call'.pc = "pre" /\ UNCHANGED result
    BY <1>2, <1>5 DEF Aim, Calls
  <2> QED
    BY <1>4, <2>1
<1>6. CASE Transfer
  <2>1. call'.slot = call.slot /\ call'.pc = (IF call.fs THEN "fs post" ELSE "post")
        /\ UNCHANGED result
    BY <1>2, <1>6 DEF Transfer, Calls
  <2>2. awake[call.slot]
    BY <1>1, <1>2, <1>6 DEF Transfer, Answers, Shape
  <2> QED
    BY <1>4, <2>1, <2>2
<1>7. CASE BlockDone
  <2>1. CASE call' = [call EXCEPT !.pc = "aim", !.todo = Tail(call.todo)] /\ UNCHANGED result
    <3>1. call'.slot = call.slot /\ call'.pc = "aim"
      BY <1>2, <2>1 DEF Calls
    <3> QED
      BY <1>4, <2>1, <3>1
  <2>2. CASE Return("ok")
    <3>1. call' = Idle /\ result'.r = "ok"
      BY <2>2 DEF Return
    <3>2. NoFalseAlarm'
      BY <3>1 DEF NoFalseAlarm, WorksWhenCalm, HonestlyChanged
    <3>3. CallCalm' /\ ~Busy'
      BY <3>1 DEF CallCalm, Busy, Idle
    <3> QED
      BY <1>2, <1>3, <3>2, <3>3, AllStayCalm
  <2> QED
    BY <1>7, <2>1, <2>2 DEF BlockDone
<1> QED
  BY <1>5, <1>6, <1>7

\* A transfer that fails is tried again; the last time that is an error of a card that answers.
LEMMA FailsCalm ==
  ASSUME CardsInv, CalmInv, Fails
  PROVE  CalmInv'
<1>1. Busy /\ call.pc \in {"io", "fs io"}
  BY DEF Fails, Busy
<1>2. PICK s \in Slots : s = call.slot
  BY <1>1, CallInCalls DEF CardsInv
<1>3. /\ TypeOK /\ Shape /\ call \in Calls /\ result = Nothing
      /\ sel = s /\ Usable(type[s]) /\ count[s] = call.n /\ (call.new => call.fs)
      /\ (changed[s] /\ card[s] # NoCard => ~calm[s])
      /\ calm \in [Slots -> BOOLEAN] /\ kept \in [Handles -> BOOLEAN] /\ SlotCalm(s)
  BY <1>1, <1>2, UnderWay DEF Shape, CalmInv, CallCalm, Looks, Transfers
<1>4. UNCHANGED <<card, awake, changed, geo, file, kept>>
  BY DEF Fails
<1>5. CASE /\ call' = [call EXCEPT !.pc = IF call.fs THEN "fs pre" ELSE "pre", !.tries = @ + 1]
           /\ UNCHANGED <<type, count, result, calm>>
  <2>1. call'.slot = s /\ call'.pc \in {"fs pre", "pre"}
    BY <1>2, <1>3, <1>5 DEF Calls
  <2>2. CallCalm'
    BY <1>3, <1>4, <1>5, <2>1 DEF CallCalm
  <2> QED
    BY <1>3, <1>4, <1>5, <2>2, AllStayCalm, SilentIsHonest
<1>6. CASE /\ Return("io error")
           /\ type' = IF call.fs THEN [type EXCEPT ![s] = "invalid"] ELSE type
           /\ count' = IF call.new THEN [count EXCEPT ![s] = @ - 1] ELSE count
           /\ calm' = [calm EXCEPT ![s] = @ /\ ~Answers]
  <2>1. /\ call' = Idle /\ result'.slot = s
    BY <1>2, <1>6 DEF Return
  <2>2. /\ \A t \in Slots \ {s} : /\ type'[t] = type[t] /\ count'[t] = count[t]
                                  /\ awake'[t] = awake[t] /\ calm'[t] = calm[t]
        /\ calm' \in [Slots -> BOOLEAN] /\ (calm'[s] => calm[s] /\ ~Answers)
        /\ type'[s] = IF call.fs THEN "invalid" ELSE type[s]
        /\ ~call.fs => count' = count
    BY <1>3, <1>4, <1>6 DEF TypeOK
  <2>3. calm'[s] => card[s] = NoCard
    <3> SUFFICES ASSUME calm'[s], card[s] # NoCard PROVE FALSE
      OBVIOUS
    <3>1. Settled(s)
      BY <1>3, <2>2 DEF Settled
    <3>2. awake[s]
      BY <1>3, <2>2, <3>1 DEF SlotCalm
    <3> QED
      BY <1>3, <2>2, <3>2 DEF Answers
  <2>4. SlotCalm(s)'
    BY <1>4, <2>3 DEF SlotCalm, Settled
  <2>5. ASSUME NEW h \in Handles, kept[h], file[h].slot = s PROVE HandleKept(h)'
    <3>1. HandleKept(h)
      BY DEF CalmInv
    <3>2. Settled(s) /\ type[s] # "removed" /\ file[h] # NoFile
          /\ (Usable(type[s]) => count[s] = file[h].n)
      BY <2>5, <3>1 DEF HandleKept
    <3>3. ~calm'[s]
      BY <2>3, <3>2 DEF Settled
    <3>4. type'[s] # "removed" /\ (Usable(type'[s]) => count'[s] = file[h].n)
      BY <2>2, <3>2 DEF Usable
    <3> QED
      BY <1>4, <2>5, <3>2, <3>3, <3>4 DEF HandleKept, Settled
  <2>6. (\A t \in Slots : SlotCalm(t)') /\ \A h \in Handles : HandleKept(h)'
    BY <1>3, <1>4, <2>2, <2>4, <2>5, SlotStaysCalm
  <2>7. NoFalseAlarm'
    <3>1. result'.r = "io error"
      BY <1>6 DEF Return
    <3> QED
      BY <1>4, <2>1, <2>3, <3>1 DEF NoFalseAlarm, WorksWhenCalm, HonestlyChanged
  <2>8. CallCalm' /\ ~Busy'
    BY <2>1 DEF CallCalm, Busy, Idle
  <2> QED
    BY <1>3, <1>4, <2>2, <2>6, <2>7, <2>8 DEF CalmInv
<1> QED
  BY <1>2, <1>5, <1>6 DEF Fails

\* fatfs_check_root_block judges the card that block 0 came from, which is the one in the slot
\* if that is still settled.
LEMMA FsDoneCalm ==
  ASSUME CardsInv, CalmInv, FsDone
  PROVE  CalmInv'
<1> DEFINE c == call.got
<1>1. Busy /\ call.pc = "fs done"
  BY DEF FsDone, Busy
<1>2. PICK s \in Slots : s = call.slot
  BY <1>1, CallInCalls DEF CardsInv
<1>3. /\ TypeOK /\ Shape /\ Aimed /\ call \in Calls /\ result = Nothing
      /\ Usable(type[s]) /\ count[s] = call.n /\ (call.new => call.fs)
      /\ (changed[s] /\ card[s] # NoCard => ~calm[s])
      /\ calm \in [Slots -> BOOLEAN] /\ kept \in [Handles -> BOOLEAN] /\ SlotCalm(s)
  BY <1>1, <1>2, UnderWay DEF Shape, CalmInv, CallCalm, Looks, Transfers
<1>4. UNCHANGED <<card, awake, changed>>
  BY DEF FsDone, hardware
<1>5. Settled(s) => awake[s] /\ c = card[s] /\ c \in Cards
  <2> SUFFICES ASSUME Settled(s) PROVE awake[s] /\ c = card[s] /\ c \in Cards
    OBVIOUS
  <2>1. awake[s]
    BY <1>1, <1>2 DEF CalmInv, CallCalm
  <2>2. c = card[s]
    BY <1>1, <1>2, <1>3, <2>1 DEF Aimed
  <2> QED
    BY <1>3, <2>1, <2>2 DEF Settled, TypeOK
<1>6. CASE /\ Kind[c].fs = "fat" \/ (Kind[c].fs = "part" /\ call.part)
           /\ geo' = c /\ UNCHANGED <<type, count>>
           /\ \/ call.op = "open" /\ Opened(s, call.n, c)
              \/ /\ call' = [call EXCEPT !.pc = call.then, !.fs = FALSE, !.part = FALSE]
                 /\ call.then = "aim" /\ UNCHANGED <<file, kept, result>>
           /\ calm' = [calm EXCEPT ![s] = @ \/ (call.op = "open" /\ Settled(s))]
  <2>1. /\ calm' \in [Slots -> BOOLEAN] /\ (calm'[s] => calm[s] \/ Settled(s))
        /\ \A t \in Slots \ {s} : calm'[t] = calm[t]
    BY <1>3, <1>6 DEF Settled
  <2>2. SlotCalm(s)'
    BY <1>3, <1>4, <1>5, <1>6 DEF SlotCalm, Settled, Usable
  <2>3. /\ \A t \in Slots : SlotCalm(t)'
        /\ \A h \in Handles :
             kept'[h] = kept[h] /\ file'[h] = file[h] => HandleKept(h)'
    <3>1. /\ \A t \in Slots \ {s} : SlotCalm(t)'
          /\ \A h \in Handles :
               kept'[h] = kept[h] /\ file'[h] = file[h] /\ file[h].slot # s => HandleKept(h)'
      <4> DEFINE S == Slots \ {s}
      <4>1. S \in SUBSET Slots /\ \A t \in S :
              /\ type'[t] = type[t] /\ count'[t] = count[t] /\ (awake[t] => awake'[t])
              /\ changed'[t] => changed[t]
              /\ calm'[t] => calm[t] /\ changed'[t] = changed[t]
        BY <1>4, <1>6, <2>1
      <4>2. \A h \in Handles : file[h].slot # s => file[h].slot \in S
        BY <1>3 DEF TypeOK
      <4> HIDE DEF S
      <4>3. /\ \A t \in S : SlotCalm(t)'
            /\ \A h \in Handles :
                 kept'[h] = kept[h] /\ file'[h] = file[h] /\ file[h].slot \in S => HandleKept(h)'
        BY <1>3, <1>4, <4>1, OthersStayCalm
      <4>4. \A t \in Slots \ {s} : SlotCalm(t)'
        BY <4>3 DEF S
      <4> QED
        BY <4>2, <4>3, <4>4
    <3>2. ASSUME NEW h \in Handles, kept'[h] = kept[h], file'[h] = file[h], file[h].slot = s
          PROVE  HandleKept(h)'
      <4>1. HandleKept(h)
        BY DEF CalmInv
      <4>2. Kind[c].fs # "none"
        BY <1>6
      <4> QED
        BY <1>4, <1>5, <1>6, <3>2, <4>1, <4>2 DEF HandleKept, Settled
    <3> QED
      BY <2>2, <3>1, <3>2
  <2>4. geo' # NoCard => Kind[geo'].fs # "none"
    BY <1>6
  <2>5. CASE call.op = "open" /\ Opened(s, call.n, c)
    <3>1. Opened(s, count[s], c) /\ UNCHANGED <<card, type, count>>
      BY <1>3, <1>4, <1>6, <2>5
    <3>2. Settled(s) => /\ c \in Cards /\ ~changed'[s] /\ Usable(type[s])
                        /\ calm'[s] => Kind[card[s]].fs # "none"
      BY <1>3, <1>4, <1>5, <1>6 DEF Settled
    <3> HIDE DEF c
    <3> QED
      BY <1>1, <1>2, <1>3, <2>1, <2>3, <2>4, <2>5, <3>1, <3>2, OpenedCalm
  <2>6. CASE /\ call' = [call EXCEPT !.pc = call.then, !.fs = FALSE, !.part = FALSE]
             /\ call.then = "aim" /\ UNCHANGED <<file, kept, result>>
    <3>1. call'.pc = "aim" /\ call'.slot = s
      BY <1>2, <1>3, <2>6 DEF Calls
    <3>2. changed[s] /\ card[s] # NoCard => ~calm'[s]
      BY <1>3, <2>1 DEF Settled
    <3>3. CallCalm'
      BY <1>4, <3>1, <3>2 DEF CallCalm
    <3> QED
      BY <1>3, <1>4, <2>1, <2>3, <2>4, <2>6, <3>3, SilentIsHonest DEF CalmInv
  <2> QED
    BY <1>6, <2>5, <2>6
<1>7. CASE /\ call' = [CheckFs(call.n, call.then, type[s]) EXCEPT !.part = TRUE]
           /\ UNCHANGED <<type, count, geo, file, kept, result, calm>>
  <2>1. call'.pc = "fs pre" /\ call'.slot = s
    BY <1>2, <1>3, <1>7 DEF Calls, CheckFs
  <2>2. CallCalm'
    BY <1>3, <1>4, <1>7, <2>1 DEF CallCalm
  <2> QED
    BY <1>3, <1>4, <1>7, <2>2, AllStayCalm, SilentIsHonest
<1>8. CASE /\ Kind[c].fs = "none"
           /\ type' = [type EXCEPT ![s] = "invalid"]
           /\ count' = IF call.new THEN [count EXCEPT ![s] = @ - 1] ELSE count
           /\ Return("no file system") /\ UNCHANGED <<geo, file, kept, calm>>
  <2>1. /\ call' = Idle /\ result'.slot = s /\ result'.r = "no file system"
    BY <1>2, <1>8 DEF Return
  <2>2. /\ \A t \in Slots \ {s} : type'[t] = type[t] /\ count'[t] = count[t]
        /\ type'[s] = "invalid"
    BY <1>3, <1>8 DEF TypeOK
  <2>3. calm[s] /\ card[s] # NoCard => Kind[card[s]].fs = "none"
    BY <1>3, <1>5, <1>8 DEF Settled
  <2>4. SlotCalm(s)'
    BY <1>4, <1>8, <2>2, <2>3 DEF SlotCalm, Settled, Usable
  <2>5. ASSUME NEW h \in Handles, kept[h], file[h].slot = s PROVE HandleKept(h)'
    <3>1. HandleKept(h)
      BY DEF CalmInv
    <3> QED
      BY <1>4, <1>8, <2>2, <2>5, <3>1 DEF HandleKept, Settled, Usable
  <2>6. (\A t \in Slots : SlotCalm(t)') /\ \A h \in Handles : HandleKept(h)'
    BY <1>3, <1>4, <1>8, <2>2, <2>4, <2>5, SlotStaysCalm
  <2>7. NoFalseAlarm'
    BY <1>4, <1>8, <2>1, <2>3 DEF NoFalseAlarm, WorksWhenCalm, HonestlyChanged
  <2>8. CallCalm' /\ ~Busy'
    BY <2>1 DEF CallCalm, Busy, Idle
  <2>9. geo # NoCard => Kind[geo].fs # "none"
    BY DEF CalmInv
  <2> QED
    BY <1>3, <1>8, <2>6, <2>7, <2>8, <2>9 DEF CalmInv
<1>9. call.then = "opened" <=> call.op = "open"
  BY <1>1, <1>3 DEF Shape, Looks
<1>10. call.then \in {"aim", "opened"}
  BY <1>3 DEF Calls
<1> HIDE DEF c
<1>11. \/ /\ Kind[c].fs = "fat" \/ (Kind[c].fs = "part" /\ call.part)
          /\ geo' = c /\ UNCHANGED <<type, count>>
          /\ IF call.then = "opened" THEN Opened(s, call.n, c)
             ELSE /\ call' = [call EXCEPT !.pc = call.then, !.fs = FALSE, !.part = FALSE]
                  /\ UNCHANGED <<file, kept, result>>
          /\ calm' = [calm EXCEPT ![s] = @ \/ (call.op = "open" /\ Settled(s))]
       \/ /\ call' = [CheckFs(call.n, call.then, type[s]) EXCEPT !.part = TRUE]
          /\ UNCHANGED <<type, count, geo, file, kept, result, calm>>
       \/ /\ Kind[c].fs = "none"
          /\ type' = [type EXCEPT ![s] = "invalid"]
          /\ count' = IF call.new THEN [count EXCEPT ![s] = @ - 1] ELSE count
          /\ Return("no file system") /\ UNCHANGED <<geo, file, kept, calm>>
  BY <1>2 DEF FsDone, c
<1> QED
  BY <1>6, <1>7, <1>8, <1>9, <1>10, <1>11

\* Nothing has been asked for at first.
LEMMA CalmStart == Init => CalmInv
<1> SUFFICES ASSUME Init PROVE CalmInv
  OBVIOUS
<1>1. /\ calm = [s \in Slots |-> TRUE] /\ kept = [h \in Handles |-> FALSE]
      /\ type = [s \in Slots |-> "removed"] /\ geo = NoCard /\ ~Busy /\ result.op = "none"
  BY DEF Init, Busy, Idle, Nothing
<1>2. \A s \in Slots : SlotCalm(s)
  BY <1>1 DEF SlotCalm, Usable
<1>3. \A h \in Handles : HandleKept(h)
  BY <1>1 DEF HandleKept
<1>4. NoFalseAlarm
  BY <1>1 DEF NoFalseAlarm, WorksWhenCalm, HonestlyChanged
<1> QED
  BY <1>1, <1>2, <1>3, <1>4 DEF CalmInv, CallCalm

\* Every step keeps it.
LEMMA CalmStep == CardsInv /\ CalmInv /\ [Next]_vars => CalmInv'
<1> SUFFICES ASSUME CardsInv, CalmInv, [Next]_vars
             PROVE  CalmInv'
  OBVIOUS
<1>0. TypeOK
  BY DEF CardsInv
<1>1. ASSUME NEW s \in Slots, NEW c \in Cards, Inserted(s, c)
      PROVE  CalmInv'
  BY <1>0, <1>1, InsertedCalm
<1>2. ASSUME NEW s \in Slots, Removed(s)
      PROVE  CalmInv'
  BY <1>0, <1>2, RemovedCalm
<1>3. CASE \/ \E s \in Slots : SelectSlot(s)
           \/ \E h \in Handles : OpenRoot(h) \/ \E t \in Todos : Access(h, t)
  BY <1>0, <1>3, CallsBeginCalm
<1>4. CASE EnterAccess
  <2>1. Busy /\ call.pc = "enter" /\ call.op # "open" /\ Check("aim")
    BY <1>4 DEF EnterAccess, Busy
  <2> QED
    BY <2>1, CheckCalm
<1>5. CASE Before
  <2>1. PICK pc \in {"fs io", "io"} :
          /\ Busy /\ Check(pc) /\ call.pc \in {"pre", "fs pre"}
          /\ pc = IF call.fs THEN "fs io" ELSE "io"
    BY <1>5 DEF Before, Busy
  <2>2. call.fs <=> call.pc = "fs pre"
    BY <2>1, UnderWay DEF Shape, Looks
  <2> QED
    BY <2>1, <2>2, CheckCalm
<1>6. CASE After
  <2>1. PICK pc \in {"fs done", "done"} :
          /\ Busy /\ Check(pc) /\ call.pc \in {"post", "fs post"}
          /\ pc = IF call.fs THEN "fs done" ELSE "done"
    BY <1>6 DEF After, Busy
  <2>2. call.fs <=> call.pc = "fs post"
    BY <2>1, UnderWay DEF Shape, Looks
  <2> QED
    BY <2>1, <2>2, CheckCalm
<1>7. CASE UNCHANGED vars
  <2>1. UNCHANGED <<card, awake, changed, type, count, geo, file, calm, kept, call, result>>
    BY <1>7 DEF vars, hardware
  <2>2. CallCalm' /\ NoFalseAlarm' /\ (Busy' => result' = Nothing)
    BY <2>1 DEF CalmInv, CallCalm, NoFalseAlarm, WorksWhenCalm, HonestlyChanged, Settled, Busy
  <2> QED
    BY <1>0, <2>1, <2>2, AllStayCalm
<1> QED
  BY <1>1, <1>2, <1>3, <1>4, <1>5, <1>6, <1>7, EnterOpenCalm, ActivateCalm, TransfersCalm,
     FailsCalm, FsDoneCalm DEF Next, Step

\* However many cards come and go, at whatever step of a call: a good card that was inserted
\* while its slot was not in use, and has not failed since, can be opened and gives no I/O error,
\* and a handle is refused only if its card has left or its slot has failed (sdcard.c,
\* fatfs_check_card, fatfs_check_fs).
THEOREM OnlyTrueAlarms == Spec => []NoFalseAlarm
<1>1. CalmInv => NoFalseAlarm
  BY DEF CalmInv
<1>2. Init => CardsInv /\ CalmInv
  BY CardsStart, CalmStart
<1>3. CardsInv /\ CalmInv /\ [Next]_vars => CardsInv' /\ CalmInv'
  BY CardsStep, CalmStep
<1> QED
  BY <1>1, <1>2, <1>3, PTL DEF Spec


----------------------------------------------------------------------------
(* Directories. What a search reads of a list of slots s, and what that     *)
(* depends on.                                                              *)

SlotKinds == Entries \cup {End, Deleted, Junk}

\* The first slot that a search does not read: the end mark, or behind the last.
FrontOf(s) == Cardinality(Visible(s)) + 1

EndAt(s, e) ==
  /\ e \in 1..(Len(s) + 1)
  /\ \A j \in 1..(e - 1) : s[j] # End
  /\ e <= Len(s) => s[e] = End

\* Nothing that is no entry looks like one.
LEMMA MarksDiffer ==
  /\ End # Deleted /\ End # Junk /\ Deleted # Junk
  /\ End \notin Entries /\ Deleted \notin Entries /\ Junk \notin Entries
<1>1. End # Deleted /\ End # Junk /\ Deleted # Junk
  BY DEF End, Deleted, Junk
<1>2. \A e \in Entries : Len(e) = 2
  BY DEF Entries, Entry
<1>3. Len(End) = 1 /\ Len(Deleted) = 1 /\ Len(Junk) = 1
  BY DEF End, Deleted, Junk
<1> QED
  BY <1>1, <1>2, <1>3

\* Entries differ in their name or in their part.
LEMMA EntryIs ==
  ASSUME NEW n \in Names, NEW p \in 0..20
  PROVE  /\ Entry(n, p) \in Entries
         /\ Entry(n, p) # End /\ Entry(n, p) # Deleted /\ Entry(n, p) # Junk
         /\ \A m \in Names, q \in 0..20 : Entry(m, q) = Entry(n, p) => m = n /\ q = p
<1>1. Entry(n, p) \in Entries
  BY DEF Entries
<1>2. \A m \in Names, q \in 0..20 : Entry(m, q) = Entry(n, p) => m = n /\ q = p
  BY DEF Entry
<1> QED
  BY <1>1, <1>2, MarksDiffer

\* A name has the parts 0 to 20 at most.
LEMMA PartIs ==
  ASSUME NEW n \in Names
  PROVE  /\ Needed[n] \in 1..21
         /\ \A p \in 0..(Needed[n] - 1) : p \in 0..20
         /\ 0 \in 0..(Needed[n] - 1) /\ \A i \in Nat : i - 0 = i
<1>1. Needed[n] \in 1..21
  BY DirectoryAssumption
<1> QED
  BY <1>1

\* A set of numbers that has one has a least.
LEMMA Smallest ==
  ASSUME NEW S, S \subseteq Nat, S # {}
  PROVE  \E n \in S : \A m \in S : n <= m
<1>1. PICK n \in S : \A m \in S : <<m, n>> \notin OpToRel(<, Nat)
  BY NatLessThanWellFounded, WFMin, Zenon
<1>2. \A m \in S : ~(m < n)
  BY <1>1 DEF OpToRel
<1> QED
  BY <1>2

\* There is a first end mark, or none.
LEMMA HasEnd ==
  ASSUME NEW s \in Seq(SlotKinds)
  PROVE  \E e \in 1..(Len(s) + 1) : EndAt(s, e)
<1> DEFINE M == {i \in 1..Len(s) : s[i] = End}
<1>0. Len(s) \in Nat
  OBVIOUS
<1>1. CASE M = {}
  <2>1. EndAt(s, Len(s) + 1)
    BY <1>0, <1>1 DEF EndAt
  <2> QED
    BY <1>0, <2>1
<1>2. CASE M # {}
  <2>1. M \subseteq Nat
    BY <1>0
  <2>2. PICK e \in M : \A m \in M : e <= m
    <3> HIDE DEF M
    <3> QED
      BY <1>2, <2>1, Smallest
  <2>3. \A m \in M : ~(m < e)
    BY <2>1, <2>2
  <2>4. EndAt(s, e)
    BY <1>0, <2>3 DEF EndAt
  <2> QED
    BY <1>0, <2>4
<1> QED
  BY <1>1, <1>2

\* What is read are the slots in front of the first end mark.
LEMMA FrontIs ==
  ASSUME NEW s \in Seq(SlotKinds), NEW e, EndAt(s, e)
  PROVE  FrontOf(s) = e /\ Visible(s) = 1..(e - 1)
<1>1. Len(s) \in Nat /\ DOMAIN s = 1..Len(s) /\ e \in 1..(Len(s) + 1)
  BY DEF EndAt
<1>2. Visible(s) = 1..(e - 1)
  <2>1. ASSUME NEW i \in Visible(s) PROVE i \in 1..(e - 1)
    <3>1. i \in 1..Len(s) /\ \A j \in 1..i : s[j] # End
      BY <1>1, <2>1 DEF Visible
    <3> QED
      BY <1>1, <3>1 DEF EndAt
  <2>2. ASSUME NEW i \in 1..(e - 1) PROVE i \in Visible(s)
    BY <1>1, <2>2 DEF EndAt, Visible
  <2> QED
    BY <2>1, <2>2
<1>3. Cardinality(1..(e - 1)) = e - 1
  <2>1. Cardinality(1..(e - 1)) = IF 1 > e - 1 THEN 0 ELSE (e - 1) - 1 + 1
    BY <1>1, FS_Interval
  <2> QED
    BY <1>1, <2>1
<1> QED
  BY <1>1, <1>2, <1>3 DEF FrontOf

\* There is one such slot, and it bounds what is read.
LEMMA VisibleIs ==
  ASSUME NEW s \in Seq(SlotKinds)
  PROVE  EndAt(s, FrontOf(s)) /\ FrontOf(s) \in 1..(Len(s) + 1) /\ Visible(s) = 1..(FrontOf(s) - 1)
<1>1. PICK e \in 1..(Len(s) + 1) : EndAt(s, e)
  BY HasEnd
<1> QED
  BY <1>1, FrontIs

\* The entries that s shows are still shown by t.
Keeps(s, t) ==
  \A i \in Visible(s) : s[i] \in Entries => i \in Visible(t) /\ t[i] = s[i]

\* A file that is found is found as long as no entry goes.
LEMMA PlaceKept ==
  ASSUME NEW s \in Seq(SlotKinds), NEW t \in Seq(SlotKinds), Keeps(s, t),
         NEW n \in Names, NEW i \in Places(s, n)
  PROVE  i \in Places(t, n)
<1>1. i \in Visible(s) /\ \A p \in 0..(Needed[n] - 1) : i - p > 0 /\ s[i - p] = Entry(n, p)
  BY DEF Places
<1>2. i \in 1..(FrontOf(s) - 1) /\ FrontOf(s) \in Nat
  BY <1>1, VisibleIs
<1>3. ASSUME NEW p \in 0..(Needed[n] - 1)
      PROVE  i - p > 0 /\ i - p \in Visible(t) /\ t[i - p] = Entry(n, p)
  <2>1. p \in 0..20 /\ i - p > 0 /\ s[i - p] = Entry(n, p)
    BY <1>1, PartIs
  <2>2. i - p \in Visible(s)
    BY <1>2, <2>1, VisibleIs
  <2>3. s[i - p] \in Entries
    BY <2>1, EntryIs
  <2> QED
    BY <2>1, <2>2, <2>3 DEF Keeps
<1>0. i \in Nat
  BY <1>2
<1>4. 0 \in 0..(Needed[n] - 1) /\ i - 0 = i
  BY <1>0, PartIs
<1>5. i \in Visible(t)
  BY <1>3, <1>4
<1> QED
  BY <1>3, <1>5, Zenon DEF Places

\* As long as no entry goes, and no last part of one comes, the same files are found.
LEMMA NamesKept ==
  ASSUME NEW s \in Seq(SlotKinds), NEW t \in Seq(SlotKinds), Tidy(s), Keeps(s, t),
         \A n \in Names, i \in Visible(t) :
           t[i] = Entry(n, 0) => i \in Visible(s) /\ s[i] = t[i]
  PROVE  Tidy(t) /\ \A n \in Names : Places(t, n) = Places(s, n)
<1>1. ASSUME NEW n \in Names, NEW i \in Visible(t), t[i] = Entry(n, 0)
      PROVE  i \in Visible(s) /\ s[i] = Entry(n, 0) /\ i \in Places(s, n)
  BY <1>1 DEF Tidy
<1>2. ASSUME NEW n \in Names PROVE Places(t, n) = Places(s, n)
  <2>1. ASSUME NEW i \in Places(t, n) PROVE i \in Places(s, n)
    <3>1. i \in Visible(t) /\ \A p \in 0..(Needed[n] - 1) : t[i - p] = Entry(n, p)
      BY <2>1 DEF Places
    <3>0. i \in Nat
      BY <3>1, VisibleIs
    <3>2. 0 \in 0..(Needed[n] - 1) /\ i - 0 = i
      BY <3>0, PartIs
    <3> QED
      BY <1>1, <3>1, <3>2
  <2>2. ASSUME NEW i \in Places(s, n) PROVE i \in Places(t, n)
    BY PlaceKept, Zenon
  <2> QED
    BY <2>1, <2>2, Zenon
<1>3. Tidy(t)
  BY <1>1, <1>2 DEF Tidy
<1> QED
  BY <1>2, <1>3

\* A new name whose last part comes with all the others in front of it is found, and nothing
\* else changes.
LEMMA NameAdded ==
  ASSUME NEW s \in Seq(SlotKinds), NEW t \in Seq(SlotKinds), Tidy(s), Keeps(s, t),
         NEW m \in Names, Places(s, m) = {}, NEW k \in Places(t, m),
         \A n \in Names, i \in Visible(t) :
           t[i] = Entry(n, 0) => (i \in Visible(s) /\ s[i] = t[i]) \/ (n = m /\ i = k)
  PROVE  Tidy(t) /\ \A n \in Names : Places(t, n) # {} <=> (Places(s, n) # {} \/ n = m)
<1>1. ASSUME NEW n \in Names, NEW i \in Visible(t), t[i] = Entry(n, 0)
      PROVE  IF n = m THEN i = k ELSE i \in Visible(s) /\ s[i] = Entry(n, 0) /\ i \in Places(s, n)
  <2>1. i \in Visible(s) /\ s[i] = t[i] => i \in Places(s, n)
    BY <1>1 DEF Tidy
  <2> QED
    BY <1>1, <2>1
<1>2. ASSUME NEW n \in Names, n # m PROVE Places(t, n) = Places(s, n)
  <2>1. ASSUME NEW i \in Places(t, n) PROVE i \in Places(s, n)
    <3>1. i \in Visible(t) /\ \A p \in 0..(Needed[n] - 1) : t[i - p] = Entry(n, p)
      BY <2>1 DEF Places
    <3>0. i \in Nat
      BY <3>1, VisibleIs
    <3>2. 0 \in 0..(Needed[n] - 1) /\ i - 0 = i
      BY <3>0, PartIs
    <3> QED
      BY <1>1, <1>2, <3>1, <3>2
  <2>2. ASSUME NEW i \in Places(s, n) PROVE i \in Places(t, n)
    BY PlaceKept, Zenon
  <2> QED
    BY <2>1, <2>2, Zenon
<1>3. Tidy(t)
  BY <1>1, <1>2 DEF Tidy
<1> QED
  BY <1>2, <1>3

----------------------------------------------------------------------------
(* Blocks and clusters.                                                     *)

\* A number is so many times another, and a rest.
LEMMA Rest ==
  ASSUME NEW x \in Nat, NEW k \in Nat \ {0}
  PROVE  \E q \in Nat, r \in 0..(k - 1) : x \div k = q /\ x % k = r /\ x = q * k + r
<1>1. x \div k \in Nat
  OBVIOUS
<1>2. x % k \in 0..(k - 1)
  OBVIOUS
<1>3. x % k = x - (x \div k) * k
  OBVIOUS
<1> DEFINE q == x \div k
           r == x % k
<1>4. q \in Nat /\ r \in 0..(k - 1) /\ r = x - q * k /\ x \div k = q /\ x % k = r
  BY <1>1, <1>2, <1>3
<1> HIDE DEF q, r
<1>5. x = q * k + r
  <2> DEFINE m == q * k
  <2>1. m \in Nat /\ r = x - m
    BY <1>4
  <2> HIDE DEF m
  <2>2. x = m + r
    BY <1>4, <2>1
  <2> QED
    BY <2>2 DEF m
<1> QED
  BY <1>4, <1>5

\* And no other way.
LEMMA RestIs ==
  ASSUME NEW q \in Nat, NEW k \in Nat \ {0}
  PROVE  q * k \in Nat /\ (q * k) % k = 0
<1>1. q * k \in Nat
  OBVIOUS
<1>2. PICK p \in Nat, r \in 0..(k - 1) : (q * k) % k = r /\ q * k = p * k + r
  BY <1>1, Rest
<1>3. q <= p \/ p + 1 <= q
  OBVIOUS
<1>4. CASE q <= p
  <2>1. q * k <= p * k
    BY <1>4
  <2>2. p * k \in Nat
    OBVIOUS
  <2> DEFINE x == q * k
             y == p * k
  <2>3. x \in Nat /\ y \in Nat /\ x <= y /\ x = y + r
    BY <1>1, <1>2, <2>1, <2>2
  <2> HIDE DEF x, y
  <2>4. r = 0
    BY <2>3
  <2> QED
    BY <1>1, <1>2, <2>4
<1>5. CASE p + 1 <= q
  <2>1. PICK d \in Nat : q = (p + 1) + d
    <3>1. q - (p + 1) \in Nat /\ q = (p + 1) + (q - (p + 1))
      BY <1>5
    <3> QED
      BY <3>1
  <2>2. q * k = p * k + k + d * k
    BY <2>1
  <2> DEFINE x == p * k
             y == d * k
  <2>3. x \in Nat /\ y \in Nat /\ x + k + y = x + r
    BY <1>2, <2>2
  <2> HIDE DEF x, y
  <2> QED
    BY <2>3
<1> QED
  BY <1>3, <1>4, <1>5

LEMMA Multiple ==
  ASSUME NEW x \in Nat, NEW k \in Nat \ {0}, x % k = 0
  PROVE  \E p \in Nat : x = p * k
<1>1. PICK p \in Nat, z \in 0..(k - 1) : x \div k = p /\ x % k = z /\ x = p * k + z
  BY Rest
<1>2. p * k \in Nat /\ z = 0
  BY <1>1
<1>3. x = p * k
  BY <1>1, <1>2
<1> QED
  BY <1>3

\* The sizes of a block and a cluster, in slots.
LEMMA SizesAre ==
  BlockSlots \in Nat \ {0} /\ BlocksPerCluster \in Nat \ {0} /\ ClusterSlots \in Nat \ {0}
  /\ ClusterSlots >= BlockSlots
<1>1. BlockSlots \in Nat \ {0} /\ BlocksPerCluster \in Nat \ {0}
  BY DirectoryAssumption
<1>2. ASSUME NEW a \in Nat \ {0}, NEW b \in Nat \ {0} PROVE a * b \in Nat \ {0} /\ a * b >= b
  <2>1. PICK c \in Nat : a = c + 1
    <3>1. a - 1 \in Nat /\ a = (a - 1) + 1
      OBVIOUS
    <3> QED
      BY <3>1
  <2>2. a * b = c * b + b /\ c * b \in Nat
    BY <2>1
  <2> DEFINE x == c * b
             y == a * b
  <2>3. x \in Nat /\ y = x + b
    BY <2>2
  <2> HIDE DEF x, y
  <2>4. y \in Nat \ {0} /\ y >= b
    BY <2>3
  <2> QED
    BY <2>4 DEF y
<1> QED
  BY <1>1, <1>2 DEF ClusterSlots

\* A block goes from the slot after the block before it up to its end.
LEMMA BlockIs ==
  ASSUME NEW i \in Nat \ {0}
  PROVE  BlockEnd(i) \in Nat /\ BlockEnd(i) >= i
<1>1. i - 1 \in Nat
  OBVIOUS
<1>2. PICK q \in Nat, r \in 0..(BlockSlots - 1) :
        (i - 1) \div BlockSlots = q /\ i - 1 = q * BlockSlots + r
  BY <1>1, Rest, SizesAre
<1>3. BlockEnd(i) = (q + 1) * BlockSlots
  BY <1>2 DEF BlockEnd, Block
<1>4. (q + 1) * BlockSlots = q * BlockSlots + BlockSlots /\ q * BlockSlots \in Nat
  BY SizesAre
<1> DEFINE x == q * BlockSlots
<1>5. x \in Nat /\ BlockEnd(i) = x + BlockSlots /\ i - 1 = x + r
  BY <1>2, <1>3, <1>4
<1> HIDE DEF x
<1> QED
  BY <1>5, SizesAre

\* In a directory of whole blocks, the block of each slot ends within.
LEMMA BlockInside ==
  ASSUME NEW N \in Nat, N % BlockSlots = 0, NEW i \in 1..N
  PROVE  BlockEnd(i) <= N
<1>1. i - 1 \in Nat
  OBVIOUS
<1>2. PICK q \in Nat, r \in 0..(BlockSlots - 1) :
        (i - 1) \div BlockSlots = q /\ i - 1 = q * BlockSlots + r
  BY <1>1, Rest, SizesAre
<1>3. PICK p \in Nat : N = p * BlockSlots
  BY Multiple, SizesAre
<1>4. BlockEnd(i) = (q + 1) * BlockSlots
  BY <1>2 DEF BlockEnd, Block
<1>5. CASE q + 1 <= p
  <2>1. \A a, b \in Nat : \A c \in Nat : a <= b => a * c <= b * c
    OBVIOUS
  <2> QED
    BY <1>3, <1>4, <1>5, <2>1, SizesAre
<1>6. CASE p <= q
  <2>1. \A a, b \in Nat : \A c \in Nat : a <= b => a * c <= b * c
    OBVIOUS
  <2>2. p * BlockSlots <= q * BlockSlots
    BY <1>6, <2>1, SizesAre
  <2>3. q * BlockSlots \in Nat
    BY SizesAre
  <2> DEFINE x == q * BlockSlots
  <2>4. x \in Nat /\ N <= x /\ i - 1 = x + r
    BY <1>2, <1>3, <2>2, <2>3
  <2> HIDE DEF x
  <2> QED
    BY <2>4
<1> QED
  BY <1>5, <1>6

\* Whole clusters are whole blocks, and stay whole clusters when one is added.
LEMMA WholeClusters ==
  ASSUME NEW N \in Nat, N % ClusterSlots = 0
  PROVE  N % BlockSlots = 0 /\ (N + ClusterSlots) % ClusterSlots = 0
<1>1. PICK p \in Nat : N = p * ClusterSlots
  BY Multiple, SizesAre
<1>2. N + ClusterSlots = (p + 1) * ClusterSlots
  BY <1>1, SizesAre
<1>3. N = (p * BlocksPerCluster) * BlockSlots /\ p * BlocksPerCluster \in Nat
  <2>1. \A a, b, c \in Nat : a * (b * c) = (a * b) * c /\ a * b \in Nat
    OBVIOUS
  <2> QED
    BY <1>1, <2>1, SizesAre DEF ClusterSlots
<1>4. ((p * BlocksPerCluster) * BlockSlots) % BlockSlots = 0
  BY <1>3, RestIs, SizesAre
<1>5. ((p + 1) * ClusterSlots) % ClusterSlots = 0
  BY RestIs, SizesAre
<1> QED
  BY <1>2, <1>3, <1>4, <1>5

----------------------------------------------------------------------------
(* What the steps of a save do to the slots.                                *)

\* What blanking does.
LEMMA BlankedIs ==
  ASSUME NEW s \in Seq(SlotKinds), NEW ss
  PROVE  /\ Blanked(s, ss) \in Seq(SlotKinds) /\ Len(Blanked(s, ss)) = Len(s)
         /\ \A i \in 1..Len(s) : Blanked(s, ss)[i] = (IF i \in ss THEN End ELSE s[i])
<1>1. Len(s) \in Nat /\ DOMAIN s = 1..Len(s) /\ \A i \in 1..Len(s) : s[i] \in SlotKinds
  OBVIOUS
<1> DEFINE t == [i \in 1..Len(s) |-> IF i \in ss THEN End ELSE s[i]]
<1>2. Blanked(s, ss) = t
  BY <1>1 DEF Blanked
<1>3. t \in [1..Len(s) -> SlotKinds]
  BY <1>1 DEF SlotKinds
<1>4. t \in Seq(SlotKinds) /\ Len(t) = Len(s)
  BY <1>1, <1>3
<1> QED
  BY <1>2, <1>4

\* Blanking slots from the end mark on changes nothing that is read.
LEMMA BlankedBehind ==
  ASSUME NEW s \in Seq(SlotKinds), NEW t \in Seq(SlotKinds), NEW ss, t = Blanked(s, ss),
         \A i \in ss : i \in Nat /\ i >= FrontOf(s)
  PROVE  /\ FrontOf(t) = FrontOf(s) /\ Visible(t) = Visible(s)
         /\ \A i \in Visible(s) : t[i] = s[i]
<1> DEFINE E == FrontOf(s)
<1>1. EndAt(s, E) /\ E \in 1..(Len(s) + 1) /\ Visible(s) = 1..(E - 1)
  BY VisibleIs
<1>2. Len(s) \in Nat /\ Len(t) = Len(s)
      /\ \A i \in 1..Len(s) : t[i] = (IF i \in ss THEN End ELSE s[i])
  BY BlankedIs
<1>3. \A i \in ss : i \in Nat /\ i >= E
  OBVIOUS
<1> HIDE DEF E
<1>4. \A i \in 1..(E - 1) : t[i] = s[i]
  BY <1>1, <1>2, <1>3
<1>5. EndAt(t, E)
  BY <1>1, <1>2, <1>4 DEF EndAt
<1> QED
  BY <1>1, <1>4, <1>5, FrontIs DEF E

\* Nothing is to be found from slot f on, which may be read.
Bare(s, f) ==
  /\ f \in 1..Len(s) /\ f <= FrontOf(s)
  /\ \A i \in f..Len(s) : s[i] \in {Junk, End}

\* Blanking slots there shows nothing new either.
LEMMA BlankedBare ==
  ASSUME NEW s \in Seq(SlotKinds), NEW t \in Seq(SlotKinds), NEW ss, t = Blanked(s, ss),
         NEW f, Bare(s, f), \A i \in ss : i \in Nat /\ i >= f
  PROVE  /\ Bare(t, f) /\ \A i \in 1..(f - 1) : t[i] = s[i]
         /\ f \in ss => FrontOf(t) = f
<1> DEFINE E == FrontOf(s)
           G == FrontOf(t)
<1>1. EndAt(s, E) /\ E \in 1..(Len(s) + 1)
  BY VisibleIs
<1>2. EndAt(t, G) /\ G \in 1..(Len(t) + 1)
  BY VisibleIs
<1>3. Len(s) \in Nat /\ Len(t) = Len(s)
      /\ \A i \in 1..Len(s) : t[i] = (IF i \in ss THEN End ELSE s[i])
  BY BlankedIs
<1>4. f \in 1..Len(s) /\ f <= E /\ \A i \in f..Len(s) : s[i] \in {Junk, End}
  BY DEF Bare
<1> HIDE DEF E, G
<1>5. \A i \in 1..(f - 1) : t[i] = s[i] /\ t[i] # End
  BY <1>1, <1>3, <1>4 DEF EndAt
<1>6. f <= G
  <2> SUFFICES ASSUME G < f PROVE FALSE
    BY <1>2, <1>3, <1>4
  <2>1. G \in 1..(f - 1) /\ G <= Len(t)
    BY <1>2, <1>3, <1>4
  <2> QED
    BY <2>1, <1>2, <1>5 DEF EndAt
<1>7. \A i \in f..Len(t) : t[i] \in {Junk, End}
  BY <1>3, <1>4
<1>8. Bare(t, f)
  BY <1>3, <1>4, <1>6, <1>7 DEF Bare, G
<1>9. ASSUME f \in ss PROVE G = f
  <2>1. t[f] = End
    BY <1>3, <1>4, <1>9
  <2>2. EndAt(t, f)
    BY <1>3, <1>4, <1>5, <2>1 DEF EndAt
  <2> QED
    BY <2>2, FrontIs DEF G
<1> QED
  BY <1>5, <1>8, <1>9 DEF G

\* Slots that show nothing, on both sides, do not change which files are found.
LEMMA BareNames ==
  ASSUME NEW s \in Seq(SlotKinds), NEW t \in Seq(SlotKinds), NEW f, Tidy(s),
         Bare(s, f), Bare(t, f), \A i \in 1..(f - 1) : t[i] = s[i]
  PROVE  Tidy(t) /\ \A n \in Names : Places(t, n) = Places(s, n)
<1>1. /\ FrontOf(s) \in 1..(Len(s) + 1) /\ Visible(s) = 1..(FrontOf(s) - 1)
      /\ FrontOf(t) \in 1..(Len(t) + 1) /\ Visible(t) = 1..(FrontOf(t) - 1)
  BY VisibleIs
<1>2. Len(s) \in Nat /\ Len(t) \in Nat /\ f \in Nat /\ f <= FrontOf(s) /\ f <= FrontOf(t)
  BY DEF Bare
<1>3. \A i \in 1..(f - 1) : i \in Visible(s) /\ i \in Visible(t)
  BY <1>1, <1>2
<1>4. \A i \in Visible(s) : i \in 1..(f - 1) \/ i \in f..Len(s)
  BY <1>1, <1>2
<1>5. \A i \in Visible(t) : i \in 1..(f - 1) \/ i \in f..Len(t)
  BY <1>1, <1>2
<1>6. Keeps(s, t)
  <2>1. ASSUME NEW i \in Visible(s), s[i] \in Entries PROVE i \in 1..(f - 1)
    BY <1>4, <2>1, MarksDiffer DEF Bare
  <2> QED
    BY <1>3, <2>1 DEF Keeps
<1>7. ASSUME NEW n \in Names, NEW i \in Visible(t), t[i] = Entry(n, 0)
      PROVE  i \in Visible(s) /\ s[i] = t[i]
  <2>1. t[i] # Junk /\ t[i] # End
    BY <1>7, EntryIs
  <2>2. i \in 1..(f - 1)
    BY <1>5, <2>1 DEF Bare
  <2> QED
    BY <1>3, <2>2
<1> QED
  BY <1>6, <1>7, NamesKept, Zenon

\* Directory t is s with c slots more, none of them written as a directory.
Longer(s, t, c) ==
  /\ t \in Seq(SlotKinds) /\ Len(t) = Len(s) + c
  /\ \A i \in 1..Len(s) : t[i] = s[i]
  /\ \A i \in (Len(s) + 1)..Len(t) : t[i] \in {Junk, End}
  /\ FrontOf(s) <= Len(s) => FrontOf(t) = FrontOf(s)
  /\ FrontOf(s) = Len(s) + 1 => FrontOf(t) >= Len(s) + 1
  /\ Tidy(t) /\ \A n \in Names : Places(t, n) = Places(s, n)

\* A cluster linked behind the directory: with an end mark in front of it, nothing of it is read.
LEMMA Appended ==
  ASSUME NEW s \in Seq(SlotKinds), NEW c \in Nat \ {0}, NEW u \in [1..c -> {Junk, End}],
         Tidy(s)
  PROVE  Longer(s, s \o u, c)
<1> DEFINE t == s \o u
<1>1. u \in Seq(SlotKinds) /\ Len(u) = c /\ \A i \in 1..c : u[i] \in {Junk, End}
  <2>1. u \in [1..c -> SlotKinds]
    BY DEF SlotKinds
  <2> QED
    BY <2>1
<1>2. Len(s) \in Nat /\ t \in Seq(SlotKinds) /\ Len(t) = Len(s) + c
  <2>1. s \o u \in Seq(SlotKinds) /\ Len(s \o u) = Len(s) + Len(u)
    BY <1>1, Zenon, ConcatProperties
  <2> QED
    BY <1>1, <2>1
<1>3. \A i \in 1..Len(s) : t[i] = s[i]
  BY <1>1, <1>2
<1>4. \A i \in (Len(s) + 1)..Len(t) : t[i] \in {Junk, End}
  <2>1. ASSUME NEW i \in (Len(s) + 1)..Len(t) PROVE t[i] \in {Junk, End}
    <3>1. i \in 1..Len(t) /\ i > Len(s) /\ i - Len(s) \in 1..c
      BY <1>2
    <3>2. t[i] = u[i - Len(s)]
      BY <1>1, <1>2, <3>1
    <3> QED
      BY <1>1, <3>1, <3>2
  <2> QED
    BY <2>1
<1> DEFINE E == FrontOf(s)
           G == FrontOf(t)
           N == Len(s)
<1>5. EndAt(s, E) /\ E \in 1..(N + 1) /\ Visible(s) = 1..(E - 1)
  BY VisibleIs
<1>6. EndAt(t, G) /\ G \in 1..(Len(t) + 1) /\ Visible(t) = 1..(G - 1)
  BY <1>2, VisibleIs
<1>7. N \in Nat /\ Len(t) = N + c /\ \A i \in 1..N : t[i] = s[i]
  BY <1>2, <1>3
<1>8. \A i \in (N + 1)..Len(t) : t[i] \in {Junk, End}
  BY <1>4
<1> HIDE DEF E, G, N, t
<1>9. ASSUME E <= N PROVE G = E
  <2>1. s[E] = End /\ \A j \in 1..(E - 1) : s[j] # End
    BY <1>5, <1>9 DEF EndAt, N
  <2>2. t[E] = End /\ \A j \in 1..(E - 1) : t[j] # End
    BY <1>5, <1>7, <1>9, <2>1
  <2>3. E \in 1..(Len(t) + 1)
    BY <1>5, <1>7, <1>9
  <2>4. EndAt(t, E)
    BY <2>2, <2>3 DEF EndAt
  <2> QED
    BY <1>2, <2>4, FrontIs DEF G
<1>10. ASSUME E = N + 1 PROVE G >= N + 1
  <2> SUFFICES ASSUME G <= N PROVE FALSE
    BY <1>6, <1>7
  <2>1. G \in 1..N /\ G \in 1..(E - 1) /\ G <= Len(t)
    BY <1>6, <1>7, <1>10
  <2> QED
    BY <1>5, <1>6, <1>7, <2>1 DEF EndAt
<1>11. \A i \in 1..(E - 1) : i \in Visible(t) /\ t[i] = s[i]
  <2>1. E <= G
    <3>1. E <= N \/ E = N + 1
      BY <1>5, <1>7
    <3> QED
      BY <1>5, <1>6, <1>7, <1>9, <1>10, <3>1
  <2> QED
    BY <1>5, <1>6, <1>7, <2>1
<1>12. Keeps(s, t)
  BY <1>5, <1>11 DEF Keeps
<1>13. ASSUME NEW n \in Names, NEW i \in Visible(t), t[i] = Entry(n, 0)
       PROVE  i \in Visible(s) /\ s[i] = t[i]
  <2>1. t[i] # Junk /\ t[i] # End
    BY <1>13, EntryIs
  <2>2. i \in 1..N
    BY <1>6, <1>7, <1>8, <2>1
  <2>3. E <= N => G = E
    BY <1>9
  <2>4. i \in 1..(E - 1)
    BY <1>5, <1>6, <1>7, <2>2, <2>3
  <2> QED
    BY <1>5, <1>11, <2>4
<1>14. Tidy(t) /\ \A n \in Names : Places(t, n) = Places(s, n)
  BY <1>2, <1>12, <1>13, NamesKept, Zenon
<1> QED
  BY <1>2, <1>3, <1>4, <1>9, <1>10, <1>14 DEF E, G, N, t, Longer

----------------------------------------------------------------------------
(* The invariant of a save.                                                 *)

\* Where an end mark is, or will be: the slots of a new cluster are only read as long as it
\* has none.
Front == IF op.raw THEN op.from ELSE FrontOf(slots)

\* The file is not there yet.
SaveInv ==
  /\ Places(slots, op.name) = {}
  /\ op.at \in 1..FrontOf(slots)

\* An extension goes on at a slot "from". What it has left behind it is free and empty, and the
\* new entries do not end with the last slot of a cluster that the chain ends with.
ExtendInv ==
  op.pc # "fill" =>
    /\ op.at <= Front /\ Front <= op.from /\ op.from <= Mark
    /\ \A i \in op.at..(Front - 1) : slots[i] = Deleted
    /\ \A i \in Front..(op.from - 1) : slots[i] = End
    /\ op.pc = "grow" => op.from = Len(slots) + 1 /\ op.from < Mark
    /\ op.pc # "zero" => op.done = 0
    /\ ~fixed => Mark - 1 < Len(slots) \/ (Mark - 1) % ClusterSlots # 0

\* A new cluster that is read is blanked before anything else is done.
RawInv ==
  op.raw => op.pc \in {"extend", "zero"} /\ op.blank /\ Bare(slots, op.from)

\* The first slots of the gap hold the new entries, the others are free, and the end mark is
\* behind them.
FillInv ==
  op.pc = "fill" =>
    /\ ~op.raw
    /\ op.at + op.done < Mark /\ Mark - 1 <= Len(slots) /\ op.at + op.done <= FrontOf(slots)
    /\ \A i \in op.at..((op.at + op.done) - 1) : slots[i] = Entry(op.name, Mark - 1 - i)
    /\ \A i \in (op.at + op.done)..(Mark - 1) :
         slots[i] = (IF i < FrontOf(slots) THEN Deleted ELSE End)
    /\ FrontOf(slots) < Mark /\ Mark <= Len(slots) => slots[Mark] = End

\* Nothing is read that was not written, but in a new cluster that is not blanked yet.
JunkInv ==
  \A i \in 1..(FrontOf(slots) - 1) : slots[i] = Junk => op # NoSave /\ op.raw /\ i >= op.from

DirInv ==
  /\ DirTypeOK /\ Tidy(slots) /\ JunkInv
  /\ op # NoSave => SaveInv /\ ExtendInv /\ RawInv /\ FillInv

\* A step that changes no file's entries.
NamesStay == \A n \in Names : Places(slots', n) = Places(slots, n)

\* What the types say of the slots.
LEMMA Sizing ==
  ASSUME DirTypeOK
  PROVE  /\ slots \in Seq(SlotKinds) /\ Len(slots) \in Nat /\ DOMAIN slots = 1..Len(slots)
         /\ fixed \in BOOLEAN /\ Len(slots) % BlockSlots = 0
         /\ ~fixed => Len(slots) % ClusterSlots = 0
         /\ FrontOf(slots) \in 1..(Len(slots) + 1) /\ FirstEnd = FrontOf(slots)
         /\ EndAt(slots, FrontOf(slots)) /\ Visible(slots) = 1..(FrontOf(slots) - 1)
<1>1. slots \in Seq(SlotKinds) /\ fixed \in BOOLEAN
      /\ Len(slots) % (IF fixed THEN BlockSlots ELSE ClusterSlots) = 0
  BY DEF DirTypeOK, SlotKinds
<1>2. Len(slots) \in Nat /\ DOMAIN slots = 1..Len(slots)
  BY <1>1
<1>3. Len(slots) % BlockSlots = 0 /\ (~fixed => Len(slots) % ClusterSlots = 0)
  BY <1>1, <1>2, WholeClusters
<1> QED
  BY <1>1, <1>2, <1>3, VisibleIs DEF FirstEnd, FrontOf

SaveSteps == {"extend", "grow", "zero", "fill"}

Saves ==
  [pc : SaveSteps, name : Names, at : Nat, from : Nat, blank : BOOLEAN, done : Nat, raw : BOOLEAN]

\* What they say of a save under way.
LEMMA SaveTypes ==
  ASSUME DirTypeOK, op # NoSave
  PROVE  /\ op \in Saves
         /\ op.pc \in SaveSteps /\ op.name \in Names /\ op.at \in Nat /\ op.from \in Nat
         /\ op.blank \in BOOLEAN /\ op.done \in Nat /\ op.raw \in BOOLEAN
         /\ Needed[op.name] \in 1..21 /\ Mark = op.at + Needed[op.name] /\ Mark \in Nat
<1>1. op \in Saves
  BY DEF DirTypeOK, Saves, SaveSteps
<1>2. op.pc \in SaveSteps /\ op.name \in Names /\ op.at \in Nat /\ op.from \in Nat
      /\ op.blank \in BOOLEAN /\ op.done \in Nat /\ op.raw \in BOOLEAN
  BY <1>1 DEF Saves
<1>3. Needed[op.name] \in 1..21 /\ Mark = op.at + Needed[op.name]
  BY <1>2, PartIs DEF Mark
<1> QED
  BY <1>1, <1>2, <1>3

\* A save under way is something else than none.
LEMMA NoSaveIs ==
  /\ \A o \in Saves : o # NoSave
  /\ op.pc \in SaveSteps => op # NoSave
<1>1. NoSave.pc = "idle"
  BY DEF NoSave
<1>2. \A o \in Saves : o.pc # "idle"
  BY DEF Saves, SaveSteps
<1> QED
  BY <1>1, <1>2 DEF SaveSteps

\* A save that is over leaves a directory that is in order.
LEMMA Left ==
  ASSUME DirInv, op # NoSave, ~op.raw, op' = NoSave, UNCHANGED <<slots, fixed>>,
         faults' \in 0..MaxFaults, ops' \in 0..MaxOps
  PROVE  DirInv' /\ NamesStay
<1>1. DirTypeOK /\ Tidy(slots) /\ JunkInv
  BY DEF DirInv
<1>2. DirTypeOK'
  BY <1>1 DEF DirTypeOK
<1>3. JunkInv'
  BY <1>1 DEF JunkInv
<1> QED
  BY <1>1, <1>2, <1>3 DEF DirInv, NamesStay

\* A save may break off wherever nothing but what was written is read.
LEMMA StopStep ==
  ASSUME DirInv, Stop, Hazards = {}
  PROVE  DirInv' /\ NamesStay
<1>1. op # NoSave /\ ~op.raw /\ op' = NoSave /\ UNCHANGED <<slots, fixed, ops>>
      /\ faults < MaxFaults /\ faults' = faults + 1
  BY DEF Stop, Fault, Leave
<1>2. faults' \in 0..MaxFaults /\ ops' \in 0..MaxOps
  BY <1>1, DirectoryAssumption DEF DirInv, DirTypeOK
<1> QED
  BY <1>1, <1>2, Left

\* A state in which a save is under way, from its parts.
LEMMA Going ==
  ASSUME slots' \in Seq(SlotKinds), Tidy(slots'),
         fixed' = fixed, fixed \in BOOLEAN, UNCHANGED faults, ops' \in 0..MaxOps, DirTypeOK,
         Len(slots') % (IF fixed THEN BlockSlots ELSE ClusterSlots) = 0,
         op' \in Saves,
         op'.pc \in {"extend", "zero"} => op'.from \in 1..Len(slots'),
         op'.pc = "fill" => Mark' - 1 \in 1..Len(slots'),
         op'.pc = "zero" => op'.done < BlocksPerCluster,
         JunkInv', SaveInv', ExtendInv', RawInv', FillInv'
  PROVE  DirInv'
<1>1. DOMAIN slots' = 1..Len(slots')
  OBVIOUS
<1>2. DirTypeOK'
  BY <1>1 DEF DirTypeOK, SlotKinds, Saves, SaveSteps
<1> QED
  BY <1>2 DEF DirInv

\* The first gap is one.
LEMMA FirstGapIs ==
  ASSUME DirTypeOK, NEW k \in Nat, Gaps(k) # {}
  PROVE  FirstGap(k) \in 1..(FrontOf(slots) - k) /\ Gap(FirstGap(k), FirstGap(k) + k)
<1>1. FrontOf(slots) \in Nat /\ FirstEnd = FrontOf(slots)
  BY Sizing
<1>2. Gaps(k) \subseteq Nat /\ \A i \in Gaps(k) : i \in 1..(FrontOf(slots) - k) /\ Gap(i, i + k)
  BY <1>1 DEF Gaps
<1>3. \E i \in Gaps(k) : \A j \in Gaps(k) : i <= j
  BY <1>2, Smallest
<1>4. FirstGap(k) \in Gaps(k)
  BY <1>3, Zenon DEF FirstGap
<1> QED
  BY <1>2, <1>4

\* Where the free slots in front of the end mark begin.
LEMMA FreeTailIs ==
  ASSUME DirTypeOK
  PROVE  FreeTail \in 1..FrontOf(slots) /\ Gap(FreeTail, FrontOf(slots))
<1> DEFINE E == FrontOf(slots)
           T == {i \in 1..E : Gap(i, E)}
<1>1. FrontOf(slots) \in 1..(Len(slots) + 1) /\ FirstEnd = FrontOf(slots) /\ Len(slots) \in Nat
  BY Sizing
<1>2. E \in T
  BY <1>1 DEF Gap
<1>3. T \subseteq Nat
  BY <1>1
<1>4. PICK i \in T : \A j \in T : i <= j
  <2> HIDE DEF T
  <2> QED
    BY <1>2, <1>3, Smallest
<1>5. i \in 1..E /\ Gap(i, E) /\ \A j \in 1..(i - 1) : ~Gap(j, E)
  BY <1>1, <1>4
<1>6. \E k \in 1..E : Gap(k, E) /\ \A j \in 1..(k - 1) : ~Gap(j, E)
  BY <1>5, Zenon
<1>7. FreeTail = CHOOSE k \in 1..E : Gap(k, E) /\ \A j \in 1..(k - 1) : ~Gap(j, E)
  BY <1>1 DEF FreeTail
<1> QED
  BY <1>6, <1>7, Zenon

\* A save begins with a gap, or with free slots that reach up to the end mark and are too few.
LEMMA BeginStep ==
  ASSUME DirInv, Hazards = {}, NEW n \in Names, Begin(n)
  PROVE  DirInv' /\ NamesStay
<1> DEFINE E == FrontOf(slots)
           N == Len(slots)
           k == Needed[n]
           found == Gaps(k) # {}
           at == IF found THEN FirstGap(k) ELSE FreeTail
           pc == IF found THEN "fill" ELSE IF FirstEnd <= Len(slots) THEN "extend" ELSE "grow"
<1>1. DirTypeOK /\ Tidy(slots) /\ JunkInv
  BY DEF DirInv
<1>2. /\ slots \in Seq(SlotKinds) /\ N \in Nat /\ DOMAIN slots = 1..N /\ fixed \in BOOLEAN
      /\ ~fixed => N % ClusterSlots = 0
      /\ E \in 1..(N + 1) /\ FirstEnd = E /\ EndAt(slots, E)
  BY <1>1, Sizing
<1>3. /\ op = NoSave /\ ops < MaxOps /\ ops' = ops + 1 /\ ~Found(n)
      /\ found \/ ~Brim(at, k)
      /\ op' = [pc |-> pc, name |-> n, at |-> at, from |-> FirstEnd, blank |-> FALSE, done |-> 0,
                raw |-> FALSE]
      /\ UNCHANGED <<slots, fixed, faults>>
  BY DEF Begin
<1>4. k \in 1..21
  BY PartIs
<1>5. CASE found
  <2>1. at \in 1..(E - k) /\ Gap(at, at + k) /\ pc = "fill"
    BY <1>1, <1>4, <1>5, FirstGapIs
  <2> HIDE DEF at, pc, found, E, N, k
  <2>2. at \in Nat /\ at + k \in Nat /\ at >= 1 /\ at + k <= E
    BY <1>2, <1>4, <2>1
  <2>3. \A i \in at..((at + k) - 1) : slots[i] = Deleted
    BY <2>1, <2>2 DEF Gap
  <2>4. /\ op'.pc = "fill" /\ op'.name = n /\ op'.at = at /\ op'.from = E /\ op'.blank = FALSE
        /\ op'.done = 0 /\ op'.raw = FALSE
        /\ op' \in Saves
    BY <1>2, <1>3, <2>1, <2>2 DEF Saves, SaveSteps
  <2>5. Mark' = at + k
    BY <2>4 DEF Mark, k
  <2>6. slots' = slots /\ fixed' = fixed /\ faults' = faults /\ FrontOf(slots') = E /\ Len(slots') = N
    BY <1>3 DEF E, N
  <2>7. JunkInv'
    BY <1>1, <1>3, <2>6 DEF JunkInv, E
  <2>8. SaveInv'
    BY <1>2, <1>3, <1>4, <2>2, <2>4, <2>6 DEF SaveInv, Found
  <2>9. ExtendInv'
    BY <2>4 DEF ExtendInv
  <2>10. RawInv'
    BY <2>4 DEF RawInv
  <2>11. FillInv'
    <3>1. \A i \in (op.at + op.done)'..(Mark' - 1) : i \in at..((at + k) - 1) /\ i < E
      BY <1>2, <1>4, <2>2, <2>4, <2>5
    <3>2. (op.at + op.done)' = at /\ at < Mark' /\ Mark' - 1 <= N /\ at <= E /\ ~(E < Mark')
      BY <1>2, <1>4, <2>2, <2>4, <2>5
    <3>3. \A i \in op'.at..((op'.at + op'.done) - 1) : FALSE
      BY <2>2, <2>4
    <3>4. \A i \in (op.at + op.done)'..(Mark' - 1) :
            slots'[i] = (IF i < FrontOf(slots') THEN Deleted ELSE End)
      BY <2>3, <2>6, <3>1
    <3>5. /\ ~op'.raw
          /\ op'.at + op'.done < Mark' /\ Mark' - 1 <= Len(slots')
          /\ op'.at + op'.done <= FrontOf(slots')
          /\ ~(FrontOf(slots') < Mark')
      BY <2>4, <2>6, <3>2
    <3>6. \A i \in op'.at..((op'.at + op'.done) - 1) : slots'[i] = Entry(op'.name, Mark' - 1 - i)
      BY <3>3, Zenon
    <3> QED
      BY <3>4, <3>5, <3>6, Zenon DEF FillInv
  <2>12. Mark' - 1 \in 1..Len(slots') /\ ops' \in 0..MaxOps
    <3>1. ops \in 0..MaxOps /\ MaxOps \in Nat
      BY <1>1, DirectoryAssumption DEF DirTypeOK
    <3> QED
      BY <1>2, <1>3, <1>4, <2>2, <2>5, <2>6, <3>1
  <2>13. Len(slots') % (IF fixed THEN BlockSlots ELSE ClusterSlots) = 0
    BY <1>1, <2>6 DEF DirTypeOK, N
  <2>14. DirInv'
    BY <1>1, <1>2, <2>4, <2>6, <2>7, <2>8, <2>9, <2>10, <2>11, <2>12, <2>13, Going
  <2> QED
    BY <2>6, <2>14 DEF NamesStay
<1>6. CASE ~found
  <2>1. at \in 1..E /\ Gap(at, E)
    BY <1>1, <1>6, FreeTailIs
  <2>6. pc \in {"extend", "grow"} /\ (pc = "extend" => E <= N) /\ (pc = "grow" => E = N + 1)
    BY <1>2, <1>6
  <2> HIDE DEF at, pc, found, E, N, k
  <2>2. at \in Nat /\ at >= 1 /\ at <= E /\ at + k \in Nat
    BY <1>2, <1>4, <2>1
  <2>3. \A i \in at..(E - 1) : slots[i] = Deleted
    BY <2>1, <2>2 DEF Gap
  <2>4. at + k > E
    <3> SUFFICES ASSUME at + k <= E PROVE FALSE
      BY <1>2, <2>2
    <3>1. at \in 1..(FirstEnd - k)
      BY <1>2, <1>4, <2>2
    <3>2. Gap(at, at + k)
      <4>1. \A i \in at..((at + k) - 1) : i \in at..(E - 1)
        BY <1>2, <1>4, <2>2
      <4> QED
        BY <2>3, <4>1 DEF Gap
    <3>3. at \in Gaps(k)
      BY <3>1, <3>2 DEF Gaps
    <3> QED
      BY <1>6, <3>3 DEF found
  <2>5. ~fixed => (at + k) - 1 < N \/ ((at + k) - 1) % ClusterSlots # 0
    <3>1. ~Brim(at, k)
      BY <1>3, <1>6 DEF found
    <3> QED
      BY <1>2, <1>4, <2>2, <3>1 DEF Brim, N
  <2>7. /\ op'.pc = pc /\ op'.name = n /\ op'.at = at /\ op'.from = E /\ op'.blank = FALSE
        /\ op'.done = 0 /\ op'.raw = FALSE
        /\ op' \in Saves
    BY <1>2, <1>3, <2>2, <2>6 DEF Saves, SaveSteps
  <2>8. Mark' = at + k
    BY <2>7 DEF Mark, k
  <2>9. slots' = slots /\ fixed' = fixed /\ faults' = faults /\ FrontOf(slots') = E /\ Len(slots') = N
    BY <1>3 DEF E, N
  <2>10. JunkInv'
    BY <1>1, <1>3, <2>9 DEF JunkInv, E
  <2>11. SaveInv'
    BY <1>2, <1>3, <2>2, <2>7, <2>9 DEF SaveInv, Found
  <2>12. ExtendInv'
    <3>1. Front' = E
      BY <2>7, <2>9 DEF Front
    <3>2. \A i \in Front'..(op'.from - 1) : FALSE
      BY <1>2, <2>7, <3>1
    <3>3. \A i \in op'.at..(Front' - 1) : slots'[i] = Deleted
      BY <2>3, <2>7, <2>9, <3>1
    <3> QED
      BY <1>2, <1>4, <2>2, <2>4, <2>5, <2>6, <2>7, <2>8, <2>9, <3>1, <3>2, <3>3 DEF ExtendInv
  <2>13. RawInv'
    BY <2>7 DEF RawInv
  <2>14. FillInv'
    BY <2>6, <2>7 DEF FillInv
  <2>15. ops' \in 0..MaxOps
    <3>1. ops \in 0..MaxOps /\ MaxOps \in Nat
      BY <1>1, DirectoryAssumption DEF DirTypeOK
    <3> QED
      BY <1>3, <3>1
  <2>16. Len(slots') % (IF fixed THEN BlockSlots ELSE ClusterSlots) = 0
    BY <1>1, <2>9 DEF DirTypeOK, N
  <2>17. op'.pc \in {"extend", "zero"} => op'.from \in 1..Len(slots')
    BY <1>2, <2>6, <2>7, <2>9
  <2>18. op'.pc # "zero" /\ op'.pc # "fill"
    BY <2>6, <2>7
  <2>19. DirInv'
    BY <1>1, <1>2, <2>7, <2>9, <2>10, <2>11, <2>12, <2>13, <2>14, <2>15, <2>16, <2>17, <2>18, Going
  <2> QED
    BY <2>9, <2>19 DEF NamesStay
<1> QED
  BY <1>5, <1>6

\* A save under way, taken apart.
LEMMA SaveFacts ==
  ASSUME DirInv, op # NoSave
  PROVE  /\ DirTypeOK /\ Tidy(slots) /\ JunkInv /\ SaveInv /\ ExtendInv /\ RawInv /\ FillInv
         /\ faults \in 0..MaxFaults /\ ops \in 0..MaxOps
         /\ Len(slots) % (IF fixed THEN BlockSlots ELSE ClusterSlots) = 0
BY DEF DirInv, DirTypeOK

\* With an end mark in front of it a new cluster is not seen; without one it is read, and
\* begins behind all there is.
LEMMA GrowStep ==
  ASSUME DirInv, Hazards = {}, Grow
  PROVE  DirInv' /\ NamesStay
<1> DEFINE E == FrontOf(slots)
           N == Len(slots)
           c == ClusterSlots
<1>0. op.pc = "grow" /\ op # NoSave
  BY NoSaveIs DEF Grow, SaveSteps
<1>1. DirTypeOK /\ Tidy(slots) /\ JunkInv /\ SaveInv /\ ExtendInv /\ RawInv
      /\ ops \in 0..MaxOps /\ faults \in 0..MaxFaults
      /\ N % (IF fixed THEN BlockSlots ELSE c) = 0
  BY <1>0, SaveFacts
<1>2. /\ slots \in Seq(SlotKinds) /\ N \in Nat /\ fixed \in BOOLEAN
      /\ ~fixed => N % c = 0
      /\ E \in 1..(N + 1) /\ FirstEnd = E
  BY <1>1, Sizing
<1>3. c \in Nat \ {0} /\ BlocksPerCluster \in Nat \ {0}
  BY SizesAre
<1>4. /\ op \in Saves /\ op.at \in Nat /\ op.from \in Nat /\ op.done \in Nat /\ Mark \in Nat
      /\ op.name \in Names
  BY <1>0, <1>1, SaveTypes
<1>5. ~op.raw
  BY <1>0, <1>1 DEF RawInv
<1>6. /\ op.at <= E /\ E <= op.from /\ op.from <= Mark
      /\ \A i \in op.at..(E - 1) : slots[i] = Deleted
      /\ \A i \in E..(op.from - 1) : slots[i] = End
      /\ op.from = N + 1 /\ op.from < Mark
      /\ ~fixed => Mark - 1 < N \/ (Mark - 1) % c # 0
  BY <1>0, <1>1, <1>5 DEF ExtendInv, Front
<1>7. CASE Leave /\ UNCHANGED slots
  BY <1>0, <1>1, <1>5, <1>7, Left DEF Grow, Leave
<1>8. CASE ~(Leave /\ UNCHANGED slots)
  <2>1. /\ ~fixed
        /\ \E junk \in [1..c -> {Junk, End}] : slots' = slots \o junk
        /\ op' = [op EXCEPT !.pc = IF BlocksPerCluster = 1 THEN "extend" ELSE "zero",
                            !.done = IF BlocksPerCluster = 1 THEN 0 ELSE 1, !.blank = TRUE,
                            !.raw = FirstEnd > Len(slots)]
        /\ UNCHANGED <<fixed, faults, ops>>
    BY <1>8 DEF Grow
  <2>2. PICK junk \in [1..c -> {Junk, End}] : slots' = slots \o junk
    BY <2>1
  <2>3. /\ slots' \in Seq(SlotKinds) /\ Len(slots') = N + c
        /\ \A i \in 1..N : slots'[i] = slots[i]
        /\ \A i \in (N + 1)..Len(slots') : slots'[i] \in {Junk, End}
        /\ E <= N => FrontOf(slots') = E
        /\ E = N + 1 => FrontOf(slots') >= N + 1
        /\ Tidy(slots') /\ \A n \in Names : Places(slots', n) = Places(slots, n)
    <3>1. Tidy(slots) /\ slots \in Seq(SlotKinds) /\ c \in Nat \ {0}
      BY <1>1, <1>2, <1>3
    <3> HIDE DEF c
    <3>2. Longer(slots, slots \o junk, c)
      BY <3>1, Appended, Zenon
    <3>3. Longer(slots, slots', c)
      BY <2>2, <3>2
    <3> QED
      BY <3>3 DEF Longer
  <2>4. FrontOf(slots') \in 1..(Len(slots') + 1)
    BY <2>3, VisibleIs
  <2>5. (N + c) % c = 0
    BY <1>2, <2>1, WholeClusters
  <2> DEFINE G == FrontOf(slots')
             pc == IF BlocksPerCluster = 1 THEN "extend" ELSE "zero"
             done == IF BlocksPerCluster = 1 THEN 0 ELSE 1
             raw == FirstEnd > Len(slots)
  <2>6. /\ op'.pc = pc /\ op'.name = op.name /\ op'.at = op.at /\ op'.from = op.from
        /\ op'.blank = TRUE /\ op'.done = done /\ (op'.raw <=> E > N) /\ op' \in Saves
    <3>1. op' = [op EXCEPT !.pc = pc, !.done = done, !.blank = TRUE, !.raw = raw]
      BY <2>1
    <3>2. pc \in SaveSteps /\ done \in Nat
      BY DEF SaveSteps
    <3>3. raw \in BOOLEAN /\ (raw <=> E > N)
      BY <1>2
    <3> HIDE DEF pc, done, raw, E, N
    <3> QED
      BY <1>4, <3>1, <3>2, <3>3 DEF Saves
  <2>7. pc \in {"extend", "zero"} /\ done \in Nat /\ (pc = "zero" => done < BlocksPerCluster)
        /\ (pc # "zero" => done = 0)
    BY <1>3
  <2>8. Mark' = Mark
    BY <2>6 DEF Mark
  <2> HIDE DEF E, N, c, G, pc, done
  <2>9. E <= N \/ E = N + 1
    BY <1>2
  <2>10. Front' = E
    <3>1. CASE E <= N
      BY <1>2, <2>3, <2>6, <3>1 DEF Front, E, N
    <3>2. CASE E = N + 1
      BY <1>2, <1>6, <2>6, <3>2 DEF Front, E, N
    <3> QED
      BY <2>9, <3>1, <3>2
  <2>11. JunkInv'
    <3>1. ASSUME NEW i \in 1..(G - 1), slots'[i] = Junk PROVE i >= N + 1 /\ E = N + 1
      <4>1. ~(i \in 1..(E - 1))
        <5>1. i \in 1..(E - 1) => i \in 1..N /\ slots[i] # Junk
          BY <1>1, <1>2, <1>5 DEF JunkInv, E
        <5> QED
          BY <2>3, <3>1, <5>1
      <4>2. E <= N => G = E
        BY <2>3 DEF G
      <4>3. E = N + 1
        BY <2>9, <3>1, <4>1, <4>2
      <4> QED
        BY <1>2, <2>4, <3>1, <4>1, <4>3 DEF G
    <3>2. op' # NoSave
      BY <2>6, NoSaveIs
    <3>3. E = N + 1 => op'.raw
      BY <1>2, <2>6
    <3> QED
      BY <1>6, <2>6, <3>1, <3>2, <3>3 DEF JunkInv, G
  <2>12. SaveInv'
    <3>1. Places(slots', op'.name) = {}
      BY <1>1, <1>4, <2>3, <2>6 DEF SaveInv
    <3>2. op.at \in 1..E
      BY <1>1 DEF SaveInv, E
    <3>3. op.at \in 1..FrontOf(slots')
      BY <1>2, <2>3, <2>4, <2>9, <3>2
    <3> QED
      BY <2>6, <3>1, <3>3 DEF SaveInv
  <2>13. ExtendInv'
    <3>1. \A i \in op'.at..(Front' - 1) : slots'[i] = Deleted
      <4>1. \A i \in op.at..(E - 1) : i \in 1..N
        <5>1. op.at \in 1..E
          BY <1>1 DEF SaveInv, E
        <5> QED
          BY <1>2, <5>1
      <4> QED
        BY <1>6, <2>3, <2>6, <2>10, <4>1
    <3>2. \A i \in Front'..(op'.from - 1) : slots'[i] = End
      <4>1. \A i \in E..(op.from - 1) : i \in 1..N
        BY <1>2, <1>6
      <4> QED
        BY <1>6, <2>3, <2>6, <2>10, <4>1
    <3>3. ~fixed' => Mark' - 1 < Len(slots') \/ (Mark' - 1) % ClusterSlots # 0
      BY <1>2, <1>3, <1>4, <1>6, <2>1, <2>3, <2>8 DEF c
    <3>4. op'.at <= Front' /\ Front' <= op'.from /\ op'.from <= Mark'
      BY <1>6, <2>6, <2>8, <2>10
    <3>5. op'.pc # "grow" /\ (op'.pc # "zero" => op'.done = 0)
      BY <2>6, <2>7
    <3> QED
      BY <3>1, <3>2, <3>3, <3>4, <3>5 DEF ExtendInv
  <2>14. RawInv'
    <3> SUFFICES ASSUME op'.raw PROVE op'.pc \in {"extend", "zero"} /\ op'.blank /\ Bare(slots', op'.from)
      BY DEF RawInv
    <3>1. E = N + 1
      BY <1>2, <2>6
    <3>2. N + 1 \in 1..Len(slots') /\ N + 1 <= FrontOf(slots')
      BY <1>2, <1>3, <2>3, <3>1
    <3>3. Bare(slots', N + 1)
      BY <2>3, <3>2 DEF Bare
    <3> QED
      BY <1>6, <2>6, <2>7, <3>3
  <2>15. FillInv'
    BY <2>6, <2>7 DEF FillInv
  <2>16. Len(slots') % (IF fixed THEN BlockSlots ELSE ClusterSlots) = 0
    BY <2>1, <2>3, <2>5 DEF c
  <2>17. op'.from \in 1..Len(slots') /\ op'.pc # "fill"
    BY <1>2, <1>3, <1>6, <2>3, <2>6, <2>7
  <2>18. (op'.pc = "zero" => op'.done < BlocksPerCluster) /\ ops' \in 0..MaxOps /\ faults' = faults
         /\ fixed' = fixed
    BY <1>1, <2>1, <2>6, <2>7
  <2>19. DirInv'
    BY <1>1, <1>2, <2>3, <2>6, <2>11, <2>12, <2>13, <2>14, <2>15, <2>16, <2>17, <2>18, Going
  <2> QED
    BY <2>3, <2>19 DEF NamesStay
<1> QED
  BY <1>7, <1>8

\* Only the new cluster is blanked, from its second block on.
LEMMA ZeroStep ==
  ASSUME DirInv, Hazards = {}, Zero
  PROVE  DirInv' /\ NamesStay
<1> DEFINE E == FrontOf(slots)
           N == Len(slots)
           first == op.from + op.done * BlockSlots
           ss == first..((first + BlockSlots) - 1)
           G == FrontOf(slots')
<1>0. op.pc = "zero" /\ op # NoSave
  BY NoSaveIs DEF Zero, SaveSteps
<1>1. DirTypeOK /\ Tidy(slots) /\ JunkInv /\ SaveInv /\ ExtendInv /\ RawInv
      /\ ops \in 0..MaxOps /\ faults \in 0..MaxFaults
      /\ N % (IF fixed THEN BlockSlots ELSE ClusterSlots) = 0
  BY <1>0, SaveFacts
<1>2. slots \in Seq(SlotKinds) /\ N \in Nat /\ fixed \in BOOLEAN /\ E \in 1..(N + 1)
  BY <1>1, Sizing
<1>3. BlockSlots \in Nat \ {0} /\ BlocksPerCluster \in Nat \ {0}
  BY SizesAre
<1>4. /\ op \in Saves /\ op.at \in Nat /\ op.from \in Nat /\ op.done \in Nat /\ Mark \in Nat
      /\ op.name \in Names /\ op.raw \in BOOLEAN
  BY <1>0, <1>1, SaveTypes
<1>5. op.from \in 1..N /\ op.done < BlocksPerCluster
  BY <1>0, <1>1, Sizing DEF DirTypeOK
<1>6. /\ slots' = Blanked(slots, ss)
      /\ op' = IF LastZeroed THEN [op EXCEPT !.pc = "extend", !.done = 0]
                             ELSE [op EXCEPT !.done = @ + 1]
      /\ UNCHANGED <<fixed, faults, ops>>
  <2>1. \A a, b \in Nat : a + b - 1 = (a + b) - 1
    OBVIOUS
  <2>2. first \in Nat
    BY <1>3, <1>4
  <2> QED
    BY <1>3, <2>1, <2>2 DEF Zero
<1>7. /\ op'.pc \in {"extend", "zero"} /\ op'.name = op.name /\ op'.at = op.at
      /\ op'.from = op.from /\ op'.blank = op.blank /\ op'.raw = op.raw
      /\ op' \in Saves
      /\ op'.pc = "extend" => op'.done = 0
      /\ op'.pc = "zero" => op'.done < BlocksPerCluster
  <2>1. CASE LastZeroed
    BY <1>4, <1>6, <2>1 DEF Saves, SaveSteps
  <2>2. CASE ~LastZeroed
    <3>1. op.done + 1 \in Nat /\ op.done + 1 < BlocksPerCluster
      BY <1>3, <1>4, <2>2 DEF LastZeroed
    <3> QED
      BY <1>0, <1>4, <1>6, <2>2, <3>1 DEF Saves, SaveSteps
  <2> QED
    BY <2>1, <2>2
<1>8. Mark' = Mark
  BY <1>7 DEF Mark
<1>9. slots' \in Seq(SlotKinds) /\ Len(slots') = N
      /\ \A i \in 1..N : slots'[i] = (IF i \in ss THEN End ELSE slots[i])
  <2> HIDE DEF ss
  <2> QED
    BY <1>2, <1>6, BlankedIs
<1>10. G \in 1..(N + 1)
  BY <1>9, VisibleIs
<1>11. \A i \in ss : i \in Nat /\ i >= op.from
  <2>1. op.done * BlockSlots \in Nat
    BY <1>3, <1>4
  <2> QED
    BY <1>4, <2>1
<1> HIDE DEF E, N, first, ss, G
<1>12. /\ op.at <= Front /\ Front <= op.from /\ op.from <= Mark
       /\ \A i \in op.at..(Front - 1) : slots[i] = Deleted
       /\ \A i \in Front..(op.from - 1) : slots[i] = End
       /\ ~fixed => Mark - 1 < N \/ (Mark - 1) % ClusterSlots # 0
  BY <1>0, <1>1 DEF ExtendInv, N
<1>13. Front \in Nat /\ Front >= 1
  BY <1>2, <1>4, <1>5 DEF Front, E
<1>14. /\ Front' = Front /\ Tidy(slots') /\ NamesStay /\ G >= Front
       /\ op.raw => Bare(slots', op.from)
       /\ \A i \in 1..(op.from - 1) : slots'[i] = slots[i]
       /\ JunkInv'
  <2>1. op' # NoSave
    BY <1>7, NoSaveIs
  <2>2. CASE op.raw
    <3>1. Bare(slots, op.from)
      BY <1>1, <2>2 DEF RawInv
    <3>2. Bare(slots', op.from) /\ \A i \in 1..(op.from - 1) : slots'[i] = slots[i]
      BY <1>2, <1>6, <1>9, <1>11, <3>1, BlankedBare
    <3>3. Tidy(slots') /\ NamesStay
      BY <1>1, <1>2, <1>9, <3>1, <3>2, BareNames DEF NamesStay
    <3>4. Front' = Front /\ op.from <= G
      BY <1>7, <2>2, <3>2 DEF Front, Bare, G
    <3>5. JunkInv'
      <4>1. ASSUME NEW i \in 1..(G - 1), slots'[i] = Junk PROVE i >= op.from
        <5> SUFFICES ASSUME i < op.from PROVE FALSE
          BY <1>4, <1>10, <4>1
        <5>1. i \in 1..(op.from - 1) /\ op.from <= E
          BY <1>4, <1>10, <3>1, <4>1 DEF Bare, E
        <5>2. slots[i] = Junk /\ i \in 1..(E - 1)
          BY <1>2, <1>4, <3>2, <4>1, <5>1
        <5> QED
          BY <1>1, <1>4, <5>1, <5>2 DEF JunkInv, E
      <4> QED
        BY <1>7, <2>1, <2>2, <4>1 DEF JunkInv, G
    <3> QED
      BY <2>2, <3>2, <3>3, <3>4, <3>5 DEF Front
  <2>3. CASE ~op.raw
    <3>1. Front = E
      BY <2>3 DEF Front, E
    <3>2. \A i \in ss : i \in Nat /\ i >= FrontOf(slots)
      BY <1>2, <1>4, <1>11, <1>12, <3>1 DEF E
    <3>3. G = E /\ Visible(slots') = Visible(slots)
          /\ \A i \in Visible(slots) : slots'[i] = slots[i]
      BY <1>2, <1>6, <1>9, <3>2, BlankedBehind DEF G, E
    <3>4. Keeps(slots, slots')
      BY <3>3 DEF Keeps
    <3>5. Tidy(slots') /\ NamesStay
      BY <1>1, <1>2, <1>9, <3>3, <3>4, NamesKept, Zenon DEF NamesStay
    <3>6. Front' = Front
      BY <1>7, <2>3, <3>1, <3>3 DEF Front, G
    <3>7. Visible(slots) = 1..(E - 1)
      BY <1>2, VisibleIs DEF E
    <3>8. JunkInv'
      <4>1. \A i \in 1..(G - 1) : slots'[i] # Junk
        BY <1>1, <2>3, <3>3, <3>7 DEF JunkInv, E
      <4> QED
        BY <4>1 DEF JunkInv, G
    <3>9. \A i \in 1..(op.from - 1) : slots'[i] = slots[i]
      <4>1. ASSUME NEW i \in 1..(op.from - 1) PROVE slots'[i] = slots[i]
        <5>1. i \in 1..N
          BY <1>2, <1>5
        <5>2. ~(i \in ss)
          BY <1>4, <1>11
        <5> QED
          BY <1>9, <5>1, <5>2
      <4> QED
        BY <4>1
    <3> QED
      BY <1>2, <2>3, <3>1, <3>3, <3>5, <3>6, <3>8, <3>9
  <2> QED
    BY <1>4, <2>2, <2>3
<1>15. op.at >= 1
  BY <1>1, <1>2, <1>4 DEF SaveInv, E
<1>16. SaveInv'
  <2>1. Places(slots', op'.name) = {}
    BY <1>1, <1>4, <1>7, <1>14 DEF SaveInv, NamesStay
  <2>2. op'.at \in 1..G
    BY <1>4, <1>7, <1>10, <1>12, <1>13, <1>14, <1>15
  <2> QED
    BY <2>1, <2>2 DEF SaveInv, G
<1>17. ExtendInv'
  <2>1. \A i \in op'.at..(Front' - 1) : slots'[i] = Deleted
    <3>1. \A i \in op.at..(Front - 1) : i \in 1..(op.from - 1)
      BY <1>4, <1>12, <1>13, <1>15
    <3> QED
      BY <1>7, <1>12, <1>14, <3>1
  <2>2. \A i \in Front'..(op'.from - 1) : slots'[i] = End
    <3>1. \A i \in Front..(op.from - 1) : i \in 1..(op.from - 1)
      BY <1>4, <1>12, <1>13
    <3> QED
      BY <1>7, <1>12, <1>14, <3>1
  <2>3. op'.pc # "grow" /\ (op'.pc # "zero" => op'.done = 0)
    BY <1>7
  <2>4. ~fixed' => Mark' - 1 < Len(slots') \/ (Mark' - 1) % ClusterSlots # 0
    BY <1>6, <1>8, <1>9, <1>12
  <2>5. op'.at <= Front' /\ Front' <= op'.from /\ op'.from <= Mark'
    BY <1>7, <1>8, <1>12, <1>14
  <2> QED
    BY <2>1, <2>2, <2>3, <2>4, <2>5 DEF ExtendInv
<1>18. RawInv'
  BY <1>1, <1>7, <1>14 DEF RawInv
<1>19. FillInv'
  BY <1>7 DEF FillInv
<1>20. Len(slots') % (IF fixed THEN BlockSlots ELSE ClusterSlots) = 0
       /\ ops' \in 0..MaxOps /\ faults' = faults /\ fixed' = fixed
  BY <1>1, <1>6, <1>9
<1>21. op'.from \in 1..Len(slots') /\ op'.pc # "fill"
  BY <1>5, <1>7, <1>9
<1>22. DirInv'
  BY <1>1, <1>2, <1>7, <1>9, <1>14, <1>16, <1>17, <1>18, <1>19, <1>20, <1>21, Going
<1> QED
  BY <1>14, <1>22

\* The end mark moves behind the place for the new entries before the old one goes, and what has
\* been passed is empty.
LEMMA ExtendStep ==
  ASSUME DirInv, Hazards = {}, Extend
  PROVE  DirInv' /\ NamesStay
<1> DEFINE E == FrontOf(slots)
           N == Len(slots)
           M == Mark
           G == FrontOf(slots')
           last == BlockEnd(op.from)
           over == M <= last \/ (last = N /\ M = last + 1)
<1>0. op.pc = "extend" /\ op # NoSave
  BY NoSaveIs DEF Extend, SaveSteps
<1>1. DirTypeOK /\ Tidy(slots) /\ JunkInv /\ SaveInv /\ ExtendInv /\ RawInv
      /\ ops \in 0..MaxOps /\ faults \in 0..MaxFaults
      /\ N % (IF fixed THEN BlockSlots ELSE ClusterSlots) = 0
  BY <1>0, SaveFacts
<1>2. /\ slots \in Seq(SlotKinds) /\ N \in Nat /\ fixed \in BOOLEAN /\ E \in 1..(N + 1)
      /\ N % BlockSlots = 0 /\ (~fixed => N % ClusterSlots = 0) /\ EndAt(slots, E)
  BY <1>1, Sizing
<1>3. /\ op \in Saves /\ op.at \in Nat /\ op.from \in Nat /\ op.done \in Nat /\ M \in Nat
      /\ op.name \in Names /\ op.raw \in BOOLEAN /\ op.blank \in BOOLEAN /\ M > op.at
  <2>1. op.at \in Nat /\ Needed[op.name] \in 1..21 /\ M = op.at + Needed[op.name]
    BY <1>0, <1>1, SaveTypes
  <2>2. M \in Nat /\ M > op.at
    <3> HIDE DEF M
    <3> QED
      BY <2>1
  <2> QED
    BY <1>0, <1>1, <2>2, SaveTypes
<1>4. op.from \in 1..N
  BY <1>0, <1>1, Sizing DEF DirTypeOK
<1>5. /\ op.at <= Front /\ Front <= op.from /\ op.from <= M
      /\ \A i \in op.at..(Front - 1) : slots[i] = Deleted
      /\ \A i \in Front..(op.from - 1) : slots[i] = End
      /\ op.done = 0
      /\ ~fixed => M - 1 < N \/ (M - 1) % ClusterSlots # 0
  BY <1>0, <1>1 DEF ExtendInv
<1>6. last \in Nat /\ last >= op.from /\ last <= N
  BY <1>2, <1>4, BlockIs, BlockInside
<1>7. ~(last = N /\ ~fixed /\ M = last + 1)
  BY <1>2, <1>3, <1>5
<1>8. slots' = Blanked(slots, Zeroed) /\ UNCHANGED <<fixed, faults, ops>>
  BY <1>7 DEF Extend
<1>9. /\ over => op' = [op EXCEPT !.raw = FALSE, !.pc = "fill"]
      /\ M > last /\ last # N => op' = [op EXCEPT !.raw = FALSE, !.from = last + 1, !.blank = TRUE]
      /\ M > last + 1 /\ last = N => op' = [op EXCEPT !.raw = FALSE, !.from = last + 1, !.pc = "grow"]
  <2> DEFINE placed == [op EXCEPT !.raw = FALSE]
             onward == [placed EXCEPT !.from = last + 1]
  <2>1. op' = CASE over -> [placed EXCEPT !.pc = "fill"]
                [] M > last /\ ~(last = N) -> [onward EXCEPT !.blank = TRUE]
                [] M > last + 1 /\ last = N -> [onward EXCEPT !.pc = "grow"]
    BY DEF Extend
  <2>2. /\ over => ~(M > last /\ ~(last = N)) /\ ~(M > last + 1 /\ last = N)
        /\ M > last /\ ~(last = N) => ~over /\ ~(M > last + 1 /\ last = N)
        /\ M > last + 1 /\ last = N => ~over /\ ~(M > last /\ ~(last = N))
    BY <1>2, <1>3, <1>6
  <2>3. /\ [placed EXCEPT !.pc = "fill"] = [op EXCEPT !.raw = FALSE, !.pc = "fill"]
        /\ [onward EXCEPT !.blank = TRUE] = [op EXCEPT !.raw = FALSE, !.from = last + 1, !.blank = TRUE]
        /\ [onward EXCEPT !.pc = "grow"] = [op EXCEPT !.raw = FALSE, !.from = last + 1, !.pc = "grow"]
    BY <1>3 DEF Saves
  <2> HIDE DEF placed, onward, over, last, M, N
  <2> QED
    BY <2>1, <2>2, <2>3
<1>10. over \/ (M > last /\ last # N) \/ (M > last + 1 /\ last = N)
  BY <1>2, <1>3, <1>6
<1>11. slots' \in Seq(SlotKinds) /\ Len(slots') = N
       /\ \A i \in 1..N : slots'[i] = (IF i \in Zeroed THEN End ELSE slots[i])
  BY <1>2, <1>8, BlankedIs
<1>12. G \in 1..(N + 1)
  BY <1>11, VisibleIs
<1> HIDE DEF over
<1>13. Zeroed = {i \in op.from..last : op.blank \/ i <= M}
  BY DEF Zeroed
<1>14. op'.name = op.name /\ op'.at = op.at /\ op'.raw = FALSE /\ op' \in Saves /\ op'.done = 0
  <2>1. CASE over
    BY <1>3, <1>5, <1>9, <2>1 DEF Saves, SaveSteps
  <2>2. CASE M > last /\ last # N
    <3>1. last + 1 \in Nat
      BY <1>6
    <3> HIDE DEF last
    <3> QED
      BY <1>3, <1>5, <1>9, <2>2, <3>1 DEF Saves, SaveSteps
  <2>3. CASE M > last + 1 /\ last = N
    <3>1. last + 1 \in Nat
      BY <1>6
    <3> HIDE DEF last
    <3> QED
      BY <1>3, <1>5, <1>9, <2>3, <3>1 DEF Saves, SaveSteps
  <2> QED
    BY <1>10, <2>1, <2>2, <2>3
<1>15. Mark' = M
  BY <1>14 DEF Mark
<1> HIDE DEF E, N, G, M, last
<1>16. \A i \in Zeroed : i \in Nat /\ i >= op.from
  BY <1>3, <1>6, <1>13
<1>17. op.from \in Zeroed
  BY <1>3, <1>5, <1>6, <1>13
<1>18. Front \in Nat /\ Front >= 1
  BY <1>2, <1>4 DEF Front, E
<1>19. /\ G = Front /\ Tidy(slots') /\ NamesStay
       /\ \A i \in 1..(op.from - 1) : slots'[i] = slots[i]
       /\ JunkInv'
  <2>0. \A i \in 1..(op.from - 1) : slots'[i] = slots[i]
    <3>1. ASSUME NEW i \in 1..(op.from - 1) PROVE slots'[i] = slots[i]
      <4>1. i \in 1..N /\ ~(i \in Zeroed)
        BY <1>2, <1>4, <1>16
      <4> QED
        BY <1>11, <4>1
    <3> QED
      BY <3>1
  <2>1. CASE op.raw
    <3>1. Bare(slots, op.from)
      BY <1>1, <2>1 DEF RawInv
    <3>2. Bare(slots', op.from) /\ G = op.from
      BY <1>2, <1>8, <1>11, <1>16, <1>17, <3>1, BlankedBare DEF G
    <3>3. Tidy(slots') /\ NamesStay
      BY <1>1, <1>2, <1>11, <2>0, <3>1, <3>2, BareNames DEF NamesStay
    <3>4. JunkInv'
      <4>1. op.from <= E
        BY <3>1 DEF Bare, E
      <4>2. \A i \in 1..(G - 1) : i \in 1..(E - 1) /\ i < op.from
        BY <1>2, <1>3, <3>2, <4>1
      <4>3. \A i \in 1..(G - 1) : slots'[i] # Junk
        BY <1>1, <1>3, <2>0, <3>2, <4>2 DEF JunkInv, E
      <4> QED
        BY <4>3 DEF JunkInv, G
    <3> QED
      BY <2>0, <2>1, <3>2, <3>3, <3>4 DEF Front
  <2>2. CASE ~op.raw
    <3>1. Front = E
      BY <2>2 DEF Front, E
    <3>2. \A i \in Zeroed : i \in Nat /\ i >= FrontOf(slots)
      BY <1>2, <1>3, <1>5, <1>16, <3>1 DEF E
    <3>3. G = E /\ Visible(slots') = Visible(slots)
          /\ \A i \in Visible(slots) : slots'[i] = slots[i]
      BY <1>2, <1>8, <1>11, <3>2, BlankedBehind DEF G, E
    <3>4. Keeps(slots, slots')
      BY <3>3 DEF Keeps
    <3>5. Tidy(slots') /\ NamesStay
      BY <1>1, <1>2, <1>11, <3>3, <3>4, NamesKept, Zenon DEF NamesStay
    <3>6. Visible(slots) = 1..(E - 1)
      BY <1>2, VisibleIs DEF E
    <3>7. JunkInv'
      <4>1. \A i \in 1..(G - 1) : slots'[i] # Junk
        BY <1>1, <2>2, <3>3, <3>6 DEF JunkInv, E
      <4> QED
        BY <4>1 DEF JunkInv, G
    <3> QED
      BY <2>0, <3>1, <3>3, <3>5, <3>7
  <2> QED
    BY <1>3, <2>1, <2>2
<1>20. op.at >= 1
  BY <1>1, <1>2, <1>3 DEF SaveInv, E
<1>21. Front' = G
  BY <1>14 DEF Front, G
<1>22. SaveInv'
  <2>1. Places(slots', op'.name) = {}
    BY <1>1, <1>3, <1>14, <1>19 DEF SaveInv, NamesStay
  <2>2. op'.at \in 1..G
    BY <1>3, <1>5, <1>14, <1>18, <1>19, <1>20
  <2> QED
    BY <2>1, <2>2 DEF SaveInv, G
\* What has been passed is free, then empty.
<1>23. \A i \in op.at..(G - 1) : slots'[i] = Deleted
  <2>1. \A i \in op.at..(G - 1) : i \in 1..(op.from - 1)
    BY <1>3, <1>5, <1>18, <1>19, <1>20
  <2> QED
    BY <1>5, <1>19, <2>1
<1>24. ASSUME NEW i \in Nat, G <= i, i <= last, i <= M PROVE slots'[i] = End
  <2>1. CASE i < op.from
    <3>1. i \in Front..(op.from - 1) /\ i \in 1..(op.from - 1)
      BY <1>3, <1>18, <1>19, <1>24, <2>1
    <3> QED
      BY <1>5, <1>19, <3>1
  <2>2. CASE op.from <= i
    <3>1. i \in Zeroed /\ i \in 1..N
      BY <1>2, <1>3, <1>4, <1>6, <1>13, <1>24, <2>2
    <3> QED
      BY <1>11, <3>1
  <2> QED
    BY <1>3, <2>1, <2>2
<1>25. RawInv'
  BY <1>14 DEF RawInv
<1>26. /\ Len(slots') % (IF fixed THEN BlockSlots ELSE ClusterSlots) = 0
       /\ ops' \in 0..MaxOps /\ faults' = faults /\ fixed' = fixed
  BY <1>1, <1>8, <1>11
<1>27. CASE over
  <2>1. op'.pc = "fill"
    BY <1>3, <1>9, <1>27 DEF Saves
  <2>2. M <= last \/ (last = N /\ M = last + 1)
    BY <1>27 DEF over
  <2>3. op.at + 0 = op.at /\ op.at < M /\ M - 1 <= N /\ op.at <= G
    BY <1>2, <1>3, <1>5, <1>6, <1>19, <2>2
  <2>4. ExtendInv'
    BY <2>1 DEF ExtendInv
  <2>5. FillInv'
    <3>1. \A i \in op'.at..((op'.at + op'.done) - 1) : FALSE
      BY <1>3, <1>14, <2>3
    <3>2. \A i \in op'.at..((op'.at + op'.done) - 1) : slots'[i] = Entry(op'.name, Mark' - 1 - i)
      BY <3>1, Zenon
    <3>3. ASSUME NEW i \in op.at..(M - 1) PROVE slots'[i] = (IF i < G THEN Deleted ELSE End)
      <4>1. CASE i < G
        <5>1. i \in op.at..(G - 1)
          BY <1>3, <1>12, <4>1
        <5> QED
          BY <1>23, <4>1, <5>1
      <4>2. CASE G <= i
        <5>1. i \in Nat /\ i <= last /\ i <= M
          BY <1>3, <1>6, <2>2
        <5> QED
          BY <1>12, <1>24, <4>2, <5>1
      <4> QED
        BY <1>12, <1>3, <4>1, <4>2
    <3>4. \A i \in (op'.at + op'.done)..(Mark' - 1) :
            slots'[i] = (IF i < FrontOf(slots') THEN Deleted ELSE End)
      <4>1. op'.at + op'.done = op.at
        BY <1>14, <2>3
      <4> QED
        BY <1>15, <3>3, <4>1 DEF G
    <3>5. ASSUME G < M, M <= N PROVE slots'[M] = End
      <4>1. M <= last
        BY <1>2, <1>3, <1>6, <2>2, <3>5
      <4> QED
        BY <1>3, <1>12, <1>24, <3>5, <4>1
    <3>6. FrontOf(slots') < Mark' /\ Mark' <= Len(slots') => slots'[Mark'] = End
      BY <1>11, <1>15, <3>5 DEF G
    <3>7. /\ ~op'.raw
          /\ op'.at + op'.done < Mark' /\ Mark' - 1 <= Len(slots')
          /\ op'.at + op'.done <= FrontOf(slots')
      BY <1>11, <1>14, <1>15, <2>3 DEF G
    <3> QED
      BY <3>2, <3>4, <3>6, <3>7, Zenon DEF FillInv
  <2>6. Mark' - 1 \in 1..Len(slots')
    BY <1>3, <1>11, <1>15, <1>20, <2>3, <1>2
  <2>7. op'.pc # "extend" /\ op'.pc # "zero"
    BY <2>1
  <2>8. DirInv'
    BY <1>1, <1>2, <1>11, <1>14, <1>19, <1>22, <1>25, <1>26, <2>4, <2>5, <2>6, <2>7, Going
  <2> QED
    BY <1>19, <2>8
<1>28. CASE ~over
  <2>1. M > last /\ (last = N => M > last + 1)
    BY <1>3, <1>6, <1>10, <1>28
  <2>2. op'.from = last + 1 /\ op'.pc = (IF last = N THEN "grow" ELSE "extend")
    BY <1>0, <1>3, <1>9, <2>1 DEF Saves
  <2>3. FillInv'
    BY <2>2 DEF FillInv
  <2>4. ExtendInv'
    <3>1. \A i \in op'.at..(Front' - 1) : slots'[i] = Deleted
      BY <1>14, <1>21, <1>23
    <3>2. \A i \in Front'..(op'.from - 1) : slots'[i] = End
      <4>1. \A i \in G..last : i \in Nat /\ G <= i /\ i <= last /\ i <= M
        BY <1>3, <1>6, <1>12, <2>1
      <4>2. (last + 1) - 1 = last
        BY <1>6
      <4> QED
        BY <1>21, <1>24, <2>2, <4>1, <4>2
    <3>3. op'.at <= Front' /\ Front' <= op'.from /\ op'.from <= Mark'
      BY <1>3, <1>5, <1>6, <1>14, <1>15, <1>18, <1>19, <1>21, <2>1, <2>2
    <3>4. op'.pc = "grow" => op'.from = Len(slots') + 1 /\ op'.from < Mark'
      BY <1>11, <1>15, <2>1, <2>2
    <3>5. ~fixed' => Mark' - 1 < Len(slots') \/ (Mark' - 1) % ClusterSlots # 0
      BY <1>5, <1>8, <1>11, <1>15
    <3> QED
      BY <1>14, <3>1, <3>2, <3>3, <3>4, <3>5 DEF ExtendInv
  <2>5. op'.pc \in {"extend", "zero"} => op'.from \in 1..Len(slots')
    BY <1>2, <1>6, <1>11, <2>2
  <2>6. op'.pc # "fill" /\ op'.pc # "zero"
    BY <2>2
  <2>7. DirInv'
    BY <1>1, <1>2, <1>11, <1>14, <1>19, <1>22, <1>25, <1>26, <2>3, <2>4, <2>5, <2>6, Going
  <2> QED
    BY <1>19, <2>7
<1> QED
  BY <1>27, <1>28

\* The entries come one after the other, the one that is searched for last.
LEMMA FillStep ==
  ASSUME DirInv, Hazards = {}, Fill
  PROVE  DirInv' /\ (NamesStay \/ \E m \in Names : Listed' = Listed \cup {m})
<1> DEFINE E == FrontOf(slots)
           N == Len(slots)
           M == Mark
           next == op.at + op.done
           b == IF BlockEnd(next) < M THEN BlockEnd(next) ELSE M - 1
           here == next..b
           G == FrontOf(slots')
<1>0. op.pc = "fill" /\ op # NoSave
  BY NoSaveIs DEF Fill, SaveSteps
<1>1. DirTypeOK /\ Tidy(slots) /\ JunkInv /\ SaveInv /\ FillInv
      /\ ops \in 0..MaxOps /\ faults \in 0..MaxFaults
      /\ N % (IF fixed THEN BlockSlots ELSE ClusterSlots) = 0
  BY <1>0, SaveFacts
<1>2. /\ slots \in Seq(SlotKinds) /\ N \in Nat /\ DOMAIN slots = 1..N /\ fixed \in BOOLEAN
      /\ E \in 1..(N + 1) /\ EndAt(slots, E) /\ Visible(slots) = 1..(E - 1)
  BY <1>1, Sizing
<1>3. /\ op \in Saves /\ op.at \in Nat /\ op.done \in Nat /\ op.name \in Names
      /\ Needed[op.name] \in 1..21 /\ M = op.at + Needed[op.name] /\ M \in Nat
  BY <1>0, <1>1, SaveTypes
<1>4. /\ ~op.raw
      /\ next < M /\ M - 1 <= N /\ next <= E
      /\ \A i \in op.at..(next - 1) : slots[i] = Entry(op.name, M - 1 - i)
      /\ \A i \in next..(M - 1) : slots[i] = (IF i < E THEN Deleted ELSE End)
      /\ E < M /\ M <= N => slots[M] = End
  BY <1>0, <1>1, Zenon DEF FillInv
<1>5. op.at \in 1..E /\ Places(slots, op.name) = {}
  BY <1>1 DEF SaveInv
<1>6. next \in Nat /\ next >= 1 /\ next >= op.at
  <2> HIDE DEF E
  <2> QED
    BY <1>2, <1>3, <1>5
<1>7. b \in Nat /\ next <= b /\ b <= M - 1
  <2>1. BlockEnd(next) \in Nat /\ BlockEnd(next) >= next
    <3> HIDE DEF next
    <3> QED
      BY <1>6, BlockIs
  <2> HIDE DEF M, next
  <2> QED
    BY <1>3, <1>4, <1>6, <2>1
<1>8. /\ slots' = [i \in 1..N |-> IF i \in here THEN Entry(op.name, M - 1 - i) ELSE slots[i]]
      /\ IF (M - 1) \in here THEN op' = NoSave
                             ELSE op' = [op EXCEPT !.done = @ + Cardinality(here)]
      /\ UNCHANGED <<fixed, faults, ops>>
  BY <1>2 DEF Fill, Leave
<1> HIDE DEF b
<1>9. Cardinality(here) = (b - next) + 1
  <2> HIDE DEF next
  <2>1. Cardinality(next..b) = IF next > b THEN 0 ELSE b - next + 1
    BY <1>6, <1>7, FS_Interval
  <2> QED
    BY <1>6, <1>7, <2>1
<1>10. \A i \in here : i \in 1..N /\ M - 1 - i \in 0..20 /\ i >= next /\ i <= b
  <2> HIDE DEF M, next, N
  <2>1. M - next <= 21
    BY <1>3, <1>6
  <2>2. ASSUME NEW i \in here PROVE i \in 1..N /\ M - 1 - i \in 0..20 /\ i >= next /\ i <= b
    <3>1. i \in Nat /\ i >= next /\ i <= b
      BY <1>6, <1>7, <2>2
    <3>2. M - 1 <= N /\ next <= b /\ b <= M - 1
      BY <1>4, <1>7
    <3> HIDE DEF here, E
    <3>3. i <= M - 1 /\ i <= N /\ i >= 1
      BY <1>2, <1>3, <1>6, <1>7, <3>1, <3>2
    <3>4. M - i <= 21
      BY <1>3, <1>6, <2>1, <3>1
    <3> QED
      <4>1. i \in 1..N
        BY <1>2, <3>1, <3>3
      <4>2. M - 1 - i \in 0..20
        BY <1>3, <3>1, <3>3, <3>4
      <4> QED
        BY <3>1, <4>1, <4>2
  <2> QED
    BY <2>2
<1> HIDE DEF E, N, M, next, here, G
<1>11. slots' \in Seq(SlotKinds) /\ Len(slots') = N
       /\ \A i \in 1..N : slots'[i] = (IF i \in here THEN Entry(op.name, M - 1 - i) ELSE slots[i])
  <2>1. \A i \in 1..N : slots[i] \in SlotKinds
    BY <1>2
  <2>2. \A i \in here : Entry(op.name, M - 1 - i) \in SlotKinds
    BY <1>3, <1>10, EntryIs DEF SlotKinds
  <2>3. slots' \in [1..N -> SlotKinds]
    BY <1>8, <2>1, <2>2
  <2>4. slots' \in Seq(SlotKinds) /\ Len(slots') = N
    BY <1>2, <2>3
  <2> QED
    BY <1>8, <2>4
<1>12. ASSUME NEW i \in here
       PROVE  Entry(op.name, M - 1 - i) # End /\ Entry(op.name, M - 1 - i) # Junk
  <2> DEFINE p == M - 1 - i
  <2>1. p \in 0..20
    BY <1>10
  <2> HIDE DEF p
  <2>2. Entry(op.name, p) # End /\ Entry(op.name, p) # Junk
    BY <1>3, <2>1, EntryIs
  <2> QED
    BY <2>2 DEF p
<1>13. \A i \in Nat : i \in here <=> next <= i /\ i <= b
  BY <1>6, <1>7 DEF here
<1>14. \A i \in here : slots[i] = (IF i < E THEN Deleted ELSE End) /\ i \in next..(M - 1)
  <2>1. \A i \in here : i \in next..(M - 1)
    BY <1>3, <1>6, <1>7, <1>10
  <2> QED
    BY <1>4, <2>1
\* The end mark is behind what has been written, if it is not behind it already.
<1>15. G = IF E <= b THEN b + 1 ELSE E
  <2> DEFINE e == IF E <= b THEN b + 1 ELSE E
  <2>1. e \in 1..(N + 1) /\ E <= e /\ b < e /\ (e = E \/ e = b + 1)
    BY <1>2, <1>3, <1>4, <1>7
  <2> HIDE DEF e
  <2>2. \A j \in 1..(e - 1) : slots'[j] # End
    <3>1. ASSUME NEW j \in 1..(e - 1) PROVE slots'[j] # End
      <4>1. j \in 1..N
        BY <1>2, <2>1
      <4>2. CASE j \in here
        BY <1>11, <1>12, <4>1, <4>2
      <4>3. CASE ~(j \in here)
        <5>1. j < E
          BY <1>2, <1>4, <1>6, <1>7, <1>13, <2>1, <4>1, <4>3
        <5>2. j \in 1..(E - 1) /\ slots[j] # End
          BY <1>2, <5>1 DEF EndAt
        <5> QED
          BY <1>11, <4>1, <4>3, <5>2
      <4> QED
        BY <4>2, <4>3
    <3> QED
      BY <3>1
  <2>3. ASSUME e <= N PROVE slots'[e] = End
    <3>1. e \in 1..N /\ ~(e \in here)
      BY <1>2, <1>7, <1>13, <2>1, <2>3
    <3>2. slots[e] = End
      <4>1. CASE e = E
        BY <1>2, <2>3, <4>1 DEF EndAt, N
      <4>2. CASE e # E /\ e <= M - 1
        <5>1. e \in next..(M - 1) /\ ~(e < E)
          BY <1>2, <1>3, <1>6, <1>7, <2>1, <4>2
        <5> QED
          BY <1>4, <5>1
      <4>3. CASE e # E /\ e > M - 1
        <5>1. e = M /\ E < M /\ M <= N
          BY <1>2, <1>3, <1>7, <2>1, <2>3, <4>3
        <5> QED
          BY <1>4, <5>1
      <4> QED
        BY <1>2, <1>3, <2>1, <4>1, <4>2, <4>3
    <3> QED
      BY <1>11, <3>1, <3>2
  <2>4. EndAt(slots', e)
    BY <1>11, <2>1, <2>2, <2>3 DEF EndAt
  <2>5. G = e
    BY <1>11, <2>4, FrontIs DEF G
  <2> QED
    BY <2>5 DEF e
<1>16. G \in 1..(N + 1) /\ Visible(slots') = 1..(G - 1) /\ E <= G /\ b < G
  <2>1. Visible(slots') = 1..(G - 1)
    BY <1>11, VisibleIs DEF G
  <2> QED
    BY <1>2, <1>3, <1>4, <1>7, <1>15, <2>1
<1>17. Keeps(slots, slots')
  <2>1. ASSUME NEW i \in Visible(slots), slots[i] \in Entries
        PROVE  i \in Visible(slots') /\ slots'[i] = slots[i]
    <3>1. i \in 1..(E - 1) /\ i \in 1..N /\ i \in 1..(G - 1)
      BY <1>2, <1>16
    <3>2. ~(i \in here)
      BY <1>14, <2>1, <3>1, MarksDiffer
    <3> QED
      BY <1>11, <1>16, <3>1, <3>2
  <2> QED
    BY <2>1 DEF Keeps
<1>18. \A i \in 1..(G - 1) : i \in 1..N /\ (~(i \in here) => i \in 1..(E - 1))
  BY <1>2, <1>4, <1>6, <1>7, <1>13, <1>15, <1>16
<1>19. \A i \in 1..(G - 1) : slots'[i] # Junk
  <2>1. ASSUME NEW i \in 1..(G - 1) PROVE slots'[i] # Junk
    <3>1. CASE i \in here
      BY <1>11, <1>18, <1>12, <3>1
    <3>2. CASE ~(i \in here)
      <4>1. i \in 1..(E - 1) /\ i \in 1..N
        BY <1>18, <3>2
      <4>2. slots[i] # Junk
        BY <1>1, <1>4, <4>1 DEF JunkInv, E
      <4> QED
        BY <1>11, <3>2, <4>1, <4>2
    <3> QED
      BY <3>1, <3>2
  <2> QED
    BY <2>1
<1>20. JunkInv'
  BY <1>19 DEF JunkInv, G
\* Only the very last part of the new entries can make a name appear.
<1>21. ASSUME NEW n \in Names, NEW i \in Visible(slots'), slots'[i] = Entry(n, 0)
       PROVE  (i \in Visible(slots) /\ slots[i] = slots'[i]) \/ (n = op.name /\ i = M - 1 /\ i \in here)
  <2>1. i \in 1..(G - 1) /\ i \in 1..N
    BY <1>16, <1>18
  <2>2. CASE i \in here
    <3>1. Entry(op.name, M - 1 - i) = Entry(n, 0)
      BY <1>11, <1>21, <2>1, <2>2
    <3>2. M - 1 - i \in 0..20 /\ 0 \in 0..20
      BY <1>10, <2>2
    <3>3. n = op.name /\ M - 1 - i = 0
      BY <1>3, <3>1, <3>2, EntryIs
    <3>4. i = M - 1
      BY <1>3, <2>1, <3>3
    <3> QED
      BY <2>2, <3>3, <3>4
  <2>3. CASE ~(i \in here)
    BY <1>2, <1>11, <1>18, <2>1, <2>3
  <2> QED
    BY <2>2, <2>3
<1>22. /\ Len(slots') % (IF fixed THEN BlockSlots ELSE ClusterSlots) = 0
       /\ ops' \in 0..MaxOps /\ faults' = faults /\ fixed' = fixed
  BY <1>1, <1>8, <1>11
<1>23. CASE (M - 1) \in here
  <2>1. op' = NoSave
    BY <1>8, <1>23
  <2>2. M - 1 = b
    BY <1>3, <1>7, <1>10, <1>23
  <2>3. M - 1 \in Places(slots', op.name)
    <3>1. M - 1 \in Visible(slots')
      BY <1>3, <1>6, <1>7, <1>16, <2>2
    <3>2. ASSUME NEW p \in 0..(Needed[op.name] - 1)
          PROVE  (M - 1) - p > 0 /\ slots'[(M - 1) - p] = Entry(op.name, p)
      <4> DEFINE i == (M - 1) - p
      <4>1. i \in Nat /\ i >= op.at /\ i <= M - 1 /\ i >= 1 /\ M - 1 - i = p
        <5>1. op.at >= 1
          BY <1>2, <1>3, <1>5 DEF E
        <5> QED
          BY <1>3, <3>2, <5>1
      <4> HIDE DEF i
      <4>2. i \in 1..N
        BY <1>2, <1>3, <1>4, <4>1
      <4>3. CASE i \in here
        BY <1>11, <4>1, <4>2, <4>3 DEF i
      <4>4. CASE ~(i \in here)
        <5>1. i \in op.at..(next - 1)
          BY <1>3, <1>6, <1>7, <1>13, <2>2, <4>1, <4>4
        <5>2. slots[i] = Entry(op.name, p)
          BY <1>4, <4>1, <5>1
        <5> QED
          BY <1>11, <4>1, <4>2, <4>4, <5>2 DEF i
      <4> QED
        BY <4>3, <4>4
    <3> QED
      BY <3>1, <3>2 DEF Places
  <2>4. Tidy(slots') /\ \A n \in Names :
          Places(slots', n) # {} <=> (Places(slots, n) # {} \/ n = op.name)
    <3> DEFINE k == M - 1
               m == op.name
               s == slots
               t == slots'
    <3>1. \A n \in Names, i \in Visible(slots') : slots'[i] = Entry(n, 0) =>
            (i \in Visible(slots) /\ slots[i] = slots'[i]) \/ (n = op.name /\ i = k)
      BY <1>21
    <3>2. k \in Places(slots', op.name)
      BY <2>3
    <3>3. s \in Seq(SlotKinds) /\ t \in Seq(SlotKinds) /\ Tidy(s) /\ Keeps(s, t) /\ m \in Names
          /\ Places(s, m) = {}
      BY <1>1, <1>2, <1>3, <1>5, <1>11, <1>17
    <3>4. (\A n \in Names, i \in Visible(t) :
             t[i] = Entry(n, 0) => (i \in Visible(s) /\ s[i] = t[i]) \/ (n = m /\ i = k))
          /\ k \in Places(t, m)
      BY <3>1, <3>2, Zenon
    <3> HIDE DEF k, m, s, t
    <3>5. Tidy(t) /\ \A n \in Names : Places(t, n) # {} <=> (Places(s, n) # {} \/ n = m)
      BY <3>3, <3>4, NameAdded
    <3> QED
      BY <3>5 DEF m, s, t
  <2>5. Listed' = Listed \cup {op.name}
    BY <1>3, <2>4 DEF Listed, Found
  <2>6. DirTypeOK'
    BY <1>1, <1>11, <1>22, <2>1 DEF DirTypeOK, SlotKinds
  <2>7. DirInv'
    BY <1>20, <2>1, <2>4, <2>6 DEF DirInv
  <2> QED
    BY <1>3, <2>5, <2>7
<1>24. CASE ~((M - 1) \in here)
  <2>1. b < M - 1
    BY <1>3, <1>4, <1>6, <1>7, <1>13, <1>24
  <2>2. op' = [op EXCEPT !.done = @ + ((b - next) + 1)]
    BY <1>8, <1>9, <1>24
  <2>3. /\ op'.pc = "fill" /\ op'.name = op.name /\ op'.at = op.at /\ op'.raw = op.raw
        /\ op'.done = op.done + ((b - next) + 1) /\ op' \in Saves
    <3>1. op.done + ((b - next) + 1) \in Nat
      BY <1>3, <1>6, <1>7
    <3> QED
      BY <1>0, <1>3, <2>2, <3>1 DEF Saves
  <2>4. Mark' = M
    BY <2>3 DEF Mark, M
  <2>5. op'.at + op'.done = b + 1
    <3>1. next = op.at + op.done
      BY DEF next
    <3> QED
      BY <1>3, <1>6, <1>7, <2>3, <3>1
  <2>6. Tidy(slots') /\ NamesStay
    <3>1. \A n \in Names, i \in Visible(slots') :
            slots'[i] = Entry(n, 0) => i \in Visible(slots) /\ slots[i] = slots'[i]
      BY <1>21, <1>24
    <3> QED
      BY <1>1, <1>2, <1>11, <1>17, <3>1, NamesKept, Zenon DEF NamesStay
  <2>7. SaveInv'
    <3>1. Places(slots', op'.name) = {}
      BY <1>3, <1>5, <2>3, <2>6 DEF NamesStay
    <3>2. op'.at \in 1..G
      BY <1>2, <1>3, <1>5, <1>16, <2>3 DEF E
    <3> QED
      BY <3>1, <3>2 DEF SaveInv, G
  <2>8. ExtendInv' /\ RawInv'
    BY <1>4, <2>3 DEF ExtendInv, RawInv
  <2>9. FillInv'
    <3>1. ASSUME NEW i \in op.at..((b + 1) - 1) PROVE slots'[i] = Entry(op.name, M - 1 - i)
      <4>0. op.at >= 1
        BY <1>2, <1>3, <1>5 DEF E
      <4>1. i \in 1..N /\ i <= b
        BY <1>2, <1>3, <1>4, <1>7, <4>0
      <4>2. CASE i \in here
        BY <1>11, <4>1, <4>2
      <4>3. CASE ~(i \in here)
        <5>1. i \in op.at..(next - 1)
          BY <1>3, <1>6, <1>13, <4>1, <4>3
        <5> QED
          BY <1>4, <1>11, <4>1, <4>3, <5>1
      <4> QED
        BY <4>2, <4>3
    <3>2. ASSUME NEW i \in (b + 1)..(M - 1) PROVE slots'[i] = (IF i < G THEN Deleted ELSE End)
      <4>1. i \in 1..N /\ ~(i \in here) /\ i \in next..(M - 1)
        BY <1>2, <1>3, <1>4, <1>6, <1>7, <1>13
      <4>2. i < G <=> i < E
        BY <1>2, <1>7, <1>15
      <4> QED
        BY <1>4, <1>11, <4>1, <4>2
    <3>3. ASSUME G < M, M <= N PROVE slots'[M] = End
      <4>1. M \in 1..N /\ ~(M \in here) /\ E < M
        BY <1>2, <1>3, <1>6, <1>7, <1>13, <1>16, <3>3
      <4> QED
        BY <1>4, <1>11, <3>3, <4>1
    <3>4. /\ ~op'.raw
          /\ op'.at + op'.done < Mark' /\ Mark' - 1 <= Len(slots')
          /\ op'.at + op'.done <= FrontOf(slots')
      <4>1. b + 1 < M /\ b + 1 <= G
        BY <1>3, <1>7, <1>16, <2>1
      <4> QED
        BY <1>4, <1>11, <2>3, <2>4, <2>5, <4>1 DEF G
    <3>5. \A i \in op'.at..((op'.at + op'.done) - 1) : slots'[i] = Entry(op'.name, Mark' - 1 - i)
      BY <2>3, <2>4, <2>5, <3>1
    <3>6. \A i \in (op'.at + op'.done)..(Mark' - 1) :
            slots'[i] = (IF i < FrontOf(slots') THEN Deleted ELSE End)
      BY <2>4, <2>5, <3>2 DEF G
    <3>7. FrontOf(slots') < Mark' /\ Mark' <= Len(slots') => slots'[Mark'] = End
      BY <1>11, <2>4, <3>3 DEF G
    <3> QED
      BY <3>4, <3>5, <3>6, <3>7, Zenon DEF FillInv
  <2>10. Mark' - 1 \in 1..Len(slots') /\ op'.pc = "fill"
    BY <1>2, <1>3, <1>4, <1>6, <1>11, <2>3, <2>4
  <2>11. op'.pc # "extend" /\ op'.pc # "zero"
    BY <2>10
  <2>12. DirInv'
    BY <1>1, <1>2, <1>11, <1>20, <1>22, <2>3, <2>6, <2>7, <2>8, <2>9, <2>10, <2>11, Going
  <2> QED
    BY <2>6, <2>12
<1> QED
  BY <1>23, <1>24

----------------------------------------------------------------------------
(* The theorems about directories.                                          *)

\* It holds at first.
LEMMA DirInitial ==
  ASSUME DirInit
  PROVE  DirInv
<1>1. PICK d \in Directories : slots = d.slots /\ fixed = d.fixed
  BY DEF DirInit
<1>2. /\ slots \in Seq(Entries \cup {End, Deleted, Junk}) /\ fixed \in BOOLEAN
      /\ Tidy(slots) /\ \A i \in Visible(slots) : slots[i] # Junk
      /\ Len(slots) % (IF fixed THEN BlockSlots ELSE ClusterSlots) = 0
      /\ MaxFaults \in Nat /\ MaxOps \in Nat
  BY <1>1, DirectoryAssumption
<1>3. op = NoSave /\ faults = 0 /\ ops = 0
  BY DEF DirInit
<1>4. DirTypeOK
  BY <1>2, <1>3 DEF DirTypeOK
<1>5. Visible(slots) = 1..(FrontOf(slots) - 1)
  BY <1>4, Sizing
<1>6. JunkInv
  BY <1>2, <1>5 DEF JunkInv
<1> QED
  BY <1>2, <1>3, <1>4, <1>6 DEF DirInv

\* Every step keeps the invariant, and adds a name to those listed or leaves them as they are.
LEMMA DirStep ==
  ASSUME DirInv, Hazards = {}, [DirNext]_dirVars
  PROVE  DirInv' /\ (Listed' = Listed \/ \E m \in Names : Listed' = Listed \cup {m})
<1>1. ASSUME DirInv' /\ NamesStay
      PROVE  DirInv' /\ Listed' = Listed
  BY <1>1 DEF NamesStay, Listed, Found
<1>2. ASSUME UNCHANGED dirVars PROVE DirInv' /\ NamesStay
  <2>1. slots' = slots /\ fixed' = fixed /\ op' = op /\ faults' = faults /\ ops' = ops
    BY <1>2 DEF dirVars
  <2>2. Mark' = Mark /\ Front' = Front
    BY <2>1 DEF Mark, Front
  <2>3. DirTypeOK' /\ Tidy(slots')
    BY <2>1, <2>2 DEF DirInv, DirTypeOK
  <2>4. JunkInv'
    BY <2>1 DEF DirInv, JunkInv
  <2>5. op # NoSave => SaveInv' /\ ExtendInv' /\ RawInv' /\ FillInv'
    BY <2>1, <2>2 DEF DirInv, SaveInv, ExtendInv, RawInv, FillInv
  <2> QED
    BY <2>1, <2>3, <2>4, <2>5 DEF DirInv, NamesStay
<1>3. ASSUME NEW n \in Names, Open(n) PROVE DirInv' /\ NamesStay
  BY <1>2, <1>3 DEF Open
<1>4. ASSUME NEW n \in Names, Begin(n) PROVE DirInv' /\ NamesStay
  BY <1>4, BeginStep
<1>5. ASSUME Extend PROVE DirInv' /\ NamesStay
  BY <1>5, ExtendStep
<1>6. ASSUME Grow PROVE DirInv' /\ NamesStay
  BY <1>6, GrowStep
<1>7. ASSUME Zero PROVE DirInv' /\ NamesStay
  BY <1>7, ZeroStep
<1>8. ASSUME Stop PROVE DirInv' /\ NamesStay
  BY <1>8, StopStep
<1>9. ASSUME Fill PROVE DirInv' /\ (Listed' = Listed \/ \E m \in Names : Listed' = Listed \cup {m})
  BY <1>1, <1>9, FillStep
<1> QED
  BY <1>1, <1>2, <1>3, <1>4, <1>5, <1>6, <1>7, <1>8, <1>9 DEF DirNext

\* And says what a listing shows.
LEMMA DirShows ==
  ASSUME DirInv
  PROVE  ListsRight
<1>1. DirTypeOK /\ Tidy(slots)
  BY DEF DirInv
<1>2. OnceOnly
  <2>1. ASSUME NEW n \in Names
        PROVE  Cardinality({i \in Visible(slots) : slots[i] = Entry(n, 0)}) <= 1
    <3> DEFINE S == {i \in Visible(slots) : slots[i] = Entry(n, 0)}
    <3>1. \A i, j \in S : i = j
      BY <1>1 DEF Tidy
    <3> HIDE DEF S
    <3>2. S = {} \/ \E x : S = {x}
      BY <3>1
    <3>3. Cardinality(S) = 0 \/ Cardinality(S) = 1
      BY <3>2, FS_EmptySet, FS_Singleton, Zenon
    <3>4. Cardinality(S) <= 1
      BY <3>3
    <3> QED
      BY <3>4 DEF S
  <2> QED
    BY <2>1 DEF OnceOnly
<1>3. JunkHidden
  <2>1. Visible(slots) = 1..(FrontOf(slots) - 1)
    BY <1>1, Sizing
  <2> QED
    BY <2>1 DEF DirInv, JunkInv, JunkHidden
<1> QED
  BY <1>1, <1>2, <1>3 DEF ListsRight

\* Whatever names there are and however long, whatever the sizes of blocks and clusters, and
\* wherever a save breaks off: fatfs_open_or_createat never lists a file twice, and never shows
\* what was not written as an entry, as long as no entry takes the last slot of the last cluster
\* and no new cluster is left before it has been blanked.
THEOREM DirectoryListsRight ==
  Hazards = {} => (DirSpec => []ListsRight)
<1> SUFFICES ASSUME Hazards = {} PROVE DirSpec => []ListsRight
  OBVIOUS
<1>1. DirInit => DirInv
  BY DirInitial
<1>2. DirInv /\ [DirNext]_dirVars => DirInv'
  BY DirStep
<1>3. DirInv => ListsRight
  BY DirShows
<1> QED
  BY <1>1, <1>2, <1>3, PTL DEF DirSpec

\* And no save takes another file's name away: the directory implements a set of names, to which
\* each save that comes to its end adds one.
THEOREM DirectoryImplementsNames ==
  Hazards = {} => (DirSpec => ImplementsNames)
<1> SUFFICES ASSUME Hazards = {} PROVE DirSpec => ImplementsNames
  OBVIOUS
<1>1. DirInit => DirInv
  BY DirInitial
<1>2. DirInv /\ [DirNext]_dirVars => DirInv'
  BY DirStep
<1>3. DirInit => Directory!Init
  BY DEF Directory!Init, Listed
<1>4. DirInv /\ [DirNext]_dirVars => [Directory!Next]_Listed
  BY DirStep DEF Directory!Next, Directory!Add
<1> QED
  BY <1>1, <1>2, <1>3, <1>4, PTL DEF DirSpec, ImplementsNames, Directory!Spec
=============================================================================
