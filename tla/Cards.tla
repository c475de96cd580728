------------------------------- MODULE Cards -------------------------------
(***************************************************************************)
(* SD cards under the file system: the two card slots with their change    *)
(* latches (spmmio_sdcard.v), the card driver (sdcard.c) and the part of   *)
(* fatfs.c that decides which card a file handle means.  Cards come and go *)
(* between any two steps of a call.                                        *)
(*                                                                         *)
(* The driver has one selected slot and the file system one set of         *)
(* parameters (cluster size, start of the FAT, of the data...) for both    *)
(* slots; a file handle has a card id, the number of the slot together     *)
(* with the count of the cards seen in it.                                 *)
(***************************************************************************)
EXTENDS Naturals, Sequences

CONSTANTS Slots,      \* card slots: {0} or {0, 1}
          Cards,      \* the cards at hand
          NoCard,     \* an empty slot; no parameters
          Kind,       \* per card [fs, hc, wp]: "fat", "part" (FAT in a
                      \* partition) or "none"; high capacity; protected
          Handles,    \* the file handles the firmware keeps
          Retries,    \* attempts to transfer a block: 5
          MaxMoves,   \* bound: cards inserted or removed
          MaxNoise    \* bound: transfers and activations that fail

ASSUME CardsAssumption ==
  /\ Slots \in {{0}, {0, 1}} /\ NoCard \notin Cards
  /\ Kind \in [Cards -> [fs : {"fat", "part", "none"}, hc : BOOLEAN, wp : BOOLEAN]]
  /\ Retries \in Nat \ {0} /\ MaxMoves \in Nat /\ MaxNoise \in Nat

VARIABLES
  card,     \* card[s]: the card in slot s
  awake,    \* awake[s]: it has been through sdcard_activate since it came
  changed,  \* changed[s]: the slot's inserted or removed latch is set
  sel,      \* sd_select
  type,     \* current_card_type
  count,    \* current_card_id, without the slot's bit
  last_cn,  \* the slot fatfs_check_card had in its hands last
  geo,      \* the card the file system's parameters were read from
  file,     \* file[h]: slot and count of a handle's card id; its card
  call,     \* the call the firmware is in
  result,   \* what the last call returned
  calm,     \* calm[s]: nothing went wrong with slot s since its card came
  kept,     \* kept[h]: the card of handle h has not left since it was opened
  moves, noise

hardware == <<card, awake, changed, moves, noise>>
vars == <<hardware, sel, type, count, last_cn, geo, file, call, result, calm, kept>>

Types  == {"removed", "invalid", "sd2", "sdhc"}
TypeOf(c) == IF Kind[c].hc THEN "sdhc" ELSE "sd2"
Usable(t) == t \notin {"removed", "invalid"}

NoFile == [slot |-> 0, n |-> 0, card |-> NoCard]
\* No aim: block 0 has the same address whatever the card.
Block0 == "any"
Idle   == [pc |-> "idle"]
Nothing == [op |-> "none"]
Busy   == call.pc # "idle"

\* Calls: opening the root directory, or a sequence of block reads and
\* writes on an open handle.  The first block written may need reading.
Todos == {<<"read">>, <<"write">>, <<"read", "write">>}

Init ==
  /\ card \in {f \in [Slots -> Cards \cup {NoCard}] :
                 \A s, t \in Slots : s # t /\ f[s] = f[t] => f[s] = NoCard}
  /\ awake = [s \in Slots |-> FALSE]
  /\ changed = [s \in Slots |-> card[s] # NoCard]
  /\ sel = 0 /\ last_cn = 0 /\ geo = NoCard
  /\ type = [s \in Slots |-> "removed"]
  /\ count = [s \in Slots |-> 0]
  /\ file = [h \in Handles |-> NoFile]
  /\ call = Idle /\ result = Nothing
  /\ calm = [s \in Slots |-> TRUE]
  /\ kept = [h \in Handles |-> FALSE]
  /\ moves = 0 /\ noise = 0

-----------------------------------------------------------------------------
(***************************************************************************)
(* The user.  A card that comes or goes sets the latch of its slot.  A new *)
(* card does not answer until it has been activated.                       *)
(***************************************************************************)
Inserted(s, c) ==
  /\ moves < MaxMoves /\ card[s] = NoCard /\ \A t \in Slots : card[t] # c
  /\ card' = [card EXCEPT ![s] = c]
  /\ awake' = [awake EXCEPT ![s] = FALSE]
  /\ changed' = [changed EXCEPT ![s] = TRUE]
  /\ calm' = [calm EXCEPT ![s] = ~(Busy /\ call.slot = s)]
  /\ moves' = moves + 1
  /\ result' = Nothing
  /\ UNCHANGED <<sel, type, count, last_cn, geo, file, call, kept, noise>>

Removed(s) ==
  /\ moves < MaxMoves /\ card[s] # NoCard
  /\ card' = [card EXCEPT ![s] = NoCard]
  /\ awake' = [awake EXCEPT ![s] = FALSE]
  /\ changed' = [changed EXCEPT ![s] = TRUE]
  /\ calm' = [calm EXCEPT ![s] = FALSE]
  /\ kept' = [h \in Handles |-> kept[h] /\ file[h].slot # s]
  /\ moves' = moves + 1
  /\ result' = Nothing
  /\ UNCHANGED <<sel, type, count, last_cn, geo, file, call, noise>>

\* The menu, the loaders and the directory paths choose the slot that the
\* next root directory is opened in.
SelectSlot(s) ==
  /\ ~Busy /\ sel # s
  /\ sel' = s /\ result' = Nothing
  /\ UNCHANGED <<hardware, type, count, last_cn, geo, file, call, calm, kept>>

-----------------------------------------------------------------------------
(***************************************************************************)
(* sdcard_status for slot s waits for the card to settle and clears the    *)
(* latches it has read: when those of s are set, it writes back all that   *)
(* it read, which clears the latches of the other slot as well.            *)
(***************************************************************************)
\* (a defect: a latch of either slot makes this card one that has changed)
SettledBoth(s) == card[s] # NoCard /\ \A t \in Slots : ~changed[t]

Settled(s) == card[s] # NoCard /\ ~changed[s]
Latches(s) == IF changed[s] THEN [t \in Slots |-> FALSE] ELSE changed
Overheard(s) == {t \in Slots \ {s} : changed[s] /\ changed[t]}

\* current_card_type[s] when fatfs_check_card has looked at the status.
Seen(s) == IF Settled(s) THEN type[s] ELSE "removed"

\* What a check does to the latches, the type and the selected slot.
Look(s) ==
  /\ sel' = s
  /\ changed' = Latches(s)
  /\ calm' = [t \in Slots |-> calm[t] /\ t \notin Overheard(s)]

Return(r) ==
  /\ call' = Idle
  /\ result' = [op |-> call.op, slot |-> call.slot, h |-> call.h, r |-> r]

\* fatfs_check_fs reads block 0, and from there the start of a partition.
\* With the parameters read, the call goes on at pc.
CheckFs(n, pc, aim) ==
  [call EXCEPT !.pc = "fs pre", !.n = n, !.tries = 0, !.fs = TRUE, !.then = pc, !.fsaim = aim]

\* A check that fails inside fatfs_check_fs makes the card invalid, and
\* takes back the id of a new card.
GiveUp(r) ==
  /\ type' = [type EXCEPT ![call.slot] = IF call.fs THEN "invalid" ELSE Seen(call.slot)]
  /\ count' = IF call.new THEN [count EXCEPT ![call.slot] = @ - 1] ELSE count
  /\ Return(r)

(***************************************************************************)
(* fatfs_check_card for a handle's card (OP_READ, OP_WRITE).               *)
(***************************************************************************)
Writing == call.todo # <<>> /\ (call.todo[1] = "write" \/ call.op = "write") /\ ~call.fs
Same(s) == Usable(Seen(s)) /\ count[s] = call.n

Check(pc) ==
  LET s == call.slot IN
  /\ Look(s)
  /\ IF ~Same(s) THEN GiveUp("changed") /\ UNCHANGED last_cn
     ELSE /\ UNCHANGED <<type, count>>
          /\ IF Writing /\ Kind[card[s]].wp THEN Return("protected") /\ UNCHANGED last_cn
             ELSE /\ last_cn' = s
                  /\ IF s # last_cn
                     THEN call' = CheckFs(call.n, pc, Block0)
                     ELSE call' = [call EXCEPT !.pc = pc]
                  /\ UNCHANGED result
  /\ UNCHANGED <<card, awake, moves, noise, geo, file, kept>>

(***************************************************************************)
(* fatfs_open_rootdir: the check of the selected slot (OP_INIT).           *)
(***************************************************************************)
NewCall(op, s, n, h, todo) ==
  [pc |-> "enter", op |-> op, slot |-> s, n |-> n, h |-> h, todo |-> todo,
   tries |-> 0, aim |-> <<>>, fsaim |-> Block0, part |-> FALSE, got |-> NoCard,
   fs |-> FALSE, new |-> FALSE, then |-> "opened"]

OpenRoot(h) ==
  /\ ~Busy
  /\ call' = NewCall("open", sel, 0, h, <<>>) /\ result' = Nothing
  /\ UNCHANGED <<hardware, sel, type, count, last_cn, geo, file, calm, kept>>

Opened(s, n, c) ==
  /\ file' = [file EXCEPT ![call.h] = [slot |-> s, n |-> n, card |-> c]]
  /\ kept' = [kept EXCEPT ![call.h] = Settled(s)]
  /\ Return("ok")

EnterOpen ==
  LET s == call.slot IN
  /\ call.pc = "enter" /\ call.op = "open"
  /\ Look(s)
  /\ type' = [type EXCEPT ![s] = Seen(s)]
  /\ \/ /\ card[s] = NoCard
        /\ Return("no card") /\ UNCHANGED <<last_cn, file, kept>>
     \/ /\ card[s] # NoCard /\ Seen(s) = "removed"
        /\ last_cn' = s
        /\ call' = [call EXCEPT !.pc = "activate"]
        /\ UNCHANGED <<result, file, kept>>
     \/ /\ Usable(Seen(s)) /\ s # last_cn
        /\ last_cn' = s
        /\ call' = CheckFs(count[s], "opened", Block0)
        /\ UNCHANGED <<result, file, kept>>
     \/ /\ Usable(Seen(s)) /\ s = last_cn
        /\ Opened(s, count[s], card[s]) /\ UNCHANGED last_cn
     \/ /\ Seen(s) = "invalid"
        /\ Return("bad card") /\ UNCHANGED <<last_cn, file, kept>>
  /\ UNCHANGED <<card, awake, moves, noise, count, geo>>

\* A card that has been activated gets a new id; without it a card would
\* pass for the one before.
SameId(s) == count
NextId(s) == [count EXCEPT ![s] = @ + 1]

\* sdcard_activate.
Activate ==
  LET s == call.slot
      c == card[s] IN
  /\ call.pc = "activate"
  /\ \/ /\ c = NoCard
        /\ type' = [type EXCEPT ![s] = "removed"]
        /\ Return("no card") /\ UNCHANGED <<awake, count, calm, noise>>
     \/ /\ c # NoCard /\ noise < MaxNoise
        /\ noise' = noise + 1
        /\ type' = [type EXCEPT ![s] = "invalid"]
        /\ calm' = [calm EXCEPT ![s] = FALSE]
        /\ Return("bad card") /\ UNCHANGED <<awake, count>>
     \/ /\ c # NoCard
        /\ awake' = [awake EXCEPT ![s] = TRUE]
        /\ type' = [type EXCEPT ![s] = TypeOf(c)]
        /\ count' = NextId(s)
        /\ call' = [CheckFs(count'[s], "opened", Block0) EXCEPT !.new = TRUE]
        /\ UNCHANGED <<result, calm, noise>>
  /\ UNCHANGED <<card, changed, moves, sel, last_cn, geo, file, kept>>

-----------------------------------------------------------------------------
(***************************************************************************)
(* Reading and writing on an open handle.                                  *)
(***************************************************************************)
Access(h, todo) ==
  /\ ~Busy /\ file[h] # NoFile
  /\ call' = NewCall(IF "write" \in {todo[i] : i \in 1..Len(todo)} THEN "write" ELSE "read",
                     file[h].slot, file[h].n, h, todo)
  /\ result' = Nothing
  /\ UNCHANGED <<hardware, sel, type, count, last_cn, geo, file, calm, kept>>

EnterAccess ==
  /\ call.pc = "enter" /\ call.op # "open"
  /\ Check("aim")

\* fatfs_block_read and fatfs_block_write work out the address before their
\* first check: from the parameters, and from the type of the card.
Aim ==
  /\ call.pc = "aim"
  /\ call' = [call EXCEPT !.pc = "pre", !.tries = 0,
                          !.aim = [geo |-> geo, type |-> type[call.slot]]]
  /\ UNCHANGED <<hardware, sel, type, count, last_cn, geo, file, result, calm, kept>>

\* The check before each attempt...
Before ==
  /\ call.pc \in {"pre", "fs pre"}
  /\ Check(IF call.fs THEN "fs io" ELSE "io")

\* ...the transfer: a card that is not awake does not answer, another may fail...
Answers == card[sel] # NoCard /\ awake[sel]

Transfer ==
  /\ call.pc \in {"io", "fs io"}
  /\ Answers
  /\ call' = [call EXCEPT !.pc = IF call.fs THEN "fs post" ELSE "post", !.got = card[sel]]
  /\ UNCHANGED <<hardware, sel, type, count, last_cn, geo, file, result, calm, kept>>

\* ...the next attempt, or after the last one an error...
Fails ==
  /\ call.pc \in {"io", "fs io"}
  /\ Answers => noise < MaxNoise
  /\ noise' = IF Answers THEN noise + 1 ELSE noise
  /\ IF call.tries + 1 < Retries
     THEN /\ call' = [call EXCEPT !.pc = IF call.fs THEN "fs pre" ELSE "pre", !.tries = @ + 1]
          /\ UNCHANGED <<type, count, result, calm>>
     ELSE /\ Return("io error")
          /\ type' = IF call.fs THEN [type EXCEPT ![call.slot] = "invalid"] ELSE type
          /\ count' = IF call.new THEN [count EXCEPT ![call.slot] = @ - 1] ELSE count
          /\ calm' = [calm EXCEPT ![call.slot] = @ /\ ~Answers]
  /\ UNCHANGED <<card, awake, changed, moves, sel, last_cn, geo, file, kept>>

\* ...and the check after it.
After ==
  /\ call.pc \in {"post", "fs post"}
  /\ Check(IF call.fs THEN "fs done" ELSE "done")

\* fatfs_check_root_block accepts the block, or it is a partition table, or
\* there is no file system.
FsDone ==
  LET c == call.got IN
  /\ call.pc = "fs done"
  /\ \/ /\ Kind[c].fs = "fat" \/ (Kind[c].fs = "part" /\ call.part)
        /\ geo' = c
        /\ UNCHANGED <<type, count>>
        /\ IF call.then = "opened" THEN Opened(call.slot, call.n, c)
           ELSE /\ call' = [call EXCEPT !.pc = call.then, !.fs = FALSE, !.part = FALSE]
                /\ UNCHANGED <<file, kept, result>>
        /\ calm' = [calm EXCEPT ![call.slot] = @ \/ (call.op = "open" /\ Settled(call.slot))]
     \/ /\ Kind[c].fs = "part" /\ ~call.part
        /\ call' = [CheckFs(call.n, call.then, type[call.slot]) EXCEPT !.part = TRUE]
        /\ UNCHANGED <<type, count, geo, file, kept, result, calm>>
     \/ /\ Kind[c].fs = "none"
        /\ type' = [type EXCEPT ![call.slot] = "invalid"]
        /\ count' = IF call.new THEN [count EXCEPT ![call.slot] = @ - 1] ELSE count
        /\ Return("no file system")
        /\ UNCHANGED <<geo, file, kept, calm>>
  /\ UNCHANGED <<hardware, sel, last_cn>>

BlockDone ==
  /\ call.pc = "done"
  /\ \/ /\ Len(call.todo) > 1
        /\ call' = [call EXCEPT !.pc = "aim", !.todo = Tail(call.todo)]
        /\ UNCHANGED result
     \/ Len(call.todo) = 1 /\ Return("ok")
  /\ UNCHANGED <<hardware, sel, type, count, last_cn, geo, file, calm, kept>>

Step == EnterOpen \/ Activate \/ EnterAccess \/ Aim \/ Before \/ Transfer \/ Fails
        \/ After \/ FsDone \/ BlockDone

Next == \/ \E s \in Slots : Removed(s) \/ SelectSlot(s) \/ \E c \in Cards : Inserted(s, c)
        \/ \E h \in Handles : OpenRoot(h) \/ \E t \in Todos : Access(h, t)
        \/ Step

Spec == Init /\ [][Next]_vars

-----------------------------------------------------------------------------
(***************************************************************************)
(* A transfer for a file reaches the card that the file was opened on, at  *)
(* the address that this card's own parameters and capacity give, and a    *)
(* write never a card that is protected - although slots, parameters and   *)
(* handles are shared by two cards that may leave at any step.             *)
(***************************************************************************)
RightCard ==
  /\ call.pc = "io" /\ Answers =>
       LET c == file[call.h].card IN
       /\ card[sel] = c
       /\ call.aim = [geo |-> c, type |-> TypeOf(c)]
       /\ call.todo[1] = "write" => ~Kind[c].wp
  /\ call.pc = "fs io" /\ Answers =>
       /\ call.fsaim \in {Block0, TypeOf(card[sel])}
       /\ call.op # "open" => card[sel] = file[call.h].card

(***************************************************************************)
(* A good card that was inserted while its slot was not in use, and that   *)
(* has not itself failed all attempts at a transfer since, can be opened,  *)
(* and a call on one of its files does not end with an I/O error.  What    *)
(* the firmware does to a card it has seen come and go half-way through a  *)
(* call, or whose latch it has cleared together with that of the other     *)
(* slot, is another matter: such a card is not calm.                       *)
(***************************************************************************)
WorksWhenCalm ==
  result.op # "none" /\ card[result.slot] # NoCard /\ calm[result.slot] =>
    LET k == Kind[card[result.slot]] IN
    k.fs # "none" =>
      result.r # "io error" /\ (result.op = "open" => result.r = "ok")

(***************************************************************************)
(* A handle is refused as one of a changed card only when its card has     *)
(* left, or when its slot failed.                                          *)
(***************************************************************************)
HonestlyChanged ==
  result.op \in {"read", "write"} /\ result.r = "changed" =>
    ~kept[result.h] \/ ~calm[result.slot]

(***************************************************************************)
(* The firmware raises no false alarm, and does not refuse for ever what   *)
(* works again.                                                            *)
(***************************************************************************)
NoFalseAlarm == WorksWhenCalm /\ HonestlyChanged
=============================================================================
