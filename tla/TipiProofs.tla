----------------------------- MODULE TipiProofs -----------------------------
(***************************************************************************)
(* The TIPI service: its link and what it does with a message.             *)
(*                                                                         *)
(* The link keeps its types for every length of messages and replies,      *)
(* with parity errors and resets at any time; what the TI reads is the     *)
(* reply to what it has sent; and the link is a remote call. The invariant *)
(* is CallInv: an operation and its echo follow one another through the    *)
(* latches and registers, and what the firmware has of the message and its *)
(* reply goes with what the TI has.                                        *)
(*                                                                         *)
(* Of files, for any drives, names and packets, in any order and with      *)
(* resets and failures of the card between them: no exchange goes on with  *)
(* what an earlier one has left behind, none touches a file but its own,   *)
(* and what was saved is loaded.                                           *)
(***************************************************************************)
EXTENDS TipiLink, TipiFiles, TLAPS


\* Operations, and the one the TI puts next.
LEMMA OpFacts ==
  /\ NoOp \in Ops
  /\ \A bit \in {0, 1} : [op |-> NextOp, bit |-> bit] \in Ops
BY DEF NoOp, Ops, NextOp

\* The bytes of messages and replies.
LEMMA ByteFacts ==
  /\ NoByte \in ReplyBytes
  /\ 0 \in Data /\ Values \subseteq Data
  /\ \A m \in Seq(Data), k \in 0..RepLen : [to |-> m, k |-> k] \in ReplyBytes
BY TipiAssumption DEF NoByte, ReplyBytes, Data

\* What tipi_task reads at once.
LEMMA StatusFacts ==
  /\ NoStatus \in Statuses
  /\ LinkType => Status \in Statuses
  /\ \A s \in Statuses : /\ s.tc \in Ops /\ s.td \in Data /\ s.level \in BOOLEAN
                          /\ [s EXCEPT !.changed = FALSE] \in Statuses
BY DEF NoStatus, Status, Statuses, LinkType, Ops, Data

\* Lists of bytes, of replies and of messages.
LEMMA ListFacts ==
  /\ <<>> \in Seq(Data) /\ <<>> \in Seq(ReplyBytes) /\ <<>> \in Seq(Seq(Data))
  /\ \A m \in Seq(Data), v \in Data : /\ Append(m, v) \in Seq(Data)
                                       /\ Len(m) \in Nat /\ Len(Append(m, v)) = Len(m) + 1
  /\ \A g \in Seq(ReplyBytes), r \in ReplyBytes : Append(g, r) \in Seq(ReplyBytes)
  /\ \A e \in Seq(Seq(Data)), m \in Seq(Data) : Append(e, m) \in Seq(Seq(Data))
OBVIOUS

\* The counters stay within their bounds.
LEMMA CountFacts ==
  /\ 0 \in 0..RepLen /\ 1 \in 0..RepLen /\ 0 \in 0..MaxCalls /\ 0 \in 0..MaxResets
  /\ 0 < MsgLen /\ MsgLen \in Nat
  /\ \A n \in 0..MaxCalls : n < MaxCalls => n + 1 \in 0..MaxCalls
  /\ \A n \in 0..MaxResets : n < MaxResets => n + 1 \in 0..MaxResets
BY TipiAssumption

\* The TI's steps.
LEMMA TiStepType == TypeOK /\ Ti => TypeOK'
<1> SUFFICES ASSUME TypeOK, Ti PROVE TypeOK'
  OBVIOUS
<1> USE DEF TypeOK, LatchType, LinkType, TaskType, TiType
<1> USE DEF latches, link, shifter, arrived, outgoing, resetRegs, task, service, ti
<1>1. ASSUME BeginCall PROVE TypeOK'
  <2>1. LatchType'
    BY <1>1, ByteFacts, ListFacts, CountFacts DEF BeginCall
  <2>2. LinkType'
    BY <1>1, ByteFacts, ListFacts, CountFacts DEF BeginCall
  <2>3. TaskType'
    BY <1>1, ByteFacts, ListFacts, CountFacts DEF BeginCall
  <2>4. TiType'
    BY <1>1, ByteFacts, ListFacts, CountFacts DEF BeginCall
  <2> QED
    BY <2>1, <2>2, <2>3, <2>4
<1>2. ASSUME NEW v \in Values, PutData(v) PROVE TypeOK'
  BY <1>2, ByteFacts DEF PutData
<1>3. ASSUME NEW bit \in {0, 1}, PutCommand(bit) PROVE TypeOK'
  <2>1. LatchType'
    BY <1>3, OpFacts, ListFacts DEF PutCommand
  <2>2. LinkType'
    BY <1>3, OpFacts, ListFacts DEF PutCommand
  <2>3. TaskType'
    BY <1>3, OpFacts, ListFacts DEF PutCommand
  <2>4. TiType'
    BY <1>3, OpFacts, ListFacts DEF PutCommand
  <2> QED
    BY <2>1, <2>2, <2>3, <2>4
<1>4. ASSUME Acknowledged PROVE TypeOK'
  <2>1. LatchType'
    BY <1>4, ListFacts DEF Acknowledged
  <2>2. LinkType'
    BY <1>4, ListFacts DEF Acknowledged
  <2>3. TaskType'
    BY <1>4, ListFacts DEF Acknowledged
  <2>4. TiType'
    <3>1. got' \in Seq(ReplyBytes)
      BY <1>4, ListFacts DEF Acknowledged
    <3>2. synced' \in BOOLEAN
      <4>1. CASE latchTc.op = "sync"
        BY <1>4, <4>1 DEF Acknowledged
      <4>2. CASE latchTc.op = "write"
        BY <1>4, <4>2 DEF Acknowledged
      <4>3. CASE latchTc.op \notin {"sync", "write"}
        BY <1>4, <4>3 DEF Acknowledged
      <4> QED
        BY <4>1, <4>2, <4>3
    <3> QED
      BY <1>4, <3>1, <3>2 DEF Acknowledged
  <2> QED
    BY <2>1, <2>2, <2>3, <2>4
<1>5. ASSUME EndCall PROVE TypeOK'
  BY <1>5 DEF EndCall
<1>6. ASSUME Reset PROVE TypeOK'
  <2>1. LatchType'
    BY <1>6, CountFacts DEF Reset
  <2>2. LinkType'
    BY <1>6, CountFacts DEF Reset
  <2>3. TaskType'
    BY <1>6, CountFacts DEF Reset
  <2>4. TiType'
    BY <1>6, CountFacts DEF Reset
  <2> QED
    BY <2>1, <2>2, <2>3, <2>4
<1>7. ASSUME Release PROVE TypeOK'
  BY <1>7, OpFacts DEF Release
<1> QED
  BY <1>1, <1>2, <1>3, <1>4, <1>5, <1>6, <1>7 DEF Ti

\* The gateware's steps.
LEMMA LinkStepType == TypeOK /\ Link => TypeOK'
<1> SUFFICES ASSUME TypeOK, Link PROVE TypeOK'
  OBVIOUS
<1> USE DEF TypeOK, LatchType, LinkType, TaskType, TiType
<1> USE DEF latches, link, shifter, arrived, outgoing, resetRegs, task, service, ti
<1>1. ASSUME Fetch PROVE TypeOK'
  <2>1. LatchType'
    BY <1>1 DEF Fetch
  <2>2. LinkType'
    BY <1>1 DEF Fetch
  <2>3. TaskType'
    BY <1>1 DEF Fetch
  <2>4. TiType'
    BY <1>1 DEF Fetch
  <2> QED
    BY <2>1, <2>2, <2>3, <2>4
<1>2. ASSUME FetchedTd PROVE TypeOK'
  <2>1. LatchType'
    BY <1>2 DEF FetchedTd
  <2>2. LinkType'
    BY <1>2 DEF FetchedTd
  <2>3. TaskType'
    BY <1>2 DEF FetchedTd
  <2>4. TiType'
    BY <1>2 DEF FetchedTd
  <2> QED
    BY <2>1, <2>2, <2>3, <2>4
<1>3. ASSUME FetchedTc PROVE TypeOK'
  <2>1. LatchType'
    BY <1>3 DEF FetchedTc, HoldTc, LetGo
  <2>2. LinkType'
    BY <1>3 DEF FetchedTc, HoldTc, LetGo
  <2>3. TaskType'
    BY <1>3 DEF FetchedTc, HoldTc, LetGo
  <2>4. TiType'
    BY <1>3 DEF FetchedTc, HoldTc, LetGo
  <2> QED
    BY <2>1, <2>2, <2>3, <2>4
<1>4. ASSUME FetchFailed PROVE TypeOK'
  BY <1>4 DEF FetchFailed
<1>5. ASSUME Sent PROVE TypeOK'
  BY <1>5 DEF Sent
<1>6. ASSUME SendFailed PROVE TypeOK'
  <2>1. LatchType'
    BY <1>6 DEF SendFailed, TurnRound
  <2>2. LinkType'
    BY <1>6 DEF SendFailed, TurnRound
  <2>3. TaskType'
    BY <1>6 DEF SendFailed, TurnRound
  <2>4. TiType'
    BY <1>6 DEF SendFailed, TurnRound
  <2> QED
    BY <2>1, <2>2, <2>3, <2>4
<1>7. ASSUME Deliver PROVE TypeOK'
  <2>1. LatchType'
    BY <1>7 DEF Deliver, TurnRound
  <2>2. LinkType'
    BY <1>7 DEF Deliver, TurnRound
  <2>3. TaskType'
    BY <1>7 DEF Deliver, TurnRound
  <2>4. TiType'
    BY <1>7 DEF Deliver, TurnRound
  <2> QED
    BY <2>1, <2>2, <2>3, <2>4
<1>8. ASSUME SenseReset PROVE TypeOK'
  BY <1>8 DEF SenseReset
<1> QED
  BY <1>1, <1>2, <1>3, <1>4, <1>5, <1>6, <1>7, <1>8 DEF Link

\* The firmware's steps.
LEMMA TaskStepType == TypeOK /\ Task => TypeOK'
<1> SUFFICES ASSUME TypeOK, Task PROVE TypeOK'
  OBVIOUS
<1> USE DEF TypeOK, LatchType, LinkType, TaskType, TiType
<1> USE DEF latches, link, shifter, arrived, outgoing, resetRegs, task, service, ti
<1>1. ASSUME ReadStatus PROVE TypeOK'
  BY <1>1, StatusFacts DEF ReadStatus
<1>2. ASSUME ClearChanged PROVE TypeOK'
  BY <1>2, StatusFacts DEF ClearChanged
<1>3. ASSUME TaskReset PROVE TypeOK'
  <2>1. LatchType'
    BY <1>3, OpFacts, ByteFacts, StatusFacts, ListFacts, CountFacts DEF TaskReset, ZeroAnswer, SetRc, ForgetPacket
  <2>2. LinkType'
    BY <1>3, OpFacts, ByteFacts, StatusFacts, ListFacts, CountFacts DEF TaskReset, ZeroAnswer, SetRc, ForgetPacket
  <2>3. TaskType'
    BY <1>3, OpFacts, ByteFacts, StatusFacts, ListFacts, CountFacts DEF TaskReset, ZeroAnswer, SetRc, ForgetPacket
  <2>4. TiType'
    BY <1>3, OpFacts, ByteFacts, StatusFacts, ListFacts, CountFacts DEF TaskReset, ZeroAnswer, SetRc, ForgetPacket
  <2> QED
    BY <2>1, <2>2, <2>3, <2>4
<1>4. ASSUME NothingNew PROVE TypeOK'
  BY <1>4, StatusFacts DEF NothingNew
<1>5. ASSUME Synchronise PROVE TypeOK'
  <2>1. packet' \in Seq(Data) /\ Len(packet') < MsgLen
    BY <1>5, ListFacts, CountFacts DEF Synchronise
  <2>2. reply' \in 0..RepLen
    BY <1>5, CountFacts DEF Synchronise
  <2> QED
    BY <1>5, <2>1, <2>2 DEF Synchronise
<1>6. ASSUME HandleByte PROVE TypeOK'
  <2>1. LatchType'
    BY <1>6, StatusFacts, ListFacts, CountFacts DEF HandleByte, LastOfPacket
  <2>2. LinkType'
    BY <1>6, StatusFacts, ListFacts, CountFacts DEF HandleByte, LastOfPacket
  <2>3. TaskType'
    <3>1. CASE ~accepting
      BY <1>6, <3>1 DEF HandleByte
    <3>2. CASE accepting
      <4>1. /\ packet' = Append(packet, st.td)
            /\ accepting' = ~LastOfPacket
            /\ reply' = IF LastOfPacket THEN 1 ELSE reply
            /\ replyTo' = IF LastOfPacket THEN packet' ELSE replyTo
        BY <1>6, <3>2 DEF HandleByte
      <4>2. /\ packet' \in Seq(Data)
            /\ Len(packet') = Len(packet) + 1 /\ Len(packet) \in Nat
        BY <4>1, StatusFacts, ListFacts
      <4>3. accepting' => Len(packet') < MsgLen
        <5>1. Len(packet) < MsgLen
          BY <3>2
        <5>2. accepting' => Len(packet) # MsgLen - 1
          BY <4>1, Zenon DEF LastOfPacket
        <5> QED
          BY <4>2, <5>1, <5>2, CountFacts
      <4>4. reply' \in 0..RepLen /\ replyTo' \in Seq(Data) /\ accepting' \in BOOLEAN
        BY <4>1, <4>2, CountFacts
      <4> QED
        BY <1>6, <4>2, <4>3, <4>4 DEF HandleByte
    <3> QED
      BY <3>1, <3>2
  <2>4. TiType'
    BY <1>6, StatusFacts, ListFacts, CountFacts DEF HandleByte, LastOfPacket
  <2> QED
    BY <2>1, <2>2, <2>3, <2>4
<1>7. ASSUME GiveReply PROVE TypeOK'
  BY <1>7, ByteFacts, TipiAssumption DEF GiveReply
<1>8. ASSUME Echo PROVE TypeOK'
  <2>1. LatchType'
    BY <1>8, StatusFacts DEF Echo, SetRc
  <2>2. LinkType'
    BY <1>8, StatusFacts DEF Echo, SetRc
  <2>3. TaskType'
    BY <1>8, StatusFacts DEF Echo, SetRc
  <2>4. TiType'
    BY <1>8, StatusFacts DEF Echo, SetRc
  <2> QED
    BY <2>1, <2>2, <2>3, <2>4
<1> QED
  BY <1>1, <1>2, <1>3, <1>4, <1>5, <1>6, <1>7, <1>8 DEF Task

\* Every variable of the link keeps its type.
THEOREM TypeCorrect == Spec => []TypeOK
<1>1. Init => TypeOK
  <2> SUFFICES ASSUME Init PROVE TypeOK
    OBVIOUS
  <2>1. LatchType
    BY OpFacts, ByteFacts DEF Init, LatchType
  <2>2. LinkType
    BY OpFacts, ByteFacts DEF Init, LinkType
  <2>3. TaskType
    BY ListFacts, CountFacts, StatusFacts DEF Init, TaskType
  <2>4. TiType
    BY ListFacts, CountFacts DEF Init, TiType
  <2> QED
    BY <2>1, <2>2, <2>3, <2>4 DEF TypeOK
<1>2. TypeOK /\ [Next]_vars => TypeOK'
  <2> SUFFICES ASSUME TypeOK, [Next]_vars PROVE TypeOK'
    OBVIOUS
  <2>1. CASE UNCHANGED vars
    BY <2>1 DEF vars, latches, link, shifter, arrived, outgoing, resetRegs, task, service, ti,
                TypeOK, LatchType, LinkType, TaskType, TiType
  <2> QED
    BY <2>1, TiStepType, LinkStepType, TaskStepType DEF Next
<1> QED
  BY <1>1, <1>2, PTL DEF Spec

----------------------------------------------------------------------------
(* What orders the operations and their echoes, and what the TI and the firmware have of
   a call at every moment. *)

\* The byte that the link moves, and whether the firmware is about to act on what it has read.
MovesTc == rt /\ ~le /\ ~dc
MovesTd == rt /\ ~le /\ dc
MovesRc == ~rt /\ ~dc
Acts    == pc # "poll" /\ st.level

\* On its way to the firmware an operation follows the one before, x; there are no others.
Up(x) ==
  /\ tcHold \in {x, latchTc} /\ tc \in {x, latchTc} /\ rc \in {NoOp, x, latchTc}
  /\ MovesTc => shift \in {x, latchTc}
  /\ Acts => st.tc \in {x, latchTc}
  /\ latchTc = NoOp => x = NoOp
  /\ tcHold = latchTc /\ MovesTc => shift = latchTc
  /\ tc = latchTc => tcHold = latchTc
  /\ Acts /\ st.tc = latchTc => tc = latchTc
  /\ rc = latchTc => tc = latchTc /\ (Acts => st.tc = latchTc)

\* Its echo comes back after it.
Down(x) ==
  /\ MovesRc => shift \in {NoOp, x, latchTc}
  /\ MovesRc /\ shift = latchTc => rc = latchTc
  /\ latchRc = latchTc => rc = latchTc /\ (MovesRc => shift = latchTc)

ChainInv ==
  \E x \in Ops :
    /\ Up(x)
    /\ phase # "reset" => Down(x)
    /\ phase # "reset" /\ ~waiting => x = latchTc

\* The firmware has nothing under way until it has echoed an operation.
BlankInv ==
  /\ rc = NoOp /\ pc # "echo" => ~accepting
  /\ pc = "echo" => st.level /\ st.tc # rc /\ st.tc # NoOp

\* Out of a reset: until the firmware has noticed that it is over, it has done nothing since.
RunInv ==
  phase # "reset" =>
    /\ treset
    /\ changed => level
    /\ pc \in {"clear", "reset"} => st.level
    /\ Acts => level /\ (pc \in {"reset", "react", "echo"} => ~changed)
    /\ changed \/ ~level \/ pc \in {"clear", "reset"} \/ (pc = "react" /\ ~st.level) =>
         rc = NoOp /\ pc # "echo"

\* In a reset: what the firmware does before it notices cannot end a message.
Harmless == latchTc.op # "write" \/ Up(latchTc)

ResetInv ==
  phase = "reset" =>
    /\ ~treset
    /\ pc = "clear" /\ ~st.level => ~level
    /\ pc = "reset" /\ ~st.level => ~level /\ ~changed
    /\ heard => /\ ~level /\ ~changed /\ rc = NoOp /\ pc \in {"poll", "react"}
                /\ pc = "react" => ~st.level
    /\ \/ rc = NoOp /\ (level \/ Acts)
       \/ changed /\ level
       \/ pc \in {"clear", "reset"} /\ st.level
       => Harmless

\* The operation in TC has been carried out.
Done == rc = latchTc \/ (pc = "echo" /\ st.tc = latchTc)

\* TD is what it was when the operation was put.
DataInv ==
  /\ tcHold = latchTc /\ MovesTd => shift.data = latchTd
  /\ tc = latchTc => td = latchTd
  /\ Acts /\ st.tc = latchTc => st.td = latchTd

\* An RC that is on its way down is the last one, or a newer one is held back.
HeldInv == MovesRc /\ ~rcUpdate => shift = rc

\* RD, at the card, is what it was when the operation was echoed.
AnswerInv ==
  /\ MovesRc /\ shift = latchTc => latchRd = rd /\ ~rcUpdate
  /\ latchRc = latchTc => latchRd = rd /\ ~rcUpdate
  /\ ~rt /\ dc /\ ~rcUpdate /\ rc = latchTc => shift = rd

Writing == waiting /\ latchTc.op = "write"
Reading == waiting /\ latchTc.op = "read"
Started == synced \/ sent # <<>>
NextByte(k) == IF k = RepLen THEN 0 ELSE k + 1

\* The TI's part of the call.
ClientInv ==
  /\ loaded => latchTd \in Values /\ ~waiting /\ synced /\ Len(sent) < MsgLen
  /\ waiting => latchTc.op \in {"sync", "write", "read"} /\ Len(got) < RepLen
  /\ waiting /\ latchTc.op = "sync" => ~synced
  /\ Writing => synced /\ sent # <<>>
  /\ Reading => synced /\ Len(sent) = MsgLen
  /\ ~waiting /\ Started => latchRc = latchTc /\ latchTc # NoOp
  /\ waiting /\ Started => rc # NoOp
  /\ Len(sent) <= MsgLen /\ Len(got) <= RepLen
  /\ Len(sent) < MsgLen \/ Writing => got = <<>>
  /\ Len(sent) < MsgLen /\ sent # <<>> => synced
  /\ ~synced /\ Len(got) < RepLen => Len(got) + 1 \in Heads
  /\ ~waiting /\ Len(got) = RepLen => latchTc.op = "read"

\* What the firmware has of the message, and of the reply.
ServiceInv ==
  /\ Len(sent) < MsgLen \/ (Writing /\ ~Done) => exec = <<>>
  /\ synced /\ ~waiting /\ Len(sent) < MsgLen => accepting /\ packet = sent
  /\ Writing /\ Done /\ Len(sent) < MsgLen => accepting /\ packet = sent
  /\ Writing /\ ~Done => accepting /\ Append(packet, latchTd) = sent
  /\ Writing => DataInv
  /\ Len(sent) = MsgLen /\ ~(Writing /\ ~Done) =>
       /\ exec = <<sent>> /\ replyTo = sent
       /\ reply = NextByte(IF Reading /\ Done THEN Len(got) + 1 ELSE Len(got))
  /\ Reading /\ Done => rd = [to |-> sent, k |-> Len(got) + 1]
  /\ Reading => AnswerInv

\* Before a message, a synchronisation that is done has made the firmware ready for it, be it one
\* that was in TC before the call.
SyncInv ==
  phase # "reset" /\ (phase = "call" => ~Started) /\ latchTc.op = "sync" /\ Done =>
    accepting /\ packet = <<>>

\* A message that a reset has cut short, and that may still be carried out.
LateInv ==
  accepting /\ latchTc.op = "write" /\ ~Done =>
    exec = <<>> /\ Append(packet, latchTd) = sent /\ Len(sent) <= MsgLen /\ DataInv

CallInv ==
  /\ ChainInv /\ BlankInv /\ RunInv /\ ResetInv /\ HeldInv /\ SyncInv
  /\ phase # "call" => ~waiting /\ ~loaded
  /\ phase = "call" => ClientInv /\ ServiceInv
  /\ phase = "reset" => LateInv
  /\ ReplyMatches

----------------------------------------------------------------------------
(* The chain of latches and registers.                                      *)

\* On its way up an operation is overtaken by none, and repeated by none.
LEMMA UpKept ==
  ASSUME TypeOK, BlankInv, NEW x \in Ops, Up(x), Link \/ Task
  PROVE  Up(x)'
<1> USE DEF Up, MovesTc, Acts, latches, link, shifter, arrived, outgoing, resetRegs, task, service, ti
<1>1. CASE Fetch
  BY <1>1 DEF Fetch
<1>2. CASE FetchedTd
  BY <1>2 DEF FetchedTd
<1>3. CASE FetchedTc
  BY <1>3 DEF FetchedTc, HoldTc
<1>4. CASE FetchFailed
  BY <1>4 DEF FetchFailed
<1>5. CASE Sent
  BY <1>5 DEF Sent
<1>6. CASE SendFailed
  BY <1>6 DEF SendFailed, TurnRound
<1>7. CASE Deliver
  BY <1>7 DEF Deliver, TurnRound
<1>8. CASE SenseReset
  BY <1>8 DEF SenseReset
<1>9. CASE ReadStatus
  BY <1>9 DEF ReadStatus, Status
<1>10. CASE ClearChanged
  <2>1. st' = [st EXCEPT !.changed = FALSE] /\ st \in Statuses
    BY <1>10 DEF ClearChanged, TypeOK, TaskType
  <2>2. st'.tc = st.tc /\ st'.level = st.level
    BY <2>1 DEF Statuses
  <2> QED
    BY <1>10, <2>2 DEF ClearChanged
<1>11. CASE TaskReset
  BY <1>11 DEF TaskReset, ZeroAnswer, SetRc
<1>12. CASE NothingNew
  BY <1>12 DEF NothingNew
<1>13. CASE Synchronise
  BY <1>13 DEF Synchronise
<1>14. CASE HandleByte
  BY <1>14 DEF HandleByte
<1>15. CASE GiveReply
  BY <1>15 DEF GiveReply
<1>16. CASE Echo
  BY <1>16 DEF Echo, SetRc, BlankInv
<1> QED
  BY <1>1, <1>2, <1>3, <1>4, <1>5, <1>6, <1>7, <1>8, <1>9, <1>10, <1>11, <1>12, <1>13, <1>14,
     <1>15, <1>16 DEF Link, Task

\* Nor is an echo on its way down.
LEMMA DownKept ==
  ASSUME TypeOK, BlankInv, RunInv, phase # "reset", NEW x \in Ops, Up(x), Down(x), Link \/ Task
  PROVE  Down(x)'
<1> USE DEF Down, MovesRc, latches, link, shifter, arrived, outgoing, resetRegs, task, service, ti
<1>1. CASE Fetch
  BY <1>1 DEF Fetch
<1>2. CASE FetchedTd
  BY <1>2 DEF FetchedTd
<1>3. CASE FetchedTc
  BY <1>3 DEF FetchedTc
<1>4. CASE FetchFailed
  BY <1>4 DEF FetchFailed
<1>5. CASE Sent
  BY <1>5 DEF Sent
<1>6. CASE SendFailed
  BY <1>6 DEF SendFailed, TurnRound, Up
<1>7. CASE Deliver
  BY <1>7 DEF Deliver, TurnRound, Up, HeldBack
<1>8. CASE SenseReset
  BY <1>8 DEF SenseReset
<1>9. CASE ReadStatus
  BY <1>9 DEF ReadStatus
<1>10. CASE ClearChanged
  BY <1>10 DEF ClearChanged
<1>11. CASE TaskReset
  BY <1>11 DEF TaskReset, ZeroAnswer, SetRc, RunInv
<1>12. CASE NothingNew
  BY <1>12 DEF NothingNew
<1>13. CASE Synchronise
  BY <1>13 DEF Synchronise
<1>14. CASE HandleByte
  BY <1>14 DEF HandleByte
<1>15. CASE GiveReply
  BY <1>15 DEF GiveReply
<1>16. CASE Echo
  BY <1>16 DEF Echo, SetRc, BlankInv, Up, Acts
<1> QED
  BY <1>1, <1>2, <1>3, <1>4, <1>5, <1>6, <1>7, <1>8, <1>9, <1>10, <1>11, <1>12, <1>13, <1>14,
     <1>15, <1>16 DEF Link, Task

\* The operation that the TI puts follows the one that has come back.
LEMMA PutChain ==
  ASSUME TypeOK, NEW bit \in {0, 1}, PutCommand(bit), Up(latchTc), Down(latchTc), phase # "reset"
  PROVE  ChainInv'
<1>1. PICK y \in Ops : y = latchTc
  BY DEF TypeOK, LatchType
<1>2. latchTc' = [op |-> NextOp, bit |-> bit] /\ latchTc' # latchRc /\ latchTc' # NoOp
  BY DEF PutCommand, NextOp, NoOp
<1>3. UNCHANGED <<latchRc, shifter, arrived, outgoing, pc, st, phase>> /\ waiting' = TRUE
  BY DEF PutCommand, link, task
<1>4. Up(y)'
  BY <1>1, <1>2, <1>3 DEF Up, MovesTc, Acts, shifter, arrived, outgoing
<1>5. Down(y)'
  BY <1>1, <1>2, <1>3 DEF Down, Up, MovesRc, shifter, arrived, outgoing
<1> QED
  BY <1>3, <1>4, <1>5 DEF ChainInv

\* An operation that has come back has reached everything on its way.
LEMMA BackAtTi ==
  ASSUME NEW x \in Ops, Up(x), Down(x), latchRc = latchTc
  PROVE  Up(latchTc) /\ Down(latchTc)
BY DEF Up, Down

\* At the end of a reset all that is on its way is the operation in TC, and no echo.
LEMMA ReleaseChain ==
  ASSUME TypeOK, ResetInv, NEW x \in Ops, Up(x), Release
  PROVE  Up(latchTc) /\ Down(latchTc)
<1>1. /\ heard /\ phase = "reset" /\ tcHold = latchTc /\ tc = latchTc /\ latchRc = NoOp
      /\ MovesRc => shift = NoOp
  BY DEF Release, Settled, MovesRc
<1>2. rc = NoOp /\ ~Acts
  BY <1>1 DEF ResetInv, Acts
<1>3. Up(latchTc)
  BY <1>1, <1>2 DEF Up
<1>4. Down(latchTc)
  BY <1>1, <1>2 DEF Down
<1> QED
  BY <1>3, <1>4

\* Every step keeps the order of the operations.
LEMMA ChainStep ==
  ASSUME TypeOK, CallInv, [Next]_vars
  PROVE  ChainInv'
<1> USE DEF latches, link, shifter, arrived, outgoing, resetRegs, task, service, ti
<1>1. PICK x \in Ops : /\ Up(x)
                       /\ phase # "reset" => Down(x)
                       /\ phase # "reset" /\ ~waiting => x = latchTc
  BY DEF CallInv, ChainInv
<1>2. BlankInv /\ RunInv /\ ResetInv
  BY DEF CallInv
<1>3. latchTc \in Ops
  BY DEF TypeOK, LatchType
<1>4. ASSUME Link \/ Task
      PROVE  ChainInv'
  <2>1. Up(x)'
    BY <1>1, <1>2, <1>4, UpKept
  <2>2. phase # "reset" => Down(x)'
    BY <1>1, <1>2, <1>4, DownKept
  <2>3. UNCHANGED <<phase, waiting, latchTc>>
    BY <1>4 DEF Link, Task, Fetch, FetchedTd, FetchedTc, FetchFailed, Sent, SendFailed, Deliver,
                SenseReset, ReadStatus, ClearChanged, TaskReset, NothingNew, Synchronise,
                HandleByte, GiveReply, Echo
  <2> QED
    BY <1>1, <2>1, <2>2, <2>3 DEF ChainInv
<1>5. ASSUME UNCHANGED <<latchTc, latchRc, link, pc, st>>
      PROVE  Up(x)' /\ (Down(x) => Down(x)')
  BY <1>1, <1>5 DEF Up, Down, MovesTc, MovesRc, Acts
<1>6. CASE BeginCall
  BY <1>1, <1>5, <1>6 DEF BeginCall, ChainInv
<1>7. ASSUME NEW v \in Values, PutData(v)
      PROVE  ChainInv'
  BY <1>1, <1>5, <1>7 DEF PutData, ChainInv
<1>8. ASSUME NEW bit \in {0, 1}, PutCommand(bit)
      PROVE  ChainInv'
  <2>1. ~waiting /\ phase # "reset"
    BY <1>8 DEF PutCommand
  <2> QED
    BY <1>1, <1>8, <2>1, PutChain
<1>9. CASE Acknowledged
  <2>1. phase # "reset" /\ latchRc = latchTc /\ UNCHANGED <<latchTc, latchRc, link, pc, st, phase>>
    BY <1>9 DEF Acknowledged
  <2>2. Up(latchTc) /\ Down(latchTc)
    BY <1>1, <2>1, BackAtTi
  <2>3. Up(latchTc)' /\ Down(latchTc)'
    BY <2>1, <2>2 DEF Up, Down, MovesTc, MovesRc, Acts
  <2> QED
    BY <1>3, <2>1, <2>3 DEF ChainInv
<1>10. CASE EndCall
  BY <1>1, <1>5, <1>10 DEF EndCall, ChainInv
<1>11. CASE Reset
  BY <1>1, <1>5, <1>11 DEF Reset, ChainInv
<1>12. CASE Release
  <2>1. UNCHANGED <<latchTc, latchRc, link, pc, st>>
    BY <1>12 DEF Release
  <2>2. Up(latchTc) /\ Down(latchTc)
    BY <1>1, <1>2, <1>12, ReleaseChain
  <2>3. Up(latchTc)' /\ Down(latchTc)'
    BY <2>1, <2>2 DEF Up, Down, MovesTc, MovesRc, Acts
  <2> QED
    BY <1>3, <2>1, <2>3 DEF ChainInv
<1>13. CASE UNCHANGED vars
  BY <1>1, <1>5, <1>13 DEF vars, ChainInv
<1> QED
  BY <1>4, <1>6, <1>7, <1>8, <1>9, <1>10, <1>11, <1>12, <1>13 DEF Next, Ti

----------------------------------------------------------------------------
(* What the firmware knows of the reset line.                               *)

\* What the TI does but for a reset leaves the line, the registers and the firmware alone.
LEMMA TiLeaves ==
  ASSUME Ti
  PROVE  /\ UNCHANGED <<link, task, service>>
         /\ ~Reset /\ ~Release => /\ UNCHANGED <<treset, heard>>
                                   /\ phase # "reset" /\ phase' # "reset"
         <1>1. CASE BeginCall
  BY <1>1 DEF BeginCall, Reset, Release
<1>2. ASSUME NEW v \in Values, PutData(v)
      PROVE  /\ UNCHANGED <<link, task, service, treset, heard>>
             /\ phase # "reset" /\ phase' # "reset" /\ ~Reset /\ ~Release
  BY <1>2 DEF PutData, Reset, Release
<1>3. ASSUME NEW bit \in {0, 1}, PutCommand(bit)
      PROVE  /\ UNCHANGED <<link, task, service, treset, heard>>
             /\ phase # "reset" /\ phase' # "reset" /\ ~Reset /\ ~Release
  BY <1>3 DEF PutCommand, Reset, Release
<1>4. CASE Acknowledged
  BY <1>4 DEF Acknowledged, Reset, Release
<1>5. CASE EndCall
  BY <1>5 DEF EndCall, Reset, Release
<1>6. CASE Reset
  BY <1>6 DEF Reset, Release
<1>7. CASE Release
  BY <1>7 DEF Reset, Release
<1> QED
  BY <1>1, <1>2, <1>3, <1>4, <1>5, <1>6, <1>7 DEF Ti

\* Only an echo ends what the firmware has under way.
LEMMA BlankStep ==
  ASSUME TypeOK, BlankInv, [Next]_vars
  PROVE  BlankInv'
<1> USE DEF BlankInv, latches, link, shifter, arrived, outgoing, resetRegs, task, service, ti
<1>1. CASE Ti
  BY <1>1, TiLeaves
<1>2. CASE Link
  BY <1>2 DEF Link, Fetch, FetchedTd, FetchedTc, FetchFailed, Sent, SendFailed, Deliver, SenseReset
<1>3. CASE ReadStatus
  BY <1>3 DEF ReadStatus
<1>4. CASE ClearChanged
  BY <1>4 DEF ClearChanged
<1>5. CASE TaskReset
  BY <1>5 DEF TaskReset, ForgetPacket
<1>6. CASE NothingNew
  BY <1>6 DEF NothingNew
<1>7. CASE Synchronise
  BY <1>7 DEF Synchronise, NewOp, NoOp
<1>8. CASE HandleByte
  BY <1>8 DEF HandleByte, NewOp, NoOp
<1>9. CASE GiveReply
  BY <1>9 DEF GiveReply, NewOp, NoOp
<1>10. CASE Echo
  BY <1>10 DEF Echo, SetRc
<1>11. CASE UNCHANGED vars
  BY <1>11 DEF vars
<1> QED
  BY <1>1, <1>2, <1>3, <1>4, <1>5, <1>6, <1>7, <1>8, <1>9, <1>10, <1>11 DEF Next, Task

\* The firmware notices the end of a reset before it does anything else.
LEMMA RunStep ==
  ASSUME TypeOK, BlankInv, RunInv, ResetInv, [Next]_vars
  PROVE  RunInv'
<1> USE DEF RunInv, Acts, latches, link, shifter, arrived, outgoing, resetRegs, task, service, ti
<1>1. CASE Ti /\ ~Reset /\ ~Release
  BY <1>1, TiLeaves
<1>2. CASE Reset
  BY <1>2 DEF Reset
<1>3. CASE Release
  BY <1>3 DEF Release, Settled, ResetInv
<1>4. CASE Link /\ ~SenseReset
  BY <1>4 DEF Link, Fetch, FetchedTd, FetchedTc, FetchFailed, Sent, SendFailed, Deliver
<1>5. CASE SenseReset
  BY <1>5 DEF SenseReset, TypeOK, LinkType, LatchType
<1>6. CASE ReadStatus
  BY <1>6 DEF ReadStatus, Status
<1>7. CASE ClearChanged
  <2>1. st' = [st EXCEPT !.changed = FALSE] /\ st \in Statuses
    BY <1>7 DEF ClearChanged, TypeOK, TaskType
  <2>2. st'.tc = st.tc /\ st'.level = st.level
    BY <2>1 DEF Statuses
  <2> QED
    BY <1>7, <2>2 DEF ClearChanged
<1>8. CASE TaskReset
  BY <1>8 DEF TaskReset, ZeroAnswer, SetRc
<1>9. CASE NothingNew
  BY <1>9 DEF NothingNew
<1>10. CASE Synchronise
  BY <1>10 DEF Synchronise, NewOp
<1>11. CASE HandleByte
  BY <1>11 DEF HandleByte, NewOp
<1>12. CASE GiveReply
  BY <1>12 DEF GiveReply, NewOp
<1>13. CASE Echo
  BY <1>13 DEF Echo, SetRc, BlankInv
<1>14. CASE UNCHANGED vars
  BY <1>14 DEF vars
<1> QED
  BY <1>1, <1>2, <1>3, <1>4, <1>5, <1>6, <1>7, <1>8, <1>9, <1>10, <1>11, <1>12, <1>13, <1>14
     DEF Next, Task, Link

\* A reset begins when all that was on its way has arrived, or the firmware has done something
\* since the last one.
LEMMA ResetBegins ==
  ASSUME TypeOK, CallInv, Reset
  PROVE  ResetInv'
<1> USE DEF latches, link, shifter, arrived, outgoing, resetRegs, task, service
<1>1. /\ treset' = FALSE /\ phase' = "reset" /\ heard' = FALSE /\ phase # "reset"
      /\ UNCHANGED <<latchTc, link, pc, st>>
  BY DEF Reset
<1>2. PICK x \in Ops : Up(x) /\ (~waiting => x = latchTc)
  BY <1>1 DEF CallInv, ChainInv
<1>3. RunInv
  BY DEF CallInv
<1>4. Harmless => Harmless'
  BY <1>1 DEF Harmless, Up, MovesTc, Acts
<1>5. CASE ~waiting
  <2>1. Harmless
    BY <1>2, <1>5 DEF Harmless
  <2> QED
    BY <1>1, <1>3, <1>4, <2>1 DEF ResetInv, RunInv, Acts
<1>6. CASE waiting
  <2>1. phase = "call" /\ ClientInv
    BY <1>1, <1>6 DEF CallInv, TypeOK, TiType
  <2>2. latchTc.op = "write" => rc # NoOp
    BY <1>6, <2>1 DEF ClientInv, Writing, Started
  <2>3. rc = NoOp => Harmless
    BY <2>2 DEF Harmless
  <2> QED
    BY <1>1, <1>3, <1>4, <2>3 DEF ResetInv, RunInv, Acts
<1> QED
  BY <1>5, <1>6 DEF TypeOK, TiType

\* Every step keeps what holds in a reset.
LEMMA ResetStep ==
  ASSUME TypeOK, CallInv, [Next]_vars
  PROVE  ResetInv'
<1> USE DEF latches, link, shifter, arrived, outgoing, resetRegs, task, service, ti
<1>1. BlankInv /\ ResetInv
  BY DEF CallInv
<1>2. latchTc \in Ops
  BY DEF TypeOK, LatchType
<1>3. ASSUME Link \/ Task, UNCHANGED latchTc
      PROVE  Harmless => Harmless'
  BY <1>1, <1>2, <1>3, UpKept DEF Harmless
<1> USE DEF ResetInv, Acts
<1>4. CASE Ti /\ ~Reset
  <2>1. phase' # "reset"
    BY <1>4, TiLeaves DEF Release
  <2> QED
    BY <2>1
<1>5. CASE Reset
  BY <1>5, ResetBegins
<1>6. CASE Link /\ ~SenseReset
  <2>1. UNCHANGED <<latchTc, treset, phase, heard, rc, level, changed, pc, st>>
    BY <1>6 DEF Link, Fetch, FetchedTd, FetchedTc, FetchFailed, Sent, SendFailed, Deliver
  <2> QED
    BY <1>1, <1>3, <1>6, <2>1
<1>7. CASE SenseReset
  <2>1. /\ UNCHANGED <<latchTc, treset, phase, heard, rc, pc, st>>
        /\ level' = treset /\ treset # level /\ changed' = TRUE
    BY <1>7 DEF SenseReset
  <2>2. Link
    BY <1>7 DEF Link
  <2> QED
    BY <1>1, <1>3, <2>1, <2>2 DEF TypeOK, LatchType, LinkType
<1>8. CASE ReadStatus
  <2>1. /\ UNCHANGED <<latchTc, treset, phase, heard, rc, level, changed>> /\ pc = "poll"
        /\ st'.level = level /\ pc' = IF changed THEN "clear" ELSE "react"
    BY <1>8 DEF ReadStatus, Status
  <2>2. Task
    BY <1>8 DEF Task
  <2> QED
    BY <1>1, <1>3, <2>1, <2>2
<1>9. CASE ClearChanged
  <2>1. st' = [st EXCEPT !.changed = FALSE] /\ st \in Statuses
    BY <1>9 DEF ClearChanged, TypeOK, TaskType
  <2>2. st'.tc = st.tc /\ st'.level = st.level
    BY <2>1 DEF Statuses
  <2>3. /\ UNCHANGED <<latchTc, treset, phase, heard, rc, level>> /\ pc = "clear" /\ pc' = "reset"
        /\ changed' = (changed /\ ~(st.level = level /\ st.level = treset))
    BY <1>9 DEF ClearChanged
  <2>4. Task
    BY <1>9 DEF Task
  <2> QED
    BY <1>1, <1>3, <2>2, <2>3, <2>4 DEF TypeOK, LatchType, LinkType, TaskType, Statuses
<1>10. CASE TaskReset
  <2>1. /\ UNCHANGED <<latchTc, treset, phase, level, changed, st>> /\ pc = "reset" /\ pc' = "react"
        /\ rc' = NoOp /\ heard' = (heard \/ ~st.level)
    BY <1>10 DEF TaskReset, ZeroAnswer, SetRc
  <2>2. Task
    BY <1>10 DEF Task
  <2> QED
    BY <1>1, <1>3, <2>1, <2>2
<1>11. CASE NothingNew
  <2>1. UNCHANGED <<latchTc, treset, phase, heard, rc, level, changed>> /\ pc' = "poll"
    BY <1>11 DEF NothingNew
  <2>2. Task
    BY <1>11 DEF Task
  <2> QED
    BY <1>1, <1>3, <2>1, <2>2
<1>12. CASE Synchronise \/ HandleByte \/ GiveReply
  <2>1. /\ UNCHANGED <<latchTc, treset, phase, heard, rc, level, changed, st>>
        /\ pc = "react" /\ st.level /\ pc' = "echo"
    BY <1>12 DEF Synchronise, HandleByte, GiveReply, NewOp
  <2>2. Task
    BY <1>12 DEF Task
  <2> QED
    BY <1>1, <1>3, <2>1, <2>2
<1>13. CASE Echo
  <2>1. /\ UNCHANGED <<latchTc, treset, phase, heard, level, changed>>
        /\ pc = "echo" /\ rc' = st.tc /\ pc' = "poll"
    BY <1>13 DEF Echo, SetRc
  <2>2. Task
    BY <1>13 DEF Task
  <2> QED
    BY <1>1, <1>3, <2>1, <2>2 DEF BlankInv
<1>14. CASE UNCHANGED vars
  BY <1>1, <1>14 DEF vars, Harmless, Up, MovesTc
<1> QED
  BY <1>4, <1>5, <1>6, <1>7, <1>8, <1>9, <1>10, <1>11, <1>12, <1>13, <1>14 DEF Next, Task, Link

----------------------------------------------------------------------------
(* The bytes that go with an operation and its echo.                        *)

\* An RC that changes behind the one on its way down is held back.
LEMMA HeldStep ==
  ASSUME TypeOK, HeldInv, [Next]_vars
  PROVE  HeldInv'
<1> USE DEF HeldInv, MovesRc, latches, link, shifter, arrived, outgoing, resetRegs, task, service, ti
<1>1. CASE Ti
  BY <1>1, TiLeaves
<1>2. CASE Fetch \/ FetchedTd \/ FetchedTc \/ FetchFailed \/ Sent
  BY <1>2 DEF Fetch, FetchedTd, FetchedTc, FetchFailed, Sent
<1>3. CASE SendFailed
  BY <1>3 DEF SendFailed, TurnRound
<1>4. CASE Deliver
  BY <1>4 DEF Deliver, TurnRound, HeldBack
<1>5. CASE SenseReset
  BY <1>5 DEF SenseReset
<1>6. CASE TaskReset
  BY <1>6 DEF TaskReset, ZeroAnswer, SetRc
<1>7. CASE Echo
  BY <1>7 DEF Echo, SetRc
<1>8. CASE Task /\ ~TaskReset /\ ~Echo
  BY <1>8 DEF Task, ReadStatus, ClearChanged, NothingNew, Synchronise, HandleByte, GiveReply
<1>9. CASE UNCHANGED vars
  BY <1>9 DEF vars
<1> QED
  BY <1>1, <1>2, <1>3, <1>4, <1>5, <1>6, <1>7, <1>8, <1>9 DEF Next, Link

\* The byte that goes with an operation arrives before it, and stays as long as the TI leaves it.
LEMMA DataKept ==
  ASSUME TypeOK, NEW x \in Ops, Up(x), DataInv, Link \/ Task
  PROVE  DataInv'
<1> USE DEF DataInv, Up, MovesTc, MovesTd, Acts
<1> USE DEF latches, link, shifter, arrived, outgoing, resetRegs, task, service, ti
<1>1. CASE Fetch
  <2>1. dc => shift'.data = latchTd
    BY <1>1 DEF Fetch
  <2> QED
    BY <1>1, <2>1 DEF Fetch
<1>2. CASE FetchedTd
  BY <1>2 DEF FetchedTd
<1>3. CASE FetchedTc
  BY <1>3 DEF FetchedTc, HoldTc
<1>4. CASE FetchFailed \/ Sent
  BY <1>4 DEF FetchFailed, Sent
<1>5. CASE SendFailed
  BY <1>5 DEF SendFailed, TurnRound
<1>6. CASE Deliver
  BY <1>6 DEF Deliver, TurnRound
<1>7. CASE SenseReset
  BY <1>7 DEF SenseReset
<1>8. CASE ReadStatus
  BY <1>8 DEF ReadStatus, Status
<1>9. CASE ClearChanged
  <2>1. st' = [st EXCEPT !.changed = FALSE] /\ st \in Statuses
    BY <1>9 DEF ClearChanged, TypeOK, TaskType
  <2>2. st'.tc = st.tc /\ st'.level = st.level /\ st'.td = st.td
    BY <2>1 DEF Statuses
  <2> QED
    BY <1>9, <2>2 DEF ClearChanged
<1>10. CASE TaskReset \/ NothingNew \/ Echo
  BY <1>10 DEF TaskReset, NothingNew, Echo
<1>11. CASE Synchronise \/ HandleByte \/ GiveReply
  BY <1>11 DEF Synchronise, HandleByte, GiveReply
<1> QED
  BY <1>1, <1>2, <1>3, <1>4, <1>5, <1>6, <1>7, <1>8, <1>9, <1>10, <1>11 DEF Link, Task

\* An operation that the firmware has not echoed, once it has echoed one, is the one in TC,
\* and the TI waits for it.
LEMMA NewOpIs ==
  ASSUME TypeOK, CallInv, pc \in {"react", "echo"}, st.level, st.tc # rc, rc # NoOp
  PROVE  st.tc = latchTc /\ rc # latchTc /\ (phase # "reset" => phase = "call" /\ waiting)
<1>1. PICK x \in Ops : /\ Up(x)
                       /\ phase # "reset" /\ ~waiting => x = latchTc
  BY DEF CallInv, ChainInv
<1>2. st.tc \in {x, latchTc} /\ rc \in {x, latchTc} /\ (rc = latchTc => st.tc = latchTc)
  BY <1>1 DEF Up, Acts
<1>3. phase # "call" => ~waiting
  BY DEF CallInv
<1> QED
  BY <1>1, <1>2, <1>3

\* RD comes down before the echo that goes with it.
LEMMA AnswerKept ==
  ASSUME TypeOK, CallInv, phase = "call", Reading, Link \/ Task
  PROVE  AnswerInv'
<1> USE DEF MovesRc, latches, link, shifter, arrived, outgoing, resetRegs, task, service, ti
<1>1. PICK x \in Ops : Up(x) /\ Down(x)
  BY DEF CallInv, ChainInv
<1>2. AnswerInv /\ HeldInv /\ BlankInv /\ RunInv /\ rc # NoOp
  BY DEF CallInv, ServiceInv, ClientInv, Reading, Started
<1>3. ASSUME UNCHANGED <<latches, shifter, outgoing>>
      PROVE  AnswerInv'
  BY <1>2, <1>3 DEF AnswerInv
<1>4. CASE Fetch \/ FetchedTd \/ FetchFailed \/ Sent
  BY <1>2, <1>4 DEF Fetch, FetchedTd, FetchFailed, Sent, AnswerInv
<1>5. CASE FetchedTc
  BY <1>2, <1>5 DEF FetchedTc, LetGo, AnswerInv
<1>6. CASE SendFailed
  BY <1>2, <1>6 DEF SendFailed, TurnRound, AnswerInv, HeldInv
<1>7. CASE Deliver
  BY <1>1, <1>2, <1>7 DEF Deliver, TurnRound, HeldBack, AnswerInv, Down
<1>8. CASE SenseReset \/ ReadStatus \/ ClearChanged \/ NothingNew \/ Synchronise \/ HandleByte
  BY <1>3, <1>8 DEF SenseReset, ReadStatus, ClearChanged, NothingNew, Synchronise, HandleByte
<1>9. CASE TaskReset
  BY <1>2, <1>9 DEF TaskReset, RunInv
<1>10. CASE GiveReply
  <2>1. rc # latchTc
    BY <1>2, <1>10, NewOpIs DEF GiveReply, NewOp
  <2>2. latchRc # latchTc /\ (MovesRc => shift # latchTc)
    BY <1>1, <2>1 DEF Down
  <2> QED
    BY <1>10, <2>1, <2>2 DEF GiveReply, AnswerInv
<1>11. CASE Echo
  <2>1. rc # latchTc
    BY <1>2, <1>11, NewOpIs DEF Echo, BlankInv
  <2>2. latchRc # latchTc /\ (MovesRc => shift # latchTc)
    BY <1>1, <2>1 DEF Down
  <2>3. rcUpdate' = TRUE
    BY <1>2, <1>11 DEF Echo, SetRc, BlankInv
  <2> QED
    BY <1>11, <2>2, <2>3 DEF Echo, AnswerInv
<1> QED
  BY <1>4, <1>5, <1>6, <1>7, <1>8, <1>9, <1>10, <1>11 DEF Link, Task

----------------------------------------------------------------------------
(* The TI's part of a call.                                                 *)

\* The gateware and the firmware do nothing to the TI.
LEMMA TiIsLeft ==
  ASSUME Link \/ Task
  PROVE  UNCHANGED <<latchTc, latchTd, treset, ti>>
BY DEF Link, Task, Fetch, FetchedTd, FetchedTc, FetchFailed, Sent, SendFailed, Deliver,
       SenseReset, ReadStatus, ClearChanged, TaskReset, NothingNew, Synchronise,
       HandleByte, GiveReply, Echo, latches, TurnRound

\* The lengths of what has been written and read.
LEMMA Lengths ==
  ASSUME TypeOK
  PROVE  /\ Len(sent) \in Nat /\ Len(got) \in Nat /\ Len(packet) \in Nat
         /\ (sent = <<>> <=> Len(sent) = 0) /\ (got = <<>> <=> Len(got) = 0)
         /\ MsgLen \in Nat /\ RepLen \in Nat /\ MsgLen > 0 /\ RepLen > 0
BY TipiAssumption DEF TypeOK, TiType, TaskType

\* An echo that the TI has seen stays in the latch.
LEMMA EchoStays ==
  ASSUME TypeOK, CallInv, phase # "reset", ~waiting, latchRc = latchTc, Link \/ Task
  PROVE  latchRc' = latchTc
<1> USE DEF latches, link, shifter, arrived, outgoing, resetRegs, task, service, ti
<1>1. Down(latchTc)
  BY DEF CallInv, ChainInv
<1>2. CASE Deliver
  BY <1>1, <1>2 DEF Deliver, Down, MovesRc
<1>3. CASE ~Deliver
  BY <1>3 DEF Link, Task, Fetch, FetchedTd, FetchedTc, FetchFailed, Sent, SendFailed,
              SenseReset, ReadStatus, ClearChanged, TaskReset, NothingNew, Synchronise,
              HandleByte, GiveReply, Echo
<1> QED
  BY <1>2, <1>3

\* Out of a reset the firmware does not go back to no operation.
LEMMA RcStays ==
  ASSUME TypeOK, CallInv, phase # "reset", rc # NoOp, Link \/ Task
  PROVE  rc' # NoOp
<1> USE DEF latches, link, shifter, arrived, outgoing, resetRegs, task, service, ti
<1>1. RunInv /\ BlankInv
  BY DEF CallInv
<1>2. CASE TaskReset
  BY <1>1, <1>2 DEF TaskReset, RunInv
<1>3. CASE Echo
  BY <1>1, <1>3 DEF Echo, SetRc, BlankInv
<1>4. CASE ~TaskReset /\ ~Echo
  BY <1>4 DEF Link, Task, Fetch, FetchedTd, FetchedTc, FetchFailed, Sent, SendFailed, Deliver,
              SenseReset, ReadStatus, ClearChanged, NothingNew, Synchronise, HandleByte, GiveReply
<1> QED
  BY <1>2, <1>3, <1>4

\* A call that has begun has echoed something.
LEMMA StartedRc ==
  ASSUME TypeOK, CallInv, phase = "call", Started
  PROVE  rc # NoOp /\ (~waiting => rc = latchTc /\ latchRc = latchTc)
<1>1. ClientInv
  BY DEF CallInv
<1>2. CASE waiting
  BY <1>1, <1>2 DEF ClientInv
<1>3. CASE ~waiting
  <2>1. Down(latchTc)
    BY <1>3 DEF CallInv, ChainInv
  <2> QED
    BY <1>1, <1>3, <2>1 DEF ClientInv, Down
<1> QED
  BY <1>2, <1>3 DEF TypeOK, TiType

\* The gateware and the firmware keep the TI's part of the call.
LEMMA ClientKept ==
  ASSUME TypeOK, CallInv, phase = "call", Link \/ Task
  PROVE  ClientInv'
<1>1. ClientInv
  BY DEF CallInv
<1>2. UNCHANGED <<latchTc, latchTd, loaded, synced, waiting, sent, got>>
  BY TiIsLeft DEF ti
<1>3. ~waiting /\ Started => latchRc' = latchTc
  BY <1>1, EchoStays DEF ClientInv
<1>4. waiting /\ Started => rc' # NoOp
  BY <1>1, RcStays DEF ClientInv
<1> QED
  BY <1>1, <1>2, <1>3, <1>4 DEF ClientInv, Writing, Reading, Started

\* A new call has put nothing yet.
LEMMA ClientBegins ==
  ASSUME TypeOK, CallInv, BeginCall
  PROVE  ClientInv'
<1>1. /\ ~waiting' /\ ~loaded' /\ synced' = FALSE /\ sent' = <<>> /\ got' = <<>>
  BY DEF BeginCall, CallInv
<1>2. Len(sent') = 0 /\ Len(got') = 0
  BY <1>1
<1> QED
  BY <1>1, <1>2, TipiAssumption DEF ClientInv, Writing, Reading, Started

\* A byte is loaded before its operation.
LEMMA ClientPutsData ==
  ASSUME TypeOK, CallInv, NEW v \in Values, PutData(v)
  PROVE  ClientInv'
<1>1. ClientInv /\ phase = "call"
  BY DEF CallInv, PutData
<1>2. /\ latchTd' = v /\ loaded' = TRUE /\ ~waiting /\ synced /\ Len(sent) < MsgLen
      /\ UNCHANGED <<latchTc, latchRc, rc, synced, waiting, sent, got>>
  BY DEF PutData, NextOp, link, outgoing
<1> QED
  BY <1>1, <1>2 DEF ClientInv, Writing, Reading, Started

\* The next operation, with the last one done.
LEMMA ClientPuts ==
  ASSUME TypeOK, CallInv, NEW bit \in {0, 1}, PutCommand(bit)
  PROVE  ClientInv'
<1>1. ClientInv /\ phase = "call" /\ ~waiting
  BY DEF CallInv, PutCommand
<1>2. /\ latchTc'.op = NextOp /\ waiting' = TRUE /\ loaded' = FALSE
      /\ Len(got) < RepLen /\ (NextOp = "write" => loaded)
      /\ UNCHANGED <<latchTd, rc, synced, got>>
      /\ sent' = IF NextOp = "write" THEN Append(sent, latchTd) ELSE sent
  BY DEF PutCommand, link, outgoing
<1>3. latchTd \in Data /\ sent \in Seq(Data)
  BY DEF TypeOK, LatchType, TiType
<1>4. Started => rc # NoOp
  BY <1>1, StartedRc
<1>5. CASE ~synced
  <2>1. latchTc'.op = "sync" /\ sent' = sent
    BY <1>2, <1>5 DEF NextOp
  <2> QED
    BY <1>1, <1>2, <1>4, <1>5, <2>1 DEF ClientInv, Writing, Reading, Started
<1>6. CASE synced /\ Len(sent) < MsgLen
  <2>1. latchTc'.op = "write" /\ sent' = Append(sent, latchTd)
    BY <1>2, <1>6 DEF NextOp
  <2>2. Len(sent') = Len(sent) + 1 /\ sent' # <<>>
    BY <1>3, <2>1
  <2>3. Started /\ Started' /\ got = <<>>
    BY <1>1, <1>2, <1>6, <2>2 DEF Started, ClientInv
  <2>4. Len(sent') <= MsgLen
    BY <1>6, <2>2, Lengths
  <2> QED
    BY <1>1, <1>2, <1>4, <1>6, <2>1, <2>2, <2>3, <2>4 DEF ClientInv, Writing, Reading
<1>7. CASE synced /\ ~(Len(sent) < MsgLen)
  <2>1. latchTc'.op = "read" /\ sent' = sent
    BY <1>2, <1>7 DEF NextOp
  <2>2. Len(sent) = MsgLen
    BY <1>1, <1>7, Lengths DEF ClientInv
  <2> QED
    BY <1>1, <1>2, <1>4, <1>7, <2>1, <2>2 DEF ClientInv, Writing, Reading, Started
<1> QED
  BY <1>5, <1>6, <1>7 DEF TypeOK, TiType

\* The TI takes an echo, and the byte of a read.
LEMMA ClientTakes ==
  ASSUME TypeOK, CallInv, Acknowledged
  PROVE  ClientInv'
<1>1. ClientInv /\ phase = "call" /\ waiting /\ latchRc = latchTc
  BY DEF CallInv, Acknowledged
<1>2. /\ UNCHANGED <<latchTc, latchRc, latchTd, rc, loaded, sent>> /\ waiting' = FALSE
      /\ got' = IF latchTc.op = "read" THEN Append(got, latchRd) ELSE got
  BY DEF Acknowledged, latches, link, outgoing
<1>3. got \in Seq(ReplyBytes) /\ latchRd \in ReplyBytes
  BY DEF TypeOK, LatchType, TiType
<1>4. /\ latchTc # NoOp /\ ~loaded /\ Len(got) < RepLen
      /\ latchTc.op \in {"sync", "write", "read"}
  BY <1>1 DEF ClientInv, NoOp
<1>5. CASE latchTc.op = "sync"
  <2>1. got' = got /\ synced' = TRUE
    BY <1>2, <1>5 DEF Acknowledged
  <2> QED
    BY <1>1, <1>2, <1>4, <1>5, <2>1 DEF ClientInv, Writing, Reading, Started
<1>6. CASE latchTc.op = "write"
  <2>1. got' = got /\ synced' = (Len(sent) < MsgLen) /\ sent # <<>> /\ got = <<>>
    BY <1>1, <1>2, <1>6 DEF Acknowledged, ClientInv, Writing
  <2>2. Len(got') + 1 \in Heads
    BY <2>1, TipiAssumption
  <2>3. Len(got') # RepLen
    BY <2>1, Lengths
  <2>4. synced' <=> Len(sent) < MsgLen
    BY <2>1
  <2> QED
    BY <1>1, <1>2, <1>4, <1>6, <2>1, <2>2, <2>3, <2>4 DEF ClientInv, Writing, Reading, Started
<1>7. CASE latchTc.op = "read"
  <2>1. /\ got' = Append(got, latchRd) /\ synced' = (Len(got') + 1 \notin Heads)
        /\ synced /\ Len(sent) = MsgLen
    BY <1>1, <1>2, <1>7 DEF Acknowledged, ClientInv, Reading
  <2>2. Len(got') = Len(got) + 1 /\ sent # <<>>
    BY <1>3, <2>1, Lengths
  <2>3. Len(got') <= RepLen /\ ~(Len(sent) < MsgLen)
    BY <1>4, <2>1, <2>2, Lengths
  <2> QED
    BY <1>1, <1>2, <1>4, <1>7, <2>1, <2>2, <2>3 DEF ClientInv, Writing, Reading, Started
<1> QED
  BY <1>4, <1>5, <1>6, <1>7

----------------------------------------------------------------------------
(* What the firmware makes of the call.                                     *)

\* As long as nothing of the message is written, nothing is expected of the firmware.
LEMMA Unstarted ==
  ASSUME TypeOK, CallInv, phase = "call", ~Started, UNCHANGED <<latchTc, ti, exec>>
  PROVE  ServiceInv'
<1>1. /\ sent' = <<>> /\ ~synced' /\ waiting' = waiting /\ latchTc' = latchTc
      /\ ~Writing /\ ~Reading /\ exec = <<>> /\ exec' = exec
  BY Lengths DEF ti, Started, CallInv, ClientInv, ServiceInv
<1>2. ~Writing' /\ ~Reading' /\ Len(sent') = 0 /\ 0 # MsgLen /\ 0 < MsgLen
  BY <1>1, TipiAssumption DEF Writing, Reading
<1> QED
  BY <1>1, <1>2 DEF ServiceInv

\* An operation done stays so in a call, and what is done is what the TI waits for.
LEMMA StillDone ==
  ASSUME UNCHANGED <<rc, latchTc>>,
         UNCHANGED <<pc, st>> \/ (pc # "echo" /\ pc' # "echo")
  PROVE  Done' <=> Done
BY DEF Done

\* Steps that leave the service alone.
LEMMA ServiceLeft ==
  ASSUME TypeOK, CallInv, phase = "call", UNCHANGED <<latchTc, latchTd, ti, exec, service, rd>>,
         Done' <=> Done, Link \/ Task
  PROVE  ServiceInv'
<1>1. ServiceInv
  BY DEF CallInv
<1>2. PICK x \in Ops : Up(x)
  BY DEF CallInv, ChainInv
<1>3. /\ UNCHANGED <<latchTc, latchTd, exec, accepting, packet, reply, replyTo, rd>>
      /\ UNCHANGED <<synced, waiting, sent, got>>
      /\ Writing' = Writing /\ Reading' = Reading
  BY DEF ti, service, Writing, Reading
<1>4. Writing => DataInv'
  BY <1>1, <1>2, DataKept DEF ServiceInv
<1>5. Reading => AnswerInv'
  BY AnswerKept
<1> QED
  BY <1>1, <1>3, <1>4, <1>5 DEF ServiceInv, NextByte

\* The link leaves the service alone.
LEMMA ServiceLink ==
  ASSUME TypeOK, CallInv, phase = "call", Link
  PROVE  ServiceInv'
<1>1. UNCHANGED <<exec, service, rc, rd, pc, st>>
  BY DEF Link, Fetch, FetchedTd, FetchedTc, FetchFailed, Sent, SendFailed, Deliver, SenseReset,
         link, task, outgoing
<1> QED
  BY <1>1, TiIsLeft, StillDone, ServiceLeft

\* An operation that comes before the call has begun is none that is carried out.
LEMMA NotYet ==
  ASSUME TypeOK, CallInv, phase = "call", ~Started, HandleByte
  PROVE  UNCHANGED exec
<1>1. pc = "react" /\ st.level /\ st.tc # rc /\ st.tc.op = "write"
  BY DEF HandleByte, NewOp
<1>2. CASE rc = NoOp
  BY <1>1, <1>2 DEF HandleByte, CallInv, BlankInv
<1>3. CASE rc # NoOp
  <2>1. waiting /\ latchTc.op = "write"
    BY <1>1, <1>3, NewOpIs
  <2> QED
    BY <2>1 DEF CallInv, ClientInv, Writing, Started
<1> QED
  BY <1>2, <1>3

\* In a call that has begun, the firmware acts only on the operation that the TI waits for.
LEMMA ActsOn ==
  ASSUME TypeOK, CallInv, phase = "call", Started, pc \in {"react", "echo"}, st.level, st.tc # rc
  PROVE  st.tc = latchTc /\ rc # latchTc /\ waiting
BY StartedRc, NewOpIs

\* A synchronisation within a call is for a part of the reply: nothing is lost of it.
LEMMA ServiceSynchronise ==
  ASSUME TypeOK, CallInv, phase = "call", Synchronise
  PROVE  ServiceInv'
<1>1. UNCHANGED <<latchTc, latchTd, ti, exec, replyTo, rd>>
  BY DEF Synchronise, latches, link, outgoing
<1>2. CASE ~Started
  BY <1>1, <1>2, Unstarted
<1>3. CASE Started
  <2>1. waiting /\ latchTc.op = "sync"
    BY <1>3, ActsOn DEF Synchronise, NewOp
  <2>2. /\ ~Writing' /\ ~Reading' /\ ~Writing /\ ~Reading /\ waiting' /\ UNCHANGED <<sent, got, synced>>
    BY <1>1, <2>1 DEF Writing, Reading, ti
  <2>3. ~synced /\ Len(sent) = MsgLen /\ Len(got) + 1 \in Heads /\ Len(got) # RepLen
    BY <1>3, <2>1, Lengths DEF CallInv, ClientInv, Started
  <2>4. exec = <<sent>> /\ replyTo = sent /\ reply = Len(got) + 1
    BY <2>2, <2>3 DEF CallInv, ServiceInv, NextByte
  <2>5. reply' = reply
    BY <2>3, <2>4 DEF Synchronise
  <2>6. ~(Len(sent) < MsgLen)
    BY <2>3, Lengths
  <2> QED
    BY <1>1, <2>1, <2>2, <2>3, <2>4, <2>5, <2>6 DEF ServiceInv, NextByte
<1> QED
  BY <1>2, <1>3

\* A byte of the message, and with the last one the message, is taken once.
LEMMA ServiceByte ==
  ASSUME TypeOK, CallInv, phase = "call", HandleByte
  PROVE  ServiceInv'
<1>1. UNCHANGED <<latchTc, latchTd, ti, rd, rc, st>> /\ pc' = "echo"
  BY DEF HandleByte, latches, link, outgoing
<1>2. CASE ~Started
  BY <1>1, <1>2, Unstarted, NotYet
<1>3. CASE Started
  <2>1. waiting /\ latchTc.op = "write" /\ st.tc = latchTc /\ rc # latchTc /\ st.level /\ pc = "react"
    BY <1>3, ActsOn DEF HandleByte, NewOp
  <2>2. Writing /\ ~Done /\ Writing' /\ Done' /\ ~Reading' /\ UNCHANGED <<sent, got, synced, waiting>>
    BY <1>1, <2>1 DEF Writing, Reading, Done, ti
  <2>3. accepting /\ Append(packet, latchTd) = sent /\ exec = <<>> /\ st.td = latchTd /\ got = <<>>
    BY <2>1, <2>2 DEF CallInv, ServiceInv, ClientInv, DataInv, Acts
  <2>4. DataInv'
    <3>1. PICK x \in Ops : Up(x)
      BY DEF CallInv, ChainInv
    <3> QED
      BY <2>2, <3>1, DataKept DEF CallInv, ServiceInv, Task
  <2>5. /\ packet' = sent
        /\ accepting' = ~LastOfPacket
        /\ reply' = IF LastOfPacket THEN 1 ELSE reply
        /\ replyTo' = IF LastOfPacket THEN packet' ELSE replyTo
        /\ exec' = IF LastOfPacket THEN Append(exec, packet') ELSE exec
    BY <2>3 DEF HandleByte
  <2>6. packet \in Seq(Data) /\ latchTd \in Data /\ Len(packet) < MsgLen
    BY <2>3 DEF TypeOK, TaskType, LatchType
  <2>7. Len(sent) = Len(packet) + 1
    BY <2>3, <2>6, ListFacts
  <2>8. CASE LastOfPacket
    <3>1. Len(sent) = MsgLen /\ ~(Len(sent) < MsgLen)
      BY <2>7, <2>8, Lengths DEF LastOfPacket
    <3>2. exec' = <<sent>> /\ replyTo' = sent /\ reply' = 1
      BY <2>3, <2>5, <2>8
    <3>3. reply' = NextByte(IF Reading' /\ Done' THEN Len(got') + 1 ELSE Len(got'))
      <4>1. Len(got') = 0 /\ 0 # RepLen
        BY <2>2, <2>3, Lengths
      <4> QED
        BY <2>2, <3>2, <4>1 DEF NextByte
    <3>4. sent' = sent
      BY <2>2
    <3> QED
      BY <2>2, <2>4, <3>1, <3>2, <3>3, <3>4 DEF ServiceInv, NextByte
  <2>9. CASE ~LastOfPacket
    <3>1. Len(sent) < MsgLen /\ Len(sent) # MsgLen
      BY <2>6, <2>7, <2>9, Lengths DEF LastOfPacket
    <3>2. exec' = <<>> /\ accepting'
      BY <2>3, <2>5, <2>9
    <3> QED
      BY <2>2, <2>4, <2>5, <3>1, <3>2 DEF ServiceInv, NextByte
  <2> QED
    BY <2>8, <2>9
<1> QED
  BY <1>2, <1>3

\* The next byte of the reply goes to RD.
LEMMA ServiceReply ==
  ASSUME TypeOK, CallInv, phase = "call", GiveReply
  PROVE  ServiceInv'
<1>1. UNCHANGED <<latchTc, latchTd, ti, exec, accepting, packet, replyTo, rc, st>> /\ pc' = "echo"
  BY DEF GiveReply, latches
<1>2. CASE ~Started
  BY <1>1, <1>2, Unstarted
<1>3. CASE Started
  <2>1. waiting /\ latchTc.op = "read" /\ st.tc = latchTc /\ rc # latchTc /\ st.level /\ pc = "react"
    BY <1>3, ActsOn DEF GiveReply, NewOp
  <2>2. /\ Reading /\ ~Done /\ Reading' /\ Done' /\ ~Writing /\ ~Writing'
        /\ UNCHANGED <<sent, got, synced, waiting>>
    BY <1>1, <2>1 DEF Writing, Reading, Done, ti
  <2>3. Len(sent) = MsgLen /\ ~(Len(sent) < MsgLen) /\ Len(got) < RepLen
    BY <2>2, Lengths DEF CallInv, ClientInv, Reading
  <2>4. exec = <<sent>> /\ replyTo = sent /\ reply = Len(got) + 1
    BY <2>2, <2>3, Lengths DEF CallInv, ServiceInv, NextByte
  <2>5. reply # 0 /\ (reply = RepLen <=> Len(got) + 1 = RepLen)
    BY <2>4, Lengths
  <2>6. /\ rd' = [to |-> sent, k |-> Len(got) + 1]
        /\ reply' = NextByte(Len(got) + 1)
    BY <2>4, <2>5 DEF GiveReply, NextByte
  <2>7. AnswerInv'
    BY <2>2, AnswerKept DEF Task
  <2> QED
    BY <1>1, <2>1, <2>2, <2>3, <2>4, <2>6, <2>7 DEF ServiceInv, NextByte
<1> QED
  BY <1>2, <1>3

\* The echo says that the operation is done.
LEMMA ServiceEcho ==
  ASSUME TypeOK, CallInv, phase = "call", Echo
  PROVE  ServiceInv'
<1>1. UNCHANGED <<latchTc, latchTd, ti, exec, service, rd>> /\ rc' = st.tc /\ pc = "echo"
  BY DEF Echo, SetRc, latches
<1>2. CASE ~Started
  BY <1>1, <1>2, Unstarted
<1>3. CASE Started
  <2>1. st.level /\ st.tc # rc
    BY <1>1 DEF CallInv, BlankInv
  <2>2. st.tc = latchTc
    BY <1>1, <1>3, <2>1, ActsOn
  <2>3. Done /\ Done'
    BY <1>1, <2>2 DEF Done
  <2> QED
    BY <1>1, <2>3, ServiceLeft DEF Task
<1> QED
  BY <1>2, <1>3

\* Every step of the firmware keeps what it has of the call.
LEMMA ServiceTask ==
  ASSUME TypeOK, CallInv, phase = "call", Task
  PROVE  ServiceInv'
<1>1. CASE ReadStatus \/ ClearChanged \/ NothingNew
  <2>1. UNCHANGED <<exec, service, rc, rd>> /\ pc # "echo" /\ pc' # "echo"
    BY <1>1 DEF ReadStatus, ClearChanged, NothingNew, link, outgoing
  <2> QED
    BY <2>1, TiIsLeft, StillDone, ServiceLeft
<1>2. CASE TaskReset
  <2>1. rc = NoOp /\ UNCHANGED exec
    BY <1>2 DEF TaskReset, CallInv, RunInv
  <2> QED
    BY <2>1, StartedRc, TiIsLeft, Unstarted
<1>3. CASE Synchronise \/ HandleByte \/ GiveReply \/ Echo
  BY <1>3, ServiceSynchronise, ServiceByte, ServiceReply, ServiceEcho
<1> QED
  BY <1>1, <1>2, <1>3 DEF Task

\* A new call starts with a service that has carried nothing out for it.
LEMMA ServiceBegins ==
  ASSUME TypeOK, CallInv, BeginCall
  PROVE  ServiceInv'
<1>1. sent' = <<>> /\ got' = <<>> /\ exec' = <<>> /\ ~synced' /\ ~waiting'
  BY DEF BeginCall, CallInv
<1>2. Len(sent') = 0 /\ 0 # MsgLen /\ 0 < MsgLen /\ ~Writing' /\ ~Reading'
  BY <1>1, TipiAssumption DEF Writing, Reading
<1> QED
  BY <1>1, <1>2 DEF ServiceInv

\* A byte that is loaded is no operation yet.
LEMMA ServicePutsData ==
  ASSUME TypeOK, CallInv, NEW v \in Values, PutData(v)
  PROVE  ServiceInv'
<1>1. /\ ~waiting /\ phase = "call"
      /\ UNCHANGED <<latchTc, rc, rd, pc, st, accepting, packet, reply, replyTo, synced, waiting,
                     sent, got, exec>>
  BY DEF PutData, link, outgoing, task, service
<1>2. ~Writing /\ ~Writing' /\ ~Reading /\ ~Reading'
  BY <1>1 DEF Writing, Reading
<1>3. ServiceInv
  BY <1>1 DEF CallInv
<1> QED
  BY <1>1, <1>2, <1>3 DEF ServiceInv, NextByte

\* The operation that the TI puts is one that the firmware has not done.
LEMMA ServicePuts ==
  ASSUME TypeOK, CallInv, NEW bit \in {0, 1}, PutCommand(bit)
  PROVE  ServiceInv'
<1>1. ClientInv /\ ServiceInv /\ phase = "call" /\ ~waiting /\ ~Writing /\ ~Reading
  BY DEF CallInv, PutCommand, Writing, Reading
<1>2. /\ latchTc'.op = NextOp /\ latchTc' # latchRc /\ waiting' = TRUE
      /\ Len(got) < RepLen /\ (NextOp = "write" => loaded)
      /\ UNCHANGED <<latchTd, latchRc, latchRd, shifter, arrived, rc, rd, rcUpdate, pc, st, synced, got>>
      /\ UNCHANGED <<accepting, packet, reply, replyTo, exec>>
      /\ sent' = IF NextOp = "write" THEN Append(sent, latchTd) ELSE sent
  BY DEF PutCommand, link, outgoing, task, service
<1>3. Up(latchTc) /\ Down(latchTc)
  BY <1>1 DEF CallInv, ChainInv
<1>4. latchTd \in Data /\ sent \in Seq(Data)
  BY DEF TypeOK, LatchType, TiType
<1>5. Started => rc = latchTc /\ latchRc = latchTc /\ (Acts => st.tc = latchTc)
  BY <1>1, <1>3, StartedRc DEF Up
<1>6. Started => ~Done'
  <2>1. pc = "echo" => st.level
    BY DEF CallInv, BlankInv
  <2> QED
    BY <1>2, <1>5, <2>1 DEF Done, Acts
<1>7. Started => ~(tcHold = latchTc' \/ tc = latchTc' \/ (Acts /\ st.tc = latchTc'))
  BY <1>2, <1>3, <1>5 DEF Up
<1>8. CASE ~synced
  <2>1. /\ latchTc'.op = "sync" /\ sent' = sent /\ ~Writing' /\ ~Reading' /\ ~synced'
    BY <1>2, <1>8 DEF NextOp, Writing, Reading
  <2> QED
    BY <1>1, <1>2, <1>8, <2>1 DEF ServiceInv, NextByte
<1>9. CASE synced /\ Len(sent) < MsgLen
  <2>1. /\ latchTc'.op = "write" /\ sent' = Append(sent, latchTd) /\ Writing' /\ ~Reading' /\ ~Done'
    BY <1>2, <1>6, <1>9 DEF NextOp, Writing, Reading, Started
  <2>2. accepting /\ packet = sent /\ exec = <<>>
    BY <1>1, <1>9 DEF ServiceInv
  <2>3. DataInv'
    BY <1>2, <1>7, <1>9 DEF DataInv, Started, shifter, arrived, MovesTd, Acts
  <2> QED
    BY <1>2, <2>1, <2>2, <2>3 DEF ServiceInv
<1>10. CASE synced /\ ~(Len(sent) < MsgLen)
  <2>1. latchTc'.op = "read" /\ sent' = sent /\ ~Writing' /\ Reading' /\ ~Done'
    BY <1>2, <1>6, <1>10 DEF NextOp, Writing, Reading, Started
  <2>2. AnswerInv'
    <3>1. rc # latchTc' /\ latchRc # latchTc' /\ (MovesRc => shift # latchTc')
      <4>1. rc = latchTc /\ latchRc = latchTc /\ latchTc' # latchTc
        BY <1>2, <1>5, <1>10 DEF Started
      <4>2. MovesRc => shift = latchTc
        BY <1>3, <4>1 DEF Down
      <4> QED
        BY <4>1, <4>2
    <3> QED
      BY <1>2, <3>1 DEF AnswerInv, shifter, MovesRc
  <2> QED
    BY <1>1, <1>2, <1>10, <2>1, <2>2 DEF ServiceInv, NextByte
<1> QED
  BY <1>8, <1>9, <1>10 DEF TypeOK, TiType

\* The TI goes on with what the firmware has done.
LEMMA ServiceTakes ==
  ASSUME TypeOK, CallInv, Acknowledged
  PROVE  ServiceInv'
<1>1. ClientInv /\ ServiceInv /\ phase = "call" /\ waiting /\ latchRc = latchTc
  BY DEF CallInv, Acknowledged
<1>2. /\ UNCHANGED <<latchTc, latchRc, latchTd, rc, rd, pc, st, sent, accepting, packet, reply, replyTo, exec>>
      /\ waiting' = FALSE
      /\ got' = IF latchTc.op = "read" THEN Append(got, latchRd) ELSE got
  BY DEF Acknowledged, latches, link, outgoing, task, service
<1>3. ~Writing' /\ ~Reading' /\ got \in Seq(ReplyBytes) /\ latchRd \in ReplyBytes
  BY <1>2 DEF TypeOK, LatchType, TiType, Writing, Reading
<1>4. Done
  BY <1>1 DEF Done, CallInv, ChainInv, Down
<1>5. CASE latchTc.op = "sync"
  <2>1. got' = got /\ synced' = TRUE /\ ~synced /\ ~Writing /\ ~Reading
    BY <1>1, <1>2, <1>5 DEF Acknowledged, ClientInv, Writing, Reading
  <2>2. Len(sent) < MsgLen => accepting /\ packet = sent
    <3> SUFFICES ASSUME Len(sent) < MsgLen PROVE accepting /\ packet = sent
      OBVIOUS
    <3>1. sent = <<>>
      BY <1>1, <2>1 DEF ClientInv
    <3> QED
      BY <1>1, <1>4, <1>5, <2>1, <3>1 DEF CallInv, SyncInv, Started
  <2> QED
    BY <1>1, <1>2, <1>3, <2>1, <2>2 DEF ServiceInv, NextByte
<1>6. CASE latchTc.op = "write"
  <2>1. got' = got /\ Writing /\ ~Reading
    BY <1>1, <1>2, <1>6 DEF Writing, Reading
  <2> QED
    BY <1>1, <1>2, <1>3, <1>4, <2>1 DEF ServiceInv, NextByte
<1>7. CASE latchTc.op = "read"
  <2>1. got' = Append(got, latchRd) /\ Reading /\ ~Writing /\ Len(sent) = MsgLen
    BY <1>1, <1>2, <1>7 DEF Writing, Reading, ClientInv
  <2>2. Len(got') = Len(got) + 1 /\ ~(Len(sent) < MsgLen)
    BY <1>3, <2>1, Lengths
  <2> QED
    BY <1>1, <1>2, <1>3, <1>4, <2>1, <2>2 DEF ServiceInv, NextByte
<1> QED
  BY <1>1, <1>5, <1>6, <1>7 DEF ClientInv

----------------------------------------------------------------------------
(* Around the call.                                                         *)

\* In a reset too, the firmware acts on no operation but the one in TC, if this is a write.
LEMMA LateOp ==
  ASSUME TypeOK, CallInv, phase = "reset", latchTc.op = "write",
         pc \in {"react", "echo"}, st.level, st.tc # rc
  PROVE  st.tc = latchTc
<1>1. CASE rc = NoOp
  <2>1. Up(latchTc)
    BY <1>1 DEF CallInv, ResetInv, Harmless, Acts
  <2> QED
    BY <2>1 DEF Up, Acts
<1>2. CASE rc # NoOp
  BY <1>2, NewOpIs
<1> QED
  BY <1>1, <1>2

\* Only a synchronisation that is carried out, or was, makes the firmware ready for a message.
LEMMA SyncStep ==
  ASSUME TypeOK, CallInv, [Next]_vars
  PROVE  SyncInv'
<1> USE DEF latches, link, shifter, arrived, outgoing, resetRegs, task, service, ti
<1>1. SyncInv /\ BlankInv /\ RunInv /\ ResetInv /\ (phase = "call" => ClientInv)
  BY DEF CallInv
<1>2. ASSUME UNCHANGED <<phase, synced, sent, latchTc, accepting, packet>>, Done' => Done
      PROVE  SyncInv'
  BY <1>1, <1>2 DEF SyncInv, Started
<1>3. CASE Link
  <2>1. UNCHANGED <<exec, service, rc, rd, pc, st>>
    BY <1>3 DEF Link, Fetch, FetchedTd, FetchedTc, FetchFailed, Sent, SendFailed, Deliver, SenseReset
  <2> QED
    BY <1>2, <1>3, <2>1, TiIsLeft, StillDone
<1>4. CASE ReadStatus \/ ClearChanged \/ NothingNew
  <2>1. UNCHANGED <<exec, service, rc, rd>> /\ pc # "echo" /\ pc' # "echo"
    BY <1>4 DEF ReadStatus, ClearChanged, NothingNew
  <2> QED
    BY <1>2, <1>4, <2>1, TiIsLeft, StillDone DEF Task
<1>5. CASE TaskReset
  BY <1>5 DEF TaskReset, ZeroAnswer, SetRc, SyncInv, Done, NoOp
<1>6. CASE Synchronise
  BY <1>6 DEF Synchronise, SyncInv
<1>7. CASE HandleByte
  <2> SUFFICES ASSUME phase # "reset", latchTc.op = "sync" PROVE ~Done'
    BY <1>7 DEF HandleByte, SyncInv
  <2>1. st.tc.op = "write" /\ pc = "react" /\ st.level /\ st.tc # rc /\ UNCHANGED <<rc, latchTc, st>>
    BY <1>7 DEF HandleByte, NewOp
  <2>2. rc # latchTc
    BY <2>1, NewOpIs DEF NoOp
  <2> QED
    BY <2>1, <2>2 DEF Done
<1>8. CASE GiveReply
  <2> SUFFICES ASSUME latchTc.op = "sync" PROVE SyncInv'
    BY <1>8 DEF GiveReply, SyncInv
  <2> QED
    BY <1>2, <1>8 DEF GiveReply, Done
<1>9. CASE Echo
  BY <1>2, <1>9 DEF Echo, SetRc, Done
<1>10. CASE BeginCall
  BY <1>1, <1>10 DEF BeginCall, SyncInv, Done
<1>11. ASSUME NEW v \in Values, PutData(v)
       PROVE  SyncInv'
  BY <1>11 DEF PutData, NextOp, SyncInv, Started
<1>12. ASSUME NEW bit \in {0, 1}, PutCommand(bit)
       PROVE  SyncInv'
  <2> SUFFICES ASSUME ~Started', Done', latchTc'.op = "sync"
               PROVE  accepting /\ packet = <<>>
    BY <1>12 DEF PutCommand, SyncInv
  <2>1. Up(latchTc) /\ phase = "call"
    BY <1>12 DEF PutCommand, CallInv, ChainInv
  <2>2. ~synced /\ sent = <<>>
    BY <1>12 DEF PutCommand, Started, NextOp
  <2>3. latchTc' = latchTc /\ Done
    <3>1. rc = latchTc' \/ (pc = "echo" /\ st.tc = latchTc')
      BY <1>12 DEF PutCommand, Done
    <3>2. CASE rc = latchTc'
      BY <2>1, <3>2 DEF Up, Done, NoOp
    <3>3. CASE pc = "echo" /\ st.tc = latchTc'
      BY <1>1, <2>1, <3>3 DEF Up, Done, BlankInv, Acts
    <3> QED
      BY <3>1, <3>2, <3>3
  <2> QED
    BY <1>1, <2>1, <2>2, <2>3 DEF SyncInv, Started
<1>13. CASE Acknowledged
  <2>1. latchTc.op = "sync" => Started'
    BY <1>13 DEF Acknowledged, Started
  <2> QED
    BY <1>13, <2>1 DEF Acknowledged, SyncInv
<1>14. CASE EndCall
  BY <1>1, <1>14 DEF EndCall, ClientInv, SyncInv
<1>15. CASE Reset
  BY <1>15 DEF Reset, SyncInv
<1>16. CASE Release
  <2>1. rc = NoOp /\ pc # "echo" /\ UNCHANGED <<rc, pc, latchTc>>
    BY <1>1, <1>16 DEF Release, Settled, ResetInv
  <2> QED
    BY <2>1 DEF SyncInv, Done, NoOp
<1>17. CASE UNCHANGED vars
  BY <1>2, <1>17 DEF vars, Done
<1> QED
  BY <1>3, <1>4, <1>5, <1>6, <1>7, <1>8, <1>9, <1>10, <1>11, <1>12, <1>13, <1>14, <1>15, <1>16,
     <1>17 DEF Next, Ti, Task

\* Of a message that a reset cuts short, the firmware has all but what it is about to take.
LEMMA LateStep ==
  ASSUME TypeOK, CallInv, [Next]_vars, phase' = "reset"
  PROVE  LateInv'
<1> USE DEF latches, link, shifter, arrived, outgoing, resetRegs, task, service, ti
<1>1. BlankInv
  BY DEF CallInv
<1>2. PICK x \in Ops : Up(x) /\ (phase # "reset" /\ ~waiting => x = latchTc)
  BY DEF CallInv, ChainInv
<1>3. CASE Reset
  <2>1. /\ UNCHANGED <<latchTc, latchTd, rc, accepting, packet, sent, exec, rt, le, dc, shift>>
        /\ UNCHANGED <<tcHold, tc, td, pc, st>>
        /\ phase \in {"idle", "call"}
    BY <1>3 DEF Reset, TypeOK, TiType
  <2> SUFFICES ASSUME accepting, latchTc.op = "write", ~Done
               PROVE  exec = <<>> /\ Append(packet, latchTd) = sent /\ Len(sent) <= MsgLen /\ DataInv
    BY <2>1 DEF LateInv, Done, DataInv, MovesTd, Acts
  <2>2. waiting /\ phase = "call"
    <3>1. ~(phase # "reset" /\ ~waiting)
      <4> SUFFICES ASSUME Up(latchTc) PROVE FALSE
        BY <1>2
      <4>1. rc = NoOp
        BY DEF Up, Done
      <4>2. pc = "echo"
        BY <1>1, <4>1 DEF BlankInv
      <4> QED
        BY <1>1, <4>2 DEF BlankInv, Up, Acts, Done
    <3> QED
      BY <2>1, <3>1 DEF CallInv
  <2> QED
    BY <2>2 DEF CallInv, ServiceInv, ClientInv, Writing
<1>4. CASE Link \/ Task
  <2>1. UNCHANGED <<latchTc, latchTd, sent, phase>> /\ phase = "reset"
    BY <1>4, TiIsLeft
  <2>2. LateInv
    BY <2>1 DEF CallInv
  <2>3. DataInv => DataInv'
    BY <1>2, <1>4, DataKept
  <2>4. ASSUME UNCHANGED <<accepting, packet, exec>>, ~Done' => ~Done
        PROVE  LateInv'
    BY <2>1, <2>2, <2>3, <2>4 DEF LateInv
  <2>5. CASE Link
    <3>1. UNCHANGED <<exec, service, rc, rd, pc, st>>
      BY <2>5 DEF Link, Fetch, FetchedTd, FetchedTc, FetchFailed, Sent, SendFailed, Deliver, SenseReset
    <3> QED
      BY <2>1, <2>4, <3>1, StillDone
  <2>6. CASE ReadStatus \/ ClearChanged \/ NothingNew
    <3>1. UNCHANGED <<exec, service, rc, rd>> /\ pc # "echo" /\ pc' # "echo"
      BY <2>6 DEF ReadStatus, ClearChanged, NothingNew
    <3> QED
      BY <2>1, <2>4, <3>1, StillDone
  <2>7. CASE TaskReset
    BY <2>7 DEF TaskReset, ForgetPacket, LateInv
  <2>8. CASE Synchronise \/ HandleByte \/ GiveReply
    <3> SUFFICES ASSUME latchTc.op = "write" PROVE LateInv'
      BY <2>1 DEF LateInv
    <3>1. st.tc = latchTc
      BY <2>1, <2>8, LateOp DEF Synchronise, HandleByte, GiveReply, NewOp
    <3>2. Done'
      BY <2>1, <2>8, <3>1 DEF Synchronise, HandleByte, GiveReply, Done
    <3> QED
      BY <3>2 DEF LateInv
  <2>9. CASE Echo
    <3> SUFFICES ASSUME latchTc.op = "write" PROVE LateInv'
      BY <2>1 DEF LateInv
    <3>1. st.tc = latchTc
      BY <1>1, <2>1, <2>9, LateOp DEF Echo, BlankInv
    <3>2. Done'
      BY <2>1, <2>9, <3>1 DEF Echo, SetRc, Done
    <3> QED
      BY <3>2 DEF LateInv
  <2> QED
    BY <1>4, <2>5, <2>6, <2>7, <2>8, <2>9 DEF Task
<1>5. CASE UNCHANGED vars
  <2>1. LateInv
    BY <1>5 DEF vars, CallInv
  <2> QED
    BY <1>5, <2>1 DEF vars, LateInv, Done, DataInv, MovesTd, Acts
<1>6. CASE Ti /\ ~Reset
  BY <1>6 DEF Ti, BeginCall, PutData, PutCommand, Acknowledged, EndCall, Release
<1> QED
  BY <1>3, <1>4, <1>5, <1>6 DEF Next

\* The TI takes the byte that it has asked for.
LEMMA ReplyStep ==
  ASSUME TypeOK, CallInv, [Next]_vars
  PROVE  ReplyMatches'
<1> USE DEF ReplyMatches
<1>1. ReplyMatches /\ got \in Seq(ReplyBytes)
  BY DEF CallInv, TypeOK, TiType
<1>2. ASSUME UNCHANGED <<sent, got>>
      PROVE  ReplyMatches'
  BY <1>1, <1>2
<1>3. CASE BeginCall
  BY <1>3 DEF BeginCall
<1>4. ASSUME NEW bit \in {0, 1}, PutCommand(bit)
      PROVE  ReplyMatches'
  <2>1. CASE NextOp = "write"
    <3>1. got = <<>> /\ got' = got
      BY <1>4, <2>1 DEF PutCommand, NextOp, CallInv, ClientInv
    <3> QED
      BY <3>1
  <2>2. CASE NextOp # "write"
    BY <1>2, <1>4, <2>2 DEF PutCommand
  <2> QED
    BY <2>1, <2>2
<1>5. CASE Acknowledged
  <2>1. CASE latchTc.op # "read"
    BY <1>2, <1>5, <2>1 DEF Acknowledged
  <2>2. CASE latchTc.op = "read"
    <3>1. Reading /\ phase = "call" /\ latchRc = latchTc /\ sent' = sent /\ got' = Append(got, latchRd)
      BY <1>5, <2>2 DEF Acknowledged, Reading
    <3>2. Done
      BY <3>1 DEF Done, CallInv, ChainInv, Down
    <3>3. latchRd = [to |-> sent, k |-> Len(got) + 1]
      BY <3>1, <3>2 DEF CallInv, ServiceInv, AnswerInv
    <3>4. latchRd \in ReplyBytes
      BY DEF TypeOK, LatchType
    <3> QED
      BY <1>1, <3>1, <3>3, <3>4
  <2> QED
    BY <2>1, <2>2
<1>6. CASE Link \/ Task
  BY <1>2, <1>6, TiIsLeft DEF ti
<1>7. CASE \/ \E v \in Values : PutData(v)
           \/ EndCall \/ Reset \/ Release \/ UNCHANGED vars
  BY <1>2, <1>7 DEF PutData, EndCall, Reset, Release, vars, ti
<1> QED
  BY <1>3, <1>4, <1>5, <1>6, <1>7 DEF Next, Ti

----------------------------------------------------------------------------
(* The invariant, and what follows from it.                                 *)

\* Every step keeps both parts of the call.
LEMMA ClientStep ==
  ASSUME TypeOK, CallInv, [Next]_vars, phase' = "call"
  PROVE  ClientInv' /\ ServiceInv'
<1>1. CASE BeginCall
  BY <1>1, ClientBegins, ServiceBegins
<1>2. ASSUME NEW v \in Values, PutData(v)
      PROVE  ClientInv' /\ ServiceInv'
  BY <1>2, ClientPutsData, ServicePutsData
<1>3. ASSUME NEW bit \in {0, 1}, PutCommand(bit)
      PROVE  ClientInv' /\ ServiceInv'
  BY <1>3, ClientPuts, ServicePuts
<1>4. CASE Acknowledged
  BY <1>4, ClientTakes, ServiceTakes
<1>5. CASE EndCall \/ Reset \/ Release
  BY <1>5 DEF EndCall, Reset, Release
<1>6. CASE Link \/ Task
  <2>1. phase = "call"
    BY <1>6, TiIsLeft DEF ti
  <2> QED
    BY <1>6, <2>1, ClientKept, ServiceLink, ServiceTask
<1>7. CASE UNCHANGED vars
  <2>1. UNCHANGED <<latches, link, task, service, ti, exec>>
    BY <1>7 DEF vars
  <2> USE DEF latches, link, shifter, arrived, outgoing, resetRegs, task, service, ti
  <2>2. ClientInv /\ ServiceInv
    BY <2>1 DEF CallInv
  <2>3. ClientInv'
    BY <2>1, <2>2 DEF ClientInv, Writing, Reading, Started
  <2>4. (DataInv => DataInv') /\ (AnswerInv => AnswerInv')
    BY <2>1 DEF DataInv, AnswerInv, MovesTd, MovesRc, Acts
  <2>5. ServiceInv'
    BY <2>1, <2>2, <2>4 DEF ServiceInv, Writing, Reading, Done, NextByte
  <2> QED
    BY <2>3, <2>5
<1> QED
  BY <1>1, <1>2, <1>3, <1>4, <1>5, <1>6, <1>7 DEF Next, Ti

\* Out of a call the TI waits for nothing.
LEMMA WaitsInCall ==
  ASSUME TypeOK, CallInv, [Next]_vars, phase' # "call"
  PROVE  ~waiting' /\ ~loaded'
<1>1. CASE Ti
  <2>1. CASE EndCall
    <3>1. ~waiting /\ got # <<>> /\ UNCHANGED <<waiting, loaded>>
      BY <2>1, Lengths DEF EndCall
    <3>2. ~loaded
      BY <2>1, <3>1 DEF EndCall, CallInv, ClientInv
    <3> QED
      BY <3>1, <3>2
  <2>2. CASE Reset \/ Release
    BY <2>2 DEF Reset, Release, CallInv
  <2>3. CASE ~EndCall /\ ~Reset /\ ~Release
    BY <1>1, <2>3 DEF Ti, BeginCall, PutData, PutCommand, Acknowledged
  <2> QED
    BY <2>1, <2>2, <2>3
<1>2. CASE Link \/ Task
  BY <1>2, TiIsLeft DEF ti, CallInv
<1>3. CASE UNCHANGED vars
  BY <1>3 DEF vars, ti, CallInv
<1> QED
  BY <1>1, <1>2, <1>3 DEF Next

\* At first nothing is under way.
LEMMA CallStart == Init => CallInv
<1> SUFFICES ASSUME Init PROVE CallInv
  OBVIOUS
<1>1. Up(NoOp) /\ Down(NoOp) /\ NoOp \in Ops
  BY OpFacts DEF Init, Up, Down, MovesTc, MovesRc, Acts
<1>2. ChainInv
  BY <1>1 DEF Init, ChainInv
<1>3. BlankInv /\ RunInv /\ ResetInv /\ HeldInv
  BY DEF Init, BlankInv, RunInv, ResetInv, HeldInv, Acts, MovesRc
<1>4. SyncInv
  BY DEF Init, SyncInv, NoOp
<1> QED
  BY <1>2, <1>3, <1>4 DEF Init, CallInv, ReplyMatches

\* Every step keeps the invariant.
LEMMA CallStep == TypeOK /\ CallInv /\ [Next]_vars => CallInv'
<1> SUFFICES ASSUME TypeOK, CallInv, [Next]_vars PROVE CallInv'
  OBVIOUS
<1>1. ChainInv' /\ HeldInv' /\ SyncInv' /\ ReplyMatches'
  BY ChainStep, HeldStep, SyncStep, ReplyStep DEF CallInv
<1>2. BlankInv' /\ RunInv' /\ ResetInv'
  BY BlankStep, RunStep, ResetStep DEF CallInv
<1>3. /\ phase' # "call" => ~waiting' /\ ~loaded'
      /\ phase' = "call" => ClientInv' /\ ServiceInv'
      /\ phase' = "reset" => LateInv'
  BY WaitsInCall, ClientStep, LateStep
<1> QED
  BY <1>1, <1>2, <1>3 DEF CallInv

\* The invariant holds in every behaviour of the link.
LEMMA CallKept == Spec => [](TypeOK /\ CallInv)
BY TypeCorrect, CallStart, CallStep, PTL DEF Spec

\* Whatever the link repeats or holds back, and wherever resets cut a call short, what the
\* TI reads is the reply to the message it has sent in this call (peb_tipi.v,
\* spmmio_tipi.v, tipi_task).
THEOREM Replies == Spec => []ReplyMatches
<1>1. TypeOK /\ CallInv => ReplyMatches
  BY DEF CallInv
<1> QED
  BY <1>1, CallKept, PTL

\* The step of the firmware that carries a message out.
LEMMA ByteIsExec ==
  ASSUME TypeOK, CallInv, HandleByte
  PROVE  UNCHANGED exec \/ Call!Exec
<1>1. UNCHANGED <<phase, sent>> /\ pc = "react" /\ st.level /\ st.tc # rc /\ st.tc.op = "write"
  BY DEF HandleByte, ti, NewOp
<1>2. CASE ~(accepting /\ LastOfPacket)
  BY <1>2 DEF HandleByte
<1>3. CASE accepting /\ LastOfPacket
  <2>1. exec' = Append(exec, Append(packet, st.td)) /\ rc # NoOp
    BY <1>1, <1>3 DEF HandleByte, CallInv, BlankInv
  <2>2. st.tc = latchTc /\ rc # latchTc /\ (phase # "reset" => phase = "call" /\ waiting)
    BY <1>1, <2>1, NewOpIs
  <2>3. ~Done /\ latchTc.op = "write"
    BY <1>1, <2>2 DEF Done
  <2>4. exec = <<>> /\ Append(packet, latchTd) = sent /\ DataInv
    <3>1. CASE phase = "reset"
      BY <1>3, <2>3, <3>1 DEF CallInv, LateInv
    <3>2. CASE phase # "reset"
      BY <2>2, <2>3, <3>2 DEF CallInv, ServiceInv, Writing
    <3> QED
      BY <3>1, <3>2
  <2>5. st.td = latchTd
    BY <1>1, <2>2, <2>4 DEF DataInv, Acts
  <2>6. exec' = <<sent>>
    BY <2>1, <2>4, <2>5
  <2>7. Len(sent) = MsgLen
    <3>1. packet \in Seq(Data) /\ latchTd \in Data
      BY DEF TypeOK, TaskType, LatchType
    <3>2. Len(sent) = Len(packet) + 1
      BY <2>4, <3>1, ListFacts
    <3> QED
      BY <1>3, <3>1, <3>2, TipiAssumption DEF LastOfPacket
  <2>8. phase \in {"call", "reset"}
    BY <2>2
  <2> QED
    BY <1>1, <2>4, <2>6, <2>7, <2>8 DEF Call!Exec
<1> QED
  BY <1>2, <1>3

\* The gateware does nothing to the call, and the firmware carries its message out.
LEMMA TaskIsCall ==
  ASSUME TypeOK, CallInv, Link \/ Task
  PROVE  [Call!Next]_(Call!vars)
<1>1. UNCHANGED <<phase, sent>>
  BY TiIsLeft DEF ti
<1>2. CASE HandleByte
  BY <1>1, <1>2, ByteIsExec DEF Call!Next, Call!vars
<1>3. CASE ~HandleByte
  <2>1. UNCHANGED exec
    BY <1>3 DEF Link, Task, Fetch, FetchedTd, FetchedTc, FetchFailed, Sent, SendFailed, Deliver,
                SenseReset, ReadStatus, ClearChanged, TaskReset, NothingNew, Synchronise,
                GiveReply, Echo
  <2> QED
    BY <1>1, <2>1 DEF Call!vars
<1> QED
  BY <1>2, <1>3

\* A byte that the TI puts is one more of the message.
LEMMA PutIsGive ==
  ASSUME TypeOK, CallInv, NEW bit \in {0, 1}, PutCommand(bit)
  PROVE  [Call!Next]_(Call!vars)
<1>1. phase = "call" /\ UNCHANGED <<phase, exec>>
  BY DEF PutCommand
<1>2. CASE NextOp # "write"
  BY <1>1, <1>2 DEF PutCommand, Call!vars
<1>3. CASE NextOp = "write"
  <2>1. latchTd \in Values
    BY <1>1, <1>3 DEF PutCommand, CallInv, ClientInv
  <2>2. Len(sent) < MsgLen /\ sent' = Append(sent, latchTd)
    BY <1>3 DEF PutCommand, NextOp
  <2>3. Call!Give(latchTd)
    BY <1>1, <2>2 DEF Call!Give
  <2> QED
    BY <2>1, <2>3 DEF Call!Next
<1> QED
  BY <1>2, <1>3

\* The TI waits for the reply, and the reply for the message.
LEMMA EndIsReturn ==
  ASSUME TypeOK, CallInv, EndCall
  PROVE  Call!Return
<1>1. /\ phase = "call" /\ phase' = "idle" /\ UNCHANGED <<sent, exec>>
      /\ Len(got) = RepLen /\ ~waiting
  BY DEF EndCall
<1>2. got # <<>>
  BY <1>1, Lengths
<1>3. Len(sent) = MsgLen /\ ~Writing
  BY <1>1, <1>2, Lengths DEF CallInv, ClientInv, Writing
<1>4. exec = <<sent>>
  BY <1>1, <1>3 DEF CallInv, ServiceInv
<1> QED
  BY <1>1, <1>4 DEF Call!Return

\* The latches, the link and the firmware together are a remote call: a message is carried
\* out at most once, whole and unchanged, though a reset cut its call short, and its call does
\* not end before (RemoteCall.tla).
THEOREM LinkImplementsCall == Spec => ImplementsCall
<1>1. Init => Call!Init
  BY DEF Init, Call!Init
<1>2. TypeOK /\ CallInv /\ [Next]_vars => [Call!Next]_(Call!vars)
  <2> SUFFICES ASSUME TypeOK, CallInv, [Next]_vars PROVE [Call!Next]_(Call!vars)
    OBVIOUS
  <2>1. CASE BeginCall
    BY <2>1 DEF BeginCall, Call!Begin, Call!Next
  <2>2. CASE (\E v \in Values : PutData(v)) \/ Acknowledged
    BY <2>2 DEF PutData, Acknowledged, Call!vars
  <2>3. CASE \E bit \in {0, 1} : PutCommand(bit)
    BY <2>3, PutIsGive
  <2>4. CASE EndCall
    BY <2>4, EndIsReturn DEF Call!Next
  <2>5. CASE Reset
    BY <2>5 DEF Reset, Call!Abort, Call!Next
  <2>6. CASE Release
    BY <2>6 DEF Release, Call!Aborted, Call!Next
  <2>7. CASE Link \/ Task
    BY <2>7, TaskIsCall
  <2>8. CASE UNCHANGED vars
    BY <2>8 DEF vars, ti, Call!vars
  <2> QED
    BY <2>1, <2>2, <2>3, <2>4, <2>5, <2>6, <2>7, <2>8 DEF Next, Ti
<1> QED
  BY <1>1, <1>2, CallKept, PTL DEF Spec, ImplementsCall, Call!Spec

----------------------------------------------------------------------------
(* Exchanges.                                                               *)


\* Before its name a PAB has no handler, which keeps Apart when the name comes.
ExchangeInv ==
  /\ Apart
  /\ got_pab /\ ~pab_extra => handler = None

\* No exchange is going on at first.
LEMMA ExchangeStart == FilesInit => ExchangeInv
  BY DEF FilesInit, ExchangeInv, Apart

\* An exchange that is over has no next packet, whatever it leaves behind.
LEMMA WhenOver ==
  ASSUME ~got_pab'
  PROVE  ExchangeInv'
  BY DEF ExchangeInv, Apart

\* Where the answer to a name or to data lets the exchange go on.
LEMMA AfterSave ==
  ASSUME NEW n, SaveFile(n)
  PROVE  \/ ~got_pab'
         \/ Continued /\ save_handle' = Location(n) /\ status' = "SUCCESS"
  BY DEF SaveFile, Over, Answer, Faulty

\* A packet about a file: the name, or what is saved.
LEMMA FileStep ==
  ASSUME ExchangeInv, got_pab, handler = None, NEW pk, OnFile(pk)
  PROVE  ExchangeInv'
<1>1. CASE pab.opcode = "LOAD"
  BY <1>1, WhenOver DEF OnFile, Load, Over
<1>2. CASE pab.opcode = "SAVE" /\ ~pab_extra
  <2>1. SaveFile(pk) /\ named' = Location(pk) /\ handler' = handler
    BY <1>2 DEF OnFile
  <2>2. CASE Continued /\ save_handle' = Location(pk) /\ status' = "SUCCESS"
    BY <1>2, <2>1, <2>2 DEF Continued, ExchangeInv, Apart
  <2> QED
    BY <2>1, <2>2, AfterSave, WhenOver
<1>3. CASE pab.opcode = "SAVE" /\ pab_extra
  <2>1. PICK data : SaveData(data)
    BY <1>3 DEF OnFile
  <2> QED
    BY <2>1, WhenOver DEF SaveData, Over
<1>4. CASE pab.opcode \notin {"LOAD", "SAVE"}
  BY <1>4, WhenOver DEF OnFile, Over
<1> QED
  BY <1>1, <1>2, <1>3, <1>4

\* A packet for a device lets the exchange go on only after the name of CONFIG to be written.
LEMMA SpecialStep ==
  ASSUME NEW h, NEW pk, Special(h, pk)
  PROVE  \/ ~got_pab'
         \/ /\ Continued /\ ~pab_extra /\ pab.opcode = "WRITE" /\ h = "CONFIG"
            /\ status' = "SUCCESS"
<1>1. CASE pab.opcode = "WRITE"
  BY <1>1 DEF Special, Write, Over, Answer
<1>2. CASE pab.opcode # "WRITE"
  BY <1>2 DEF Special, Over
<1> QED
  BY <1>1, <1>2

\* The packet after a PAB, whatever it is (tipi.c:414-493).
LEMMA HandlePabStep ==
  ASSUME ExchangeInv, got_pab, NEW pk, HandlePab(pk)
  PROVE  ExchangeInv'
<1>1. CASE pab_extra /\ handler # None
  <2>1. Special(handler, pk)
    BY <1>1 DEF HandlePab
  <2> QED
    BY <1>1, <2>1, SpecialStep, WhenOver
<1>2. CASE pab_extra /\ handler = None
  <2>1. OnFile(pk)
    BY <1>2 DEF HandlePab
  <2> QED
    BY <1>2, <2>1, FileStep
<1>3. CASE ~pab_extra /\ pk \in [special : Handlers]
  <2>1. /\ Special(pk.special, pk) /\ handler' = pk.special
        /\ named' = <<pk.special>>
    BY <1>3 DEF HandlePab
  <2>2. CASE /\ Continued /\ pab.opcode = "WRITE" /\ pk.special = "CONFIG"
             /\ status' = "SUCCESS"
    BY <2>1, <2>2 DEF Continued, ExchangeInv, Apart
  <2> QED
    BY <2>1, <2>2, SpecialStep, WhenOver
<1>4. CASE ~pab_extra /\ pk \notin [special : Handlers] /\ pk \in FileNames
  <2>1. OnFile(pk) /\ handler = None
    BY <1>4 DEF HandlePab, ExchangeInv
  <2> QED
    BY <2>1, FileStep
<1>5. CASE ~pab_extra /\ pk \notin [special : Handlers] /\ pk \notin FileNames
  BY <1>5, WhenOver DEF HandlePab, Unknown, Over
<1> QED
  BY <1>1, <1>2, <1>3, <1>4, <1>5

\* Every step keeps the exchanges apart.
LEMMA ExchangeStep == ExchangeInv /\ [FilesNext]_fileVars => ExchangeInv'
<1> SUFFICES ASSUME ExchangeInv, [FilesNext]_fileVars
             PROVE  ExchangeInv'
  OBVIOUS
<1>1. ASSUME NEW pk \in Packets, Packet(pk)
      PROVE  ExchangeInv'
  <2>1. CASE got_pab /\ HandlePab(pk)
    BY <2>1, HandlePabStep
  <2>2. CASE TakePab(pk)
    BY <2>2 DEF TakePab, ExchangeInv, Apart
  <2>3. CASE ~got_pab /\ UNCHANGED exchange
    BY <2>3, WhenOver DEF exchange
  <2> QED
    BY <1>1, <2>1, <2>2, <2>3 DEF Packet
<1>2. CASE FilesReset
  BY <1>2, WhenOver DEF FilesReset
<1>3. ASSUME NEW s \in Settings, LoadSettings(s)
      PROVE  ExchangeInv'
  BY <1>3 DEF LoadSettings, exchange, ExchangeInv, Apart
<1>4. CASE UNCHANGED fileVars
  BY <1>4 DEF fileVars, exchange, ExchangeInv, Apart
<1> QED
  BY <1>1, <1>2, <1>3, <1>4 DEF FilesNext

\* tipi_reset and tipi_got_pab leave pab_extra, the handler and the handle of the last
\* exchange in place (tipi.c:495-540): no later one takes them for its own.
THEOREM ExchangesApart == FilesSpec => []Apart
<1>1. ExchangeInv => Apart
  BY DEF ExchangeInv
<1> QED
  BY <1>1, ExchangeStart, ExchangeStep, PTL DEF FilesSpec

----------------------------------------------------------------------------
(* Files.                                                                   *)

\* The card is one file, or none, for each location.
CardInv == card = [f \in Files |-> card[f]]

\* A name that is saved to changes the file of that name.
LEMMA SaveWrites ==
  ASSUME CardInv, NEW n, SaveFile(n)
  PROVE  CardInv' /\ \A f \in Files : card'[f] # card[f] => f = Location(n)
<1>1. card' = card \/ \E file : Put(n, file)
  BY DEF SaveFile
<1>2. ASSUME NEW file, Put(n, file)
      PROVE  CardInv' /\ \A f \in Files : card'[f] # card[f] => f = Location(n)
  BY <1>2 DEF Put, CardInv
<1> QED
  BY <1>1, <1>2 DEF CardInv

\* Data change the file whose handle was kept.
LEMMA DataWrites ==
  ASSUME CardInv, NEW data, SaveData(data)
  PROVE  CardInv' /\ \A f \in Files : card'[f] # card[f] => f = save_handle
<1>1. card' = card \/ \E file : card' = [card EXCEPT ![save_handle] = file]
  BY DEF SaveData
<1>2. ASSUME NEW file, card' = [card EXCEPT ![save_handle] = file]
      PROVE  CardInv' /\ \A f \in Files : card'[f] # card[f] => f = save_handle
  BY <1>2 DEF CardInv
<1> QED
  BY <1>1, <1>2 DEF CardInv

\* Every step changes no file but the one its exchange has named.
LEMMA FilesStep ==
  ExchangeInv /\ CardInv /\ [FilesNext]_fileVars =>
    CardInv' /\ \A f \in Files : card'[f] # card[f] => f = named'
<1> SUFFICES ASSUME ExchangeInv, CardInv, [FilesNext]_fileVars
             PROVE  CardInv' /\ \A f \in Files : card'[f] # card[f] => f = named'
  OBVIOUS
<1> DEFINE Goal == CardInv' /\ \A f \in Files : card'[f] # card[f] => f = named'
<1>1. CASE card' = card
  BY <1>1 DEF CardInv
<1>2. ASSUME NEW pk, got_pab, OnFile(pk), handler = None
      PROVE  Goal
  <2>1. CASE pab.opcode = "LOAD"
    BY <1>1, <1>2, <2>1 DEF OnFile, Load
  <2>2. CASE pab.opcode = "SAVE" /\ ~pab_extra
    BY <1>2, <2>2, SaveWrites DEF OnFile
  <2>3. CASE pab.opcode = "SAVE" /\ pab_extra
    <3>1. PICK data : SaveData(data)
      BY <1>2, <2>3 DEF OnFile
    <3>2. named' = named /\ save_handle = named
      BY <1>2, <2>3 DEF OnFile, ExchangeInv, Apart
    <3> QED
      BY <3>1, <3>2, DataWrites
  <2>4. CASE pab.opcode \notin {"LOAD", "SAVE"}
    BY <1>1, <1>2, <2>4 DEF OnFile, NoFiles
  <2> QED
    BY <2>1, <2>2, <2>3, <2>4
<1>3. ASSUME NEW h, NEW pk, Special(h, pk)
      PROVE  card' = card
  BY <1>3 DEF Special, NoFiles
<1>4. ASSUME NEW pk \in Packets, Packet(pk)
      PROVE  Goal
  <2>1. CASE got_pab /\ HandlePab(pk)
    <3>1. CASE OnFile(pk) /\ handler = None
      BY <1>2, <2>1, <3>1
    <3>2. ASSUME NEW h, Special(h, pk)
          PROVE  Goal
      BY <1>1, <1>3, <3>2
    <3>3. CASE Unknown
      BY <1>1, <3>3 DEF Unknown, NoFiles
    <3> QED
      BY <2>1, <3>1, <3>2, <3>3 DEF HandlePab, ExchangeInv
  <2>2. CASE ~got_pab
    BY <1>1, <1>4, <2>2 DEF Packet
  <2> QED
    BY <1>4, <2>1, <2>2 DEF Packet
<1>5. CASE FilesReset
  BY <1>1, <1>5 DEF FilesReset
<1>6. ASSUME NEW s \in Settings, LoadSettings(s)
      PROVE  Goal
  BY <1>1, <1>6 DEF LoadSettings
<1>7. CASE UNCHANGED fileVars
  BY <1>1, <1>7 DEF fileVars
<1> QED
  BY <1>4, <1>5, <1>6, <1>7 DEF FilesNext

\* Whatever packets and resets come before (tipi.c:414-493), a file changes only under
\* the exchange that has named it.
THEOREM ChangesOnlyNamed == FilesSpec => OnlyNamed
<1>1. FilesInit => CardInv
  BY TipiFilesAssumption DEF FilesInit, CardInv
<1>2. ExchangeInv /\ CardInv /\ [FilesNext]_fileVars =>
        [\A f \in Files : card'[f] # card[f] => f = named']_<<card>>
  BY FilesStep
<1> QED
  BY <1>1, <1>2, ExchangeStart, ExchangeStep, FilesStep, PTL DEF FilesSpec, OnlyNamed

----------------------------------------------------------------------------
(* What was saved.                                                          *)

\* A file that something was saved to is a program and holds that; a failure of a later
\* SAVE takes the promise back.
KeptInv ==
  /\ promised = [f \in Files |-> promised[f]]
  /\ \A f \in Files : \A data \in promised[f] : card[f].kind = "program" /\ card[f].data = data

\* Where neither is touched it stays.
LEMMA KeptRests ==
  ASSUME KeptInv, UNCHANGED <<card, promised>>
  PROVE  KeptInv'
<1>1. card' = card /\ promised' = promised
  OBVIOUS
<1> QED
  BY <1>1 DEF KeptInv

\* A name that is saved to may create the file, never change one that is there.
LEMMA SaveKeeps ==
  ASSUME CardInv, KeptInv, NEW n, SaveFile(n)
  PROVE  KeptInv'
<1>1. promised' = promised
  BY DEF SaveFile
<1>2. CASE card' = card
  BY <1>1, <1>2 DEF KeptInv
<1>3. ASSUME NEW file, Put(n, file), card[Location(n)].kind \in {None, "empty"}
      PROVE  KeptInv'
  <2>1. ASSUME NEW f \in Files, NEW data \in promised[f]
        PROVE  card'[f] = card[f]
    BY <1>3, <2>1 DEF Put, KeptInv, CardInv, None
  <2> QED
    BY <1>1, <2>1 DEF KeptInv
<1>4. card' = card \/ \E file : Put(n, file) /\ card[Location(n)].kind \in {None, "empty"}
  <2>1. CASE Refused(n) = None /\ card[Location(n)].kind \in {None, "empty"}
    <3>1. card' = card \/ \E file : Put(n, file)
      BY DEF SaveFile
    <3> QED
      BY <2>1, <3>1
  <2>2. CASE ~(Refused(n) = None /\ card[Location(n)].kind \in {None, "empty"})
    BY <2>2 DEF SaveFile
  <2> QED
    BY <2>1, <2>2
<1> QED
  BY <1>2, <1>3, <1>4

\* Data make the promise when they are written, or take it back.
LEMMA DataKeeps ==
  ASSUME CardInv, KeptInv, NEW data, SaveData(data)
  PROVE  KeptInv'
<1>1. CASE UNCHANGED <<card, promised>>
  BY <1>1 DEF KeptInv
<1>2. ASSUME card' = [card EXCEPT ![save_handle] = Saved(card[save_handle], data)],
             promised' = [promised EXCEPT ![save_handle] = {data}]
      PROVE  KeptInv'
  BY <1>2 DEF KeptInv, CardInv, Saved, Program
<1>3. ASSUME NEW some, card' = [card EXCEPT ![save_handle].data = some],
             promised' = [promised EXCEPT ![save_handle] = {}]
      PROVE  KeptInv'
  BY <1>3 DEF KeptInv, CardInv
<1> QED
  BY <1>1, <1>2, <1>3 DEF SaveData

\* A LOAD that succeeds answers with the file.
LEMMA LoadAnswers ==
  ASSUME KeptInv, NEW n, Load(n), status' = "SUCCESS", Location(n) \in Files
  PROVE  \A data \in promised[Location(n)] : answer' = Prefix(data, pab.num)
<1>1. ~\E faulty \in {"DEVERR"} : Answer(faulty)
  BY DEF Answer
<1>2. Refused(n) = None
  BY <1>1 DEF Load, Faulty, Answer, Refused, None
<1>3. answer' = Prefix(card[Location(n)].data, pab.num)
  BY <1>1, <1>2 DEF Load, Faulty, Answer, AnswerWith
<1> QED
  BY <1>3 DEF KeptInv

\* What is promised of a LOAD that ends with this step.
Delivers ==
  got_pab /\ ~pab_extra /\ pab.opcode = "LOAD" /\ ~got_pab' /\ status' = "SUCCESS" /\ named' \in Files
    => \A data \in promised[named'] : answer' = Prefix(data, pab.num)

\* A device has no LOAD.
LEMMA SpecialRefuses ==
  ASSUME NEW h, NEW pk, Special(h, pk), pab.opcode = "LOAD"
  PROVE  status' # "SUCCESS"
BY DEF Special, Answer

\* Every step keeps what is promised, and a LOAD delivers it.
LEMMA KeptStep ==
  ExchangeInv /\ CardInv /\ KeptInv /\ [FilesNext]_fileVars => KeptInv' /\ (UNCHANGED fileVars \/ Delivers)
<1> SUFFICES ASSUME ExchangeInv, CardInv, KeptInv, [FilesNext]_fileVars
             PROVE  KeptInv' /\ (UNCHANGED fileVars \/ Delivers)
  OBVIOUS
<1>1. ASSUME UNCHANGED <<card, promised>>
      PROVE  KeptInv'
  BY <1>1, KeptRests
<1>2. ASSUME NEW pk, got_pab, OnFile(pk)
      PROVE  KeptInv' /\ Delivers
  <2>1. CASE pab.opcode = "LOAD"
    <3>1. Load(pk) /\ named' = IF pab_extra THEN named ELSE Location(pk)
      BY <2>1, <1>2 DEF OnFile
    <3>2. UNCHANGED <<card, promised>>
      BY <3>1 DEF Load
    <3>3. Delivers
      BY <3>1, LoadAnswers DEF Delivers
    <3> QED
      BY <1>1, <3>2, <3>3
  <2>2. CASE pab.opcode = "SAVE" /\ ~pab_extra
    BY <1>2, <2>2, SaveKeeps DEF OnFile, Delivers
  <2>3. CASE pab.opcode = "SAVE" /\ pab_extra
    <3>1. PICK data : SaveData(data)
      BY <1>2, <2>3 DEF OnFile
    <3> QED
      BY <2>3, <3>1, DataKeeps DEF Delivers
  <2>4. CASE pab.opcode \notin {"LOAD", "SAVE"}
    BY <1>1, <1>2, <2>4 DEF OnFile, NoFiles, Delivers
  <2> QED
    BY <2>1, <2>2, <2>3, <2>4
<1>3. ASSUME NEW h, NEW pk, Special(h, pk)
      PROVE  UNCHANGED <<card, promised>> /\ Delivers
  BY <1>3, SpecialRefuses DEF Special, NoFiles, Delivers
<1>4. ASSUME NEW pk \in Packets, Packet(pk)
      PROVE  KeptInv' /\ Delivers
  <2>1. CASE got_pab /\ HandlePab(pk)
    <3>1. CASE OnFile(pk)
      BY <1>2, <2>1, <3>1
    <3>2. ASSUME NEW h, Special(h, pk)
          PROVE  KeptInv' /\ Delivers
      BY <1>1, <1>3, <3>2
    <3>3. CASE Unknown
      BY <1>1, <3>3 DEF Unknown, NoFiles, Answer, Delivers
    <3> QED
      BY <2>1, <3>1, <3>2, <3>3 DEF HandlePab
  <2>2. CASE ~got_pab
    BY <1>1, <1>4, <2>2 DEF Packet, Delivers
  <2> QED
    BY <1>4, <2>1, <2>2 DEF Packet
<1>5. CASE FilesReset
  BY <1>1, <1>5 DEF FilesReset, Delivers, None
<1>6. ASSUME NEW s \in Settings, LoadSettings(s)
      PROVE  KeptInv' /\ Delivers
  BY <1>1, <1>6 DEF LoadSettings, exchange, Delivers
<1>7. CASE UNCHANGED fileVars
  BY <1>1, <1>7 DEF fileVars
<1> QED
  BY <1>4, <1>5, <1>6, <1>7 DEF FilesNext

\* A LOAD answers with what the last SAVE has left (tipi.c:437-488), whatever comes between
\* them: packets of any kind, resets, drives given other directories, failures of the card.
THEOREM LoadsWhatWasSaved == FilesSpec => SavedIsLoaded
<1>1. FilesInit => CardInv /\ KeptInv
  BY TipiFilesAssumption DEF FilesInit, CardInv, KeptInv
<1>2. ExchangeInv /\ CardInv /\ KeptInv /\ [FilesNext]_fileVars => [Delivers]_fileVars
  BY KeptStep
<1>3. ExchangeInv /\ CardInv /\ KeptInv /\ [FilesNext]_fileVars => (ExchangeInv /\ CardInv /\ KeptInv)'
  BY ExchangeStep, FilesStep, KeptStep
<1> QED
  BY <1>1, <1>2, <1>3, ExchangeStart, PTL DEF FilesSpec, SavedIsLoaded, Delivers
=============================================================================
