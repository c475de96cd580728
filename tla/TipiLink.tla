------------------------------ MODULE TipiLink ------------------------------
(***************************************************************************)
(* The link between the TIPI card and the service processor. The TI sees   *)
(* four byte latches on the card (peb_tipi.v): TC and TD it writes, RC and *)
(* RD it reads. A serial link (spmmio_tipi.v) goes round and round: it     *)
(* fetches TD and TC, then delivers RD and RC, repeating a byte whose      *)
(* parity is wrong. The firmware (tipi_task in tipi.c) polls what has      *)
(* arrived, serves one operation, and echoes its TC in RC.                 *)
(* A message is a synchronisation, a number of bytes written, and a reply  *)
(* in parts, each read byte by byte after another synchronisation. What a  *)
(* message means to the firmware is left open: its reply names it.         *)
(***************************************************************************)
EXTENDS Integers, Sequences

CONSTANTS
  Values,     \* the bytes of a message
  MsgLen,     \* bytes of a message, its two length bytes included
  RepLen,     \* bytes of a reply, all its parts together
  Heads,      \* the replies' bytes that begin a part
  Noise,      \* whether the parity of a byte may be wrong
  MaxCalls,   \* bound: messages in a behaviour
  MaxResets   \* bound: resets of the TIPI by the TI

ASSUME TipiAssumption ==
  /\ Values \subseteq 1..255
  /\ MsgLen \in Nat /\ MsgLen > 0
  /\ RepLen \in Nat /\ RepLen > 0
  /\ Heads \subseteq 1..RepLen /\ 1 \in Heads
  /\ Noise \in BOOLEAN
  /\ MaxCalls \in Nat /\ MaxResets \in Nat

\* TC and RC: an operation and a bit that tells it from the one before; 0 after a reset.
NoOp == [op |-> "none", bit |-> 0]
Ops == [op : {"none", "sync", "write", "read"}, bit : {0, 1}]

Data == Values \cup {0}

\* RD: the k-th byte of the reply to a message, or 0.
NoByte == [to |-> <<>>, k |-> 0]
ReplyBytes == [to : Seq(Data), k : 0..RepLen]

\* What tipi_task reads at once; at first it has read nothing.
Statuses == [changed : BOOLEAN, level : BOOLEAN, tc : Ops, td : Data]
NoStatus == [changed |-> TRUE, level |-> TRUE, tc |-> [op |-> "none", bit |-> 1], td |-> 0]

VARIABLES
  \* peb_tipi: the latches, and the reset line (false: in reset)
  latchTc, latchTd, latchRc, latchRd, treset,
  \* spmmio_tipi, the shifter: whether it receives, latches, and moves a data byte (TD or RD,
  \* not TC or RC); and the byte in it
  rt, le, dc, shift,
  \* spmmio_tipi: registers
  tcHold, tc, td, rc, rd, rcUpdate, level, changed,
  \* tipi_task: program counter, the status it has read and the last one it reacted to
  pc, st, old,
  \* tipi.c: whether a packet is expected, what has arrived of it; the reply's next byte
  \* (0: no reply) and the message it answers
  accepting, packet, reply, replyTo,
  \* the TI: its call, whether the operation to come is in its part of the message, TD is
  \* loaded, RC is waited for; what it has written and read
  phase, synced, loaded, waiting, sent, got,
  \* history: the messages carried out for this call, whether a reset was noticed; counters
  exec, heard, calls, resets

latches == <<latchTc, latchTd, latchRc, latchRd>>
shifter == <<rt, le, dc, shift>>
arrived == <<tcHold, tc, td>>
outgoing == <<rc, rd, rcUpdate>>
resetRegs == <<level, changed>>
link == <<shifter, arrived, outgoing, resetRegs>>
task == <<pc, st, old>>
service == <<accepting, packet, reply, replyTo>>
ti == <<phase, synced, loaded, waiting, sent, got, calls, resets>>
vars == <<latches, treset, link, task, service, ti, exec, heard>>

Init ==
  /\ latchTc = NoOp /\ latchTd = 0 /\ latchRc = NoOp /\ latchRd = NoByte /\ treset = TRUE
  /\ rt = TRUE /\ le = TRUE /\ dc = TRUE /\ shift = NoOp
  /\ tcHold = NoOp /\ tc = NoOp /\ td = 0
  /\ rc = NoOp /\ rd = NoByte /\ rcUpdate = FALSE
  \* the rise of the reset line when the card is enabled has been sensed
  /\ level = TRUE /\ changed = TRUE
  /\ pc = "poll" /\ st = NoStatus /\ old = NoStatus
  /\ accepting = FALSE /\ packet = <<>> /\ reply = 0 /\ replyTo = <<>>
  /\ phase = "idle" /\ synced = FALSE /\ loaded = FALSE /\ waiting = FALSE
  /\ sent = <<>> /\ got = <<>>
  /\ exec = <<>> /\ heard = FALSE /\ calls = 0 /\ resets = 0

----------------------------------------------------------------------------
(* The TI.                                                                  *)

BeginCall ==
  /\ phase = "idle" /\ calls < MaxCalls
  /\ phase' = "call" /\ calls' = calls + 1
  /\ sent' = <<>> /\ got' = <<>> /\ exec' = <<>> /\ synced' = FALSE
  /\ UNCHANGED <<latches, treset, link, task, service, loaded, waiting, resets, heard>>

NextOp == IF ~synced THEN "sync" ELSE IF Len(sent) < MsgLen THEN "write" ELSE "read"

\* A byte to write goes to TD before its operation goes to TC.
PutData(v) ==
  /\ phase = "call" /\ ~waiting /\ ~loaded /\ NextOp = "write"
  /\ latchTd' = v /\ loaded' = TRUE
  /\ UNCHANGED <<latchTc, latchRc, latchRd, treset, link, task, service, phase, synced, waiting,
                 sent, got, calls, resets, exec, heard>>

\* The operation is one that RC does not echo yet.
PutCommand(bit) ==
  /\ phase = "call" /\ ~waiting /\ Len(got) < RepLen
  /\ NextOp = "write" => loaded
  /\ [op |-> NextOp, bit |-> bit] # latchRc
  /\ latchTc' = [op |-> NextOp, bit |-> bit]
  /\ sent' = IF NextOp = "write" THEN Append(sent, latchTd) ELSE sent
  /\ waiting' = TRUE /\ loaded' = FALSE
  /\ UNCHANGED <<latchTd, latchRc, latchRd, treset, link, task, service, phase, synced, got,
                 calls, resets, exec, heard>>

\* RC echoes TC: the operation is done, and RD is valid if it was a read. A part of the
\* reply, like the message, begins with a synchronisation.
Acknowledged ==
  /\ phase = "call" /\ waiting /\ latchRc = latchTc
  /\ waiting' = FALSE
  /\ got' = IF latchTc.op = "read" THEN Append(got, latchRd) ELSE got
  /\ synced' = CASE latchTc.op = "sync" -> TRUE
                 [] latchTc.op = "write" -> Len(sent) < MsgLen
                 [] OTHER -> Len(got') + 1 \notin Heads
  /\ UNCHANGED <<latches, treset, link, task, service, phase, loaded, sent, calls, resets,
                 exec, heard>>

EndCall ==
  /\ phase = "call" /\ ~waiting /\ Len(got) = RepLen
  /\ phase' = "idle"
  /\ UNCHANGED <<latches, treset, link, task, service, synced, loaded, waiting, sent, got,
                 calls, resets, exec, heard>>

\* The TI gives up whatever it was doing and resets the TIPI. The line moves with CRU
\* instructions, many clocks apart, and is sensed at every clock.
Reset ==
  /\ phase # "reset" /\ resets < MaxResets /\ level = treset
  /\ treset' = FALSE /\ phase' = "reset" /\ resets' = resets + 1
  /\ synced' = FALSE /\ loaded' = FALSE /\ waiting' = FALSE /\ heard' = FALSE
  /\ UNCHANGED <<latches, link, task, service, sent, got, calls, exec>>

\* The reset lasts for a few rounds of the link, and until the firmware has noticed: what
\* was on its way has arrived, and RC is 0.
Settled == /\ heard
           /\ tcHold = latchTc /\ tc = latchTc /\ td = latchTd
           /\ latchRc = NoOp /\ (~rt /\ ~dc => shift = NoOp)

Release ==
  /\ phase = "reset" /\ Settled
  /\ treset' = TRUE /\ phase' = "idle"
  /\ UNCHANGED <<latches, link, task, service, synced, loaded, waiting, sent, got, calls,
                 resets, exec, heard>>

----------------------------------------------------------------------------
(* The serial link.                                                         *)

\* The card's shift register takes TD or TC.
Fetch ==
  /\ rt /\ le
  /\ shift' = IF dc THEN [data |-> latchTd] ELSE latchTc
  /\ le' = FALSE
  /\ UNCHANGED <<latches, treset, rt, dc, arrived, outgoing, resetRegs, task, service, ti, exec,
                 heard>>

\* TD has arrived: it becomes visible together with the TC of the round before, so that
\* TC is never newer than TD.
FetchedTd ==
  /\ rt /\ ~le /\ dc
  /\ td' = shift.data /\ tc' = tcHold /\ tcHold' = tcHold
  /\ dc' = FALSE /\ le' = TRUE
  /\ UNCHANGED <<latches, treset, rt, shift, outgoing, resetRegs, task, service, ti, exec, heard>>

\* (a defect: TC is shown before the TD that goes with it)
ShowTc == tcHold' = shift /\ tc' = shift

HoldTc == tcHold' = shift /\ tc' = tc

\* (a defect: an RC once held back stays so)
KeepHeld == rcUpdate' = rcUpdate

\* An RC that changes from now on is newer than the RD to be sent.
LetGo == rcUpdate' = FALSE

\* TC has arrived, and the link turns round.
FetchedTc ==
  /\ rt /\ ~le /\ ~dc
  /\ HoldTc /\ LetGo
  /\ dc' = TRUE /\ rt' = FALSE /\ shift' = rd
  /\ UNCHANGED <<latches, treset, le, td, rc, rd, resetRegs, task, service, ti, exec, heard>>

FetchFailed ==
  /\ Noise /\ rt /\ ~le
  /\ le' = TRUE
  /\ UNCHANGED <<latches, treset, rt, dc, shift, arrived, outgoing, resetRegs, task, service, ti,
                 exec, heard>>

Sent ==
  /\ ~rt /\ ~le
  /\ le' = TRUE
  /\ UNCHANGED <<latches, treset, rt, dc, shift, arrived, outgoing, resetRegs, task, service, ti,
                 exec, heard>>

TurnRound == rt' = TRUE /\ le' = TRUE /\ dc' = TRUE /\ shift' = shift

\* A byte is sent again as it is now, unless it is an RC newer than the RD sent.
SendFailed ==
  /\ Noise /\ ~rt /\ ~le
  /\ IF ~dc /\ rcUpdate THEN TurnRound
                        ELSE shift' = (IF dc THEN rd ELSE rc) /\ UNCHANGED <<rt, le, dc>>
  /\ UNCHANGED <<latches, treset, arrived, outgoing, resetRegs, task, service, ti, exec, heard>>

\* (a defect: RC is sent although it is newer than the RD sent)
HeldBackNever == ~dc

HeldBack == rcUpdate \/ ~dc

\* The card latches the byte; RC follows RD in the same round, or waits for the next.
Deliver ==
  /\ ~rt /\ le
  /\ latchRd' = IF dc THEN shift ELSE latchRd
  /\ latchRc' = IF dc THEN latchRc ELSE shift
  /\ IF HeldBack THEN TurnRound
                 ELSE dc' = FALSE /\ shift' = rc /\ le' = FALSE /\ rt' = rt
  /\ UNCHANGED <<latchTc, latchTd, treset, arrived, outgoing, resetRegs, task, service, ti, exec,
                 heard>>

SenseReset ==
  /\ treset # level
  /\ level' = treset /\ changed' = TRUE
  /\ UNCHANGED <<latches, treset, shifter, arrived, outgoing, task, service, ti, exec, heard>>

----------------------------------------------------------------------------
(* The firmware: tipi_task, one register access a step.                     *)

Status == [changed |-> changed, level |-> level, tc |-> tc, td |-> td]

ReadStatus ==
  /\ pc = "poll" /\ Status # old
  /\ st' = Status
  /\ pc' = IF changed THEN "clear" ELSE "react"
  /\ UNCHANGED <<latches, treset, link, old, service, ti, exec, heard>>

\* Writing the status back clears the flag, unless the line has moved since it was read.
ClearChanged ==
  /\ pc = "clear"
  /\ changed' = (changed /\ ~(st.level = level /\ st.level = treset))
  /\ st' = [st EXCEPT !.changed = FALSE]
  /\ pc' = "reset"
  /\ UNCHANGED <<latches, treset, shifter, arrived, outgoing, level, old, service, ti, exec, heard>>

ForgetPacket == accepting' = FALSE /\ packet' = <<>> /\ reply' = 0 /\ replyTo' = <<>>

SetRc(op) == rc' = op /\ rcUpdate' = (rcUpdate \/ op # rc)

\* (a defect: the latches keep the last answer)
KeepAnswer == UNCHANGED outgoing

ZeroAnswer == SetRc(NoOp) /\ rd' = NoByte

\* tipi_reset
TaskReset ==
  /\ pc = "reset"
  /\ ZeroAnswer /\ ForgetPacket
  /\ heard' = (heard \/ ~st.level)
  /\ pc' = "react"
  /\ UNCHANGED <<latches, treset, shifter, arrived, resetRegs, st, old, ti, exec>>

NewOp == st.level /\ st.tc # rc

NothingNew ==
  /\ pc = "react" /\ ~NewOp
  /\ old' = st /\ st' = NoStatus
  /\ pc' = "poll"
  /\ UNCHANGED <<latches, treset, link, service, ti, exec, heard>>

Synchronise ==
  /\ pc = "react" /\ NewOp /\ st.tc.op = "sync"
  /\ accepting' = TRUE /\ packet' = <<>>
  /\ reply' = IF reply \in Heads THEN reply ELSE 0
  /\ pc' = "echo"
  /\ UNCHANGED <<latches, treset, link, st, old, replyTo, ti, exec, heard>>

LastOfPacket == Len(packet) = MsgLen - 1

\* tipi_handle_byte: the last byte of a packet carries it out.
HandleByte ==
  /\ pc = "react" /\ NewOp /\ st.tc.op = "write"
  /\ IF ~accepting
     THEN UNCHANGED <<service, exec>>
     ELSE LET whole == LastOfPacket
          IN  /\ packet' = Append(packet, st.td)
              /\ accepting' = ~whole
              /\ reply' = IF whole THEN 1 ELSE reply
              /\ replyTo' = IF whole THEN packet' ELSE replyTo
              /\ exec' = IF whole THEN Append(exec, packet') ELSE exec
  /\ pc' = "echo"
  /\ UNCHANGED <<latches, treset, link, st, old, ti, heard>>

\* tipi_get_reply
GiveReply ==
  /\ pc = "react" /\ NewOp /\ st.tc.op = "read"
  /\ rd' = IF reply = 0 THEN NoByte ELSE [to |-> replyTo, k |-> reply]
  /\ reply' = IF reply = 0 \/ reply = RepLen THEN 0 ELSE reply + 1
  /\ pc' = "echo"
  /\ UNCHANGED <<latches, treset, shifter, arrived, rc, rcUpdate, resetRegs, st, old, accepting,
                 packet, replyTo, ti, exec, heard>>

Echo ==
  /\ pc = "echo"
  /\ SetRc(st.tc)
  /\ old' = st /\ st' = NoStatus
  /\ pc' = "poll"
  /\ UNCHANGED <<latches, treset, shifter, arrived, rd, resetRegs, service, ti, exec, heard>>

----------------------------------------------------------------------------
Ti == \/ BeginCall \/ (\E v \in Values : PutData(v)) \/ (\E bit \in {0, 1} : PutCommand(bit))
      \/ Acknowledged \/ EndCall \/ Reset \/ Release

Link == \/ Fetch \/ FetchedTd \/ FetchedTc \/ FetchFailed \/ Sent \/ SendFailed \/ Deliver
        \/ SenseReset

Task == \/ ReadStatus \/ ClearChanged \/ TaskReset \/ NothingNew \/ Synchronise \/ HandleByte
        \/ GiveReply \/ Echo

Next == Ti \/ Link \/ Task

\* The gateware is clocked, the main loop calls tipi_task again and again, the TI goes on
\* with its call, and parity is not wrong for ever.
Fairness ==
  /\ WF_vars(Fetch) /\ SF_vars(FetchedTd) /\ SF_vars(FetchedTc) /\ SF_vars(Sent) /\ WF_vars(Deliver)
  /\ WF_vars(SenseReset) /\ WF_vars(Task)
  /\ WF_vars((\E v \in Values : PutData(v)) \/ (\E bit \in {0, 1} : PutCommand(bit))
             \/ Acknowledged \/ EndCall \/ Release)

Spec == Init /\ [][Next]_vars
FairSpec == Spec /\ Fairness

----------------------------------------------------------------------------
(* Properties.                                                              *)

LatchType ==
  /\ latchTc \in Ops /\ latchTd \in Data /\ latchRc \in Ops /\ latchRd \in ReplyBytes
  /\ treset \in BOOLEAN

LinkType ==
  /\ rt \in BOOLEAN /\ le \in BOOLEAN /\ dc \in BOOLEAN
  \* the byte in the shifter is of the kind the link moves
  /\ rt /\ ~le => IF dc THEN shift \in [data : Data] ELSE shift \in Ops
  /\ ~rt => IF dc THEN shift \in ReplyBytes ELSE shift \in Ops
  /\ tcHold \in Ops /\ tc \in Ops /\ td \in Data
  /\ rc \in Ops /\ rd \in ReplyBytes /\ rcUpdate \in BOOLEAN
  /\ level \in BOOLEAN /\ changed \in BOOLEAN

TaskType ==
  /\ pc \in {"poll", "clear", "reset", "react", "echo"}
  /\ st \in Statuses /\ old \in Statuses
  /\ accepting \in BOOLEAN /\ packet \in Seq(Data)
  /\ reply \in 0..RepLen /\ replyTo \in Seq(Data)
  \* a packet ends at its length
  /\ accepting => Len(packet) < MsgLen

TiType ==
  /\ phase \in {"idle", "call", "reset"}
  /\ synced \in BOOLEAN /\ loaded \in BOOLEAN /\ waiting \in BOOLEAN
  /\ sent \in Seq(Data) /\ got \in Seq(ReplyBytes)
  /\ exec \in Seq(Seq(Data)) /\ heard \in BOOLEAN
  /\ calls \in 0..MaxCalls /\ resets \in 0..MaxResets

\* Every variable has its type: the byte in the shifter is always of the kind the link is
\* moving, and a packet never grows past its length.
TypeOK == LatchType /\ LinkType /\ TaskType /\ TiType

\* What the TI reads is the reply to the message it has sent in this call, byte by byte and
\* in order, whatever the link repeats and wherever a reset has cut the call before short.
ReplyMatches ==
  \A k \in DOMAIN got : got[k] = [to |-> sent, k |-> k]

\* A call ends, and so does a reset.
CallEnds == phase = "call" ~> phase # "call"
ResetEnds == phase = "reset" ~> phase # "reset"

\* A message is carried out at most once, whole and unchanged, and its call does not end
\* before.
Call == INSTANCE RemoteCall WITH
  phase <- IF phase = "call" THEN "open" ELSE IF phase = "reset" THEN "aborted" ELSE "idle",
  msg <- sent

ImplementsCall == Call!Spec
=============================================================================
