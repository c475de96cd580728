---------------------------- MODULE SectorStore ----------------------------
(***************************************************************************)
(* What a floppy controller promises its driver: an array of sectors, on   *)
(* which one operation at a time is begun, takes effect at most once and   *)
(* at one instant, and ends. FdcTransfer implements this specification.    *)
(***************************************************************************)
CONSTANTS Drives, Blocks, Contents

VARIABLES store,   \* the sectors of every drive
          op,      \* the operation in progress, or Idle
          result   \* what a read has found: {} or one sector, {} again when it ends

Idle == [kind |-> "idle"]
vars == <<store, op, result>>

Op == [kind : {"read", "write", "done"}, drives : SUBSET Drives, block : Blocks \cup {<<>>}]

TypeOK == /\ store \in [Drives -> [Blocks -> Contents]]
          /\ op \in Op \cup {Idle}
          /\ result \in {{}} \cup {{c} : c \in Contents}

Init == /\ store \in [Drives -> [Blocks -> Contents]]
        /\ op = Idle
        /\ result = {}

\* An operation may be aimed at no drive, or at a block outside the disk; it then
\* ends without an effect.
Begin ==
  /\ op = Idle
  /\ op' \in [kind : {"read", "write"}, drives : SUBSET Drives, block : Blocks \cup {<<>>}]
  /\ UNCHANGED <<store, result>>

DoRead ==
  /\ op.kind = "read" /\ op.block \in Blocks
  /\ \E d \in op.drives : result' = {store[d][op.block]}
  /\ op' = [op EXCEPT !.kind = "done"]
  /\ UNCHANGED store

DoWrite ==
  /\ op.kind = "write" /\ op.block \in Blocks
  /\ \E d \in op.drives, c \in Contents :
        store' = [store EXCEPT ![d] = [@ EXCEPT ![op.block] = c]]
  /\ op' = [op EXCEPT !.kind = "done"]
  /\ UNCHANGED result

\* The operation cannot be carried out.
Fail ==
  /\ op.kind \in {"read", "write"}
  /\ op' = [op EXCEPT !.kind = "done"]
  /\ UNCHANGED <<store, result>>

End ==
  /\ op # Idle
  /\ op' = Idle
  /\ result' = {}
  /\ UNCHANGED store

Next == Begin \/ DoRead \/ DoWrite \/ Fail \/ End

Spec == Init /\ [][Next]_vars
=============================================================================
