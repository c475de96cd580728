----------------------------- MODULE RemoteCall -----------------------------
(***************************************************************************)
(* What the TIPI promises its client: a message, given byte by byte, is    *)
(* carried out at most once and whole, a call returns only after its own   *)
(* message was carried out, and an aborted call is over when the client    *)
(* says so. TipiLink implements this specification.                        *)
(***************************************************************************)
EXTENDS Naturals, Sequences

CONSTANTS Values, MsgLen

VARIABLES phase,  \* of the client's call
          msg,    \* the bytes given so far
          exec    \* the messages carried out for this call

vars == <<phase, msg, exec>>

TypeOK == /\ phase \in {"idle", "open", "aborted"}
          /\ msg \in Seq(Values)
          /\ exec \in Seq(Seq(Values))

Init == phase = "idle" /\ msg = <<>> /\ exec = <<>>

Begin == phase = "idle" /\ phase' = "open" /\ msg' = <<>> /\ exec' = <<>>

Give(v) == /\ phase = "open" /\ Len(msg) < MsgLen
           /\ msg' = Append(msg, v)
           /\ UNCHANGED <<phase, exec>>

\* It may be too late to stop the message of an aborted call.
Exec == /\ phase # "idle" /\ exec = <<>> /\ Len(msg) = MsgLen
        /\ exec' = <<msg>>
        /\ UNCHANGED <<phase, msg>>

Return == phase = "open" /\ exec = <<msg>> /\ phase' = "idle" /\ UNCHANGED <<msg, exec>>

Abort == phase' = "aborted" /\ UNCHANGED <<msg, exec>>

Aborted == phase = "aborted" /\ phase' = "idle" /\ UNCHANGED <<msg, exec>>

Next == Begin \/ (\E v \in Values : Give(v)) \/ Exec \/ Return \/ Abort \/ Aborted

Spec == Init /\ [][Next]_vars
=============================================================================
