-------------------------- MODULE MCFdcTransfer ---------------------------
(* Small instances of FdcTransfer. *)
EXTENDS FdcTransfer

\* Each byte of a sector the CPU writes differs from its neighbours and from a blank disk.
PositionCoded(i) == {i + 1}

NoHazards == {}
Faults == {"overlap", "motor", "reset", "reboot"}
=============================================================================
