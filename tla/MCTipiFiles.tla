---------------------------- MODULE MCTipiFiles ----------------------------
\* TipiFiles for TLC: a file in the root, or none.
EXTENDS TipiFiles

\* The mode is looked at by the devices only, the number not when they are opened.
MCPabs ==
  [opcode : {"LOAD", "SAVE"}, mode : {"other"}, relative : {FALSE}, num : 0..2] \cup
  [opcode : {"READ"}, mode : {"input"}, relative : {TRUE}, num : 0..1] \cup
  [opcode : {"OPEN"}, mode : Modes, relative : {FALSE}, num : {0}] \cup
  [opcode : {"READ", "WRITE", "STATUS"}, mode : {"input", "append"}, relative : {FALSE}, num : {0}] \cup
  [opcode : {"CLOSE"}, mode : {"input"}, relative : {FALSE}, num : {0}]
MCContents == {<<>>, <<1>>, <<2, 2>>}
MCNumrec == [h \in Handlers |-> IF h = "CONFIG" THEN 2 ELSE 1]
MCStored ==
  {[f \in Files |-> IF f = <<Root, "A">> /\ k # None THEN [kind |-> k, data |-> <<3>>] ELSE Absent] :
     k \in {None, "protected", "program"}}
=============================================================================
