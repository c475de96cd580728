------------------------- MODULE FdcTransferProofs -------------------------
(***************************************************************************)
(* Theorems about FdcTransfer, for every number of drives, disk geometry,  *)
(* sector length and lead-in.                                              *)
(***************************************************************************)
EXTENDS FdcTransfer, TLAPS

\* The tuples of variables that actions leave unchanged.
USE DEF vars, chip, card, sp, cpu, status, progress, regs, request, drive, task, image, history

\* What may stand in the data register and in a sector.
LEMMA DatumFacts ==
  /\ 0 \in Datum /\ 1 \in Datum /\ Fill \in Datum
  /\ Cyls \subseteq Datum /\ 0..SPS \subseteq Datum
  /\ \A i \in Pos : Byte(i) \subseteq Datum
<1>1. \A i \in Pos : Byte(i) \subseteq Bytes
  <2> TAKE i \in Pos
  <2>1. Byte(i) \in {Byte(j) : j \in Pos}
    OBVIOUS
  <2> QED
    BY <2>1 DEF Bytes
<1> QED
  BY <1>1 DEF Datum

\* A blank sector, and one with a byte replaced, are sector contents.
LEMMA ContentsFacts ==
  /\ [i \in Pos |-> 0] \in Contents /\ [i \in Pos |-> Fill] \in Contents
  /\ \A c \in Contents, i \in Pos, v \in Datum : [c EXCEPT ![i] = v] \in Contents
  /\ \A c \in Contents, i \in Pos : c[i] \in Datum
  BY DatumFacts DEF Contents

\* The histories of bytes start empty and grow by one byte.
LEMMA HistoryFacts ==
  /\ <<>> \in Seq(Datum)
  /\ \A h \in Seq(Datum), v \in Datum : Append(h, v) \in Seq(Datum)
  OBVIOUS

\* The block fdc_task computes for an accepted track and sector is one of the image.
LEMMA BlockInImage ==
  ASSUME NEW t, NEW s \in Nat, OnDisk(t, s)
  PROVE  Block(t, s) \in Blocks
  BY FdcAssumption DEF OnDisk, Block, Blocks

\* Init has every variable in its type.
LEMMA InitType == Init => TypeOK
<1> SUFFICES ASSUME Init PROVE TypeOK
  OBVIOUS
<1>1. StatusType
  BY DEF Init, StatusType, Commands
<1>2. ProgressType
  BY FdcAssumption, DatumFacts DEF Init, ProgressType
<1>3. CardType
  <2>1. buf \in Contents
    BY ContentsFacts DEF Init
  <2>2. 0 \in Cyls /\ 0 \in 0..SPS
    BY FdcAssumption
  <2> QED
    BY <2>1, <2>2 DEF Init, CardType
<1>4. TaskType
  BY FdcAssumption, DatumFacts, ContentsFacts DEF Init, TaskType
<1>5. ImageType
  BY FdcAssumption, DatumFacts, ContentsFacts DEF Init, ImageType
<1>6. CpuType
  BY HistoryFacts DEF Init, CpuType
<1> QED
  BY <1>1, <1>2, <1>3, <1>4, <1>5, <1>6 DEF TypeOK

\* An access of the CPU keeps every variable's type.
LEMMA CpuStepType == TypeOK /\ Cpu => TypeOK'
<1> SUFFICES ASSUME TypeOK PROVE Cpu => TypeOK'
  OBVIOUS
<1>1. ASSUME NEW c \in Issued, Command(c) PROVE TypeOK'
  <2>1. StatusType'
    BY <1>1, FdcAssumption, DatumFacts DEF TypeOK, StatusType, Command, CpuFree, Commands, TypeII
  <2>2. ProgressType'
    BY <1>1, FdcAssumption, DatumFacts DEF TypeOK, ProgressType, Command, CpuFree, Commands, TypeII, StatusType
  <2>3. CpuType'
    BY <1>1, FdcAssumption, DatumFacts DEF TypeOK, CpuType, Command, CpuFree, Commands, TypeII
  <2>4. CardType' /\ TaskType' /\ ImageType'
    BY <1>1 DEF TypeOK, CardType, TaskType, ImageType, Command, CpuFree, Commands, TypeII
  <2> QED
    BY <2>1, <2>2, <2>3, <2>4 DEF TypeOK
<1>2. ASSUME NEW s \in Sectors, WriteSectorReg(s) PROVE TypeOK'
  <2>1. ProgressType'
    BY <1>2 DEF TypeOK, ProgressType, WriteSectorReg, StatusType
  <2>2. StatusType' /\ CardType' /\ TaskType' /\ ImageType' /\ CpuType'
    BY <1>2 DEF TypeOK, StatusType, CardType, TaskType, ImageType, CpuType, WriteSectorReg
  <2> QED
    BY <2>1, <2>2 DEF TypeOK
<1>3. ASSUME NEW D \in SUBSET Drives, NEW s \in Sides, SelectDrive(D, s) PROVE TypeOK'
  <2>1. CardType'
    BY <1>3, FdcAssumption DEF TypeOK, CardType, SelectDrive
  <2>2. StatusType' /\ ProgressType' /\ TaskType' /\ ImageType' /\ CpuType'
    BY <1>3 DEF TypeOK, StatusType, ProgressType, TaskType, ImageType, CpuType, SelectDrive
  <2> QED
    BY <2>1, <2>2 DEF TypeOK
<1>4. ASSUME MotorOn PROVE TypeOK'
  <2>1. StatusType'
    BY <1>4 DEF TypeOK, StatusType, MotorOn, ForcedIrq
  <2>2. CardType'
    BY <1>4 DEF TypeOK, CardType, MotorOn, ForcedIrq
  <2>3. ProgressType' /\ TaskType' /\ ImageType' /\ CpuType'
    BY <1>4 DEF TypeOK, ProgressType, TaskType, ImageType, CpuType, MotorOn, ForcedIrq
  <2> QED
    BY <2>1, <2>2, <2>3 DEF TypeOK
<1>5. ASSUME ReadStatus PROVE TypeOK'
  <2>1. StatusType'
    BY <1>5 DEF TypeOK, StatusType, ReadStatus
  <2>2. ProgressType' /\ CardType' /\ TaskType' /\ ImageType' /\ CpuType'
    BY <1>5 DEF TypeOK, ProgressType, CardType, TaskType, ImageType, CpuType, ReadStatus
  <2> QED
    BY <2>1, <2>2 DEF TypeOK
<1>6. ASSUME StartAccess PROVE TypeOK'
  <2>1. CpuType'
    BY <1>6 DEF TypeOK, CpuType, StartAccess
  <2>2. StatusType' /\ ProgressType' /\ CardType' /\ TaskType' /\ ImageType'
    BY <1>6 DEF TypeOK, StatusType, ProgressType, CardType, TaskType, ImageType, StartAccess
  <2> QED
    BY <2>1, <2>2 DEF TypeOK
<1>7. ASSUME TakeByte PROVE TypeOK'
  <2>1. StatusType'
    BY <1>7, HistoryFacts DEF TypeOK, StatusType, TakeByte, ProgressType
  <2>2. CpuType'
    BY <1>7, HistoryFacts DEF TypeOK, CpuType, TakeByte, ProgressType
  <2>3. ProgressType' /\ CardType' /\ TaskType' /\ ImageType'
    BY <1>7 DEF TypeOK, ProgressType, CardType, TaskType, ImageType, TakeByte
  <2> QED
    BY <2>1, <2>2, <2>3 DEF TypeOK
<1>8. ASSUME NEW v \in Datum, GiveByte(v) PROVE TypeOK'
  <2>1. StatusType'
    BY <1>8, HistoryFacts DEF TypeOK, StatusType, GiveByte
  <2>2. ProgressType'
    BY <1>8, HistoryFacts DEF TypeOK, ProgressType, GiveByte, StatusType
  <2>3. CpuType'
    BY <1>8, HistoryFacts DEF TypeOK, CpuType, GiveByte
  <2>4. CardType' /\ TaskType' /\ ImageType'
    BY <1>8 DEF TypeOK, CardType, TaskType, ImageType, GiveByte
  <2> QED
    BY <2>1, <2>2, <2>3, <2>4 DEF TypeOK
<1>9. ASSUME MenuReset PROVE TypeOK'
  <2>1. StatusType'
    BY <1>9, FdcAssumption, HistoryFacts, DatumFacts DEF TypeOK, StatusType, MenuReset, BoxReset, Commands
  <2>2. ProgressType'
    BY <1>9, FdcAssumption, HistoryFacts, DatumFacts DEF TypeOK, ProgressType, MenuReset, BoxReset, Commands, StatusType
  <2>3. CardType'
    BY <1>9, FdcAssumption, HistoryFacts, DatumFacts DEF TypeOK, CardType, MenuReset, BoxReset, Commands
  <2>4. CpuType'
    BY <1>9, FdcAssumption, HistoryFacts, DatumFacts DEF TypeOK, CpuType, MenuReset, BoxReset, Commands
  <2>5. TaskType' /\ ImageType'
    BY <1>9 DEF TypeOK, TaskType, ImageType, MenuReset, BoxReset, Commands
  <2> QED
    BY <2>1, <2>2, <2>3, <2>4, <2>5 DEF TypeOK
<1>10. ASSUME Reboot PROVE TypeOK'
  <2>1. StatusType'
    BY <1>10, FdcAssumption, HistoryFacts, ContentsFacts, DatumFacts DEF TypeOK, StatusType, Reboot, BoxReset, Goto, Locals, Commands
  <2>2. ProgressType'
    BY <1>10, FdcAssumption, HistoryFacts, ContentsFacts, DatumFacts DEF TypeOK, ProgressType, Reboot, BoxReset, Goto, Locals, Commands, StatusType
  <2>3. CardType'
    BY <1>10, FdcAssumption, HistoryFacts, ContentsFacts, DatumFacts DEF TypeOK, CardType, Reboot, BoxReset, Goto, Locals, Commands
  <2>4. TaskType'
    BY <1>10, FdcAssumption, HistoryFacts, ContentsFacts, DatumFacts DEF TypeOK, TaskType, Reboot, BoxReset, Goto, Locals, Commands
  <2>5. ImageType'
    BY <1>10, FdcAssumption, HistoryFacts, ContentsFacts, DatumFacts DEF TypeOK, ImageType, Reboot, BoxReset, Goto, Locals, Commands
  <2>6. CpuType'
    BY <1>10, FdcAssumption, HistoryFacts, ContentsFacts, DatumFacts DEF TypeOK, CpuType, Reboot, BoxReset, Goto, Locals, Commands
  <2> QED
    BY <2>1, <2>2, <2>3, <2>4, <2>5, <2>6 DEF TypeOK
<1>11. \A v \in Byte(Len(sent) % SectorLen) : v \in Datum
  <2>1. Len(sent) % SectorLen \in Pos
    BY FdcAssumption DEF Pos, TypeOK, CpuType
  <2> QED
    BY <2>1, DatumFacts
<1>12. {{}} \cup {{d} : d \in Drives} \subseteq SUBSET Drives
  OBVIOUS
<1> QED
  BY <1>1, <1>2, <1>3, <1>4, <1>5, <1>6, <1>7, <1>8, <1>9, <1>10, <1>11, <1>12 DEF Cpu

\* A step of the chip or the drive keeps every variable's type.
LEMMA ChipStepType == TypeOK /\ Chip => TypeOK'
<1> SUFFICES ASSUME TypeOK PROVE Chip => TypeOK'
  OBVIOUS
<1>1. ASSUME MotorOff PROVE TypeOK'
  <2>1. StatusType'
    BY <1>1 DEF TypeOK, StatusType, MotorOff, ForcedIrq
  <2>2. CardType'
    BY <1>1 DEF TypeOK, CardType, MotorOff, ForcedIrq
  <2>3. ProgressType' /\ TaskType' /\ ImageType' /\ CpuType'
    BY <1>1 DEF TypeOK, ProgressType, TaskType, ImageType, CpuType, MotorOff, ForcedIrq
  <2> QED
    BY <2>1, <2>2, <2>3 DEF TypeOK
<1>2. ASSUME Rotate PROVE TypeOK'
  <2>1. StatusType'
    BY <1>2, FdcAssumption DEF TypeOK, StatusType, Rotate, LastRevolution, ForcedIrq
  <2>2. ProgressType'
    BY <1>2, FdcAssumption DEF TypeOK, ProgressType, Rotate, LastRevolution, ForcedIrq, StatusType
  <2>3. CardType'
    BY <1>2, FdcAssumption DEF TypeOK, CardType, Rotate, LastRevolution, ForcedIrq
  <2>4. TaskType' /\ ImageType' /\ CpuType'
    BY <1>2 DEF TypeOK, TaskType, ImageType, CpuType, Rotate, LastRevolution, ForcedIrq
  <2> QED
    BY <2>1, <2>2, <2>3, <2>4 DEF TypeOK
<1>3. ASSUME ReadByteClk PROVE TypeOK'
  <2>1. StatusType'
    BY <1>3, FdcAssumption, ContentsFacts DEF TypeOK, StatusType, ReadByteClk, ByteToCpu, ByteClock, CardType, Pos
  <2>2. ProgressType'
    <3>1. lead' \in 0..Lead
      BY <1>3, FdcAssumption DEF TypeOK, ProgressType, ReadByteClk, ByteToCpu, ByteClock
    <3>2. CASE lead > 0 \/ ~complete
      BY <1>3, <3>1, <3>2 DEF TypeOK, ProgressType, ReadByteClk, ByteToCpu, ByteClock
    <3>3. CASE ~(lead > 0 \/ ~complete) /\ enabled /\ pos = SectorLen
      BY <1>3, <3>1, <3>3 DEF TypeOK, ProgressType, ReadByteClk, ByteToCpu, ByteClock
    <3>4. CASE ~(lead > 0 \/ ~complete) /\ ~(enabled /\ pos = SectorLen)
      <4>1. pos \in Pos /\ buf[pos] \in Datum
        BY <1>3, <3>4, FdcAssumption, ContentsFacts
          DEF TypeOK, ProgressType, CardType, Pos, ReadByteClk, ByteToCpu, ByteClock
      <4>2. dataReg' = (IF enabled THEN prev ELSE dataReg) /\ pos' = pos + 1 /\ enabled' = TRUE
        BY <1>3, <3>4 DEF ReadByteClk, ByteToCpu, ByteClock
      <4>3. prev' = buf[pos]
        BY <1>3, <3>4 DEF ReadByteClk, ByteToCpu, ByteClock
      <4>4. UNCHANGED <<cmd, busy, revs, sectorReg>> /\ cmd = "read"
        BY <1>3, <3>4 DEF ReadByteClk, ByteToCpu, ByteClock
      <4> QED
        BY <3>1, <3>4, <4>1, <4>2, <4>3, <4>4, FdcAssumption DEF TypeOK, ProgressType, Pos
    <3> QED
      BY <3>2, <3>3, <3>4
  <2>3. CardType' /\ TaskType' /\ ImageType' /\ CpuType'
    BY <1>3 DEF TypeOK, CardType, TaskType, ImageType, CpuType, ReadByteClk, ByteToCpu, ByteClock, Pos
  <2> QED
    BY <2>1, <2>2, <2>3 DEF TypeOK
<1>4. ASSUME IdByteClk PROVE TypeOK'
  <2>1. StatusType'
    BY <1>4, FdcAssumption, DatumFacts DEF TypeOK, StatusType, IdByteClk, ByteToCpu, ByteClock, HeaderByte, CardType
  <2>2. ProgressType'
    <3>1. lead' \in 0..Lead
      BY <1>4, FdcAssumption DEF TypeOK, ProgressType, IdByteClk, ByteToCpu, ByteClock
    <3>2. CASE lead > 0 \/ ~found
      BY <1>4, <3>1, <3>2 DEF TypeOK, ProgressType, IdByteClk, ByteToCpu, ByteClock
    <3>3. CASE ~(lead > 0 \/ ~found) /\ enabled /\ pos = HeaderLen
      BY <1>4, <3>1, <3>3 DEF TypeOK, ProgressType, IdByteClk, ByteToCpu, ByteClock
    <3>4. CASE ~(lead > 0 \/ ~found) /\ ~(enabled /\ pos = HeaderLen)
      <4>1. HeaderByte(pos) \in Datum
        BY FdcAssumption, DatumFacts DEF TypeOK, CardType, HeaderByte
      <4>2. dataReg' = (IF enabled THEN prev ELSE dataReg) /\ pos' = pos + 1 /\ enabled' = TRUE
        BY <1>4, <3>4 DEF IdByteClk, ByteToCpu, ByteClock
      <4>3. prev' = HeaderByte(pos)
        BY <1>4, <3>4 DEF IdByteClk, ByteToCpu, ByteClock
      <4>4. UNCHANGED <<cmd, busy, revs, sectorReg>> /\ cmd = "readid"
        BY <1>4, <3>4 DEF IdByteClk, ByteToCpu, ByteClock
      <4> QED
        BY <3>1, <3>4, <4>1, <4>2, <4>3, <4>4, FdcAssumption DEF TypeOK, ProgressType
    <3> QED
      BY <3>2, <3>3, <3>4
  <2>3. CardType' /\ TaskType' /\ ImageType' /\ CpuType'
    BY <1>4 DEF TypeOK, CardType, TaskType, ImageType, CpuType, IdByteClk, ByteToCpu, ByteClock, HeaderByte
  <2> QED
    BY <2>1, <2>2, <2>3 DEF TypeOK
<1>5. ASSUME WriteByteClk PROVE TypeOK'
  <2>1. StatusType'
    BY <1>5, FdcAssumption, ContentsFacts DEF TypeOK, StatusType, WriteByteClk, ByteClock, LastByte, ProgressType, Pos
  <2>2. ProgressType'
    BY <1>5, FdcAssumption, ContentsFacts DEF TypeOK, ProgressType, WriteByteClk, ByteClock, LastByte, Pos, StatusType
  <2>3. CardType'
    BY <1>5, FdcAssumption, ContentsFacts DEF TypeOK, CardType, WriteByteClk, ByteClock, LastByte, ProgressType, Pos
  <2>4. TaskType' /\ ImageType' /\ CpuType'
    BY <1>5 DEF TypeOK, TaskType, ImageType, CpuType, WriteByteClk, ByteClock, LastByte, ProgressType, Pos
  <2> QED
    BY <2>1, <2>2, <2>3, <2>4 DEF TypeOK
<1>6. ASSUME Request PROVE TypeOK'
  <2>1. StatusType'
    BY <1>6 DEF TypeOK, StatusType, Request, WantsTransfer, TypeII
  <2>2. CardType'
    BY <1>6 DEF TypeOK, CardType, Request, WantsTransfer, TypeII
  <2>3. ProgressType' /\ TaskType' /\ ImageType' /\ CpuType'
    BY <1>6 DEF TypeOK, ProgressType, TaskType, ImageType, CpuType, Request, WantsTransfer, TypeII
  <2> QED
    BY <2>1, <2>2, <2>3 DEF TypeOK
<1>7. ASSUME WriteEnds PROVE TypeOK'
  <2>1. StatusType'
    BY <1>7 DEF TypeOK, StatusType, WriteEnds
  <2>2. ProgressType' /\ CardType' /\ TaskType' /\ ImageType' /\ CpuType'
    BY <1>7 DEF TypeOK, ProgressType, CardType, TaskType, ImageType, CpuType, WriteEnds
  <2> QED
    BY <2>1, <2>2 DEF TypeOK
<1>8. ASSUME EndTypeI PROVE TypeOK'
  <2>1. StatusType'
    BY <1>8 DEF TypeOK, StatusType, EndTypeI
  <2>2. CardType'
    BY <1>8 DEF TypeOK, CardType, EndTypeI
  <2>3. ProgressType' /\ TaskType' /\ ImageType' /\ CpuType'
    BY <1>8 DEF TypeOK, ProgressType, TaskType, ImageType, CpuType, EndTypeI
  <2> QED
    BY <2>1, <2>2, <2>3 DEF TypeOK
<1> QED
  BY <1>1, <1>2, <1>3, <1>4, <1>5, <1>6, <1>7, <1>8 DEF Chip, ByteClk, ChipStep

\* A step of fdc_task keeps every variable's type.
LEMMA TaskStepType == TypeOK /\ TaskStep => TypeOK'
<1> SUFFICES ASSUME TypeOK PROVE TaskStep => TypeOK'
  OBVIOUS
<1>1. ASSUME Poll PROVE TypeOK'
  <2>1. TaskType'
    BY <1>1 DEF TypeOK, TaskType, Poll, Requested, Goto, CardType
  <2>2. StatusType' /\ ProgressType' /\ CardType' /\ ImageType' /\ CpuType'
    BY <1>1 DEF TypeOK, StatusType, ProgressType, CardType, ImageType, CpuType, Poll, Requested, Goto
  <2> QED
    BY <2>1, <2>2 DEF TypeOK
<1>2. ASSUME ReadTrackSide PROVE TypeOK'
  <2>1. TaskType'
    BY <1>2, FdcAssumption DEF TypeOK, TaskType, ReadTrackSide, TrackSide, Goto, CardType
  <2>2. StatusType' /\ ProgressType' /\ CardType' /\ ImageType' /\ CpuType'
    BY <1>2 DEF TypeOK, StatusType, ProgressType, CardType, ImageType, CpuType, ReadTrackSide, TrackSide, Goto
  <2> QED
    BY <2>1, <2>2 DEF TypeOK
<1>3. ASSUME ReadSectorReg PROVE TypeOK'
  <2>1. TaskType'
    BY <1>3 DEF TypeOK, TaskType, ReadSectorReg, Goto, ProgressType
  <2>2. StatusType' /\ ProgressType' /\ CardType' /\ ImageType' /\ CpuType'
    BY <1>3 DEF TypeOK, StatusType, ProgressType, CardType, ImageType, CpuType, ReadSectorReg, Goto
  <2> QED
    BY <2>1, <2>2 DEF TypeOK
<1>4. ASSUME AckHigh PROVE TypeOK'
  <2>1. CardType'
    BY <1>4, FdcAssumption DEF TypeOK, CardType, AckHigh, ClearRequests, Goto
  <2>2. TaskType'
    BY <1>4, FdcAssumption DEF TypeOK, TaskType, AckHigh, ClearRequests, Goto
  <2>3. StatusType' /\ ProgressType' /\ ImageType' /\ CpuType'
    BY <1>4 DEF TypeOK, StatusType, ProgressType, ImageType, CpuType, AckHigh, ClearRequests, Goto
  <2> QED
    BY <2>1, <2>2, <2>3 DEF TypeOK
<1>5. ASSUME SkipDrive PROVE TypeOK'
  <2>1. TaskType'
    BY <1>5, FdcAssumption DEF TypeOK, TaskType, SkipDrive, Drives
  <2>2. CpuType'
    BY <1>5, FdcAssumption DEF TypeOK, CpuType, SkipDrive, Drives
  <2>3. StatusType' /\ ProgressType' /\ CardType' /\ ImageType'
    BY <1>5 DEF TypeOK, StatusType, ProgressType, CardType, ImageType, SkipDrive, Drives
  <2> QED
    BY <2>1, <2>2, <2>3 DEF TypeOK
<1>6. ASSUME TakeDrive PROVE TypeOK'
  <2>1. TaskType'
    BY <1>6, FdcAssumption DEF TypeOK, TaskType, TakeDrive, Goto
  <2>2. StatusType' /\ ProgressType' /\ CardType' /\ ImageType' /\ CpuType'
    BY <1>6 DEF TypeOK, StatusType, ProgressType, CardType, ImageType, CpuType, TakeDrive, Goto
  <2> QED
    BY <2>1, <2>2 DEF TypeOK
<1>7. ASSUME CopyOut PROVE TypeOK'
  <2>1. TaskType'
    <3>1. stage' \in Contents
      <4>1. idx \in Pos
        BY <1>7, FdcAssumption DEF TypeOK, TaskType, CopyOut, Pos
      <4> QED
        BY <1>7, <4>1, ContentsFacts DEF TypeOK, TaskType, CardType, CopyOut
    <3> QED
      BY <1>7, <3>1, FdcAssumption DEF TypeOK, TaskType, CopyOut, Writing
  <2>2. StatusType' /\ ProgressType' /\ CardType' /\ ImageType' /\ CpuType'
    BY <1>7 DEF TypeOK, StatusType, ProgressType, CardType, ImageType, CpuType, CopyOut, Writing, Pos
  <2> QED
    BY <2>1, <2>2 DEF TypeOK
<1>8. ASSUME CommitWrite PROVE TypeOK'
  <2>1. TaskType'
    BY <1>8, FdcAssumption, BlockInImage DEF TypeOK, TaskType, CommitWrite, Writing, Goto
  <2>2. ImageType'
    BY <1>8, FdcAssumption, BlockInImage DEF TypeOK, ImageType, CommitWrite, Writing, Goto, TaskType
  <2>3. CpuType'
    BY <1>8, FdcAssumption, BlockInImage DEF TypeOK, CpuType, CommitWrite, Writing, Goto, TaskType
  <2>4. StatusType' /\ ProgressType' /\ CardType'
    BY <1>8 DEF TypeOK, StatusType, ProgressType, CardType, CommitWrite, Writing, Goto, TaskType
  <2> QED
    BY <2>1, <2>2, <2>3, <2>4 DEF TypeOK
<1>9. ASSUME FailWrite PROVE TypeOK'
  <2>1. TaskType'
    BY <1>9 DEF TypeOK, TaskType, FailWrite, Writing, Goto
  <2>2. CpuType'
    BY <1>9 DEF TypeOK, CpuType, FailWrite, Writing, Goto
  <2>3. StatusType' /\ ProgressType' /\ CardType' /\ ImageType'
    BY <1>9 DEF TypeOK, StatusType, ProgressType, CardType, ImageType, FailWrite, Writing, Goto
  <2> QED
    BY <2>1, <2>2, <2>3 DEF TypeOK
<1>10. ASSUME NoWrite PROVE TypeOK'
  <2>1. TaskType'
    BY <1>10 DEF TypeOK, TaskType, NoWrite, Goto
  <2>2. CpuType'
    BY <1>10 DEF TypeOK, CpuType, NoWrite, Goto
  <2>3. StatusType' /\ ProgressType' /\ CardType' /\ ImageType'
    BY <1>10 DEF TypeOK, StatusType, ProgressType, CardType, ImageType, NoWrite, Goto
  <2> QED
    BY <2>1, <2>2, <2>3 DEF TypeOK
<1>11. ASSUME FillBuffer PROVE TypeOK'
  <2>1. CardType'
    BY <1>11, FdcAssumption, DatumFacts, ContentsFacts DEF TypeOK, CardType, FillBuffer, Goto
  <2>2. TaskType'
    BY <1>11, FdcAssumption, DatumFacts, ContentsFacts DEF TypeOK, TaskType, FillBuffer, Goto
  <2>3. StatusType' /\ ProgressType' /\ ImageType' /\ CpuType'
    BY <1>11 DEF TypeOK, StatusType, ProgressType, ImageType, CpuType, FillBuffer, Goto
  <2> QED
    BY <2>1, <2>2, <2>3 DEF TypeOK
<1>12. ASSUME NoRead PROVE TypeOK'
  <2>1. TaskType'
    BY <1>12, FdcAssumption DEF TypeOK, TaskType, NoRead, Goto, Drives
  <2>2. StatusType' /\ ProgressType' /\ CardType' /\ ImageType' /\ CpuType'
    BY <1>12 DEF TypeOK, StatusType, ProgressType, CardType, ImageType, CpuType, NoRead, Goto, Drives
  <2> QED
    BY <2>1, <2>2 DEF TypeOK
<1>13. ASSUME CopyIn PROVE TypeOK'
  <2>1. CardType'
    <3>1. disk[drv][Block(ts, sec)] \in Contents
      BY <1>13, FdcAssumption, BlockInImage DEF TypeOK, TaskType, ImageType, CopyIn
    <3>2. idx \in Pos
      BY <1>13, FdcAssumption DEF TypeOK, TaskType, CopyIn, Pos
    <3>3. buf' \in Contents
      BY <1>13, <3>1, <3>2, ContentsFacts DEF TypeOK, CardType, CopyIn
    <3> QED
      BY <1>13, <3>3 DEF TypeOK, CardType, CopyIn
  <2>2. TaskType'
    BY <1>13, FdcAssumption, ContentsFacts, BlockInImage DEF TypeOK, TaskType, CopyIn, ImageType, Pos
  <2>3. StatusType' /\ ProgressType' /\ ImageType' /\ CpuType'
    BY <1>13 DEF TypeOK, StatusType, ProgressType, ImageType, CpuType, CopyIn, TaskType, Pos
  <2> QED
    BY <2>1, <2>2, <2>3 DEF TypeOK
<1>14. ASSUME NEW how \in {"ok", "failed"}, EndRead(how) PROVE TypeOK'
  <2>1. TaskType'
    BY <1>14, FdcAssumption DEF TypeOK, TaskType, EndRead, Goto, Drives
  <2>2. CpuType'
    BY <1>14, FdcAssumption DEF TypeOK, CpuType, EndRead, Goto, Drives
  <2>3. StatusType' /\ ProgressType' /\ CardType' /\ ImageType'
    BY <1>14 DEF TypeOK, StatusType, ProgressType, CardType, ImageType, EndRead, Goto, Drives
  <2> QED
    BY <2>1, <2>2, <2>3 DEF TypeOK
<1>15. ASSUME AckLow PROVE TypeOK'
  <2>1. StatusType'
    BY <1>15, FdcAssumption, DatumFacts, ContentsFacts DEF TypeOK, StatusType, AckLow, Complete, Goto, Locals
  <2>2. CardType'
    BY <1>15, FdcAssumption, DatumFacts, ContentsFacts DEF TypeOK, CardType, AckLow, Complete, Goto, Locals
  <2>3. TaskType'
    BY <1>15, FdcAssumption, DatumFacts, ContentsFacts DEF TypeOK, TaskType, AckLow, Complete, Goto, Locals
  <2>4. ProgressType' /\ ImageType' /\ CpuType'
    BY <1>15 DEF TypeOK, ProgressType, ImageType, CpuType, AckLow, Complete, Goto, Locals
  <2> QED
    BY <2>1, <2>2, <2>3, <2>4 DEF TypeOK
<1> QED
  BY <1>1, <1>2, <1>3, <1>4, <1>5, <1>6, <1>7, <1>8, <1>9, <1>10, <1>11, <1>12, <1>13, <1>14, <1>15 DEF TaskStep

\* Mounting and unmounting keep every variable's type.
LEMMA MenuStepType == TypeOK /\ Menu => TypeOK'
<1> SUFFICES ASSUME TypeOK PROVE Menu => TypeOK'
  OBVIOUS
<1>1. ASSUME NEW d \in Drives, Unmount(d) PROVE TypeOK'
  <2>1. ImageType'
    BY <1>1 DEF TypeOK, ImageType, Unmount
  <2>2. StatusType' /\ ProgressType' /\ CardType' /\ TaskType' /\ CpuType'
    BY <1>1 DEF TypeOK, StatusType, ProgressType, CardType, TaskType, CpuType, Unmount
  <2> QED
    BY <2>1, <2>2 DEF TypeOK
<1>2. ASSUME NEW d \in Drives, NEW readonly \in BOOLEAN, Mount(d, readonly) PROVE TypeOK'
  <2>1. CardType'
    BY <1>2, FdcAssumption DEF TypeOK, CardType, Mount
  <2>2. ImageType'
    BY <1>2, FdcAssumption DEF TypeOK, ImageType, Mount
  <2>3. StatusType' /\ ProgressType' /\ TaskType' /\ CpuType'
    BY <1>2 DEF TypeOK, StatusType, ProgressType, TaskType, CpuType, Mount
  <2> QED
    BY <2>1, <2>2, <2>3 DEF TypeOK
<1> QED
  BY <1>1, <1>2 DEF Menu

\* Every variable keeps its type, the byte counter stays in the sector buffer and fdc_task
\* addresses only blocks of the image (fdc1771.v data_pos, fdc.c:117-120).
THEOREM TypeCorrect == Spec => []TypeOK
<1>1. TypeOK /\ [Next]_vars => TypeOK'
  <2> SUFFICES ASSUME TypeOK, [Next]_vars PROVE TypeOK'
    OBVIOUS
  <2>1. CASE Next
    BY <2>1, CpuStepType, ChipStepType, TaskStepType, MenuStepType DEF Next
  <2>2. CASE UNCHANGED vars
    BY <2>2 DEF TypeOK, StatusType, ProgressType, CardType, TaskType, ImageType, CpuType
  <2> QED
    BY <2>1, <2>2
<1> QED
  BY InitType, <1>1, PTL DEF Spec

\* fdc_task works only on an image that is open, and an image is opened or closed only
\* between its calls.
OpenInv == pc \in {"write", "fill", "read"} => drv \in open

LEMMA OpenStep == OpenInv /\ [Next]_vars => OpenInv'
<1> SUFFICES ASSUME OpenInv, [Next]_vars PROVE OpenInv'
  OBVIOUS
<1> USE DEF OpenInv, Goto
<1>1. CASE Cpu
  <2>1. ASSUME NEW v \in Byte(Len(sent) % SectorLen), GiveByte(v) PROVE UNCHANGED <<pc, drv, open>>
    BY <2>1 DEF GiveByte
  <2>2. CASE Reboot
    BY <2>2 DEF Reboot
  <2>3. Cpu => (\E v \in Byte(Len(sent) % SectorLen) : GiveByte(v)) \/ Reboot
               \/ UNCHANGED <<pc, drv, open>>
    BY DEF Cpu, Command, WriteSectorReg, SelectDrive, MotorOn, ReadStatus, StartAccess, TakeByte,
           MenuReset
  <2> QED
    BY <1>1, <2>1, <2>2, <2>3
<1>2. CASE Chip
  <2>1. UNCHANGED <<pc, drv, open>>
    <3>1. MotorOff \/ Rotate => UNCHANGED <<pc, drv, open>>
      BY DEF MotorOff, Rotate
    <3>2. ByteClk => UNCHANGED <<pc, drv, open>>
      BY DEF ByteClk, ReadByteClk, IdByteClk, ByteToCpu, WriteByteClk
    <3>3. ChipStep => UNCHANGED <<pc, drv, open>>
      BY DEF ChipStep, Request, WriteEnds, EndTypeI
    <3> QED
      BY <1>2, <3>1, <3>2, <3>3 DEF Chip
  <2> QED
    BY <2>1
<1>3. CASE TaskStep
  <2>1. UNCHANGED open
    BY <1>3 DEF TaskStep, Poll, ReadTrackSide, ReadSectorReg, AckHigh, SkipDrive, TakeDrive,
                CopyOut, CommitWrite, FailWrite, NoWrite, FillBuffer, NoRead, CopyIn, EndRead,
                AckLow
  <2>2. CASE TakeDrive
    BY <2>1, <2>2 DEF TakeDrive
  <2>3. CASE CopyOut \/ CommitWrite \/ FailWrite \/ NoWrite \/ FillBuffer \/ CopyIn
    BY <2>1, <2>3 DEF CopyOut, CommitWrite, FailWrite, NoWrite, FillBuffer, CopyIn, Writing
  <2>4. TaskStep => TakeDrive \/ CopyOut \/ CommitWrite \/ FailWrite \/ NoWrite \/ FillBuffer
                    \/ CopyIn \/ pc' \in {"poll", "track", "sector", "ack", "drive"}
    BY DEF TaskStep, Poll, ReadTrackSide, ReadSectorReg, AckHigh, SkipDrive, NoRead, EndRead,
           AckLow
  <2> QED
    BY <1>3, <2>2, <2>3, <2>4
<1>4. CASE Menu
  BY <1>4 DEF Menu, MayMount, Unmount, Mount
<1>5. CASE UNCHANGED vars
  BY <1>5
<1> QED
  BY <1>1, <1>2, <1>3, <1>4, <1>5 DEF Next

\* The only action that changes an image.
LEMMA OnlyCommitWrites == [Next]_vars => CommitWrite \/ UNCHANGED disk
<1>1. Cpu => UNCHANGED disk
  BY DEF Cpu, Command, WriteSectorReg, SelectDrive, MotorOn, ReadStatus, StartAccess,
         TakeByte, GiveByte, MenuReset, Reboot, BoxReset
<1>2. Chip => UNCHANGED disk
  BY DEF Chip, ByteClk, ChipStep, MotorOff, Rotate, ReadByteClk, IdByteClk, ByteToCpu,
         WriteByteClk, Request, WriteEnds, EndTypeI
<1>3. TaskStep => CommitWrite \/ UNCHANGED disk
  BY DEF TaskStep, Poll, ReadTrackSide, ReadSectorReg, AckHigh, SkipDrive, TakeDrive,
         CopyOut, FailWrite, NoWrite, FillBuffer, NoRead, CopyIn, EndRead, AckLow
<1>4. Menu => UNCHANGED disk
  BY DEF Menu, Unmount, Mount
<1> QED
  BY <1>1, <1>2, <1>3, <1>4 DEF Next

\* A write protected disk, and a drive without one, never change, whatever the CPU does and
\* whichever hazards occur (fdc.c:106, 121).
THEOREM ProtectedNeverWritten == Spec => ProtectedUntouched
<1> DEFINE Safe == \A d \in Drives : disk'[d] # disk[d] => d \in mounted \ wp
<1>1. Init => OpenInv
  BY DEF Init, OpenInv
<1>2. TypeOK /\ OpenInv /\ [Next]_vars => [Safe]_vars
  <2> SUFFICES ASSUME TypeOK, OpenInv, CommitWrite PROVE Safe
    BY OnlyCommitWrites
  <2>1. drv \in mounted \ wp
    BY DEF TypeOK, ImageType, OpenInv, CommitWrite, Writing
  <2>2. disk' = [disk EXCEPT ![drv] = [@ EXCEPT ![Block(ts, sec)] = stage]]
    BY DEF CommitWrite
  <2>3. \A d \in Drives : d # drv => disk'[d] = disk[d]
    BY <2>2 DEF TypeOK, ImageType
  <2> QED
    BY <2>1, <2>3
<1> QED
  BY <1>1, <1>2, OpenStep, TypeCorrect, PTL DEF Spec, ProtectedUntouched

\* While a request is in service the CPU only waits.
LEMMA CpuKeepsAim ==
  ASSUME Hazards \cap Disruptive = {}, TypeOK, AimInv PROVE Cpu => AimInv'
<1> USE DEF AimInv, InService, Outstanding
<1>1. ASSUME NEW c \in Issued, Command(c) PROVE AimInv'
  BY <1>1 DEF Command, CpuFree, TypeII, Disruptive
<1>2. ASSUME NEW s \in Sectors, WriteSectorReg(s) PROVE AimInv'
  BY <1>2 DEF WriteSectorReg, CpuFree, Disruptive
<1>3. ASSUME NEW D \in SUBSET Drives, NEW s \in Sides, SelectDrive(D, s) PROVE AimInv'
  BY <1>3 DEF SelectDrive, CpuFree, Disruptive
<1>4. ASSUME MotorOn PROVE AimInv'
  BY <1>4 DEF MotorOn
<1>5. ASSUME ReadStatus PROVE AimInv'
  BY <1>5 DEF ReadStatus
<1>6. ASSUME StartAccess PROVE AimInv'
  BY <1>6 DEF StartAccess
<1>7. ASSUME TakeByte PROVE AimInv'
  BY <1>7 DEF TakeByte
<1>8. ASSUME \E v \in Byte(Len(sent) % SectorLen) : GiveByte(v) PROVE AimInv'
  BY <1>8 DEF GiveByte
<1>9. ASSUME MenuReset \/ Reboot PROVE AimInv'
  BY <1>9 DEF MenuReset, Reboot, Disruptive
<1>10. {{}} \cup {{d} : d \in Drives} \subseteq SUBSET Drives
  OBVIOUS
<1> QED
  BY <1>1, <1>2, <1>3, <1>4, <1>5, <1>6, <1>7, <1>8, <1>9, <1>10 DEF Cpu

\* The chip asks for a transfer once, and the drive keeps turning until it is answered.
LEMMA ChipKeepsAim ==
  ASSUME Hazards \cap Disruptive = {}, TypeOK, AimInv PROVE Chip => AimInv'
<1> USE DEF AimInv, InService, Outstanding
<1>1. ASSUME MotorOff PROVE AimInv'
  BY <1>1 DEF MotorOff, Disruptive
<1>2. ASSUME Rotate PROVE AimInv'
  BY <1>2 DEF Rotate, Spinning, Selected, LastRevolution, TypeII, TypeOK, CardType
<1>3. ASSUME ReadByteClk PROVE AimInv'
  BY <1>3 DEF ReadByteClk, ByteToCpu, ByteClock
<1>4. ASSUME IdByteClk PROVE AimInv'
  BY <1>4 DEF IdByteClk, ByteToCpu, ByteClock, TypeII
<1>5. ASSUME WriteByteClk PROVE AimInv'
  BY <1>5 DEF WriteByteClk, ByteClock
<1>6. ASSUME Request PROVE AimInv'
  BY <1>6 DEF Request, WantsTransfer, TypeII, TypeOK, CardType
<1>7. ASSUME WriteEnds PROVE AimInv'
  BY <1>7 DEF WriteEnds
<1>8. ASSUME EndTypeI PROVE AimInv'
  BY <1>8 DEF EndTypeI, TypeII
<1> QED
  BY <1>1, <1>2, <1>3, <1>4, <1>5, <1>6, <1>7, <1>8 DEF Chip, ByteClk, ChipStep

\* fdc_task reads the aim of the request and lets go of it before it answers.
LEMMA TaskKeepsAim ==
  ASSUME Hazards \cap Disruptive = {}, TypeOK, AimInv PROVE TaskStep => AimInv'
<1> USE DEF AimInv, InService, Outstanding
<1>1. ASSUME Poll PROVE AimInv'
  BY <1>1 DEF Poll, Requested, Goto
<1>2. ASSUME ReadTrackSide PROVE AimInv'
  BY <1>2 DEF ReadTrackSide, TrackSide, Selected, Goto
<1>3. ASSUME ReadSectorReg PROVE AimInv'
  BY <1>3 DEF ReadSectorReg, Goto
<1>4. ASSUME AckHigh PROVE AimInv'
  BY <1>4 DEF AckHigh, ClearRequests, Goto
<1>5. ASSUME SkipDrive PROVE AimInv'
  BY <1>5 DEF SkipDrive
<1>6. ASSUME TakeDrive PROVE AimInv'
  BY <1>6 DEF TakeDrive, Goto
<1>7. ASSUME CopyOut PROVE AimInv'
  BY <1>7 DEF CopyOut, Writing
<1>8. ASSUME CommitWrite PROVE AimInv'
  BY <1>8 DEF CommitWrite, Writing, Goto
<1>9. ASSUME FailWrite PROVE AimInv'
  BY <1>9 DEF FailWrite, Writing, Goto
<1>10. ASSUME NoWrite PROVE AimInv'
  BY <1>10 DEF NoWrite, Goto
<1>11. ASSUME FillBuffer PROVE AimInv'
  BY <1>11 DEF FillBuffer, Goto
<1>12. ASSUME NoRead PROVE AimInv'
  BY <1>12 DEF NoRead, Goto
<1>13. ASSUME CopyIn PROVE AimInv'
  BY <1>13 DEF CopyIn
<1>14. ASSUME NEW how \in {"ok", "failed"}, EndRead(how) PROVE AimInv'
  BY <1>14 DEF EndRead, Goto
<1>15. ASSUME AckLow PROVE AimInv'
  BY <1>15 DEF AckLow, Complete, Goto, Locals
<1> QED
  BY <1>1, <1>2, <1>3, <1>4, <1>5, <1>6, <1>7, <1>8, <1>9, <1>10, <1>11, <1>12, <1>13, <1>14, <1>15 DEF TaskStep

\* Mounting does not touch the card's request.
LEMMA MenuKeepsAim ==
  ASSUME Hazards \cap Disruptive = {}, TypeOK, AimInv PROVE Menu => AimInv'
<1> USE DEF AimInv, InService, Outstanding
<1>1. ASSUME NEW d \in Drives, Unmount(d) PROVE AimInv'
  BY <1>1 DEF Unmount
<1>2. ASSUME NEW d \in Drives, NEW readonly \in BOOLEAN, Mount(d, readonly) PROVE AimInv'
  BY <1>2 DEF Mount
<1> QED
  BY <1>1, <1>2 DEF Menu

\* A step keeps chip, card and fdc_task agreed on the aim of the request.
LEMMA AimStep ==
  ASSUME Hazards \cap Disruptive = {} PROVE TypeOK /\ AimInv /\ [Next]_vars => AimInv'
<1> SUFFICES ASSUME TypeOK, AimInv, [Next]_vars PROVE AimInv'
  OBVIOUS
<1>1. CASE UNCHANGED vars
  BY <1>1 DEF AimInv, InService, Outstanding
<1> QED
  BY <1>1, CpuKeepsAim, ChipKeepsAim, TaskKeepsAim, MenuKeepsAim DEF Next

\* As long as the CPU leaves the card alone while a command is in progress, nothing is reset
\* and the motor does not stop under a request, every write lands in the sector its command
\* was aimed at: chip, card and fdc_task agree on it although each looks at its own time.
\* Disks may be swapped, and a header may pass before the data of a sector is there.
THEOREM WritesAimed ==
  ASSUME Hazards \cap Disruptive = {} PROVE Spec => NoMisdirectedWrite
<1> DEFINE Aimed == \A d \in Drives, b \in Blocks :
                      disk'[d][b] # disk[d][b] =>
                        issued.cmd = "write" /\ busy /\ d \in issued.drives /\ b = Target
<1>1. Init => AimInv
  BY DEF Init, AimInv, InService, Outstanding
<1>2. TypeOK /\ AimInv /\ [Next]_vars => [Aimed]_vars
  <2> SUFFICES ASSUME TypeOK, AimInv, CommitWrite PROVE Aimed
    BY OnlyCommitWrites
  <2>1. drv \in dsel /\ cmd = "write" /\ busy
    BY DEF AimInv, InService, Outstanding, CommitWrite, Writing
  <2>2. issued.cmd = "write" /\ drv \in issued.drives
    BY <2>1 DEF AimInv
  <2>3. Block(ts, sec) = Target
    BY <2>1, FdcAssumption DEF AimInv, TypeOK, TaskType, CommitWrite, Writing, Block, ImageTrack,
                               Target
  <2>4. disk' = [disk EXCEPT ![drv] = [@ EXCEPT ![Block(ts, sec)] = stage]]
    BY DEF CommitWrite
  <2>5. \A d \in Drives, b \in Blocks : d # drv \/ b # Block(ts, sec) => disk'[d][b] = disk[d][b]
    BY <2>4 DEF TypeOK, ImageType
  <2> QED
    BY <2>1, <2>2, <2>3, <2>5
<1> QED
  BY <1>1, <1>2, AimStep, TypeCorrect, PTL DEF Spec, NoMisdirectedWrite

----------------------------------------------------------------------------
(* What the chip reports, and the array of sectors the card implements.     *)

\* The inductive invariant behind RnfHonest: of a command that has not found its header the
\* headers since the first index pulse were others.
RevolutionInv ==
  /\ busy /\ cmd \in TypeII \cup {"readid"} =>
       /\ issued.cmd = cmd /\ issued.sector = sectorReg
       /\ ~found /\ revs < Revs => rot = SPS \/ (cmd \in TypeII /\ sectorReg \notin 0..rot)
  /\ cmd \notin TypeII \cup {"readid"} => revs = 0
  /\ RnfHonest

\* A header that passes is the command's own, or one more that is not.
LEMMA RevolutionStep ==
  ASSUME Hazards \cap {"overlap", "retarget", "swap"} = {}
  PROVE  TypeOK /\ RevolutionInv /\ [Next]_vars => RevolutionInv'
<1> SUFFICES ASSUME TypeOK, RevolutionInv, [Next]_vars PROVE RevolutionInv'
  OBVIOUS
<1> USE DEF RevolutionInv, RnfHonest, TypeII
<1>1. ASSUME NEW c \in Issued, Command(c) PROVE RevolutionInv'
  BY <1>1, FdcAssumption DEF Command, TypeII
<1>2. ASSUME NEW s \in Sectors, WriteSectorReg(s) PROVE RevolutionInv'
  BY <1>2 DEF WriteSectorReg, CpuFree
<1>3. ASSUME NEW D, NEW s, SelectDrive(D, s) PROVE RevolutionInv'
  BY <1>3 DEF SelectDrive, CpuFree
<1>4. ASSUME MotorOn PROVE RevolutionInv'
  BY <1>4 DEF MotorOn
<1>14. ASSUME ReadStatus PROVE RevolutionInv'
  BY <1>14 DEF ReadStatus
<1>15. ASSUME StartAccess PROVE RevolutionInv'
  BY <1>15 DEF StartAccess
<1>16. ASSUME TakeByte PROVE RevolutionInv'
  BY <1>16 DEF TakeByte
<1>5. ASSUME NEW v, GiveByte(v) PROVE RevolutionInv'
  BY <1>5 DEF GiveByte
<1>6. ASSUME MenuReset \/ Reboot PROVE RevolutionInv'
  BY <1>6 DEF MenuReset, Reboot, BoxReset, NoCmd
<1>7. ASSUME MotorOff PROVE RevolutionInv'
  BY <1>7 DEF MotorOff
<1>8. ASSUME Rotate PROVE RevolutionInv'
  <2> DEFINE match == busy /\ rot' < SPS /\ (cmd = "readid" \/ (cmd \in TypeII /\ sectorReg = rot'))
             fail == busy /\ rot' = SPS /\ revs > 0 /\ revs = 1 /\ ~found
  <2>1. /\ rot' = IF rot = SPS THEN 0 ELSE rot + 1
        /\ (found' <=> found \/ match) /\ (rnf' <=> rnf \/ fail) /\ (busy' <=> busy /\ ~fail)
        /\ revs' = IF busy /\ rot' = SPS /\ revs > 0 THEN revs - 1 ELSE revs
        /\ UNCHANGED <<cmd, issued, sectorReg>>
    BY <1>8 DEF Rotate, LastRevolution, TypeOK, StatusType
  <2>2. rot \in 0..SPS /\ revs \in 0..Revs /\ sectorReg \in Nat /\ SPS \in Nat /\ SPS > 0 /\ Revs \in Nat /\ Revs > 1
        /\ cmd \in Commands
    BY FdcAssumption DEF TypeOK, CardType, ProgressType, StatusType
  <2>3. ASSUME busy', cmd' \in TypeII \cup {"readid"}, ~found', revs' < Revs
        PROVE  rot' = SPS \/ (cmd' \in TypeII /\ sectorReg' \notin 0..rot')
    BY <2>1, <2>2, <2>3
  <2>4. ASSUME fail PROVE issued.cmd \in TypeII /\ issued.sector >= SPS
    BY <2>1, <2>2, <2>4 DEF Commands
  <2> QED
    BY <2>1, <2>3, <2>4
<1>9. ASSUME ByteClk PROVE RevolutionInv'
  BY <1>9 DEF ByteClk, ReadByteClk, IdByteClk, WriteByteClk, ByteToCpu
<1>10. ASSUME ChipStep PROVE RevolutionInv'
  BY <1>10 DEF ChipStep, Request, WriteEnds, EndTypeI
<1>11. ASSUME TaskStep PROVE RevolutionInv'
  BY <1>11 DEF TaskStep, Poll, ReadTrackSide, ReadSectorReg, AckHigh, SkipDrive, TakeDrive,
         CopyOut, CommitWrite, FailWrite, NoWrite, FillBuffer, NoRead, CopyIn, EndRead, AckLow
<1>12. ASSUME Menu PROVE RevolutionInv'
  BY <1>12 DEF Menu, MayMount, Unmount, Mount
<1>13. ASSUME UNCHANGED vars PROVE RevolutionInv'
  BY <1>13
<1> QED
  BY <1>1, <1>2, <1>3, <1>4, <1>14, <1>15, <1>16, <1>5, <1>6, <1>7, <1>8, <1>9, <1>10, <1>11, <1>12, <1>13 DEF Next, Cpu, Chip

\* "Record not found" is reported only for a sector number the track does not have, for every
\* number of sectors and revolutions, as long as the CPU leaves the card alone while a command
\* is in progress and no disk is swapped under it. The motor may stop and the machine may be
\* reset (fdc1771.v:367-373).
THEOREM RnfOnlyWhenMissing ==
  ASSUME Hazards \cap {"overlap", "retarget", "swap"} = {} PROVE Spec => []RnfHonest
<1>1. Init => RevolutionInv
  BY DEF Init, RevolutionInv, RnfHonest
<1>2. RevolutionInv => RnfHonest
  BY DEF RevolutionInv
<1> QED
  BY <1>1, <1>2, RevolutionStep, TypeCorrect, PTL DEF Spec


\* The inductive invariant behind ReadDelivers, WriteLands and ImplementsStore: a service is for
\* the one drive the command selected, and it has at most one outcome.
ServiceInv ==
  \* the driver selects one drive; a Read Sector is asked of that one
  /\ \A a, b \in dsel : a = b
  /\ imgRd \cup rdReq \subseteq dsel
  /\ imgRd \cup rdReq # {} => cmd = "read"
  \* the chip's command is the one issued last
  /\ issued.cmd \in {cmd, "none"}
  /\ cmd \in TypeII => issued.cmd = cmd
  /\ complete => found
  \* a drive that is served is one that is asked for
  /\ pc \in {"write", "fill", "read"} => drv \in rdReq \cup wrReq
  /\ pc = "read" => drv \in rdReq
  \* the outcome is that of the last drive asked for
  /\ outcome # "none" => found /\ (complete \/ pc \in {"drive", "fill"})
  /\ pc = "drive" /\ outcome # "none" => \A d \in rdReq \cup wrReq : d < drv
  /\ pc = "fill" /\ outcome # "none" => drv \in wrReq

\* The CPU begins a command only when no service is left of the last one.
LEMMA CpuKeepsService ==
  ASSUME Hazards \cap Disruptive = {}
  PROVE  TypeOK /\ AimInv /\ ServiceInv /\ Cpu => ServiceInv'
<1> SUFFICES ASSUME TypeOK, AimInv, ServiceInv PROVE Cpu => ServiceInv'
  OBVIOUS
<1> USE DEF AimInv, ServiceInv, InService, Outstanding
<1>1. ASSUME NEW c \in Issued, Command(c) PROVE ServiceInv'
  BY <1>1 DEF Command, CpuFree, TypeII, Disruptive
<1>2. ASSUME NEW s \in Sectors, WriteSectorReg(s) PROVE ServiceInv'
  BY <1>2 DEF WriteSectorReg, CpuFree, Disruptive
<1>3. ASSUME NEW D \in {{}} \cup {{d} : d \in Drives}, NEW s \in Sides, SelectDrive(D, s)
      PROVE ServiceInv'
  BY <1>3 DEF SelectDrive, CpuFree, Disruptive
<1>4. ASSUME MotorOn PROVE ServiceInv'
  BY <1>4 DEF MotorOn
<1>5. ASSUME ReadStatus PROVE ServiceInv'
  BY <1>5 DEF ReadStatus
<1>6. ASSUME StartAccess PROVE ServiceInv'
  BY <1>6 DEF StartAccess
<1>7. ASSUME TakeByte PROVE ServiceInv'
  BY <1>7 DEF TakeByte
<1>8. ASSUME NEW v, GiveByte(v) PROVE ServiceInv'
  BY <1>8 DEF GiveByte
<1>9. ASSUME MenuReset \/ Reboot PROVE ServiceInv'
  BY <1>9 DEF MenuReset, Reboot, Disruptive
<1> QED
  BY <1>1, <1>2, <1>3, <1>4, <1>5, <1>6, <1>7, <1>8, <1>9 DEF Cpu

\* The chip asks for a transfer once, with no outcome yet.
LEMMA ChipKeepsService ==
  ASSUME Hazards \cap Disruptive = {}
  PROVE  TypeOK /\ AimInv /\ ServiceInv /\ Chip => ServiceInv'
<1> SUFFICES ASSUME TypeOK, AimInv, ServiceInv PROVE Chip => ServiceInv'
  OBVIOUS
<1> USE DEF AimInv, ServiceInv, InService, Outstanding
<1>1. ASSUME MotorOff PROVE ServiceInv'
  BY <1>1 DEF MotorOff
<1>2. ASSUME Rotate PROVE ServiceInv'
  <2>1. found => found'
    BY <1>2 DEF Rotate
  <2> QED
    BY <1>2, <2>1 DEF Rotate
<1>3. ASSUME ByteClk PROVE ServiceInv'
  <2>1. UNCHANGED <<cmd, found, complete, dsel, imgRd, rdReq, wrReq, issued, outcome, pc, drv>>
    BY <1>3 DEF ByteClk, ReadByteClk, IdByteClk, WriteByteClk, ByteToCpu
  <2> QED
    BY <2>1
<1>4. ASSUME Request PROVE ServiceInv'
  BY <1>4 DEF Request, WantsTransfer, TypeII
<1>5. ASSUME WriteEnds PROVE ServiceInv'
  BY <1>5 DEF WriteEnds
<1>6. ASSUME EndTypeI PROVE ServiceInv'
  BY <1>6 DEF EndTypeI
<1> QED
  BY <1>1, <1>2, <1>3, <1>4, <1>5, <1>6 DEF Chip, ChipStep

\* fdc_task takes each drive once, and gives the one asked for its outcome.
LEMMA TaskKeepsService ==
  ASSUME Hazards \cap Disruptive = {}
  PROVE  TypeOK /\ AimInv /\ ServiceInv /\ TaskStep => ServiceInv'
<1> SUFFICES ASSUME TypeOK, AimInv, ServiceInv PROVE TaskStep => ServiceInv'
  OBVIOUS
<1> USE DEF AimInv, ServiceInv, InService, Outstanding
<1>1. ASSUME Poll PROVE ServiceInv'
  BY <1>1 DEF Poll, Requested, Goto
<1>2. ASSUME ReadTrackSide PROVE ServiceInv'
  BY <1>2 DEF ReadTrackSide, Goto
<1>3. ASSUME ReadSectorReg PROVE ServiceInv'
  BY <1>3 DEF ReadSectorReg, Goto
<1>4. ASSUME AckHigh PROVE ServiceInv'
  BY <1>4 DEF AckHigh, ClearRequests, Goto
<1>5. ASSUME SkipDrive PROVE ServiceInv'
  BY <1>5 DEF SkipDrive, TypeOK, TaskType, CardType, Drives
<1>6. ASSUME TakeDrive PROVE ServiceInv'
  BY <1>6 DEF TakeDrive, Goto, TypeOK, TaskType
<1>7. ASSUME CopyOut PROVE ServiceInv'
  BY <1>7 DEF CopyOut, Writing
<1>8. ASSUME CommitWrite PROVE ServiceInv'
  BY <1>8 DEF CommitWrite, Writing, Goto
<1>9. ASSUME FailWrite PROVE ServiceInv'
  BY <1>9 DEF FailWrite, Writing, Goto
<1>10. ASSUME NoWrite PROVE ServiceInv'
  BY <1>10 DEF NoWrite, Goto
<1>11. ASSUME FillBuffer PROVE ServiceInv'
  BY <1>11 DEF FillBuffer, Goto
<1>12. ASSUME NoRead PROVE ServiceInv'
  BY <1>12 DEF NoRead, Goto, TypeOK, TaskType, CardType, Drives
<1>13. ASSUME CopyIn PROVE ServiceInv'
  BY <1>13 DEF CopyIn
<1>14. ASSUME NEW how \in {"ok", "failed"}, EndRead(how) PROVE ServiceInv'
  BY <1>14 DEF EndRead, Goto, TypeOK, TaskType, CardType, Drives
<1>15. ASSUME AckLow PROVE ServiceInv'
  BY <1>15 DEF AckLow, Complete, Goto, Locals
<1> QED
  BY <1>1, <1>2, <1>3, <1>4, <1>5, <1>6, <1>7, <1>8, <1>9, <1>10, <1>11, <1>12, <1>13, <1>14, <1>15 DEF TaskStep

\* Every step keeps a service to one drive and one outcome.
LEMMA ServiceStep ==
  ASSUME Hazards \cap Disruptive = {}
  PROVE  TypeOK /\ AimInv /\ ServiceInv /\ [Next]_vars => ServiceInv'
<1>1. ServiceInv /\ UNCHANGED vars => ServiceInv'
  BY DEF ServiceInv
<1>2. ServiceInv /\ Menu => ServiceInv'
  BY DEF ServiceInv, Menu, Unmount, Mount
<1> QED
  BY <1>1, <1>2, CpuKeepsService, ChipKeepsService, TaskKeepsService DEF Next

\* The block fdc_task works on is the one the command is aimed at.
LEMMA ServiceTarget ==
  ASSUME TypeOK, AimInv, pc \in {"write", "fill", "read"}
  PROVE  Block(ts, sec) = Target /\ Target \in Blocks /\ drv \in Drives
<1> USE DEF AimInv, InService, Outstanding
<1>1. ts = issued.track /\ sec = issued.sector
  OBVIOUS
<1>2. drv \in Drives /\ OnDisk(ts, sec) /\ ts \in [cyl : Cyls, side : {0, 1}] /\ sec \in Nat
  BY FdcAssumption DEF TypeOK, TaskType
<1>3. Block(ts, sec) = Target
  <2>1. ts.cyl \in Nat /\ Tracks \in Nat
    BY <1>2, FdcAssumption
  <2>2. Tracks - 1 - ts.cyl = Tracks - (ts.cyl + 1)
    BY <2>1
  <2> QED
    BY <1>1, <2>2, Zenon DEF Block, ImageTrack, Target
<1> QED
  BY <1>2, <1>3, BlockInImage

\* What a read has put into the sector buffer.
ReadBufInv ==
  /\ pc = "read" => \A i \in Pos : buf[i] = IF i < idx THEN disk[drv][Block(ts, sec)][i] ELSE Fill
  /\ cmd = "read" /\ outcome = "ok" =>
       \A d \in issued.drives : d \in Drives /\ Target \in Blocks /\ buf = disk[d][Target]
  /\ cmd = "read" /\ outcome = "failed" => \A i \in Pos : buf[i] = Fill

\* Every step keeps the buffer what the image, or the failed read, has made it.
LEMMA ReadBufStep ==
  ASSUME Hazards \cap Disruptive = {}
  PROVE  TypeOK /\ AimInv /\ ServiceInv /\ ReadBufInv /\ [Next]_vars => ReadBufInv'
<1> SUFFICES ASSUME TypeOK, AimInv, ServiceInv, ReadBufInv, [Next]_vars PROVE ReadBufInv'
  OBVIOUS
<1> DEFINE Quiet == /\ UNCHANGED <<buf, disk, cmd, issued>>
                    /\ outcome' \in {outcome, "none", "skipped", "protected"}
                    /\ pc' = "read" => UNCHANGED <<pc, idx, drv, ts, sec>>
<1>1. ASSUME Quiet PROVE ReadBufInv'
  BY <1>1 DEF ReadBufInv, Block, ImageTrack, Target
<1>2. ASSUME NEW c \in Issued, Command(c) PROVE ReadBufInv'
  BY <1>2 DEF ReadBufInv, Command, CpuFree, Disruptive, AimInv, InService, Outstanding
<1>3. ASSUME MenuReset \/ Reboot PROVE ReadBufInv'
  BY <1>3 DEF MenuReset, Reboot, Disruptive
<1>4. Cpu => Quiet \/ MenuReset \/ Reboot \/ \E c \in Issued : Command(c)
  <2>1. ASSUME NEW v, GiveByte(v) PROVE Quiet
    BY <2>1 DEF GiveByte
  <2>2. ASSUME NEW D, NEW s, SelectDrive(D, s) PROVE Quiet
    BY <2>2 DEF SelectDrive
  <2> QED
    BY <2>1, <2>2 DEF Cpu, WriteSectorReg, MotorOn, ReadStatus, StartAccess, TakeByte
<1>5. ASSUME WriteByteClk PROVE ReadBufInv'
  BY <1>5 DEF WriteByteClk, ByteClock, ReadBufInv, ServiceInv
<1>6. Chip => Quiet \/ WriteByteClk
  BY DEF Chip, ByteClk, ChipStep, MotorOff, Rotate, ReadByteClk, IdByteClk, ByteToCpu, Request,
         WriteEnds, EndTypeI
<1>7. ASSUME FillBuffer PROVE ReadBufInv'
  BY <1>7, FdcAssumption DEF FillBuffer, Goto, ReadBufInv, ServiceInv, AimInv, Pos
<1>8. ASSUME CopyIn PROVE ReadBufInv'
  <2>1. idx \in Nat /\ buf \in Contents
    BY DEF TypeOK, TaskType, CardType
  <2>2. buf' = [buf EXCEPT ![idx] = disk[drv][Block(ts, sec)][idx]]
        /\ idx' = idx + 1 /\ pc = "read" /\ UNCHANGED <<pc, ts, sec, drv, disk, cmd, outcome>>
    BY <1>8 DEF CopyIn
  <2>3. outcome = "none"
    BY <2>2 DEF ServiceInv, AimInv, InService, Outstanding
  <2>4. \A i \in Pos : buf'[i] = IF i < idx' THEN disk[drv][Block(ts, sec)][i] ELSE Fill
    BY <2>1, <2>2 DEF ReadBufInv, Contents, Pos
  <2> QED
    BY <2>2, <2>3, <2>4 DEF ReadBufInv, Block, ImageTrack
<1>9. ASSUME CommitWrite \/ FailWrite PROVE ReadBufInv'
  BY <1>9 DEF CommitWrite, FailWrite, Writing, Goto, ReadBufInv, ServiceInv, AimInv
<1>10. ASSUME NEW how \in {"ok", "failed"}, EndRead(how) PROVE ReadBufInv'
  <2>1. /\ pc = "read" /\ pc' = "drive" /\ outcome' = how /\ UNCHANGED <<buf, disk, cmd, issued>>
        /\ idx = IF how = "ok" THEN SectorLen ELSE 0
    BY <1>10 DEF EndRead, Goto
  <2>2. drv \in issued.drives /\ \A d \in issued.drives : d = drv
    BY <2>1 DEF ServiceInv, AimInv, InService, Outstanding
  <2>3. Block(ts, sec) = Target /\ Target \in Blocks /\ drv \in Drives
    BY <2>1, ServiceTarget
  <2>4. how = "failed" => \A i \in Pos : buf[i] = Fill
    BY <2>1 DEF ReadBufInv, Pos
  <2>5. how = "ok" => buf = disk[drv][Target]
    <3>1. buf \in [Pos -> Datum] /\ disk[drv][Target] \in [Pos -> Datum]
      BY <2>3 DEF TypeOK, CardType, ImageType, Contents
    <3>2. how = "ok" => \A i \in Pos : buf[i] = disk[drv][Target][i]
      BY <2>1, <2>3, FdcAssumption DEF ReadBufInv, Pos
    <3> QED
      BY <3>1, <3>2
  <2> QED
    BY <2>1, <2>2, <2>3, <2>4, <2>5 DEF ReadBufInv, Target
<1>11. TaskStep => Quiet \/ FillBuffer \/ CopyIn \/ CommitWrite \/ FailWrite
                   \/ EndRead("ok") \/ EndRead("failed")
  BY DEF TaskStep, Poll, ReadTrackSide, ReadSectorReg, AckHigh, SkipDrive, TakeDrive, CopyOut,
         Writing, NoWrite, NoRead, AckLow, Goto, Locals
<1>12. Menu => Quiet
  BY DEF Menu, MayMount, Unmount, Mount
<1>13. UNCHANGED vars => Quiet
  OBVIOUS
<1> QED
  BY <1>1, <1>2, <1>3, <1>4, <1>5, <1>6, <1>7, <1>8, <1>9, <1>10, <1>11, <1>12, <1>13 DEF Next

\* The abstract operation in progress, and what it has found: the refinement mapping of Store.
StoreOp == IF busy /\ cmd \in TypeII
           THEN [kind |-> IF outcome = "none" THEN cmd ELSE "done",
                 drives |-> issued.drives,
                 block |-> IF Target \in Blocks THEN Target ELSE <<>>]
           ELSE [kind |-> "idle"]
StoreResult == IF busy /\ cmd = "read" /\ outcome = "ok" THEN {buf} ELSE {}

\* The card starts as an array of blank sectors with no operation in progress.
LEMMA StoreInit == Init => Store!Init
<1> SUFFICES ASSUME Init PROVE Store!Init
  OBVIOUS
<1>1. disk \in [Drives -> [Blocks -> Contents]]
  BY ContentsFacts DEF Init
<1> QED
  BY <1>1 DEF Init, Store!Init, Store!Idle

\* The abstract actions, written out over the card's variables.
LEMMA StoreMapping ==
  /\ Store!vars = <<disk, StoreOp, StoreResult>>
  /\ Store!Begin <=>
       /\ StoreOp = [kind |-> "idle"]
       /\ StoreOp' \in [kind : {"read", "write"}, drives : SUBSET Drives, block : Blocks \cup {<<>>}]
       /\ UNCHANGED <<disk, StoreResult>>
  /\ Store!DoRead <=>
       /\ StoreOp.kind = "read" /\ StoreOp.block \in Blocks
       /\ \E d \in StoreOp.drives : StoreResult' = {disk[d][StoreOp.block]}
       /\ StoreOp' = [StoreOp EXCEPT !.kind = "done"]
       /\ UNCHANGED disk
  /\ Store!DoWrite <=>
       /\ StoreOp.kind = "write" /\ StoreOp.block \in Blocks
       /\ \E d \in StoreOp.drives, c \in Contents :
            disk' = [disk EXCEPT ![d] = [@ EXCEPT ![StoreOp.block] = c]]
       /\ StoreOp' = [StoreOp EXCEPT !.kind = "done"]
       /\ UNCHANGED StoreResult
  /\ Store!Fail <=>
       /\ StoreOp.kind \in {"read", "write"}
       /\ StoreOp' = [StoreOp EXCEPT !.kind = "done"]
       /\ UNCHANGED <<disk, StoreResult>>
  /\ Store!End <=>
       /\ StoreOp # [kind |-> "idle"]
       /\ StoreOp' = [kind |-> "idle"]
       /\ StoreResult' = {}
       /\ UNCHANGED disk
<1> USE DEF StoreOp, StoreResult
<1>1. Store!vars = <<disk, StoreOp, StoreResult>>
  BY DEF Store!vars
<1>2. Store!Begin <=>
       /\ StoreOp = [kind |-> "idle"]
       /\ StoreOp' \in [kind : {"read", "write"}, drives : SUBSET Drives, block : Blocks \cup {<<>>}]
       /\ UNCHANGED <<disk, StoreResult>>
  BY Zenon DEF Store!Begin, Store!Idle
<1> QED
  BY <1>1, <1>2, Zenon DEF Store!DoRead, Store!DoWrite, Store!Fail, Store!End, Store!Idle

\* Every step of the card is one of the abstract operation's, or leaves it alone.
LEMMA StoreStep ==
  ASSUME Hazards \cap Disruptive = {}
  PROVE  TypeOK /\ AimInv /\ ServiceInv /\ ReadBufInv /\ [Next]_vars => [Store!Next]_(Store!vars)
<1> DEFINE Moves == Store!Begin \/ Store!DoRead \/ Store!DoWrite \/ Store!Fail \/ Store!End
                    \/ UNCHANGED <<disk, StoreOp, StoreResult>>
<1>18. Moves => [Store!Next]_(Store!vars)
  <2>1. UNCHANGED <<disk, StoreOp, StoreResult>> => UNCHANGED Store!vars
    BY DEF Store!vars, StoreOp, StoreResult
  <2> QED
    BY <2>1 DEF Store!Next
<1> SUFFICES ASSUME TypeOK, AimInv, ServiceInv, ReadBufInv, [Next]_vars PROVE Moves
  BY <1>18
<1> DEFINE Stutter == UNCHANGED <<disk, StoreOp, StoreResult>>
           Active == busy /\ cmd \in TypeII
\* Steps that leave the operation alone: what they do to the buffer is before its outcome.
<1> DEFINE Aside == /\ UNCHANGED <<disk, busy, cmd, issued, outcome>>
                    /\ buf' # buf => cmd = "write" \/ outcome = "none"
\* Steps that end whatever is in progress, or begin something else than a sector command.
           Ends == UNCHANGED disk /\ ~(busy' /\ cmd' \in TypeII)
\* Steps that give an operation its outcome without an effect.
           Fails == /\ UNCHANGED <<disk, busy, cmd, issued>> /\ Active
                    /\ outcome = "none" /\ outcome' \notin {"none", "ok"}
<1>1. ASSUME Aside PROVE Stutter
  <2>1. UNCHANGED StoreOp
    BY <1>1 DEF StoreOp, Target
  <2>2. UNCHANGED StoreResult
    BY <1>1 DEF StoreResult
  <2> QED
    BY <1>1, <2>1, <2>2
<1>2. ASSUME Ends PROVE Store!End \/ Stutter
  <2>1. StoreOp' = [kind |-> "idle"] /\ StoreResult' = {}
    BY <1>2 DEF StoreOp, StoreResult, TypeII
  <2>2. CASE Active
    <3>1. StoreOp.kind \in {"read", "write", "done"}
      BY <2>2 DEF StoreOp, TypeII
    <3>2. StoreOp # [kind |-> "idle"]
      BY <3>1
    <3> QED
      BY <1>2, <2>1, <3>2, StoreMapping
  <2>3. CASE ~Active
    BY <1>2, <2>1, <2>3 DEF StoreOp, StoreResult, TypeII
  <2> QED
    BY <2>2, <2>3
\* An outcome is the abstract operation's instant of effect.
<1>3. ASSUME Active, outcome = "none", outcome' # "none", UNCHANGED <<busy, cmd, issued>>
      PROVE  /\ StoreOp.kind = cmd /\ StoreOp.drives = issued.drives
             /\ Target \in Blocks => StoreOp.block = Target
             /\ StoreOp' = [StoreOp EXCEPT !.kind = "done"]
  BY <1>3 DEF StoreOp, Target
<1>4. ASSUME Fails PROVE Store!Fail
  <2>1. UNCHANGED StoreResult
    BY <1>4 DEF StoreResult
  <2> QED
    BY <1>3, <1>4, <2>1, StoreMapping DEF TypeII
<1>5. ASSUME NEW c \in Issued, Command(c) PROVE Store!Begin \/ Store!End \/ Stutter
  <2>1. /\ ~busy /\ cmd' = c /\ outcome' = "none" /\ busy' = (c # "force") /\ UNCHANGED disk
        /\ issued' = [cmd |-> c, drives |-> dsel, track |-> [cyl |-> head, side |-> side],
                      sector |-> sectorReg]
    BY <1>5 DEF Command, CpuFree, Disruptive
  <2>2. CASE c \in TypeII
    <3>1. StoreOp = [kind |-> "idle"] /\ StoreResult = {} /\ StoreResult' = {}
      BY <2>1 DEF StoreOp, StoreResult
    <3>2. StoreOp' = [kind |-> c, drives |-> dsel,
                      block |-> IF Target' \in Blocks THEN Target' ELSE <<>>]
      BY <2>1, <2>2 DEF StoreOp, TypeII
    <3>3. dsel \in SUBSET Drives
      BY DEF TypeOK, CardType
    <3>4. StoreOp' \in [kind : {"read", "write"}, drives : SUBSET Drives, block : Blocks \cup {<<>>}]
      BY <2>2, <3>2, <3>3 DEF TypeII
    <3> QED
      BY <2>1, <3>1, <3>4, StoreMapping
  <2>3. CASE c \notin TypeII
    BY <1>2, <2>1, <2>3
  <2> QED
    BY <2>2, <2>3
<1>6. Cpu => Aside \/ \E c \in Issued : Command(c)
  <2>1. ASSUME NEW v, GiveByte(v) PROVE Aside
    BY <2>1 DEF GiveByte
  <2>2. ASSUME NEW D, NEW s, SelectDrive(D, s) PROVE Aside
    BY <2>2 DEF SelectDrive
  <2>3. ~MenuReset /\ ~Reboot
    BY DEF MenuReset, Reboot, Disruptive
  <2> QED
    BY <2>1, <2>2, <2>3 DEF Cpu, WriteSectorReg, MotorOn, ReadStatus, StartAccess, TakeByte
<1>7. Chip => Aside \/ Ends
  <2>1. MotorOff => Aside
    BY DEF MotorOff
  <2>2. Rotate => Aside \/ Ends
    BY DEF Rotate, TypeOK, StatusType
  <2>3. ReadByteClk => Aside \/ Ends
    BY DEF ReadByteClk, ByteToCpu
  <2>4. IdByteClk => Ends
    BY DEF IdByteClk, ByteToCpu, TypeII
  <2>5. WriteByteClk => Aside
    BY DEF WriteByteClk, ByteClock
  <2>6. ChipStep => Aside \/ Ends
    BY DEF ChipStep, Request, WriteEnds, EndTypeI
  <2> QED
    BY <2>1, <2>2, <2>3, <2>4, <2>5, <2>6 DEF Chip, ByteClk
\* While fdc_task serves a request, a sector command is in progress.
<1>8. InService => Active
  BY DEF AimInv, Outstanding
<1>9. ASSUME SkipDrive PROVE Aside \/ Fails
  BY <1>8, <1>9 DEF SkipDrive, ServiceInv, InService, Drives
<1>10. ASSUME NoWrite PROVE Aside \/ Fails
  BY <1>8, <1>10 DEF NoWrite, ServiceInv, AimInv, InService, Outstanding
<1>11. ASSUME FailWrite PROVE Fails
  BY <1>8, <1>11 DEF FailWrite, Writing, ServiceInv, AimInv, InService, Outstanding
<1>12. ASSUME EndRead("failed") PROVE Fails
  BY <1>8, <1>12 DEF EndRead, ServiceInv, AimInv, InService, Outstanding
<1>13. ASSUME FillBuffer \/ CopyIn PROVE Aside
  BY <1>13 DEF FillBuffer, CopyIn, ServiceInv, AimInv, InService, Outstanding
<1>14. ASSUME CommitWrite PROVE Store!DoWrite
  <2>1. /\ pc = "write" /\ outcome' = "ok" /\ UNCHANGED <<busy, cmd, issued>>
        /\ disk' = [disk EXCEPT ![drv] = [@ EXCEPT ![Block(ts, sec)] = stage]]
    BY <1>14 DEF CommitWrite, Writing
  <2>2. /\ outcome = "none" /\ cmd = "write" /\ Active
        /\ drv \in issued.drives
    BY <1>8, <1>14, <2>1 DEF ServiceInv, AimInv, InService, Outstanding, CommitWrite, Writing
  <2>3. Block(ts, sec) = Target /\ Target \in Blocks
    BY <2>1, ServiceTarget
  <2>4. stage \in Contents
    BY DEF TypeOK, TaskType
  <2>5. UNCHANGED StoreResult
    BY <2>1, <2>2 DEF StoreResult
  <2>6. /\ StoreOp.kind = "write" /\ StoreOp.drives = issued.drives /\ StoreOp.block = Target
        /\ StoreOp' = [StoreOp EXCEPT !.kind = "done"]
    BY <1>3, <2>1, <2>2, <2>3
  <2>7. \E d \in StoreOp.drives, c \in Contents :
          disk' = [disk EXCEPT ![d] = [@ EXCEPT ![StoreOp.block] = c]]
    BY <2>1, <2>2, <2>3, <2>4, <2>6
  <2> QED
    BY <2>3, <2>5, <2>6, <2>7, StoreMapping
<1>15. ASSUME EndRead("ok") PROVE Store!DoRead
  <2>1. pc = "read" /\ outcome' = "ok" /\ UNCHANGED <<busy, cmd, issued, buf, disk>>
    BY <1>15 DEF EndRead
  <2>2. outcome = "none" /\ cmd = "read" /\ Active /\ drv \in issued.drives
    BY <1>8, <2>1 DEF ServiceInv, AimInv, InService, Outstanding
  <2>3. Target \in Blocks
    BY <2>1, ServiceTarget
  <2>4. buf = disk[drv][Target]
    <3>1. ReadBufInv'
      BY ReadBufStep
    <3>2. \A d \in issued.drives : buf = disk[d][Target]
      BY <2>1, <2>2, <3>1 DEF ReadBufInv, Target
    <3> QED
      BY <2>2, <3>2
  <2>5. StoreResult' = {disk[drv][Target]}
    BY <2>1, <2>2, <2>4 DEF StoreResult
  <2>6. /\ StoreOp.kind = "read" /\ StoreOp.drives = issued.drives /\ StoreOp.block = Target
        /\ StoreOp' = [StoreOp EXCEPT !.kind = "done"]
    BY <1>3, <2>1, <2>2, <2>3
  <2> QED
    BY <2>1, <2>2, <2>3, <2>5, <2>6, StoreMapping
<1>16. TaskStep => Aside \/ SkipDrive \/ NoWrite \/ FailWrite \/ FillBuffer \/ CopyIn \/ CommitWrite
                   \/ EndRead("ok") \/ EndRead("failed")
  BY DEF TaskStep, Poll, ReadTrackSide, ReadSectorReg, AckHigh, TakeDrive, CopyOut, NoRead, AckLow
<1>17. Menu \/ UNCHANGED vars => Aside
  BY DEF Menu, Unmount, Mount
<1> QED
  BY <1>1, <1>2, <1>4, <1>5, <1>6, <1>7, <1>9, <1>10, <1>11, <1>12, <1>13, <1>14, <1>15, <1>16,
     <1>17 DEF Next

\* The invariants of a service hold throughout.
LEMMA ServiceInvariant ==
  ASSUME Hazards \cap Disruptive = {} PROVE Spec => [](AimInv /\ ServiceInv /\ ReadBufInv)
<1>1. Init => AimInv /\ ServiceInv /\ ReadBufInv
  BY DEF Init, AimInv, InService, Outstanding, ServiceInv, NoCmd, TypeII, ReadBufInv
<1> QED
  BY <1>1, TypeCorrect, AimStep, ServiceStep, ReadBufStep, PTL DEF Spec

\* As long as the CPU leaves the card alone while a command is in progress, nothing is reset
\* and the motor does not stop under a request, the card implements SectorStore: chip, card
\* and fdc_task together carry out one sector operation at a time, each takes effect at most
\* once and at one instant, and a read returns what the addressed sector holds at that instant
\* (fdc.c:97-145, fdc1771.v:285-330).
THEOREM CardImplementsStore ==
  ASSUME Hazards \cap Disruptive = {} PROVE Spec => ImplementsStore
<1> QED
  BY StoreInit, StoreStep, ServiceInvariant, TypeCorrect, PTL DEF Spec, ImplementsStore, Store!Spec

\* The bytes a Read Sector has shown to the CPU so far; one more is on its way.
Published == IF ~busy THEN SectorLen ELSE IF pos = 0 THEN 0 ELSE pos - 1

\* The inductive invariant behind ReadDelivers: the chip shows the CPU the buffer byte by
\* byte, and without lost data the CPU has taken all but the one that is waiting.
ReadInv ==
  cmd = "read" /\ ~rnf =>
    /\ ~busy => complete /\ ~enabled
    /\ busy /\ ~complete => ~enabled /\ ~drq
    /\ enabled => lead = 0 /\ pos > 0 /\ prev = buf[pos - 1]
    /\ ~lost =>
         /\ Published = Len(got) + (IF drq THEN 1 ELSE 0)
         /\ \A i \in 1..Len(got) : got[i] = buf[i - 1]
         /\ drq => dataReg = buf[Published - 1]

\* A byte clock shows the CPU the next byte of the buffer, or ends the command.
LEMMA ReadByteClkKeeps == TypeOK /\ ReadInv /\ ReadByteClk => ReadInv'
<1> SUFFICES ASSUME TypeOK, ReadInv, ReadByteClk PROVE ReadInv'
  OBVIOUS
<1> SUFFICES ASSUME ~rnf PROVE ReadInv'
  BY DEF ReadInv, ReadByteClk, ByteToCpu
<1>1. /\ busy /\ cmd = "read" /\ UNCHANGED <<cmd, rnf, complete, buf, got>>
      /\ lead' = IF lead > 0 THEN lead - 1 ELSE 0
      /\ (lost' <=> lost \/ (enabled /\ drq)) /\ (drq' <=> drq \/ enabled)
  BY DEF ReadByteClk, ByteToCpu, ByteClock, TypeOK, StatusType
<1>2. /\ pos \in Nat /\ pos <= SectorLen /\ (~enabled => pos = 0)
      /\ SectorLen \in Nat /\ SectorLen > 0 /\ lead \in Nat /\ Len(got) \in Nat
  BY <1>1, FdcAssumption DEF TypeOK, ProgressType, CpuType
<1>3. /\ busy /\ ~complete => ~enabled /\ ~drq
      /\ enabled => lead = 0 /\ pos > 0 /\ prev = buf[pos - 1]
      /\ ~lost =>
           /\ (IF pos = 0 THEN 0 ELSE pos - 1) = Len(got) + (IF drq THEN 1 ELSE 0)
           /\ \A i \in 1..Len(got) : got[i] = buf[i - 1]
  BY <1>1 DEF ReadInv, Published
<1>4. CASE lead > 0 \/ ~complete
  <2>1. UNCHANGED <<dataReg, prev, pos, enabled, busy>> /\ ~enabled
    <3>1. UNCHANGED <<dataReg, prev, pos, enabled, busy>>
      BY <1>4 DEF ReadByteClk, ByteToCpu
    <3>2. ~enabled
      BY <1>1, <1>2, <1>3, <1>4
    <3> QED
      BY <3>1, <3>2
  <2>2. drq' <=> drq
    BY <1>1, <2>1
  <2>3. Published' = Published
    BY <2>1 DEF Published
  <2> QED
    BY <1>1, <2>1, <2>2, <2>3 DEF ReadInv
<1>5. CASE ~(lead > 0 \/ ~complete) /\ enabled /\ pos = SectorLen
  <2>1. dataReg' = prev /\ ~enabled' /\ ~busy' /\ complete /\ UNCHANGED <<prev, pos>>
    BY <1>5 DEF ReadByteClk, ByteToCpu
  <2>2. Published' = SectorLen
    BY <2>1 DEF Published
  <2>3. ~lost' => ~lost /\ ~drq
    BY <1>1, <1>5
  <2>4. ~lost' => Published' = Len(got) + 1 /\ drq'
    BY <1>1, <1>2, <1>3, <1>5, <2>2, <2>3
  <2> QED
    BY <1>1, <1>3, <1>5, <2>1, <2>2, <2>3, <2>4 DEF ReadInv
<1>6. CASE ~(lead > 0 \/ ~complete) /\ ~(enabled /\ pos = SectorLen)
  <2>1. /\ dataReg' = (IF enabled THEN prev ELSE dataReg) /\ enabled' /\ complete
        /\ prev' = buf[pos] /\ pos' = pos + 1 /\ UNCHANGED busy
    BY <1>6 DEF ReadByteClk, ByteToCpu
  <2>2. Published' = pos /\ lead' = 0 /\ busy'
    BY <1>1, <1>2, <1>6, <2>1 DEF Published
  <2>6. ~lost' => ~lost /\ ~(enabled /\ drq)
    BY <1>1
  <2>3. ~lost' => Published' = Len(got) + (IF drq' THEN 1 ELSE 0)
    BY <1>1, <1>2, <1>3, <2>2, <2>6
  <2>4. ~lost' /\ drq' => dataReg' = buf[pos - 1]
    BY <1>1, <1>2, <1>3, <2>1
  <2>5. prev' = buf[pos' - 1] /\ pos' > 0
    BY <1>2, <2>1
  <2> QED
    BY <1>1, <1>3, <2>1, <2>2, <2>3, <2>4, <2>5, <2>6 DEF ReadInv
<1> QED
  BY <1>4, <1>5, <1>6

\* The CPU takes the byte that waits for it.
LEMMA TakeByteKeeps == TypeOK /\ ReadInv /\ TakeByte => ReadInv'
<1> SUFFICES ASSUME TypeOK, ReadInv, TakeByte PROVE ReadInv'
  OBVIOUS
<1> SUFFICES ASSUME cmd = "read", ~rnf PROVE ReadInv'
  BY Zenon DEF ReadInv, TakeByte
<1>1. /\ UNCHANGED <<cmd, busy, rnf, lost, complete, enabled, lead, pos, prev, dataReg, buf>>
      /\ ~drq' /\ got' = IF drq THEN Append(got, dataReg) ELSE got
  BY DEF TakeByte
<1>2. got \in Seq(Datum) /\ dataReg \in Datum
  BY DEF TypeOK, CpuType, ProgressType
<1>3. Published' = Published
  BY <1>1 DEF Published
<1>4. CASE ~drq
  BY <1>1, <1>3, <1>4 DEF ReadInv
<1>5. CASE drq
  <2>1. /\ Len(got') = Len(got) + 1 /\ got'[Len(got) + 1] = dataReg /\ Len(got) \in Nat
        /\ \A i \in 1..Len(got) : got'[i] = got[i]
    BY <1>1, <1>2, <1>5
  <2>2. ~lost => /\ Published = Len(got')
                 /\ \A i \in 1..Len(got') : got'[i] = buf[i - 1]
    BY <1>5, <2>1 DEF ReadInv
  <2> QED
    BY <1>1, <1>3, <2>1, <2>2 DEF ReadInv
<1> QED
  BY <1>4, <1>5

\* Every step keeps the bytes the CPU has taken a prefix of the buffer.
LEMMA ReadStep ==
  ASSUME Hazards \cap Disruptive = {}
  PROVE  TypeOK /\ AimInv /\ ServiceInv /\ ReadInv /\ [Next]_vars => ReadInv'
<1> SUFFICES ASSUME TypeOK, AimInv, ServiceInv, ReadInv, [Next]_vars PROVE ReadInv'
  OBVIOUS
<1> DEFINE Aside == UNCHANGED <<cmd, busy, drq, lost, rnf, complete, enabled, lead, pos, prev,
                                dataReg, buf, got>>
           Other == cmd # "read" /\ UNCHANGED cmd
\* The buffer is filled before the chip looks at it.
           Fills == /\ busy /\ ~complete
                    /\ UNCHANGED <<cmd, busy, drq, lost, rnf, enabled, lead, pos, got>>
                    /\ complete' => UNCHANGED <<prev, dataReg>>
<1>1. Aside => ReadInv'
  BY DEF ReadInv, Published
<1>2. Other => ReadInv'
  BY DEF ReadInv
<1>3. Fills => ReadInv'
  <2> SUFFICES ASSUME Fills, cmd = "read", ~rnf PROVE ReadInv'
    BY DEF ReadInv
  <2>1. ~enabled /\ ~drq /\ pos = 0
    BY DEF ReadInv, TypeOK, ProgressType
  <2>2. Published = 0 /\ Published' = 0
    BY <2>1 DEF Published
  <2>3. ~lost => Len(got) = 0
    BY <2>1, <2>2 DEF ReadInv, TypeOK, CpuType
  <2> QED
    BY <2>1, <2>2, <2>3 DEF ReadInv
<1>4. ASSUME NEW c \in Issued, Command(c) PROVE ReadInv'
  <2> SUFFICES ASSUME c = "read" PROVE ReadInv'
    BY <1>4 DEF Command, ReadInv
  <2>1. busy' /\ ~enabled' /\ ~drq' /\ ~complete' /\ pos' = 0 /\ got' = <<>>
    BY <1>4 DEF Command
  <2> QED
    BY <2>1 DEF ReadInv, Published
<1>5. Cpu => Aside \/ Other \/ TakeByte \/ \E c \in Issued : Command(c)
  <2>1. ASSUME NEW v, GiveByte(v) PROVE Other
    BY <2>1 DEF GiveByte, Disciplined, Disruptive
  <2>2. ASSUME NEW D, NEW s, SelectDrive(D, s) PROVE Aside
    BY <2>2 DEF SelectDrive
  <2>3. ~MenuReset /\ ~Reboot
    BY DEF MenuReset, Reboot, Disruptive
  <2> QED
    BY <2>1, <2>2, <2>3 DEF Cpu, WriteSectorReg, MotorOn, ReadStatus, StartAccess
<1>6. ASSUME Rotate PROVE ReadInv'
  <2>1. UNCHANGED <<cmd, drq, lost, complete, enabled, lead, pos, prev, dataReg, buf, got>>
    BY <1>6 DEF Rotate
  <2>2. rnf' \/ UNCHANGED <<busy, rnf>>
    BY <1>6 DEF Rotate, TypeOK, StatusType
  <2> QED
    BY <1>1, <2>1, <2>2 DEF ReadInv
<1>7. Chip => Aside \/ Other \/ Rotate \/ ReadByteClk
  <2>1. MotorOff => Aside
    BY DEF MotorOff
  <2>2. IdByteClk \/ WriteByteClk => Other
    BY DEF IdByteClk, ByteToCpu, WriteByteClk
  <2>3. ChipStep => Aside \/ Other
    BY DEF ChipStep, Request, WriteEnds, EndTypeI
  <2> QED
    BY <2>1, <2>2, <2>3 DEF Chip, ByteClk
<1>8. FillBuffer \/ CopyIn => Fills
  BY DEF FillBuffer, CopyIn, AimInv, InService, Outstanding
<1>9. AckLow => Fills
  BY DEF AckLow, AimInv, InService, Outstanding
<1>10. TaskStep => Aside \/ FillBuffer \/ CopyIn \/ AckLow
  BY DEF TaskStep, Poll, ReadTrackSide, ReadSectorReg, AckHigh, SkipDrive, TakeDrive, CopyOut,
         CommitWrite, FailWrite, NoWrite, NoRead, EndRead
<1>11. Menu \/ UNCHANGED vars => Aside
  BY DEF Menu, Unmount, Mount
<1> QED
  BY <1>1, <1>2, <1>3, <1>4, <1>5, <1>6, <1>7, <1>8, <1>9, <1>10, <1>11, ReadByteClkKeeps,
     TakeByteKeeps DEF Next

\* A Read Sector that ends without an error bit has given the CPU the whole addressed sector,
\* byte by byte and in order, or 0xff throughout when the image could not be read, for every
\* sector length and lead-in. Disks may be swapped (fdc1771.v:287-308, fdc.c:131-141).
THEOREM ReadsDeliver ==
  ASSUME Hazards \cap Disruptive = {} PROVE Spec => []ReadDelivers
<1>1. Init => ReadInv
  BY DEF Init, ReadInv
<1>2. TypeOK /\ AimInv /\ ServiceInv /\ ReadBufInv /\ ReadInv => ReadDelivers
  <2> SUFFICES ASSUME TypeOK, ServiceInv, ReadBufInv, ReadInv,
                      issued.cmd = "read", ~busy, ~rnf, ~lost, ~drq
               PROVE  /\ Len(got) = SectorLen
                      /\ \A d \in issued.drives, i \in Pos :
                           /\ outcome = "ok" => got[i + 1] = disk[d][Target][i]
                           /\ outcome = "failed" => got[i + 1] = Fill
    BY DEF ReadDelivers
  <2>1. cmd = "read"
    BY DEF ServiceInv
  <2>2. Len(got) = SectorLen /\ \A i \in 1..SectorLen : got[i] = buf[i - 1]
    BY <2>1 DEF ReadInv, Published, TypeOK, CpuType
  <2>3. \A i \in Pos : got[i + 1] = buf[i]
    BY <2>2, FdcAssumption DEF Pos
  <2> QED
    BY <2>1, <2>2, <2>3 DEF ReadBufInv
<1> QED
  BY <1>1, <1>2, ReadStep, ServiceInvariant, TypeCorrect, PTL DEF Spec

\* The inductive invariant behind WriteLands, up to the request: without lost data the buffer
\* holds what the CPU has given, and the header of the sector is taken for found only when the
\* buffer is full.
WriteInv ==
  cmd = "write" =>
    /\ found => lead = 0 /\ ~enabled
    /\ lead > 0 => ~enabled
    /\ ~rnf => (busy \/ complete)
    /\ ~rnf /\ ~lost =>
         /\ lead > 0 => ~drq /\ sent = <<>> /\ pos = 0
         /\ lead = 0 /\ enabled =>
              /\ Len(sent) = pos + (IF drq THEN 0 ELSE 1)
              /\ ~drq => dataReg = sent[pos + 1]
              /\ \A i \in 0..(pos - 1) : buf[i] = sent[i + 1]
         /\ lead = 0 /\ ~enabled =>
              ~drq /\ Len(sent) = SectorLen /\ \A i \in Pos : buf[i] = sent[i + 1]

\* A byte clock stores the byte the CPU gave, or takes the command out of its lead-in.
LEMMA WriteByteClkKeeps == TypeOK /\ WriteInv /\ WriteByteClk => WriteInv'
<1> SUFFICES ASSUME TypeOK, WriteInv, WriteByteClk PROVE WriteInv'
  OBVIOUS
<1>1. /\ busy /\ cmd = "write" /\ UNCHANGED <<cmd, busy, rnf, complete, found, sent, dataReg>>
      /\ lead' = IF lead > 0 THEN lead - 1 ELSE 0
      /\ (lost' <=> lost \/ (enabled /\ drq))
      /\ (drq' <=> IF enabled THEN ~LastByte ELSE drq \/ lead = 1)
      /\ (enabled' <=> IF enabled THEN ~LastByte ELSE lead = 1)
      /\ buf' = IF enabled THEN [buf EXCEPT ![pos] = dataReg] ELSE buf
      /\ pos' = IF enabled /\ ~LastByte THEN pos + 1 ELSE pos
  BY DEF WriteByteClk, ByteClock, TypeOK, StatusType
<1>2. /\ pos \in Nat /\ pos < SectorLen /\ SectorLen \in Nat /\ SectorLen > 0 /\ lead \in Nat
      /\ Len(sent) \in Nat /\ buf \in [Pos -> Datum]
  BY <1>1, FdcAssumption DEF TypeOK, ProgressType, CpuType, CardType, Contents
<1>3. /\ found => lead = 0 /\ ~enabled
      /\ lead > 0 => ~enabled
      /\ ~rnf /\ ~lost =>
           /\ lead > 0 => ~drq /\ sent = <<>> /\ pos = 0
           /\ lead = 0 /\ enabled =>
                /\ Len(sent) = pos + (IF drq THEN 0 ELSE 1)
                /\ ~drq => dataReg = sent[pos + 1]
                /\ \A i \in 0..(pos - 1) : buf[i] = sent[i + 1]
           /\ lead = 0 /\ ~enabled =>
                ~drq /\ Len(sent) = SectorLen /\ \A i \in Pos : buf[i] = sent[i + 1]
  BY <1>1 DEF WriteInv
<1>4. (found' => lead' = 0 /\ ~enabled') /\ (lead' > 0 => ~enabled') /\ busy'
  BY <1>1, <1>2, <1>3
<1> SUFFICES ASSUME ~rnf, ~lost, ~(enabled /\ drq)
             PROVE  /\ lead' > 0 => ~drq' /\ sent' = <<>> /\ pos' = 0
                    /\ lead' = 0 /\ enabled' =>
                         /\ Len(sent') = pos' + (IF drq' THEN 0 ELSE 1)
                         /\ ~drq' => dataReg' = sent'[pos' + 1]
                         /\ \A i \in 0..(pos' - 1) : buf'[i] = sent'[i + 1]
                    /\ lead' = 0 /\ ~enabled' =>
                         ~drq' /\ Len(sent') = SectorLen /\ \A i \in Pos : buf'[i] = sent'[i + 1]
  BY <1>1, <1>4 DEF WriteInv
<1>5. CASE lead > 1
  BY <1>1, <1>2, <1>3, <1>5
<1>6. CASE lead = 1
  <2>1. lead' = 0 /\ enabled' /\ drq' /\ Len(sent) = 0 /\ pos' = 0
    BY <1>1, <1>2, <1>3, <1>6
  <2> QED
    BY <1>1, <2>1
<1>7. CASE lead = 0 /\ ~enabled
  <2>1. lead' = 0 /\ ~enabled' /\ ~drq' /\ buf' = buf
    BY <1>1, <1>3, <1>7
  <2> QED
    BY <1>1, <1>3, <1>7, <2>1
<1>8. CASE lead = 0 /\ enabled
  <2>1. /\ ~drq /\ Len(sent) = pos + 1 /\ dataReg = sent[pos + 1]
        /\ \A i \in 0..(pos - 1) : buf[i] = sent[i + 1]
    BY <1>3, <1>8
  <2>2. buf' = [buf EXCEPT ![pos] = dataReg]
    BY <1>1, <1>8
  <2>3. \A i \in 0..pos : buf'[i] = sent[i + 1]
    BY <1>2, <2>1, <2>2 DEF Pos
  <2>4. CASE LastByte
    <3>1. ~drq' /\ ~enabled' /\ lead' = 0 /\ pos = SectorLen - 1
      BY <1>1, <1>8, <2>4 DEF LastByte
    <3> QED
      BY <1>1, <1>2, <2>1, <2>3, <3>1 DEF Pos
  <2>5. CASE ~LastByte
    <3>1. drq' /\ enabled' /\ lead' = 0 /\ pos' = pos + 1
      BY <1>1, <1>8, <2>5
    <3> QED
      BY <1>1, <1>2, <2>1, <2>3, <3>1
  <2> QED
    BY <2>4, <2>5
<1> QED
  BY <1>2, <1>5, <1>6, <1>7, <1>8

\* A byte given while one is asked for is the next of the sector.
LEMMA GiveByteKeeps ==
  ASSUME NEW v \in Datum
  PROVE  TypeOK /\ ServiceInv /\ WriteInv /\ GiveByte(v) => WriteInv'
<1> SUFFICES ASSUME TypeOK, ServiceInv, WriteInv, GiveByte(v) PROVE WriteInv'
  OBVIOUS
<1>1. /\ UNCHANGED <<cmd, busy, rnf, lost, found, complete, enabled, lead, pos, buf>> /\ ~drq'
      /\ dataReg' = IF drq \/ ~busy THEN v ELSE dataReg
      /\ sent' = IF drq THEN Append(sent, v) ELSE sent
  BY DEF GiveByte
<1>2. sent \in Seq(Datum) /\ lead \in Nat
  BY FdcAssumption DEF TypeOK, CpuType, ProgressType
<1> SUFFICES ASSUME cmd = "write", ~rnf, ~lost PROVE WriteInv'
  BY <1>1, Zenon DEF WriteInv
<1>3. enabled => busy /\ lead = 0 /\ pos \in Nat
  BY <1>2 DEF WriteInv, ServiceInv, TypeOK, ProgressType
<1>4. CASE ~drq
  BY <1>1, <1>3, <1>4 DEF WriteInv
<1>5. CASE drq
  <2>1. enabled /\ Len(sent) = pos /\ \A i \in 0..(pos - 1) : buf[i] = sent[i + 1]
    BY <1>2, <1>3, <1>5 DEF WriteInv
  <2>2. /\ Len(sent') = pos + 1 /\ sent'[pos + 1] = v
        /\ \A i \in 0..(pos - 1) : sent'[i + 1] = sent[i + 1]
    BY <1>1, <1>2, <1>3, <1>5, <2>1
  <2>3. dataReg' = v
    BY <1>1, <1>5
  <2> QED
    BY <1>1, <1>3, <2>1, <2>2, <2>3 DEF WriteInv
<1> QED
  BY <1>4, <1>5

\* Every step keeps the buffer a prefix of what the CPU has given.
LEMMA WriteStep ==
  ASSUME Hazards \cap (Disruptive \cup {"early_header"}) = {}
  PROVE  TypeOK /\ AimInv /\ ServiceInv /\ WriteInv /\ [Next]_vars => WriteInv'
<1> SUFFICES ASSUME TypeOK, AimInv, ServiceInv, WriteInv, [Next]_vars PROVE WriteInv'
  OBVIOUS
<1> DEFINE Aside == UNCHANGED <<cmd, busy, drq, lost, rnf, found, enabled, lead, pos, dataReg,
                                buf, sent>> /\ (complete => complete')
           Other == cmd # "write" /\ UNCHANGED cmd
<1>1. Aside => WriteInv'
  BY DEF WriteInv
<1>2. Other => WriteInv'
  BY DEF WriteInv
<1>3. ASSUME NEW c \in Issued, Command(c) PROVE WriteInv'
  <2> SUFFICES ASSUME c = "write" PROVE WriteInv'
    BY <1>3 DEF Command, WriteInv
  <2>1. /\ busy' /\ ~enabled' /\ ~drq' /\ ~found' /\ lead' = Lead /\ pos' = 0 /\ sent' = <<>>
        /\ Lead > 0 /\ Lead \in Nat
    BY <1>3, FdcAssumption DEF Command
  <2> QED
    BY <2>1 DEF WriteInv
<1>4. \A v \in Byte(Len(sent) % SectorLen) : v \in Datum
  <2>1. Len(sent) % SectorLen \in Pos
    BY FdcAssumption DEF Pos, TypeOK, CpuType
  <2> QED
    BY <2>1, DatumFacts
<1>5. Cpu => \/ Aside \/ Other \/ \E c \in Issued : Command(c)
             \/ \E v \in Byte(Len(sent) % SectorLen) : GiveByte(v)
  <2>1. ASSUME NEW D, NEW s, SelectDrive(D, s) PROVE Aside
    BY <2>1 DEF SelectDrive
  <2>2. TakeByte => Other
    BY DEF TakeByte, Disciplined, Disruptive
  <2>3. ~MenuReset /\ ~Reboot
    BY DEF MenuReset, Reboot, Disruptive
  <2>4. ASSUME NEW s, WriteSectorReg(s) PROVE Aside
    BY <2>4 DEF WriteSectorReg
  <2>5. MotorOn => Aside
    BY DEF MotorOn
  <2>6. ReadStatus => Aside
    BY DEF ReadStatus
  <2>7. StartAccess => Aside
    BY DEF StartAccess
  <2> QED
    BY <2>1, <2>2, <2>3, <2>4, <2>5, <2>6, <2>7 DEF Cpu
<1>6. ASSUME Rotate PROVE WriteInv'
  <2>1. UNCHANGED <<cmd, drq, lost, complete, enabled, lead, pos, dataReg, buf, sent>>
    BY <1>6 DEF Rotate
  <2>2. rnf' \/ UNCHANGED <<busy, rnf>>
    BY <1>6 DEF Rotate, TypeOK, StatusType
  <2>3. cmd = "write" /\ found' /\ ~found => ~(lead > 0 \/ enabled)
    BY <1>6 DEF Rotate, Disruptive
  <2>4. lead \in Nat
    BY FdcAssumption DEF TypeOK, ProgressType
  <2> QED
    BY <2>1, <2>2, <2>3, <2>4 DEF WriteInv
<1>7. Chip => Aside \/ Other \/ Rotate \/ WriteByteClk \/ WriteEnds
  <2>1. MotorOff => Aside
    BY DEF MotorOff
  <2>2. ReadByteClk \/ IdByteClk => Other
    BY DEF ReadByteClk, IdByteClk, ByteToCpu
  <2>3. Request \/ EndTypeI => Aside \/ Other
    BY DEF Request, EndTypeI
  <2> QED
    BY <2>1, <2>2, <2>3 DEF Chip, ByteClk, ChipStep
<1>8. WriteEnds => WriteInv'
  BY DEF WriteEnds, WriteInv
<1>9. FillBuffer \/ CopyIn => Other
  BY DEF FillBuffer, CopyIn, ServiceInv
<1>10. AckLow => Aside
  BY DEF AckLow, Complete
<1>11. TaskStep => Aside \/ FillBuffer \/ CopyIn \/ AckLow
  BY DEF TaskStep, Poll, ReadTrackSide, ReadSectorReg, AckHigh, SkipDrive, TakeDrive, CopyOut,
         CommitWrite, FailWrite, NoWrite, NoRead, EndRead
<1>12. Menu \/ UNCHANGED vars => Aside
  BY DEF Menu, Unmount, Mount
<1> QED
  BY <1>1, <1>2, <1>3, <1>4, <1>5, <1>6, <1>7, <1>8, <1>9, <1>10, <1>11, <1>12, WriteByteClkKeeps,
     GiveByteKeeps DEF Next

\* The inductive invariant behind WriteLands, from the request on: fdc_task copies a buffer that
\* rests, and the image then has what the buffer has.
StageInv ==
  /\ Writing => \A i \in Pos : i < idx => stage[i] = buf[i]
  /\ cmd = "write" /\ outcome = "ok" => \A d \in issued.drives : disk[d][Target] = buf

\* Every step keeps fdc_task's copy, and then the image, the same as the buffer.
LEMMA StageStep ==
  ASSUME Hazards \cap (Disruptive \cup {"early_header"}) = {}
  PROVE  TypeOK /\ AimInv /\ ServiceInv /\ WriteInv /\ StageInv /\ [Next]_vars => StageInv'
<1> SUFFICES ASSUME TypeOK, AimInv, ServiceInv, WriteInv, StageInv, [Next]_vars PROVE StageInv'
  OBVIOUS
<1> DEFINE Aside == /\ UNCHANGED <<buf, disk, cmd, issued>>
                    /\ outcome' = outcome \/ outcome' # "ok"
                    /\ pc' = "write" => UNCHANGED <<pc, idx, drv, wrReq, wp, stage>>
           Other == cmd # "write" /\ UNCHANGED <<cmd, pc, wrReq>>
<1>1. Aside => StageInv'
  BY DEF StageInv, Writing, Target
<1>2. Other => StageInv'
  BY DEF StageInv, Writing, AimInv
<1>3. ASSUME NEW c \in Issued, Command(c) PROVE StageInv'
  BY <1>3 DEF Command, CpuFree, Disruptive, StageInv, Writing, AimInv, InService, Outstanding
<1>4. Cpu => Aside \/ \E c \in Issued : Command(c)
  <2>1. ASSUME NEW D, NEW s, SelectDrive(D, s) PROVE Aside
    BY <2>1 DEF SelectDrive
  <2>2. ASSUME NEW v, GiveByte(v) PROVE Aside
    BY <2>2 DEF GiveByte
  <2>3. ~MenuReset /\ ~Reboot
    BY DEF MenuReset, Reboot, Disruptive
  <2>4. ASSUME NEW s, WriteSectorReg(s) PROVE Aside
    BY <2>4 DEF WriteSectorReg
  <2>5. MotorOn \/ ReadStatus \/ StartAccess \/ TakeByte => Aside
    BY DEF MotorOn, ReadStatus, StartAccess, TakeByte
  <2> QED
    BY <2>1, <2>2, <2>3, <2>4, <2>5 DEF Cpu
\* No byte arrives once the header is found, so none arrives while the sector is copied.
<1>5. ASSUME WriteByteClk PROVE StageInv'
  <2>1. /\ cmd = "write" /\ buf' = IF enabled THEN [buf EXCEPT ![pos] = dataReg] ELSE buf
        /\ UNCHANGED <<pc, wrReq, wp, drv, idx, stage, disk, issued, outcome, cmd>>
    BY <1>5 DEF WriteByteClk
  <2>2. enabled => ~found
    BY <2>1 DEF WriteInv
  <2>3. enabled => pc = "poll" /\ outcome = "none"
    BY <2>2 DEF ServiceInv, AimInv, InService, Outstanding
  <2>4. CASE enabled
    BY <2>1, <2>3, <2>4 DEF StageInv, Writing
  <2>5. CASE ~enabled
    BY <1>1, <2>1, <2>5
  <2> QED
    BY <2>4, <2>5
<1>6. Chip => Aside \/ WriteByteClk
  BY DEF Chip, ByteClk, ChipStep, MotorOff, Rotate, ReadByteClk, IdByteClk, ByteToCpu, Request,
         WriteEnds, EndTypeI
<1>7. ASSUME CopyOut PROVE StageInv'
  <2>1. /\ stage' = [stage EXCEPT ![idx] = buf[idx]] /\ idx' = idx + 1
        /\ UNCHANGED <<pc, wrReq, wp, drv, buf, disk, issued, outcome, cmd>> /\ Writing
    BY <1>7 DEF CopyOut
  <2>2. idx \in Nat /\ stage \in [Pos -> Datum]
    BY DEF TypeOK, TaskType, Contents
  <2>3. \A i \in Pos : i < idx' => stage'[i] = buf[i]
    BY <2>1, <2>2 DEF StageInv, Pos
  <2> QED
    BY <2>1, <2>3 DEF StageInv, Target
<1>8. ASSUME CommitWrite PROVE StageInv'
  <2>1. /\ disk' = [disk EXCEPT ![drv] = [@ EXCEPT ![Block(ts, sec)] = stage]]
        /\ idx = SectorLen /\ pc = "write" /\ pc' = "fill" /\ UNCHANGED <<cmd, issued, buf>>
    BY <1>8 DEF CommitWrite, Writing, Goto
  <2>2. drv \in issued.drives /\ \A d \in issued.drives : d = drv
    BY <1>8 DEF CommitWrite, Writing, ServiceInv, AimInv, InService, Outstanding
  <2>3. Block(ts, sec) = Target /\ Target \in Blocks /\ drv \in Drives
    BY <2>1, ServiceTarget
  <2>4. buf \in [Pos -> Datum] /\ stage \in [Pos -> Datum] /\ disk \in [Drives -> [Blocks -> Contents]]
    BY DEF TypeOK, CardType, TaskType, ImageType, Contents
  <2>5. \A i \in Pos : stage[i] = buf[i]
    BY <1>8, <2>1, FdcAssumption DEF StageInv, CommitWrite, Pos
  <2>6. stage = buf
    BY <2>4, <2>5
  <2>7. disk'[drv][Target] = stage
    BY <2>1, <2>3, <2>4
  <2> QED
    BY <2>1, <2>2, <2>6, <2>7 DEF StageInv, Writing, Target
<1>9. ASSUME FillBuffer \/ CopyIn \/ EndRead("ok") PROVE cmd # "write" /\ cmd' # "write" /\ pc' # "write"
  BY <1>9 DEF FillBuffer, CopyIn, EndRead, Goto, ServiceInv
<1>10. TakeDrive => StageInv'
  BY DEF TakeDrive, StageInv, Pos, Target
<1>11. TaskStep => Aside \/ TakeDrive \/ CopyOut \/ CommitWrite \/ FillBuffer \/ CopyIn
                   \/ EndRead("ok")
  BY DEF TaskStep, Poll, ReadTrackSide, ReadSectorReg, AckHigh, SkipDrive, FailWrite, NoWrite,
         NoRead, EndRead, AckLow, Goto, Locals
<1>12. Menu \/ UNCHANGED vars => Aside
  BY DEF Menu, MayMount, Unmount, Mount
<1>13. cmd' # "write" /\ pc' # "write" => StageInv'
  BY DEF StageInv, Writing
<1> QED
  BY <1>1, <1>3, <1>4, <1>5, <1>6, <1>7, <1>8, <1>9, <1>10, <1>11, <1>12, <1>13 DEF Next

\* A Write Sector that ends without an error bit and whose service succeeded has put the bytes
\* the CPU gave, all of them and in order, into the addressed sector. This needs one thing
\* more of the surroundings: that the header of the sector does not pass before its data is
\* in the buffer, for the chip asks for the transfer as soon as it has seen the header
\* (fdc1771.v:309-330).
THEOREM WritesLand ==
  ASSUME Hazards \cap (Disruptive \cup {"early_header"}) = {} PROVE Spec => []WriteLands
<1>1. Init => WriteInv /\ StageInv
  BY DEF Init, WriteInv, StageInv, Writing
<1>2. TypeOK /\ ServiceInv /\ WriteInv /\ StageInv => WriteLands
  <2> SUFFICES ASSUME TypeOK, ServiceInv, WriteInv, StageInv,
                      issued.cmd = "write", ~busy, ~rnf, ~lost, outcome = "ok"
               PROVE  /\ Len(sent) = SectorLen
                      /\ \A d \in issued.drives, i \in Pos : disk[d][Target][i] = sent[i + 1]
    BY DEF WriteLands
  <2>1. cmd = "write" /\ found
    BY DEF ServiceInv
  <2>2. Len(sent) = SectorLen /\ \A i \in Pos : buf[i] = sent[i + 1]
    BY <2>1 DEF WriteInv
  <2> QED
    BY <2>1, <2>2 DEF StageInv
<1>3. Hazards \cap Disruptive = {}
  OBVIOUS
<1> QED
  BY <1>1, <1>2, <1>3, WriteStep, StageStep, ServiceInvariant, TypeCorrect, PTL DEF Spec

\* What the chip reports of a sector command is true under the disciplined use of the card
\* (fdc1771.v:285-330, 366-375).
THEOREM CardHonest == ASSUME Hazards = {} PROVE Spec => []Honest
<1>1. /\ Hazards \cap Disruptive = {}
      /\ Hazards \cap (Disruptive \cup {"early_header"}) = {}
      /\ Hazards \cap {"overlap", "retarget", "swap"} = {}
  OBVIOUS
<1>2. ReadDelivers /\ WriteLands /\ RnfHonest => Honest
  BY DEF Honest
<1> QED
  BY <1>1, <1>2, ReadsDeliver, WritesLand, RnfOnlyWhenMissing, PTL

=============================================================================
