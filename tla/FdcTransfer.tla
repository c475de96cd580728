---------------------------- MODULE FdcTransfer ----------------------------
(***************************************************************************)
(* The path of one disk sector through the TI floppy controller card.      *)
(* Three parties share it and none waits for the others' clock:            *)
(*   - the TI CPU, which programs the FD1771 (a command, a sector number)  *)
(*     and moves data bytes, held in wait states until the chip is ready;  *)
(*   - the chip and the card around it (fdc1771.v, peb_fdc.v), fed with    *)
(*     byte clocks, sector headers and index pulses by a mock drive        *)
(*     (fdc1771_mockdrive.v);                                              *)
(*   - the service processor, which polls for requests in its main loop    *)
(*     (fdc_task in fdc.c) and copies between the card's sector buffer and *)
(*     the image file.                                                     *)
(* Head movement (Type I commands) is summarised by EndTypeI.              *)
(***************************************************************************)
EXTENDS Integers, Sequences

CONSTANTS
  NDrives,      \* DSK1..DSK3: 3 in the card
  Cyls,         \* head positions, 0..63 in the mock drive
  Sectors,      \* sector numbers the CPU asks for; SPS is one the track does not have
  Sides,        \* sides the CPU selects: {0} or {0, 1}
  Tracks,       \* dsk_tracks: tracks of an image, both sides together
  SPS,          \* sectors per track, dsk_shape & 0x3f
  DoubleSided,  \* dsk_shape & 0x80
  SectorLen,    \* bytes in a sector: 256
  HeaderLen,    \* bytes a Read Address command returns: 6
  Lead,         \* byte clocks before the first byte of a command: 7
  Revs,         \* index pulses before "record not found": 6
  Byte(_),      \* Byte(i): the values the CPU may write as the i-th byte of a sector
  Fill,         \* 0xff, what fdc_task presets the buffer to before a read
  Issued,       \* the commands the CPU issues
  MaxCommands,  \* bound: commands in a behaviour
  Hazards       \* what the surroundings may do beyond the disciplined use

HazardNames == {"overlap",      \* the CPU issues a command while one is in progress
                "retarget",     \* it changes drive, side or sector number meanwhile
                "reset",        \* the menu resets the TI and its expansion box
                "reboot",       \* the reset button restarts everything
                "swap",         \* a disk is mounted or unmounted under a command
                "motor",        \* the motor stops under an unserved request
                "early_header"} \* the header of a sector to write passes before its data

ASSUME FdcAssumption ==
  /\ NDrives \in Nat /\ NDrives > 0
  /\ Cyls \subseteq Nat /\ 0 \in Cyls
  /\ Sectors \subseteq Nat /\ 0 \in Sectors
  /\ Sides \subseteq {0, 1}
  /\ Tracks \in Nat /\ SPS \in Nat /\ SPS > 0
  /\ DoubleSided \in BOOLEAN
  /\ SectorLen \in Nat /\ SectorLen > 0
  /\ HeaderLen \in Nat /\ HeaderLen > 0
  /\ Lead \in Nat /\ Lead > 0
  /\ Revs \in Nat /\ Revs > 1
  /\ MaxCommands \in Nat
  /\ \A i \in 0..(SectorLen - 1) : Byte(i) \subseteq Nat
  /\ Fill \in Nat
  /\ Issued \subseteq {"typeI", "read", "write", "readid", "readtrack", "writetrack", "force"}
  /\ Hazards \subseteq HazardNames

Drives == 1..NDrives
Pos == 0..(SectorLen - 1)
Bytes == UNION {Byte(i) : i \in Pos}
Datum == Bytes \cup {0, 1, Fill} \cup Cyls \cup 0..SPS
Contents == [Pos -> Datum]
Commands == {"typeI", "read", "write", "readid", "readtrack", "writetrack", "force"}
TypeII == {"read", "write"}
NoCmd == [cmd |-> "none"]

VARIABLES
  \* fdc1771: command and status
  cmd, busy, drq, irq, lost, rnf,
  \* fdc1771: progress of the command
  found, pending, complete, enabled, lead, pos, revs,
  \* fdc1771: registers
  dataReg, prev, sectorReg,
  \* peb_fdc: sector buffer, request and acknowledge registers
  buf, imgRd, imgWr, ack,
  \* peb_fdc: CRU latches and the motor monoflop; mock drives
  dsel, side, motor, head, rot,
  \* fdc_task: program counter and locals
  pc, rdReq, wrReq, ts, sec, drv, idx, stage,
  \* the mounted images: contents; mounted and write protected in the card's registers;
  \* open in fdc.c (dsk[].size # 0)
  disk, mounted, wp, open,
  \* the CPU's access held in wait states
  waiting,
  \* history: the number of commands so far, the latest as issued, the bytes the CPU gave and
  \* took in it, and how the request of it was served
  ncmd, issued, sent, got, outcome

status == <<cmd, busy, drq, irq, lost, rnf>>
progress == <<found, pending, complete, enabled, lead, pos, revs>>
regs == <<dataReg, prev, sectorReg>>
request == <<imgRd, imgWr, ack>>
drive == <<dsel, side, motor, head, rot>>
task == <<pc, rdReq, wrReq, ts, sec, drv, idx, stage>>
image == <<disk, mounted, wp, open>>
history == <<ncmd, issued, sent, got, outcome>>
chip == <<status, progress, regs>>
card == <<buf, request, drive>>
sp == <<task, image>>
cpu == <<waiting, history>>
vars == <<chip, card, sp, cpu>>

----------------------------------------------------------------------------
(* Derived state.                                                          *)

Disciplined == "overlap" \notin Hazards

\* The hazards that move the aim of a request while it is served.
Disruptive == {"overlap", "retarget", "reset", "reboot", "motor"}

\* The drives whose select line reaches them: only while the motor runs.
Selected == IF motor THEN dsel ELSE {}

\* The mock drives form a chain: the first selected one drives the signals, and
\* it has byte clocks only when it is mounted.
Spinning == \E d \in Selected \cap mounted : \A e \in Selected : d <= e

\* The track_side register; with no drive selected the chain ends in track 0.
TrackSide == [cyl |-> IF Selected = {} THEN 0 ELSE head, side |-> side]

\* (a defect: side 1 is taken for side 0)
ImageTrackFlat(t) == t.cyl

\* fdc_task's choice of the image's track: side 1 runs from the last track down.
ImageTrack(t) == IF DoubleSided /\ t.side = 1 THEN Tracks - 1 - t.cyl ELSE t.cyl

OnDisk(t, s) == ImageTrack(t) \in 0..(Tracks - 1) /\ s < SPS

Blocks == (0..(Tracks - 1)) \X (0..(SPS - 1))
Block(t, s) == <<ImageTrack(t), s>>

\* (a defect: the end of the monoflop does not free the CPU)
ReadyNoMotor == drq \/ irq

\* The ready line: the CPU leaves its wait states.
Ready == drq \/ irq \/ ~motor

\* A sector command has found its header and its transfer is not done yet.
Outstanding == busy /\ cmd \in TypeII /\ found /\ ~complete

\* The i-th byte of the sector header under the head.
HeaderByte(i) == CASE i = 0 -> head
                   [] i = 1 -> IF DoubleSided THEN side ELSE 0
                   [] i = 2 -> rot
                   [] i = 3 -> 1
                   [] OTHER -> 0

\* After a Force Interrupt the edges of the ready line and the index pulse may raise the
\* interrupt request, as its condition bits say.
ForcedIrq(set, event) ==
  irq' \in (IF set THEN {TRUE} ELSE IF cmd = "force" /\ event THEN {irq, TRUE} ELSE {irq})

----------------------------------------------------------------------------
Init ==
  /\ cmd = "typeI" /\ busy = FALSE /\ drq = FALSE /\ irq = FALSE
  /\ lost = FALSE /\ rnf = FALSE
  /\ found = FALSE /\ pending = FALSE /\ complete = FALSE /\ enabled = FALSE
  /\ lead = 0 /\ pos = 0 /\ revs = 0
  /\ dataReg = 0 /\ prev = 0 /\ sectorReg = 0
  /\ buf = [i \in Pos |-> 0]
  /\ imgRd = {} /\ imgWr = {} /\ ack = FALSE
  /\ dsel = {} /\ side = 0 /\ motor = FALSE /\ head = 0 /\ rot = 0
  /\ pc = "poll" /\ rdReq = {} /\ wrReq = {}
  /\ ts = [cyl |-> 0, side |-> 0] /\ sec = 0 /\ drv = 1 /\ idx = 0
  /\ stage = [i \in Pos |-> 0]
  /\ disk = [d \in Drives |-> [b \in Blocks |-> [i \in Pos |-> 0]]]
  /\ mounted = {} /\ wp = {} /\ open = {}
  /\ waiting = FALSE
  /\ ncmd = 0 /\ issued = NoCmd /\ sent = <<>> /\ got = <<>> /\ outcome = "none"

----------------------------------------------------------------------------
(* The program counter and the locals of fdc_task.                          *)

Goto(l) == pc' = l

\* What fdc_task has read lives no longer than its call.
Locals == /\ rdReq' = {} /\ wrReq' = {}
          /\ ts' = [cyl |-> 0, side |-> 0] /\ sec' = 0 /\ drv' = 1 /\ idx' = 0
          /\ stage' = [i \in Pos |-> 0]

----------------------------------------------------------------------------
(* The CPU: accesses to the chip's registers and the card's CRU bits.       *)

\* What the disciplined driver waits for before it touches anything but data.
CpuFree(hazard) == ~waiting /\ (~busy \/ hazard \in Hazards)

\* Writing the command register, and the new_cmd cycle that follows it.
Command(c) ==
  /\ CpuFree("overlap")
  /\ ncmd < MaxCommands /\ ncmd' = ncmd + 1
  /\ cmd' = c
  /\ busy' = (c # "force")
  /\ drq' = FALSE /\ lost' = FALSE /\ rnf' = FALSE
  /\ irq' \in (IF c = "force" THEN BOOLEAN ELSE {FALSE})
  /\ found' = FALSE /\ pending' = FALSE /\ complete' = FALSE /\ enabled' = FALSE
  /\ lead' = Lead /\ pos' = 0
  /\ revs' = IF c \in TypeII \cup {"readid"} THEN Revs ELSE 0
  /\ issued' = [cmd |-> c, drives |-> dsel, track |-> [cyl |-> head, side |-> side],
               sector |-> sectorReg]
  /\ sent' = <<>> /\ got' = <<>> /\ outcome' = "none"
  /\ dataReg' \in (IF c = "typeI" THEN {dataReg, 0} ELSE {dataReg})
  /\ UNCHANGED <<prev, sectorReg, card, sp, waiting>>

WriteSectorReg(s) ==
  /\ CpuFree("retarget")
  /\ sectorReg' = s
  /\ UNCHANGED <<status, progress, dataReg, prev, card, sp, cpu>>

\* CRU bits 4 to 7: drive select lines and side select.
SelectDrive(D, s) ==
  /\ CpuFree("retarget")
  /\ <<D, s>> # <<dsel, side>>
  /\ dsel' = D /\ side' = s
  /\ rot' \in 0..SPS
  /\ UNCHANGED <<chip, buf, request, motor, head, sp, cpu>>

\* The rising edge of KACLK starts the monoflop; it restarts one that runs.
MotorOn ==
  /\ ~waiting /\ ~motor
  /\ motor' = TRUE
  /\ ForcedIrq(FALSE, TRUE)
  /\ UNCHANGED <<cmd, busy, drq, lost, rnf, progress, regs, buf, request, dsel, side, head, rot,
                 sp, cpu>>

\* Reading the status register clears the interrupt request.
ReadStatus ==
  /\ ~waiting /\ irq
  /\ irq' = FALSE
  /\ UNCHANGED <<cmd, busy, drq, lost, rnf, progress, regs, card, sp, cpu>>

\* An access to the data register is held until the ready line rises ...
StartAccess ==
  /\ ~waiting /\ cmd \in {"read", "write", "readid"} /\ (busy \/ drq)
  /\ waiting' = TRUE
  /\ UNCHANGED <<chip, card, sp, history>>

\* ... and its end clears DRQ. A byte read without DRQ is no data byte.
TakeByte ==
  /\ waiting /\ Ready
  /\ Disciplined => cmd # "write"
  /\ waiting' = FALSE
  /\ drq' = FALSE
  /\ got' = IF drq THEN Append(got, dataReg) ELSE got
  /\ UNCHANGED <<cmd, busy, irq, lost, rnf, progress, regs, card, sp, ncmd, issued, sent,
                 outcome>>

\* A byte written without DRQ while busy is ignored.
GiveByte(v) ==
  /\ waiting /\ Ready
  /\ Disciplined => cmd = "write"
  /\ waiting' = FALSE
  /\ drq' = FALSE
  /\ dataReg' = IF drq \/ ~busy THEN v ELSE dataReg
  /\ sent' = IF drq THEN Append(sent, v) ELSE sent
  /\ UNCHANGED <<cmd, busy, irq, lost, rnf, progress, prev, sectorReg, card, sp, ncmd,
                 issued, got, outcome>>

\* A reset of the expansion box. The request and acknowledge registers, the transfer
\* flags and the mock drives are not reset.
BoxReset ==
  /\ cmd' = "typeI" /\ busy' = FALSE /\ drq' = FALSE /\ irq' = FALSE
  /\ lost' = FALSE /\ rnf' = FALSE
  /\ enabled' = FALSE /\ revs' = 0
  /\ dataReg' = 0 /\ sectorReg' = 0
  /\ dsel' = {} /\ side' = 0 /\ motor' = FALSE
  /\ waiting' = FALSE
  /\ issued' = NoCmd /\ sent' = <<>> /\ got' = <<>> /\ outcome' = "none"
  /\ UNCHANGED <<found, pending, complete, lead, pos, prev, buf, request, head, rot, disk,
                 mounted, wp, ncmd>>

\* The menu's reset, from the same main loop as fdc_task.
MenuReset ==
  /\ "reset" \in Hazards
  /\ pc = "poll"
  /\ BoxReset
  /\ UNCHANGED <<task, open>>

\* The reset button restarts the service processor too, wherever it is; its new main
\* has no image open, while the card's registers still say mounted.
Reboot ==
  /\ "reboot" \in Hazards
  /\ BoxReset
  /\ Goto("poll") /\ Locals
  /\ open' = {}

----------------------------------------------------------------------------
(* The chip, its clocks, and the drive under it.                            *)

\* The monoflop runs out. Its 2.6 s are longer than the service of a request unless
\* the service processor is kept from polling ("motor").
MotorOff ==
  /\ motor
  /\ Outstanding => "motor" \in Hazards
  /\ motor' = FALSE
  /\ ForcedIrq(FALSE, TRUE)
  /\ UNCHANGED <<cmd, busy, drq, lost, rnf, progress, regs, buf, request, dsel, side, head, rot,
                 sp, cpu>>

LastRevolution == revs = 1

\* The next sector header, or the index hole after the last sector, passes. The
\* few bytes of a Read Address end before the next header.
Rotate ==
  /\ Spinning
  /\ ~(busy /\ cmd = "readid" /\ found)
  /\ rot' = IF rot = SPS THEN 0 ELSE rot + 1
  /\ LET match == busy /\ rot' < SPS /\ (cmd = "readid" \/ (cmd \in TypeII /\ sectorReg = rot'))
         index == busy /\ rot' = SPS /\ revs > 0
         fail  == index /\ LastRevolution /\ ~found
     IN  /\ match /\ cmd = "write" /\ (lead > 0 \/ enabled) => "early_header" \in Hazards
         /\ found' = (found \/ match)
         /\ revs' = IF index THEN revs - 1 ELSE revs
         /\ rnf' = (rnf \/ fail)
         /\ busy' = (busy /\ ~fail)
         /\ ForcedIrq(fail, rot' = SPS)
  /\ UNCHANGED <<cmd, drq, lost, pending, complete, enabled, lead, pos, regs, buf, request,
                 dsel, side, motor, head, sp, cpu>>

\* What every byte clock does: DRQ for the next byte, lost data when the last one
\* was not fetched, and the lead-in of the command.
ByteClock ==
  /\ Spinning /\ busy
  /\ lead' = IF lead > 0 THEN lead - 1 ELSE 0
  /\ lost' = (lost \/ (enabled /\ drq))

\* A byte clock in Read Sector or Read Address: the byte fetched last time becomes
\* visible and the next one is fetched, or the command ends.
ByteToCpu(ready, last, source(_)) ==
  /\ ByteClock
  /\ drq' = (drq \/ enabled)
  /\ IF lead > 0 \/ ~ready
     THEN UNCHANGED <<dataReg, prev, pos, enabled, busy, irq>>
     ELSE /\ dataReg' = IF enabled THEN prev ELSE dataReg
          /\ IF enabled /\ last
             THEN /\ enabled' = FALSE /\ busy' = FALSE /\ irq' = TRUE
                  /\ UNCHANGED <<prev, pos>>
             ELSE /\ enabled' = TRUE
                  /\ prev' = source(pos)
                  /\ pos' = pos + 1
                  /\ UNCHANGED <<busy, irq>>
  /\ UNCHANGED <<cmd, rnf, found, pending, complete, revs, sectorReg, card, sp, cpu>>

\* (a defect: bytes leave the buffer before it is filled)
ReadByteClkEarly == cmd = "read" /\ ByteToCpu(found, pos = SectorLen, LAMBDA i : buf[i])

ReadByteClk == cmd = "read" /\ ByteToCpu(complete, pos = SectorLen, LAMBDA i : buf[i])

IdByteClk == cmd = "readid" /\ ByteToCpu(found, pos = HeaderLen, HeaderByte)

LastByte == pos = SectorLen - 1

\* A byte clock in Write Sector: after the lead-in one byte each goes to the buffer.
WriteByteClk ==
  /\ cmd = "write" /\ ByteClock
  /\ drq' = IF enabled THEN ~LastByte ELSE drq \/ lead = 1
  /\ enabled' = IF enabled THEN ~LastByte ELSE lead = 1
  /\ buf' = IF enabled THEN [buf EXCEPT ![pos] = dataReg] ELSE buf
  /\ pos' = IF enabled /\ ~LastByte THEN pos + 1 ELSE pos
  /\ UNCHANGED <<cmd, busy, irq, rnf, found, pending, complete, revs, regs, request, drive,
                 sp, cpu>>

WantsTransfer == busy /\ cmd \in TypeII /\ found /\ ~pending /\ ~complete

\* Once the header has matched, the chip asks the service processor for the transfer.
\* For a write this does not wait for the data.
Request ==
  /\ WantsTransfer
  /\ pending' = TRUE
  /\ imgRd' = IF cmd = "read" THEN dsel ELSE imgRd
  /\ imgWr' = IF cmd = "write" THEN dsel ELSE imgWr
  /\ UNCHANGED <<status, found, complete, enabled, lead, pos, revs, regs, buf, ack, drive,
                 sp, waiting, ncmd, issued, sent, got, outcome>>

\* A write ends when its transfer does.
WriteEnds ==
  /\ busy /\ cmd = "write" /\ complete
  /\ busy' = FALSE /\ irq' = TRUE
  /\ UNCHANGED <<cmd, drq, lost, rnf, progress, regs, card, sp, cpu>>

\* A head movement ends somewhere; Read Track and Write Track end at once.
EndTypeI ==
  /\ busy /\ cmd \in {"typeI", "readtrack", "writetrack"}
  /\ busy' = FALSE /\ irq' = TRUE
  /\ head' \in (IF cmd = "typeI" THEN Cyls ELSE {head})
  /\ UNCHANGED <<cmd, drq, lost, rnf, progress, regs, buf, request, dsel, side, motor, rot,
                 sp, cpu>>

----------------------------------------------------------------------------
(* The service processor: fdc_task, one register or buffer access a step.   *)

Requested == imgRd \cup imgWr # {}

Poll ==
  /\ pc = "poll" /\ Requested
  /\ rdReq' = imgRd /\ wrReq' = imgWr
  /\ Goto("track")
  /\ UNCHANGED <<chip, card, ts, sec, drv, idx, stage, image, cpu>>

ReadTrackSide ==
  /\ pc = "track"
  /\ ts' = TrackSide
  /\ Goto("sector")
  /\ UNCHANGED <<chip, card, rdReq, wrReq, sec, drv, idx, stage, image, cpu>>

ReadSectorReg ==
  /\ pc = "sector"
  /\ sec' = sectorReg
  /\ Goto("ack")
  /\ UNCHANGED <<chip, card, rdReq, wrReq, ts, drv, idx, stage, image, cpu>>

\* (a defect: a write request survives its acknowledge)
ClearReads == imgRd' = (IF ack THEN imgRd ELSE {}) /\ imgWr' = imgWr

ClearRequests == /\ imgRd' = IF ack THEN imgRd ELSE {}
                 /\ imgWr' = IF ack THEN imgWr ELSE {}

\* The rising edge of the acknowledge clears every request; after a reboot that cut
\* fdc_task short it is still high, and there is no edge.
AckHigh ==
  /\ pc = "ack"
  /\ ack' = TRUE /\ ClearRequests
  /\ drv' = 1
  /\ Goto("drive")
  /\ UNCHANGED <<chip, buf, drive, rdReq, wrReq, ts, sec, idx, stage, image, cpu>>

\* A drive that is not asked for, not open, or has no such sector is passed over,
\* and the chip is told nothing of it.
SkipDrive ==
  /\ pc = "drive" /\ drv \in Drives
  /\ drv \notin rdReq \cup wrReq \/ drv \notin open \/ ~OnDisk(ts, sec)
  /\ outcome' = IF drv \in rdReq \cup wrReq THEN "skipped" ELSE outcome
  /\ drv' = drv + 1
  /\ UNCHANGED <<chip, card, pc, rdReq, wrReq, ts, sec, idx, stage, image, waiting, ncmd,
                 issued, sent, got>>

TakeDrive ==
  /\ pc = "drive" /\ drv \in (rdReq \cup wrReq) \cap open /\ OnDisk(ts, sec)
  /\ idx' = 0
  /\ Goto("write")
  /\ UNCHANGED <<chip, card, rdReq, wrReq, ts, sec, drv, stage, image, cpu>>

\* (a defect: write protection is not looked at)
WritingAnyway == pc = "write" /\ drv \in wrReq

Writing == pc = "write" /\ drv \in wrReq \ wp

\* fatfs_write copies the buffer a byte at a time ...
CopyOut ==
  /\ Writing /\ idx < SectorLen
  /\ stage' = [stage EXCEPT ![idx] = buf[idx]]
  /\ idx' = idx + 1
  /\ UNCHANGED <<chip, card, pc, rdReq, wrReq, ts, sec, drv, image, cpu>>

\* ... and the image has the sector.
CommitWrite ==
  /\ Writing /\ idx = SectorLen
  /\ disk' = [disk EXCEPT ![drv] = [@ EXCEPT ![Block(ts, sec)] = stage]]
  /\ outcome' = "ok"
  /\ Goto("fill")
  /\ UNCHANGED <<chip, card, rdReq, wrReq, ts, sec, drv, idx, stage, mounted, wp, open,
                 waiting, ncmd, issued, sent, got>>

\* fatfs_setpos or fatfs_write fails: only the console is told.
FailWrite ==
  /\ Writing
  /\ outcome' = "failed"
  /\ Goto("fill")
  /\ UNCHANGED <<chip, card, rdReq, wrReq, ts, sec, drv, idx, stage, image, waiting, ncmd,
                 issued, sent, got>>

\* No write is asked for, or the disk is write protected.
NoWrite ==
  /\ pc = "write" /\ drv \notin wrReq \ wp
  /\ outcome' = IF drv \in wrReq THEN "protected" ELSE outcome
  /\ Goto("fill")
  /\ UNCHANGED <<chip, card, rdReq, wrReq, ts, sec, drv, idx, stage, image, waiting, ncmd,
                 issued, sent, got>>

\* The read half: the buffer is preset to 0xff ...
FillBuffer ==
  /\ pc = "fill" /\ drv \in rdReq
  /\ buf' = [i \in Pos |-> Fill]
  /\ idx' = 0
  /\ Goto("read")
  /\ UNCHANGED <<chip, request, drive, rdReq, wrReq, ts, sec, drv, stage, image, cpu>>

NoRead ==
  /\ pc = "fill" /\ drv \notin rdReq
  /\ drv' = drv + 1
  /\ Goto("drive")
  /\ UNCHANGED <<chip, card, rdReq, wrReq, ts, sec, idx, stage, image, cpu>>

\* ... and fatfs_read copies the sector into it.
CopyIn ==
  /\ pc = "read" /\ idx < SectorLen
  /\ buf' = [buf EXCEPT ![idx] = disk[drv][Block(ts, sec)][idx]]
  /\ idx' = idx + 1
  /\ UNCHANGED <<chip, request, drive, pc, rdReq, wrReq, ts, sec, drv, stage, image, cpu>>

EndRead(how) ==
  /\ pc = "read"
  /\ idx = IF how = "ok" THEN SectorLen ELSE 0
  /\ outcome' = how
  /\ drv' = drv + 1
  /\ Goto("drive")
  /\ UNCHANGED <<chip, card, rdReq, wrReq, ts, sec, idx, stage, image, waiting, ncmd, issued,
                 sent, got>>

\* (a defect: the chip forgets the transfer without taking it for complete)
Forget == pending' = (pending /\ ~busy) /\ complete' = complete

Complete == /\ pending' = (pending /\ ~busy)
            /\ complete' = (complete \/ (busy /\ pending))

\* The falling edge of the acknowledge completes whatever transfer the chip has pending.
AckLow ==
  /\ pc = "drive" /\ drv \notin Drives
  /\ ack' = FALSE /\ Complete
  /\ Goto("poll") /\ Locals
  /\ UNCHANGED <<status, found, enabled, lead, pos, revs, regs, buf, imgRd, imgWr, drive,
                 image, cpu>>

\* fdc_mount runs in the same main loop, so never inside fdc_task.
MayMount == pc = "poll" /\ (~busy \/ "swap" \in Hazards)

Unmount(d) ==
  /\ MayMount /\ d \in mounted \cup open
  /\ mounted' = mounted \ {d} /\ wp' = wp \ {d} /\ open' = open \ {d}
  /\ UNCHANGED <<chip, card, task, disk, cpu>>

\* Loading a drive puts its first header next, or just behind.
Mount(d, readonly) ==
  /\ MayMount
  /\ mounted' = mounted \cup {d} /\ open' = open \cup {d}
  /\ wp' = IF readonly THEN wp \cup {d} ELSE wp \ {d}
  /\ rot' \in (IF d \in Selected THEN {0, SPS} ELSE {rot})
  /\ UNCHANGED <<chip, buf, request, dsel, side, motor, head, task, disk, cpu>>

----------------------------------------------------------------------------
\* The driver selects one drive at a time, or none.
Cpu == \/ \E c \in Issued : Command(c)
       \/ \E s \in Sectors : WriteSectorReg(s)
       \/ \E D \in {{}} \cup {{d} : d \in Drives}, s \in Sides : SelectDrive(D, s)
       \/ MotorOn \/ ReadStatus \/ StartAccess \/ TakeByte
       \/ \E v \in Byte(Len(sent) % SectorLen) : GiveByte(v)
       \/ MenuReset \/ Reboot

ByteClk == ReadByteClk \/ IdByteClk \/ WriteByteClk
ChipStep == Request \/ WriteEnds \/ EndTypeI
Chip == MotorOff \/ Rotate \/ ByteClk \/ ChipStep

TaskStep == \/ Poll \/ ReadTrackSide \/ ReadSectorReg \/ AckHigh
            \/ SkipDrive \/ TakeDrive \/ CopyOut \/ CommitWrite \/ FailWrite \/ NoWrite
            \/ FillBuffer \/ NoRead \/ CopyIn
            \/ EndRead("ok") \/ EndRead("failed")
            \/ AckLow

Menu == \E d \in Drives : Unmount(d) \/ \E readonly \in BOOLEAN : Mount(d, readonly)

Next == Cpu \/ Chip \/ TaskStep \/ Menu

\* The gateware is clocked and the service processor's main loop calls fdc_task again
\* and again; the CPU finishes an access the ready line has released.
Fairness ==
  /\ WF_vars(MotorOff /\ waiting) /\ WF_vars(Rotate) /\ WF_vars(ByteClk) /\ WF_vars(ChipStep)
  /\ WF_vars(TaskStep)
  /\ WF_vars(TakeByte \/ \E v \in Byte(Len(sent) % SectorLen) : GiveByte(v))

Spec == Init /\ [][Next]_vars
FairSpec == Spec /\ Fairness

----------------------------------------------------------------------------
(* Properties.                                                              *)

StatusType ==
  /\ cmd \in Commands
  /\ busy \in BOOLEAN /\ drq \in BOOLEAN /\ irq \in BOOLEAN /\ lost \in BOOLEAN
  /\ rnf \in BOOLEAN /\ found \in BOOLEAN /\ pending \in BOOLEAN
  /\ complete \in BOOLEAN /\ enabled \in BOOLEAN

ProgressType ==
  /\ lead \in 0..Lead /\ pos \in Nat /\ revs \in 0..Revs
  /\ dataReg \in Datum /\ prev \in Datum /\ sectorReg \in Sectors
  \* the byte counter stays in the sector, and starts at its first byte
  /\ busy /\ cmd = "read" => pos <= SectorLen /\ (~enabled => pos = 0)
  /\ busy /\ cmd = "write" => pos < SectorLen

CardType ==
  /\ buf \in Contents
  /\ imgRd \subseteq Drives /\ imgWr \subseteq Drives /\ ack \in BOOLEAN
  /\ dsel \subseteq Drives /\ side \in {0, 1} /\ motor \in BOOLEAN
  /\ head \in Cyls /\ rot \in 0..SPS

TaskType ==
  /\ pc \in {"poll", "track", "sector", "ack", "drive", "write", "fill", "read"}
  /\ rdReq \subseteq Drives /\ wrReq \subseteq Drives
  /\ ts \in [cyl : Cyls, side : {0, 1}] /\ sec \in Sectors
  /\ drv \in 1..(NDrives + 1) /\ idx \in 0..SectorLen
  /\ stage \in Contents
  \* the task works on a sector the image has
  /\ pc \in {"write", "fill", "read"} => drv \in Drives /\ OnDisk(ts, sec)

ImageType ==
  /\ disk \in [Drives -> [Blocks -> Contents]]
  /\ mounted \subseteq Drives /\ wp \subseteq mounted /\ open \subseteq mounted

CpuType ==
  /\ waiting \in BOOLEAN
  /\ ncmd \in Nat
  /\ sent \in Seq(Datum) /\ got \in Seq(Datum)
  /\ outcome \in {"none", "ok", "failed", "skipped", "protected"}

\* Every variable has its type; the byte counter never leaves the sector buffer and
\* fdc_task never addresses a block outside the image.
TypeOK == StatusType /\ ProgressType /\ CardType /\ TaskType /\ ImageType /\ CpuType

\* The sector the current command is aimed at: an image holds side 0 from the outermost
\* track in, then side 1 from the innermost track out.
Target == <<IF DoubleSided /\ issued.track.side = 1 THEN Tracks - (issued.track.cyl + 1)
                                                   ELSE issued.track.cyl,
            issued.sector>>

\* A Read Sector that ends without RNF or lost data has given the CPU the bytes of the
\* addressed sector of the image, and nothing else, when the image could be read; when
\* it could not, it has given 0xff throughout. Relates what three parties did at their
\* own pace: chip, fdc_task and CPU.
ReadDelivers ==
  issued.cmd = "read" /\ ~busy /\ ~rnf /\ ~lost /\ ~drq =>
    /\ Len(got) = SectorLen
    /\ \A d \in issued.drives, i \in Pos :
         /\ outcome = "ok" => got[i + 1] = disk[d][Target][i]
         /\ outcome = "failed" => got[i + 1] = Fill

\* A Write Sector that ends without RNF or lost data, and whose service succeeded, has
\* put exactly the bytes the CPU gave into the addressed sector.
WriteLands ==
  issued.cmd = "write" /\ ~busy /\ ~rnf /\ ~lost /\ outcome = "ok" =>
    /\ Len(sent) = SectorLen
    /\ \A d \in issued.drives, i \in Pos : disk[d][Target][i] = sent[i + 1]

\* Nothing but the addressed sector of the addressed drive ever changes, and only while
\* a Write Sector command is in progress.
NoMisdirectedWrite ==
  [][\A d \in Drives, b \in Blocks :
       disk'[d][b] # disk[d][b] =>
         issued.cmd = "write" /\ busy /\ d \in issued.drives /\ b = Target]_vars

\* The inductive invariant behind NoMisdirectedWrite: a request, in the card's registers or
\* in the hands of fdc_task, belongs to the command in progress, and what it is aimed at
\* cannot move until fdc_task has answered it.
InService == pc # "poll" \/ imgRd \cup imgWr # {}

AimInv ==
  \* the command in progress is the one issued, and its aim has not moved
  /\ busy => issued = [cmd |-> cmd, drives |-> dsel, track |-> [cyl |-> head, side |-> side],
                       sector |-> sectorReg]
  \* a request or a service is that of the transfer the chip waits for
  /\ InService => Outstanding /\ pending
  \* a selected drive keeps turning under it
  /\ Outstanding => motor /\ dsel # {}
  \* the acknowledge is high while drives are served, and no request is left then
  /\ pc \in {"poll", "track", "sector", "ack"} => ~ack
  /\ pc \notin {"poll", "track", "sector", "ack"} => imgRd = {} /\ imgWr = {}
  \* write requests are for the selected drives, and for a Write Sector
  /\ pc = "poll" => rdReq = {} /\ wrReq = {}
  /\ imgWr \cup wrReq \subseteq dsel
  /\ imgWr \cup wrReq # {} => cmd = "write"
  \* what fdc_task has read is still so
  /\ pc \notin {"poll", "track"} => ts = [cyl |-> head, side |-> side]
  /\ pc \notin {"poll", "track", "sector"} => sec = sectorReg

\* "Record not found" is reported only for a sector number the track does not have: the
\* revolution counter lets every header pass before it gives up.
RnfHonest == rnf => issued.cmd \in TypeII /\ issued.sector >= SPS

\* What the chip reports of a sector command is true: success only of a transfer that was
\* whole and went to or came from the right place, and "record not found" only of a sector
\* there is none of.
Honest == ReadDelivers /\ WriteLands /\ RnfHonest

\* A write protected or absent disk never changes, whatever the CPU does.
ProtectedUntouched ==
  [][\A d \in Drives : disk'[d] # disk[d] => d \in mounted \ wp]_vars

\* The CPU never stays in wait states: DRQ, INTRQ or the end of the monoflop frees it.
CpuReleased == waiting ~> ~waiting

\* A command on a drive that keeps turning ends.
CommandEnds == <>[]Spinning => []<>~busy

\* The card implements an array of sectors with one operation at a time: an operation
\* is a sector command in progress, and takes effect when fdc_task has carried it out.
Store == INSTANCE SectorStore WITH
  store <- disk,
  op <- IF busy /\ cmd \in TypeII
        THEN [kind |-> IF outcome = "none" THEN cmd ELSE "done",
              drives |-> issued.drives,
              block |-> IF Target \in Blocks THEN Target ELSE <<>>]
        ELSE [kind |-> "idle"],
  result <- IF busy /\ cmd = "read" /\ outcome = "ok" THEN {buf} ELSE {}

ImplementsStore == Store!Spec
=============================================================================
