----------------------------- MODULE TipiFiles -----------------------------
(***************************************************************************)
(* What the TIPI does with the packets that TipiLink brings (tipi.c): the  *)
(* two or three packets of an operation, the files it loads and saves, the *)
(* devices CONFIG and STATUS, and the directories that stand for drives.   *)
(* The packets come in any order, and a reset may come between any two.    *)
(* Lengths and contents of files are those behind the TIFILES header; an   *)
(* access to the card may fail at any point of an operation.               *)
(***************************************************************************)
EXTENDS Integers, Sequences

CONSTANTS
  Drives,     \* devices that a directory can be given to
  Dirs,       \* directories of the card, besides the root
  Names,      \* file names
  Pabs,       \* PABs that the TI sends
  Contents,   \* what is saved
  Stored,     \* what files there are at first
  Numrec,     \* records of CONFIG and of STATUS
  MaxFaults   \* bound: failures of the card

None == "none"
Nothing == <<>>
Root == "root"
Files == {Root} \X Names \cup Dirs \X Names

Handlers == {"CONFIG", "STATUS"}
Modes == {"input", "append", "other"}

\* A file by its header: "empty" has none, "torn" is not yet written to,
\* "foreign" is none of TIFILES.
Kinds == {"empty", "torn", "foreign", "program", "record", "protected"}
Absent == [kind |-> None, data |-> <<>>]
Program(data) == [kind |-> "program", data |-> data]

\* Packets: a PAB, or bytes that are a name, a record or the data of a file.
Pab ==
  [opcode : {"OPEN", "CLOSE", "READ", "WRITE", "LOAD", "SAVE", "STATUS", "DELETE"},
   mode : Modes, relative : BOOLEAN, num : Nat]
FileNames == [device : Drives \cup {"TIPI"}, name : Names]
Setting(drive, dir) == [drive |-> drive, dir |-> dir]
Settings == [drive : Drives, dir : Dirs \cup {"missing", ""}]

ASSUME TipiFilesAssumption ==
  /\ None \notin Dirs /\ Root \notin Dirs
  /\ Numrec \in [Handlers -> Nat]
  /\ Pabs \subseteq Pab /\ MaxFaults \in Nat
  /\ Stored \subseteq [Files -> [kind : Kinds \cup {None}, data : Seq(Nat)]]

VARIABLES
  card,               \* the files
  dsk_config,         \* the directory of each drive, or ""
  got_pab, pab_extra, handler, recno, pab,  \* tipi_got_pab and so on
  save_handle,        \* the file that data is saved to
  status, answer,     \* the answer: its status, and what follows
  named,              \* what the exchange that is going on has named
  promised,           \* of each file, what was saved to it, if that succeeded
  faults

exchange == <<got_pab, pab_extra, handler, pab>>
fileVars == <<card, dsk_config, exchange, recno, save_handle, status, answer, named, promised, faults>>

NoPab == [opcode |-> "OPEN", mode |-> "other", relative |-> FALSE, num |-> 0]

FilesInit ==
  /\ card \in Stored /\ dsk_config = [d \in Drives |-> ""]
  /\ got_pab = FALSE /\ pab_extra = FALSE /\ handler = None /\ pab = NoPab
  /\ recno = [h \in Handlers |-> 0]
  /\ save_handle = Nothing /\ status = None /\ answer = <<>>
  /\ named = Nothing /\ promised = [f \in Files |-> {}] /\ faults = 0

----------------------------------------------------------------------------
(* Answers.                                                                 *)

Answer(st) == status' = st /\ answer' = <<>>
AnswerWith(data) == status' = "SUCCESS" /\ answer' = data

\* The exchange ends with this packet, or another one is to follow.
Over == got_pab' = FALSE /\ UNCHANGED <<pab_extra, pab>>
Continued == got_pab' = TRUE /\ pab_extra' = TRUE /\ pab' = pab

NoFiles == UNCHANGED <<card, save_handle, promised, faults>>

\* The card fails, as tipi_errno_to_status tells.
Faulty(statuses) ==
  /\ faults < MaxFaults /\ faults' = faults + 1
  /\ \E st \in statuses : Answer(st)
WriteErrors == {"DEVERR", "WPROT", "NOSPAC"}

----------------------------------------------------------------------------
(* Files.                                                                   *)

\* tipi_open_mapdir: the drive's directory, or the root.
DirOf(device) ==
  IF device \in Drives /\ dsk_config[device] # "" THEN dsk_config[device] ELSE Root

Location(n) == <<DirOf(n.device), n.name>>

Refused(n) == CASE DirOf(n.device) \notin Dirs \cup {Root} -> "FILERR"
                [] card[Location(n)].kind \in {"torn", "foreign"} -> "FILERR"
                [] OTHER -> None

Prefix(s, n) == SubSeq(s, 1, IF n < Len(s) THEN n ELSE Len(s))

\* pab.record_num bytes from the place behind the header.
Load(n) ==
  /\ UNCHANGED <<card, save_handle, promised>> /\ Over
  /\ \/ Faulty({"DEVERR"})
     \/ /\ faults' = faults
        /\ IF Refused(n) # None THEN Answer(Refused(n))
           ELSE LET f == card[Location(n)]
                IN  IF f.kind \in {None, "empty", "record"} THEN Answer("FILERR")
                    ELSE AnswerWith(Prefix(f.data, pab.num))

Put(n, file) == card' = [card EXCEPT ![Location(n)] = file]

\* A new file is created, sized and given its header one after the other. The
\* header of a file that exists must be that of a program. A failure leaves any
\* of the three; without its header, the file is refused from then on.
SaveFile(n) ==
  LET f == card[Location(n)]
  IN  \/ /\ Faulty(WriteErrors) /\ Over /\ UNCHANGED <<save_handle, promised>>
         /\ \/ card' = card
            \/ /\ Refused(n) = None /\ f.kind \in {None, "empty"}
               /\ \E kind \in {"empty", "torn", "program"} :
                    Put(n, [Absent EXCEPT !.kind = kind])
      \/ /\ UNCHANGED <<promised, faults>>
         /\ CASE Refused(n) # None ->
                   Answer(Refused(n)) /\ Over /\ UNCHANGED <<card, save_handle>>
              [] Refused(n) = None /\ f.kind \in {None, "empty"} ->
                   /\ Put(n, Program(<<>>)) /\ save_handle' = Location(n)
                   /\ Answer("SUCCESS") /\ Continued
              [] Refused(n) = None /\ f.kind = "program" ->
                   /\ card' = card /\ save_handle' = Location(n)
                   /\ Answer("SUCCESS") /\ Continued
              [] OTHER ->  \* "record", "protected"
                   /\ Answer(IF f.kind = "record" THEN "FILERR" ELSE "WPROT") /\ Over
                   /\ UNCHANGED <<card, save_handle>>

\* (a defect: the file is not cut to the size of the data)
SavedOver(old, data) == Program(data \o SubSeq(old.data, Len(data) + 1, Len(old.data)))

Saved(old, data) == Program(data)

\* What a file holds that is cut or grown to n bytes; 0 is any byte.
Sized(old, n) == [i \in 1..n |-> IF i <= Len(old) THEN old[i] ELSE 0]

\* The file is sized, then written, then its header; a failure leaves it with some
\* of the data.
SaveData(data) ==
  /\ UNCHANGED save_handle /\ Over
  /\ \/ /\ Len(data) # pab.num
        /\ Answer("ILLOP") /\ UNCHANGED <<card, promised, faults>>
     \/ /\ Len(data) = pab.num
        /\ card' = [card EXCEPT ![save_handle] = Saved(card[save_handle], data)]
        /\ promised' = [promised EXCEPT ![save_handle] = {data}]
        /\ Answer("SUCCESS") /\ faults' = faults
     \/ /\ Len(data) = pab.num /\ Faulty(WriteErrors)
        /\ \E some \in {card[save_handle].data, Sized(card[save_handle].data, Len(data)), data} :
             card' = [card EXCEPT ![save_handle].data = some]
        /\ promised' = [promised EXCEPT ![save_handle] = {}]

----------------------------------------------------------------------------
(* CONFIG and STATUS.                                                       *)

Record(h) == IF pab.relative THEN pab.num ELSE recno[h]
SetRecno(h, n) == recno' = [recno EXCEPT ![h] = n]

Open(h) ==
  IF pab.mode = "input" \/ (pab.mode = "append" /\ h = "CONFIG")
  THEN SetRecno(h, 0) /\ Answer("SUCCESS")
  ELSE UNCHANGED recno /\ Answer("OPATTR")

DeviceStatus(h) ==
  /\ UNCHANGED recno
  /\ IF pab.mode = "input" THEN AnswerWith(<<Record(h) >= Numrec[h]>>) ELSE Answer("OPATTR")

Read(h) ==
  IF pab.mode # "input" THEN UNCHANGED recno /\ Answer("OPATTR")
  ELSE IF Record(h) >= Numrec[h] THEN UNCHANGED recno /\ Answer("EOF")
  ELSE SetRecno(h, Record(h) + 1) /\ AnswerWith(<<Record(h)>>)

\* tipi_config_write; anything but a drive's directory is ignored.
ConfigWrite(packet) ==
  /\ dsk_config' = IF packet \in Settings THEN [dsk_config EXCEPT ![packet.drive] = packet.dir]
                   ELSE dsk_config
  /\ Answer("SUCCESS")

\* A record of CONFIG is written in two steps, and comes with the packet after the name.
Write(h, packet) ==
  /\ UNCHANGED recno
  /\ IF pab.mode # "append" \/ h # "CONFIG" THEN Answer("OPATTR") /\ Over /\ UNCHANGED dsk_config
     ELSE IF ~pab_extra THEN Answer("SUCCESS") /\ Continued /\ UNCHANGED dsk_config
     ELSE /\ Over
          /\ \/ ConfigWrite(packet)
             \/ Answer("FILERR") /\ UNCHANGED dsk_config  \* not of the length announced

Special(h, packet) ==
  /\ NoFiles
  /\ IF pab.opcode = "WRITE" THEN Write(h, packet)
     ELSE /\ Over /\ UNCHANGED dsk_config
          /\ CASE pab.opcode = "OPEN" -> Open(h)
               [] pab.opcode = "CLOSE" -> UNCHANGED recno /\ Answer("SUCCESS")
               [] pab.opcode = "STATUS" -> DeviceStatus(h)
               [] pab.opcode = "READ" -> Read(h)
               [] OTHER -> UNCHANGED recno /\ Answer("ILLOP")

----------------------------------------------------------------------------
(* Packets.                                                                 *)

DataPackets == [bytes : Contents]
Packets == Pabs \cup FileNames \cup DataPackets \cup Settings \cup [special : Handlers \cup {"OTHER"}]

\* (a defect: a PAB leaves what the last exchange was waiting for)
TakePabOnly(p) ==
  /\ pab' = p /\ got_pab' = TRUE
  /\ UNCHANGED <<pab_extra, handler>>

TakePab(p) ==
  pab' = p /\ got_pab' = TRUE /\ pab_extra' = FALSE /\ handler' = None

OnFile(packet) ==
  /\ UNCHANGED <<dsk_config, recno, handler>>
  /\ named' = IF pab_extra THEN named ELSE Location(packet)
  /\ CASE pab.opcode = "LOAD" -> Load(packet)
       [] pab.opcode = "SAVE" /\ ~pab_extra -> SaveFile(packet)
       [] pab.opcode = "SAVE" /\ pab_extra ->
            SaveData(IF packet \in DataPackets THEN packet.bytes ELSE <<0, 0, 0>>)
       [] OTHER -> Answer("ILLOP") /\ Over /\ NoFiles

Unknown == Answer("DVNAME") /\ Over /\ NoFiles /\ UNCHANGED <<dsk_config, recno, handler>>

\* tipi_handle_pab.
HandlePab(packet) ==
  IF pab_extra
  THEN IF handler # None THEN Special(handler, packet) /\ UNCHANGED <<handler, named>>
       ELSE OnFile(packet)
  ELSE IF packet \in [special : Handlers]
  THEN Special(packet.special, packet) /\ handler' = packet.special /\ named' = <<packet.special>>
  ELSE IF packet \in FileNames THEN OnFile(packet)
  ELSE Unknown /\ named' = Nothing

Packet(packet) ==
  \/ got_pab /\ HandlePab(packet)
  \/ /\ ~got_pab /\ packet \in Pabs
     /\ TakePab(packet) /\ named' = Nothing /\ status' = None /\ answer' = <<>>
     /\ UNCHANGED <<card, dsk_config, recno, save_handle, promised, faults>>
  \/ /\ ~got_pab /\ packet \notin Pabs
     /\ Answer("ILLOP") /\ named' = Nothing
     /\ UNCHANGED <<card, dsk_config, exchange, recno, save_handle, promised, faults>>

\* (a defect: what a PAB was sent for is still waited for)
FilesResetHolds ==
  /\ named' = Nothing /\ status' = None /\ answer' = <<>>
  /\ UNCHANGED <<card, dsk_config, exchange, recno, save_handle, promised, faults>>

\* tipi_reset.
FilesReset ==
  /\ got_pab' = FALSE /\ named' = Nothing /\ status' = None /\ answer' = <<>>
  /\ UNCHANGED <<card, dsk_config, pab_extra, handler, pab, recno, save_handle, promised, faults>>

\* tipi_configfile_parse: the menu loads the settings.
LoadSettings(s) ==
  /\ dsk_config' = [dsk_config EXCEPT ![s.drive] = s.dir]
  /\ UNCHANGED <<card, exchange, recno, save_handle, status, answer, named, promised, faults>>

FilesNext ==
  \/ \E packet \in Packets : Packet(packet)
  \/ FilesReset
  \/ \E s \in Settings : LoadSettings(s)

FilesSpec == FilesInit /\ [][FilesNext]_fileVars

----------------------------------------------------------------------------
(* Properties.                                                              *)

\* The firmware is between two packets of an exchange just when the TI is: after the
\* name, data are expected only for the file or the device that this very exchange
\* has named, though pab_extra, the handler and save_handle outlive it (tipi.c:495-540).
Apart ==
  got_pab /\ pab_extra =>
    /\ status = "SUCCESS"
    /\ \/ pab.opcode = "SAVE" /\ handler = None /\ save_handle = named
       \/ pab.opcode = "WRITE" /\ handler = "CONFIG" /\ named = <<"CONFIG">>

\* Only the file that the exchange has named changes, with whatever packets and
\* resets before it (tipi.c:414-493).
OnlyNamed ==
  [][\A f \in Files : card'[f] # card[f] => f = named']_<<card>>

\* A program that was saved is loaded (tipi.c:437-488): as many bytes of it as are
\* asked for, and no others, until a later SAVE of it fails.
SavedIsLoaded ==
  [][got_pab /\ ~pab_extra /\ pab.opcode = "LOAD" /\ ~got_pab' /\ status' = "SUCCESS"
       /\ named' \in Files
     => \A data \in promised[named'] : answer' = Prefix(data, pab.num)]_fileVars

=============================================================================
