-------------------------------- MODULE Tape --------------------------------
(***************************************************************************)
(* The cassette recorder: the sample memory that the hardware plays from   *)
(* and the FIFO it records into (spmmio_tape.v), and the firmware that     *)
(* fills the one and empties the other from its main loop (tape.c).  While *)
(* the firmware reads the card it does not empty the FIFO.                 *)
(*                                                                         *)
(* A byte is a unit of position: the sample memory is fetched in words,    *)
(* the card is read in sectors.  What a byte of the file holds is its      *)
(* offset in the file.                                                     *)
(***************************************************************************)
EXTENDS Integers, Sequences, SequencesExt

CONSTANTS Word,      \* bytes fetched at a time: 4
          Sector,    \* bytes of a sector: 512
          Mem,       \* bytes of sample memory: 8192
          Lead,      \* zero bytes before the data of a raw tape: 768
          Wrap,      \* the positions are kept modulo 2^16
          Files,     \* tape files: [raw, size, data], with the offset of the
                     \* first sample of a WAV file; or a file of no format
          Depth,     \* entries of the record FIFO: 8
          BufSize,   \* bytes of a recording: 65536
          MaxBytes,  \* bound: bytes the console records
          MaxStarts, \* bound: tapes opened
          MaxTurns   \* bound: motors turned on or off

ASSUME TapeAssumption ==
  /\ {Word, Sector, Mem, Lead, Wrap, Depth, BufSize} \subseteq Nat \ {0}
  /\ Sector % Word = 0 /\ Mem % Sector = 0 /\ Lead <= Mem /\ Wrap % Mem = 0 /\ Wrap > Mem
  /\ {MaxBytes, MaxStarts, MaxTurns} \subseteq Nat
  /\ Files \subseteq [sort : {"raw", "wav", "unknown"}, size : Nat, data : Nat]
  /\ \A f \in Files : f.data <= f.size   \* the header of the data was read

Decks == {1, 2}   \* CS1 and CS2; only CS1 plays
Zero  == -1       \* a byte of the lead-in
None  == -2       \* a byte of sample memory nobody has written
NoFile == [sort |-> "unknown", size |-> 0, data |-> 0]

VARIABLES
  motor,    \* motor[d]: cs1_cntrl, cs2_cntrl
  playing, head, tail, mem,   \* the player
  held,     \* a word is fetched and not all played (data_available)
  fifo, lost,                 \* the recorder: <<byte, motors on>>; the bytes
                              \* lost since the last was taken (mag_byte_lost)
  pc, room,                   \* in tape_task: "loop", or the read under way
  cue,                        \* tape_start waits for a round of tape_task
  tape, filepos,              \* tape_file: its size becomes 0 at its end
  primed, seen, stopped,      \* tape_mag_primed, ..data_seen, ..stopped
  buf, available,             \* the recordings, and what of them is complete
  sent, told,                 \* bytes recorded so far; those reported lost
  played, reel,               \* bytes fetched of the reel, the file in the player
  starts, turns

player   == <<playing, held, head, tail, mem, played, reel>>
recorder == <<primed, seen, stopped, buf, available, told>>
tapeVars == <<motor, player, fifo, lost, pc, room, cue, tape, filepos, recorder, sent, starts, turns>>

TapeInit ==
  /\ motor = [d \in Decks |-> FALSE]
  /\ playing = FALSE /\ held = FALSE /\ head = 0 /\ tail = 0 /\ mem = [i \in 0..Mem-1 |-> None]
  /\ played = 0 /\ reel = NoFile
  /\ fifo = <<>> /\ lost = {}
  /\ pc = "loop" /\ room = 0 /\ cue = FALSE /\ tape = NoFile /\ filepos = 0
  /\ primed = {} /\ seen = {} /\ stopped = {}
  /\ buf = [d \in Decks |-> <<>>] /\ available = [d \in Decks |-> 0]
  /\ sent = 0 /\ told = {} /\ starts = 0 /\ turns = 0

-----------------------------------------------------------------------------
(***************************************************************************)
(* The console turns the motors of the decks on and off and records; the   *)
(* player fetches the next word when the last is played, and plays it      *)
(* while the motor of CS1 is on.                                           *)
(***************************************************************************)
Turn(d) ==
  /\ turns < MaxTurns
  /\ turns' = turns + 1
  /\ motor' = [motor EXCEPT ![d] = ~@]
  /\ UNCHANGED <<player, fifo, lost, pc, room, cue, tape, filepos, recorder, sent, starts>>

Fetch ==
  /\ playing /\ ~held
  /\ head \div Word # tail \div Word
  /\ head' = (head + Word) % Wrap
  /\ played' = played + Word
  /\ held' = TRUE
  /\ UNCHANGED <<motor, playing, tail, mem, reel, fifo, lost, pc, room, cue, tape, filepos,
                 recorder, sent, starts, turns>>

PlayOut ==
  /\ playing /\ held /\ motor[1]
  /\ held' = FALSE
  /\ UNCHANGED <<motor, playing, head, tail, mem, played, reel, fifo, lost, pc, room, cue, tape,
                 filepos, recorder, sent, starts, turns>>

\* A byte that finds the FIFO full is lost.
Record ==
  /\ sent < MaxBytes
  /\ sent' = sent + 1
  /\ IF Len(fifo) < Depth
     THEN fifo' = Append(fifo, <<sent', {d \in Decks : motor[d]}>>) /\ UNCHANGED lost
     ELSE lost' = lost \cup {sent'} /\ UNCHANGED fifo
  /\ UNCHANGED <<motor, player, pc, room, cue, tape, filepos, recorder, starts, turns>>

-----------------------------------------------------------------------------
(***************************************************************************)
(* tape_task, first part: a byte from the FIFO, which starts a recording   *)
(* on a deck whose motor has been off since the last one.                  *)
(***************************************************************************)
Started(on) == (on \cap primed) \ seen

\* As Kept, a recording goes on where the last one ended.
KeptOn(d, b, on) ==
  IF d \in seen \cup Started(on) /\ Len(buf[d]) < BufSize THEN Append(buf[d], b) ELSE buf[d]

Kept(d, b, on) ==
  LET so_far == IF d \in Started(on) THEN <<>> ELSE buf[d] IN
  IF d \in seen \cup Started(on) /\ Len(so_far) < BufSize THEN Append(so_far, b) ELSE so_far

\* As TakeByte, the mark of lost bytes tested only when there is no byte.
TakeByteOnly ==
  LET b  == fifo[1][1]
      on == fifo[1][2] IN
  /\ pc = "loop" /\ fifo # <<>>
  /\ fifo' = Tail(fifo) /\ lost' = {}
  /\ buf' = [d \in Decks |-> Kept(d, b, on)]
  /\ available' = [d \in Decks |-> IF d \in Started(on) THEN 0 ELSE available[d]]
  /\ seen' = seen \cup Started(on)
  /\ primed' = primed \ Started(on)
  /\ UNCHANGED <<told, motor, player, pc, room, cue, tape, filepos, stopped, sent, starts, turns>>

TakeByte ==
  LET b  == fifo[1][1]
      on == fifo[1][2] IN
  /\ pc = "loop" /\ fifo # <<>>
  /\ fifo' = Tail(fifo) /\ lost' = {}
  /\ buf' = [d \in Decks |-> Kept(d, b, on)]
  /\ available' = [d \in Decks |-> IF d \in Started(on) THEN 0 ELSE available[d]]
  /\ told' = told \cup lost
  /\ seen' = seen \cup Started(on)
  /\ primed' = primed \ Started(on)
  /\ UNCHANGED <<motor, player, pc, room, cue, tape, filepos, stopped, sent, starts, turns>>

(***************************************************************************)
(* With the FIFO empty the state of the motors ends recordings; those that *)
(* have stopped are complete 10 ms later.                                  *)
(***************************************************************************)
Off == {d \in Decks : ~motor[d]}

Motors(late) ==
  /\ primed' = IF Off # {} THEN Off ELSE primed
  /\ LET all == stopped \cup (Off \cap seen) IN
     /\ late => stopped # {} /\ Off \cap seen \subseteq stopped
     /\ available' = [d \in Decks |-> IF late /\ d \in all THEN Len(buf[d]) ELSE available[d]]
     /\ seen' = IF late THEN seen \ all ELSE seen
     /\ stopped' = IF late THEN {} ELSE all
  /\ UNCHANGED <<buf, told>>

\* As Room, rounded to the sector that begins in the room.
RoomUp == ((((Mem + head - tail) % Wrap) + (Sector - 1)) \div Sector) * Sector

(***************************************************************************)
(* Second part: at the end of the file the player stops once everything    *)
(* has been fetched; before, the room in the sample memory is filled, as   *)
(* much of it as are whole sectors.  The round that tape_start waits for   *)
(* ends with the player switched on.                                       *)
(***************************************************************************)
Room == (((Mem + head - tail) % Wrap) \div Sector) * Sector

Switch(on) ==
  playing' = (on \/ cue) /\ held' = (held /\ playing') /\ cue' = FALSE

\* As Refill, the player left running at the end of the file.
RefillOnly ==
  \/ /\ tape.size = 0 \/ Room = 0
     /\ Switch(playing) /\ UNCHANGED <<pc, room>>
  \/ /\ tape.size # 0 /\ Room > 0
     /\ pc' = "read" /\ room' = Room /\ UNCHANGED <<playing, held, cue>>

Refill ==
  \/ /\ tape.size = 0
     /\ Switch(playing /\ head # tail) /\ UNCHANGED <<pc, room>>
  \/ /\ tape.size # 0 /\ Room = 0
     /\ Switch(playing) /\ UNCHANGED <<pc, room>>
  \/ /\ tape.size # 0 /\ Room > 0
     /\ pc' = "read" /\ room' = Room /\ UNCHANGED <<playing, held, cue>>

Task ==
  /\ pc = "loop" /\ fifo = <<>>
  /\ \E late \in BOOLEAN : Motors(late)
  /\ Refill
  /\ UNCHANGED <<motor, head, tail, mem, played, reel, fifo, lost, tape, filepos,
                 sent, starts, turns>>

\* The sample memory answers at the addresses beyond its end as well, so
\* that what is written there comes around.
Filled(m, from, n) ==
  [i \in 0..Mem-1 |-> LET k == (i - from) % Mem IN IF k < n THEN filepos + k ELSE m[i]]

Least(a, b) == IF a < b THEN a ELSE b

ReadDone ==
  LET n == Least(room, tape.size - filepos) IN
  /\ pc = "read" /\ pc' = "loop" /\ room' = 0
  /\ \/ /\ n > 0
        /\ mem' = Filled(mem, tail, n)
        /\ tail' = (tail + n) % Wrap
        /\ filepos' = filepos + n
        /\ UNCHANGED tape
     \/ tape' = [tape EXCEPT !.size = 0] /\ UNCHANGED <<mem, tail, filepos>>
  /\ Switch(playing)
  /\ UNCHANGED <<motor, head, played, reel, fifo, lost, recorder, sent, starts, turns>>

-----------------------------------------------------------------------------
(***************************************************************************)
(* tape_start, from the menu: the format is found out, the sample memory   *)
(* begins with the lead-in of a raw tape, or with the samples of a WAV     *)
(* file up to the next sector of the file, and the player starts.  A file  *)
(* of another format, or that cannot be read, leaves it switched off.      *)
(***************************************************************************)
Rewound == playing' = FALSE /\ held' = FALSE /\ head' = 0 /\ played' = 0

LeadIn == [i \in 0..Mem-1 |-> IF i < Lead THEN Zero ELSE mem[i]]

\* Samples of a WAV file before the first whole sector.
Odd(f) == Least((-f.data) % Sector, f.size - f.data)

Start(f) ==
  /\ pc = "loop" /\ ~cue /\ starts < MaxStarts
  /\ starts' = starts + 1
  /\ tape' = f
  /\ \/ /\ f.size = 0
        /\ filepos' = 0 /\ UNCHANGED <<player, cue>>
     \/ /\ f.size # 0
        /\ Rewound /\ tail' = 0 /\ filepos' \in 0..f.size
        /\ UNCHANGED <<mem, reel, cue>>
     \/ /\ f.size # 0 /\ f.sort = "raw"
        /\ Rewound /\ cue' = TRUE
        /\ mem' = LeadIn /\ tail' = Lead /\ filepos' = 0
        /\ reel' = f
     \/ /\ f.size # 0 /\ f.sort = "wav"
        /\ Rewound /\ cue' = TRUE
        /\ mem' = [i \in 0..Mem-1 |-> IF i < Odd(f) THEN f.data + i ELSE mem[i]]
        /\ tail' = Odd(f) /\ filepos' = f.data + Odd(f)
        /\ reel' = f
  /\ UNCHANGED <<motor, fifo, lost, pc, room, recorder, sent, turns>>

\* The loop itself, as tape_task runs in it.
TapeLoop == TakeByte \/ Task \/ ReadDone

TapeNext == \/ \E d \in Decks : Turn(d)
            \/ Fetch \/ PlayOut \/ Record \/ TapeLoop
            \/ \E f \in Files : Start(f)

-----------------------------------------------------------------------------
(***************************************************************************)
(* The word that is fetched next is the next one of the reel: the lead-in, *)
(* then the data of the file, in order, nothing skipped, repeated or       *)
(* overwritten before its time.                                            *)
(***************************************************************************)
OnReel(i) ==
  IF reel.sort = "raw" THEN IF i < Lead THEN Zero ELSE i - Lead
  ELSE reel.data + i

PlaysTheReel ==
  playing /\ head \div Word # tail \div Word =>
    \A i \in 0..Word-1 : mem[(head + i) % Mem] = OnReel(played + i)

(***************************************************************************)
(* A recording has no gap that its user has not been told of.              *)
(***************************************************************************)
NoSilentGap ==
  \A d \in Decks : \A i \in 1..Len(buf[d])-1 :
    (buf[d][i] + 1)..(buf[d][i + 1] - 1) \subseteq told

(***************************************************************************)
(* A recording that is complete stays as it is until the next one on its   *)
(* deck begins with a byte of its own.                                     *)
(***************************************************************************)
RecordingStays ==
  [][\A d \in Decks : available[d] > 0 =>
        \/ available'[d] = available[d] /\ buf'[d] = buf[d]
        \/ available'[d] = 0 /\ Len(buf'[d]) = 1]_tapeVars

(***************************************************************************)
(* The player comes to its end and stops, if the motor stays on; unless    *)
(* the samples end inside a word: head then never equals tail.             *)
(***************************************************************************)
TapeStops == <>[](motor[1]) => []<>(~playing \/ tail % Word # 0)
=============================================================================
