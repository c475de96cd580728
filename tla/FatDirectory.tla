--------------------------- MODULE FatDirectory ---------------------------
(***************************************************************************)
(* A directory of a FAT volume (fatfs.c): the search for a name, for a gap *)
(* that takes a new one, and how the directory is extended and the new     *)
(* entries are filled in, one block after the other. A directory is a list *)
(* of slots in blocks and clusters, which an end mark cuts short; a long   *)
(* name takes several slots in a row. Any access to the card may fail, and *)
(* the machine may be switched off between any two. Left out are how names *)
(* compare and how short ones are made up, and that a later cluster cannot *)
(* be looked up, which the code takes for the end of the directory.        *)
(***************************************************************************)
EXTENDS Integers, Sequences, FiniteSets

CONSTANTS
  Names,
  Needed,            \* slots that an entry takes, of each name
  BlockSlots,        \* entries in a block
  BlocksPerCluster,  \* fatfs_blocks_per_cluster
  Directories,       \* what directories hold at first, and whether they are of fixed size
  Hazards,           \* what may happen beyond the best
  MaxSlots,          \* bound: slots that the free clusters of the volume allow for
  MaxFaults,         \* bound: failures
  MaxOps             \* bound: files created

End == <<"end">>          \* an entry that begins with 0
Deleted == <<"deleted">>  \* an entry that begins with 0xe5
Junk == <<"junk">>        \* a block that was not written as a directory

\* Part 0 holds the short name and the file; the others, in front of it, the long name.
Entry(n, part) == <<n, part>>
Entries == {Entry(n, p) : n \in Names, p \in 0..20}

ClusterSlots == BlocksPerCluster * BlockSlots

Visible(s) == {i \in DOMAIN s : \A j \in 1..i : s[j] # End}

\* What fatfs_search_dir finds: where an entry of a name ends, all of its parts in a row.
Places(s, n) ==
  {i \in Visible(s) : \A p \in 0..(Needed[n] - 1) : i - p > 0 /\ s[i - p] = Entry(n, p)}

\* Whoever wrote a directory, listed each name once and with all its parts.
Tidy(s) ==
  \A n \in Names : \A i, j \in Visible(s) :
    s[i] = Entry(n, 0) /\ s[j] = Entry(n, 0) => i = j /\ i \in Places(s, n)

ASSUME DirectoryAssumption ==
  /\ Needed \in [Names -> 1..21]
  /\ BlockSlots \in Nat \ {0} /\ BlocksPerCluster \in Nat \ {0}
  /\ \A d \in Directories :
       /\ d.slots \in Seq(Entries \cup {End, Deleted, Junk}) /\ d.fixed \in BOOLEAN
       /\ Len(d.slots) > 0
       /\ Tidy(d.slots) /\ \A i \in Visible(d.slots) : d.slots[i] # Junk
       /\ Len(d.slots) % (IF d.fixed THEN BlockSlots ELSE ClusterSlots) = 0
  /\ Hazards \subseteq {"brim", "raw"}
  /\ MaxSlots \in Nat /\ MaxFaults \in Nat /\ MaxOps \in Nat

NoSave == [pc |-> "idle"]

VARIABLES
  slots, fixed,  \* the card: the directory, block after block; whether it is a FAT16 root
  op,            \* fatfs_open_or_createat: its locals and where it stands, or NoSave
  faults, ops    \* counters

dirVars == <<slots, fixed, op, faults, ops>>

DirInit ==
  /\ \E d \in Directories : slots = d.slots /\ fixed = d.fixed
  /\ op = NoSave /\ faults = 0 /\ ops = 0

----------------------------------------------------------------------------
(* Searching.                                                               *)

Found(n) == Places(slots, n) # {}

FirstEnd == Cardinality(Visible(slots)) + 1

\* (a defect: live entries do not end a gap)
GapAnyhow(i, j) == \A k \in {i, j - 1} \cap (i..(j - 1)) : slots[k] = Deleted

\* Slots i to j - 1 may be taken.
Gap(i, j) == \A k \in i..(j - 1) : slots[k] = Deleted

\* Gaps of n slots before the end mark; where the free slots right before it begin.
Gaps(n) == {i \in 1..(FirstEnd - n) : Gap(i, i + n)}
FirstGap(n) == CHOOSE i \in Gaps(n) : \A j \in Gaps(n) : i <= j

FreeTail ==
  CHOOSE i \in 1..FirstEnd : Gap(i, FirstEnd) /\ \A j \in 1..(i - 1) : ~Gap(j, FirstEnd)

----------------------------------------------------------------------------
(* Creating an entry.                                                       *)

Fault == faults < MaxFaults /\ faults' = faults + 1
Leave == op' = NoSave

Block(i) == (i - 1) \div BlockSlots
BlockEnd(i) == (Block(i) + 1) * BlockSlots

\* The slot behind the new entries, which becomes the end mark.
Mark == op.at + Needed[op.name]

\* The last entry would take the last slot of the directory's last cluster.
Brim(at, n) ==
  LET last == at + n - 1 IN ~fixed /\ last >= Len(slots) /\ last % ClusterSlots = 0

\* The file is there and is opened.
Open(n) == op = NoSave /\ Found(n) /\ UNCHANGED dirVars

Begin(n) ==
  /\ op = NoSave /\ ops < MaxOps /\ ops' = ops + 1
  /\ ~Found(n)
  /\ LET found == Gaps(Needed[n]) # {}
         at == IF found THEN FirstGap(Needed[n]) ELSE FreeTail
     IN  /\ found \/ "brim" \in Hazards \/ ~Brim(at, Needed[n])
         /\ op' = [pc |-> IF found THEN "fill" ELSE IF FirstEnd <= Len(slots) THEN "extend"
                          ELSE "grow",
                   name |-> n, at |-> at, from |-> FirstEnd, blank |-> FALSE, done |-> 0,
                   raw |-> FALSE]
  /\ UNCHANGED <<slots, fixed, faults>>

\* (a defect: the end mark is not written)
ZeroedNoMark == {i \in op.from..BlockEnd(op.from) : op.blank \/ i < Mark}

\* The slots that the extension makes empty in its block. A block behind the old end mark is
\* not read, but begun blank.
Zeroed == {i \in op.from..BlockEnd(op.from) : op.blank \/ i <= Mark}

Blanked(s, ss) == [i \in DOMAIN s |-> IF i \in ss THEN End ELSE s[i]]

\* A block is extended and written; then on to the next one. If nothing but the end mark is
\* left to be placed and the chain ends, this is looked up in the same buffer, which is then
\* written once more.
Extend ==
  LET last == BlockEnd(op.from)
      atEnd == last = Len(slots)
      brim == atEnd /\ ~fixed /\ Mark = last + 1
      placed == [op EXCEPT !.raw = FALSE]
      onward == [placed EXCEPT !.from = last + 1]
  IN  /\ op.pc = "extend"
      /\ \/ brim /\ \E junk \in [1..BlockSlots -> {Junk, End}] :
                     slots' = SubSeq(slots, 1, last - BlockSlots) \o junk
         \/ ~brim /\ slots' = Blanked(slots, Zeroed)
      /\ op' = CASE Mark <= last \/ (atEnd /\ Mark = last + 1) -> [placed EXCEPT !.pc = "fill"]
                 [] Mark > last /\ ~atEnd -> [onward EXCEPT !.blank = TRUE]
                 [] Mark > last + 1 /\ atEnd -> [onward EXCEPT !.pc = "grow"]
      /\ UNCHANGED <<fixed, faults, ops>>

\* At the end of the chain a cluster is allocated and linked as it is; there is none on a
\* full volume.
Grow ==
  /\ op.pc = "grow"
  /\ \/ (fixed \/ Len(slots) + ClusterSlots > MaxSlots) /\ Leave /\ UNCHANGED slots
     \/ /\ ~fixed /\ Len(slots) + ClusterSlots <= MaxSlots
        /\ \E junk \in [1..ClusterSlots -> {Junk, End}] : slots' = slots \o junk
        /\ op' = [op EXCEPT !.pc = IF BlocksPerCluster = 1 THEN "extend" ELSE "zero",
                            !.done = IF BlocksPerCluster = 1 THEN 0 ELSE 1, !.blank = TRUE,
                            !.raw = FirstEnd > Len(slots)]
  /\ UNCHANGED <<fixed, faults, ops>>

LastZeroed == op.done + 1 >= BlocksPerCluster

\* The blocks of a new cluster are blanked, but for the first, which Extend does.
Zero ==
  LET first == op.from + op.done * BlockSlots
  IN  /\ op.pc = "zero"
      /\ slots' = Blanked(slots, first..(first + BlockSlots - 1))
      /\ op' = IF LastZeroed THEN [op EXCEPT !.pc = "extend", !.done = 0]
                             ELSE [op EXCEPT !.done = @ + 1]
      /\ UNCHANGED <<fixed, faults, ops>>

\* One block of the new entries is written.
Fill ==
  LET next == op.at + op.done
      here == next..(IF BlockEnd(next) < Mark THEN BlockEnd(next) ELSE Mark - 1)
  IN  /\ op.pc = "fill"
      /\ slots' = [i \in DOMAIN slots |->
                     IF i \in here THEN Entry(op.name, Mark - 1 - i) ELSE slots[i]]
      /\ IF (Mark - 1) \in here THEN Leave
                                ELSE op' = [op EXCEPT !.done = @ + Cardinality(here)]
      /\ UNCHANGED <<fixed, faults, ops>>

\* An access fails, or the power does; for the best not as long as a new cluster is in the
\* directory, with no end mark before it, and has not been blanked. (That a block was written
\* and this could not be told is a step of the above and then this one.)
Stop ==
  /\ op # NoSave /\ Fault /\ ("raw" \in Hazards \/ ~op.raw) /\ Leave
  /\ UNCHANGED <<slots, fixed, ops>>

DirNext ==
  \/ \E n \in Names : Open(n) \/ Begin(n)
  \/ Extend \/ Grow \/ Zero \/ Fill \/ Stop

DirSpec == DirInit /\ [][DirNext]_dirVars

----------------------------------------------------------------------------
(* Properties.                                                              *)

Listed == {n \in Names : Found(n)}

\* The directory consists of whole clusters, and a save stays within it.
DirTypeOK ==
  /\ slots \in Seq(Entries \cup {End, Deleted, Junk}) /\ fixed \in BOOLEAN
  /\ Len(slots) % (IF fixed THEN BlockSlots ELSE ClusterSlots) = 0
  /\ \/ op = NoSave
     \/ /\ op \in [pc : {"extend", "grow", "zero", "fill"}, name : Names, at : Nat, from : Nat,
                   blank : BOOLEAN, done : Nat, raw : BOOLEAN]
        /\ op.pc \in {"extend", "zero"} => op.from \in DOMAIN slots
        /\ op.pc = "fill" => (Mark - 1) \in DOMAIN slots
        /\ op.pc = "zero" => op.done < BlocksPerCluster
  /\ faults \in 0..MaxFaults /\ ops \in 0..MaxOps

\* No name is listed twice, even after a save that broke off half way was done again.
OnceOnly ==
  \A n \in Names : Cardinality({i \in Visible(slots) : slots[i] = Entry(n, 0)}) <= 1

\* Nothing that was not written as an entry is ever read as one: the end mark stays in front
\* of it, whichever way the directory is extended and wherever that stops.
JunkHidden == op = NoSave => \A i \in Visible(slots) : slots[i] # Junk

\* A listing of the directory shows what was saved in it, once.
ListsRight == DirTypeOK /\ OnceOnly /\ JunkHidden

\* A save that breaks off has listed its file or has not, and no save costs another file
\* its entry.
Directory == INSTANCE NameSet WITH names <- Listed

ImplementsNames == Directory!Spec
=============================================================================
