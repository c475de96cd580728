------------------------------ MODULE FatFiles ------------------------------
(***************************************************************************)
(* Files on a FAT volume (fatfs.c): cluster chains, the search for a free  *)
(* cluster, handles with a current cluster, and fatfs_setsize, which edits *)
(* the FAT one entry after the other and the directory entry last. The     *)
(* firmware runs one call at a time; any access to the card may fail, and  *)
(* the machine may be switched off between any two of them.                *)
(* Where entries are kept in directories is left to FatDirectory.          *)
(***************************************************************************)
EXTENDS Integers, Sequences, FiniteSets

CONSTANTS
  Files, Handles,
  NumClusters,       \* fatfs_num_clusters: the volume has clusters 2..NumClusters + 1
  BlocksPerCluster,  \* fatfs_blocks_per_cluster
  BlockLen,          \* units of data in a block
  Layouts,           \* what the volumes hold at first: of each file, its chain and size
  Sizes,             \* what files are resized to
  Positions,         \* where handles are set to
  Lengths,           \* how much is read and written at once
  Hazards,           \* what the callers and the card may do beyond their best
  MaxFaults,         \* bound: failures
  MaxOps             \* bound: operations

ASSUME FatAssumption ==
  /\ NumClusters \in Nat /\ NumClusters > 2
  /\ BlocksPerCluster \in Nat \ {0} /\ BlockLen \in Nat \ {0}
  /\ Sizes \subseteq Nat /\ Positions \subseteq Nat /\ Lengths \subseteq Nat \ {0}
  /\ Hazards \subseteq {"alias", "far", "torn"}
  /\ MaxFaults \in Nat /\ MaxOps \in Nat

Clusters == 2..(NumClusters + 1)
ClusterLen == BlocksPerCluster * BlockLen

\* Entries of the FAT, and what fatfs_get_fat_entry returns: a cluster, or something with
\* the FAT_EOC bit. A chain also ends at a free cluster.
Free == 0
Eoc == -1
Err == -2

ASSUME LayoutAssumption ==
  \A l \in Layouts, f \in Files :
    /\ l[f].chain \in Seq(Clusters) /\ l[f].size \in Nat
    /\ l[f].size <= Len(l[f].chain) * ClusterLen
    /\ l[f].size > (Len(l[f].chain) - 1) * ClusterLen
    /\ \A g \in Files : \A i \in DOMAIN l[f].chain, j \in DOMAIN l[g].chain :
         l[f].chain[i] = l[g].chain[j] => f = g /\ i = j

\* Data: what is written at a position of a file differs from any other.
Blank == <<>>
Unit(f, p) == <<f, p>>

Closed == [file |-> "closed"]
Idle == [pc |-> "idle"]

VARIABLES
  fat, data, dirent,  \* the card: table, clusters, the entries of the files
  nextFree,           \* fatfs_next_free_cluster
  fh,                 \* fatfs_filehandle_t, or Closed
  op,                 \* fatfs_setsize: its locals and where it stands, or Idle
  \* history: contents of the file being resized; whether the volume was ever found full;
  \* counters
  before, full, faults, ops

card == <<fat, data, dirent>>
vars == <<card, nextFree, fh, op, before, full, faults, ops>>

Index(p) == p \div ClusterLen

Entry(c) == IF c < 2 THEN Eoc ELSE fat[c]

\* The n-th cluster of the chain that begins with c.
Follow(c, n) ==
  LET chain[i \in 0..n] == IF i = 0 THEN c ELSE Entry(chain[i - 1]) IN chain[n]

\* What the card holds of a file, if its chain is as long as its size.
Contents(f) ==
  LET e == dirent[f]
      Cluster(p) == Follow(e.start, Index(p))
  IN  IF \A p \in 0..(e.size - 1) : Cluster(p) >= 2
      THEN {[i \in 1..e.size |-> data[Cluster(i - 1)][(i - 1) % ClusterLen]]}
      ELSE {}

Init ==
  \E l \in Layouts :
    /\ fat = [c \in Clusters |->
                IF \E f \in Files : \E i \in DOMAIN l[f].chain : l[f].chain[i] = c
                THEN LET f == CHOOSE f \in Files : \E i \in DOMAIN l[f].chain : l[f].chain[i] = c
                         i == CHOOSE i \in DOMAIN l[f].chain : l[f].chain[i] = c
                     IN  IF i = Len(l[f].chain) THEN Eoc ELSE l[f].chain[i + 1]
                ELSE Free]
    /\ dirent = [f \in Files |->
                   [start |-> IF l[f].chain = <<>> THEN 0 ELSE l[f].chain[1], size |-> l[f].size]]
    /\ data = [c \in Clusters |-> [u \in 0..(ClusterLen - 1) |-> Blank]]
    /\ nextFree = 2
    /\ fh = [h \in Handles |-> Closed] /\ op = Idle
    /\ before = {} /\ full = FALSE /\ faults = 0 /\ ops = 0

----------------------------------------------------------------------------
(* Handles.                                                                 *)

Count == ops < MaxOps /\ ops' = ops + 1
Fault == faults < MaxFaults /\ faults' = faults + 1
NoFault == UNCHANGED faults

\* A file found in a directory, or just created in it.
Open(h, f) ==
  /\ op = Idle /\ fh[h] = Closed
  /\ "alias" \in Hazards \/ \A g \in Handles : fh[g] = Closed \/ fh[g].file # f
  /\ fh' = [fh EXCEPT ![h] = [file |-> f, start |-> dirent[f].start, cur |-> dirent[f].start,
                              size |-> dirent[f].size, pos |-> 0]]
  /\ UNCHANGED <<card, nextFree, op, before, full, faults, ops>>

Close(h) ==
  /\ op = Idle /\ fh[h] # Closed
  /\ fh' = [fh EXCEPT ![h] = Closed]
  /\ UNCHANGED <<card, nextFree, op, before, full, faults, ops>>

SameCluster(r, p) == r.pos < r.size /\ Index(r.pos) = Index(p)

\* fatfs_setpos; when it fails, it changes nothing.
SetPos(h, p) ==
  /\ op = Idle /\ fh[h] # Closed /\ Count
  /\ LET r == fh[h]
         stay == p >= r.size \/ SameCluster(r, p) \/ r.cur = 0
         c == IF stay THEN r.cur ELSE Follow(r.start, Index(p))
     IN  /\ stay \/ c >= 2
         /\ fh' = [fh EXCEPT ![h] = [r EXCEPT !.pos = p, !.cur = c]]
  /\ UNCHANGED <<card, nextFree, op, before, full, faults>>

\* The units that a read or write of n moves, and the cluster of each.
Moved(r, n) == IF n < r.size - r.pos THEN n ELSE r.size - r.pos
At(r, p) == Follow(r.cur, Index(p) - Index(r.pos))
Reaches(r, n) == \A p \in r.pos..(r.pos + Moved(r, n) - 1) : At(r, p) >= 2

\* Behind the last unit of a cluster the next one is looked up at once; should that fail,
\* the error waits in the handle.
Advance(h, n) ==
  LET r == fh[h]
      p == r.pos + Moved(r, n)
  IN  \/ fh' = [fh EXCEPT ![h] = [r EXCEPT !.pos = p, !.cur = At(r, p)]] /\ NoFault
      \/ /\ p % ClusterLen = 0 /\ Fault
         /\ fh' = [fh EXCEPT ![h] = [r EXCEPT !.pos = p, !.cur = Err]]

Read(h, n) ==
  /\ op = Idle /\ fh[h] # Closed /\ fh[h].pos < fh[h].size /\ Count
  /\ Reaches(fh[h], n) /\ Advance(h, n)
  /\ UNCHANGED <<card, nextFree, op, before, full>>

\* The units from the handle's position to p are written.
Store(r, p) ==
  data' = [c \in Clusters |-> [u \in 0..(ClusterLen - 1) |->
             LET here == {q \in r.pos..(p - 1) : At(r, q) = c /\ q % ClusterLen = u}
             IN  IF here = {} THEN data[c][u] ELSE Unit(r.file, CHOOSE q \in here : TRUE)]]

Write(h, n) ==
  /\ op = Idle /\ fh[h] # Closed /\ fh[h].pos < fh[h].size /\ Count
  /\ Reaches(fh[h], n)
  /\ Store(fh[h], fh[h].pos + Moved(fh[h], n)) /\ Advance(h, n)
  /\ UNCHANGED <<fat, dirent, nextFree, op, before, full>>

\* A block cannot be written, or the chain is shorter than the file's size: what was written
\* stays, block by block, and the handle does not move.
WriteFails(h, n) ==
  /\ op = Idle /\ fh[h] # Closed /\ fh[h].pos < fh[h].size /\ Count
  /\ LET r == fh[h]
         end == r.pos + Moved(r, n)
     IN  \E p \in r.pos..end :
           /\ p \in {r.pos, end} \/ p % BlockLen = 0
           /\ \A q \in r.pos..(p - 1) : At(r, q) >= 2
           /\ IF p < end /\ At(r, p) < 2 THEN NoFault ELSE Fault
           /\ Store(r, p)
  /\ UNCHANGED <<fat, dirent, nextFree, fh, op, before, full>>

----------------------------------------------------------------------------
(* fatfs_setsize, one change of the FAT a step.                             *)

Blocks(n) == (n + BlockLen - 1) \div BlockLen

\* Callers resize a file while the handle's position is in its first cluster.
SetSize(h, n) ==
  /\ op = Idle /\ fh[h] # Closed /\ Count
  /\ "far" \in Hazards \/ Index(fh[h].pos) = 0
  /\ op' = [pc |-> IF n = 0 THEN IF fh[h].start = 0 THEN "entry" ELSE "free"
                   ELSE IF fh[h].start = 0 THEN "first" ELSE "walk",
            h |-> h, size |-> n, cluster |-> fh[h].start, left |-> Blocks(n), fresh |-> FALSE,
            next |-> 0]
  /\ fh' = IF n = 0 THEN [fh EXCEPT ![h].start = 0, ![h].cur = 0, ![h].pos = 0] ELSE fh
  /\ before' = Contents(fh[h].file)
  /\ UNCHANGED <<card, nextFree, full, faults>>

Return == op' = Idle /\ before' = {}

\* Truncation to nothing lets go of the clusters before the directory entry does.
Tearing == op.pc \in {"free", "entry"} /\ op.size = 0
Failing == Fault /\ ("torn" \in Hazards \/ ~Tearing)

\* fatfs_set_fat_entry: done, or it fails, having had its effect (the first FAT is written,
\* the second is not) or not.
SetEntry(c, e, done, failed) ==
  \/ fat' = [fat EXCEPT ![c] = e] /\ NoFault /\ done
  \/ (fat' = [fat EXCEPT ![c] = e] \/ UNCHANGED fat) /\ Failing /\ failed

\* fatfs_allocate_cluster: the first free cluster, from that found last and round.
Allocatable == {c \in 2..(NumClusters - 1) : fat[c] = Free}
Distance(c) == (c - nextFree) % (NumClusters - 2)
FirstFree == CHOOSE c \in Allocatable : \A d \in Allocatable : Distance(c) <= Distance(d)

\* The volume is full, the search cannot read the table, or the cluster is taken.
Allocate(done, failed) ==
  \/ Allocatable = {} /\ full' = TRUE /\ failed /\ UNCHANGED <<fat, nextFree, faults>>
  \/ Failing /\ failed /\ UNCHANGED <<fat, nextFree, full>>
  \/ /\ Allocatable # {} /\ nextFree' = FirstFree /\ UNCHANGED full
     /\ SetEntry(FirstFree, Eoc, done, failed)

\* The file had no cluster.
First ==
  /\ op.pc = "first"
  /\ Allocate(/\ op' = [op EXCEPT !.pc = "walk", !.cluster = FirstFree, !.fresh = TRUE]
              /\ fh' = [fh EXCEPT ![op.h].start = FirstFree, ![op.h].cur = FirstFree,
                                  ![op.h].pos = 0]
              /\ UNCHANGED before,
              Return /\ UNCHANGED fh)
  /\ UNCHANGED <<data, dirent, ops>>

\* (a defect: the chain is ended one cluster early)
LastClusterEarly == op.left <= 2 * BlocksPerCluster

LastCluster == op.left <= BlocksPerCluster

Next0 == IF op.fresh THEN Free ELSE Entry(op.cluster)

\* On to the next cluster, which the chain already has.
WalkOn ==
  /\ op.pc = "walk" /\ ~LastCluster /\ Next0 >= 2
  /\ op' = [op EXCEPT !.cluster = Next0, !.left = @ - BlocksPerCluster]
  /\ UNCHANGED <<card, nextFree, fh, before, full, faults, ops>>

AfterCut == [op EXCEPT !.cluster = Next0, !.left = 0,
                       !.pc = IF ~op.fresh /\ Next0 >= 2 THEN "free" ELSE "entry"]

\* (a defect: the rest is let go without ending the chain before it)
CutNothing == UNCHANGED <<fat, faults>> /\ op' = AfterCut /\ UNCHANGED before

\* The chain ends here; what follows is free to go.
Cut ==
  IF op.fresh \/ Next0 >= 2
  THEN SetEntry(op.cluster, Eoc, op' = AfterCut /\ UNCHANGED before, Return)
  ELSE op' = AfterCut /\ UNCHANGED <<fat, faults, before>>

CutChain ==
  /\ op.pc = "walk" /\ LastCluster /\ Cut
  /\ UNCHANGED <<data, dirent, nextFree, fh, full, ops>>

Grow ==
  /\ op.pc = "walk" /\ ~LastCluster /\ Next0 < 2
  /\ Allocate(op' = [op EXCEPT !.pc = "link", !.next = FirstFree, !.fresh = TRUE],
              op' = [op EXCEPT !.pc = "terminate"])
  /\ UNCHANGED <<data, dirent, fh, before, ops>>

Link ==
  /\ op.pc = "link"
  /\ SetEntry(op.cluster, op.next,
              /\ op' = [op EXCEPT !.pc = "walk", !.cluster = op.next,
                                  !.left = @ - BlocksPerCluster]
              /\ UNCHANGED before,
              Return)
  /\ UNCHANGED <<data, dirent, nextFree, fh, full, ops>>

Terminate ==
  /\ op.pc = "terminate"
  /\ SetEntry(op.cluster, Eoc, Return, Return)
  /\ UNCHANGED <<data, dirent, nextFree, fh, full, ops>>

\* (a defect: the last cluster of the rest is kept)
FreeLess(next) == Entry(next) < 2

FreeDone(next) == next < 2

\* The next cluster is looked up first; should that fail, this one is let go all the same.
FreeOne ==
  /\ op.pc = "free"
  /\ \/ SetEntry(op.cluster, Free,
                 /\ op' = IF FreeDone(Next0) THEN [op EXCEPT !.pc = "entry"]
                                             ELSE [op EXCEPT !.cluster = Next0]
                 /\ UNCHANGED before,
                 Return)
     \/ fat' = [fat EXCEPT ![op.cluster] = Free] /\ Failing /\ Return
  /\ UNCHANGED <<data, dirent, nextFree, fh, full, ops>>

\* The directory entry comes last.
PutEntry ==
  LET f == fh[op.h].file
      e == [start |-> fh[op.h].start, size |-> op.size]
  IN  /\ op.pc = "entry" /\ Return
      /\ \/ /\ dirent' = [dirent EXCEPT ![f] = e] /\ NoFault
            /\ fh' = [fh EXCEPT ![op.h].size = op.size]
         \/ (dirent' = [dirent EXCEPT ![f] = e] \/ UNCHANGED dirent) /\ Failing /\ UNCHANGED fh
      /\ UNCHANGED <<fat, data, nextFree, full, ops>>

\* The table or the entry cannot be read.
SetSizeFails ==
  /\ op.pc \in {"walk", "entry"} /\ Failing /\ Return
  /\ UNCHANGED <<card, nextFree, fh, full, ops>>

----------------------------------------------------------------------------
\* The machine is switched off, or its service processor restarted.
PowerOff ==
  /\ IF op = Idle THEN Fault ELSE Failing
  /\ fh' = [h \in Handles |-> Closed] /\ nextFree' = 2 /\ Return
  /\ UNCHANGED <<card, full, ops>>

Next ==
  \/ \E h \in Handles :
       \/ (\E f \in Files : Open(h, f)) \/ Close(h)
       \/ (\E p \in Positions : SetPos(h, p))
       \/ (\E n \in Lengths : Read(h, n) \/ Write(h, n) \/ WriteFails(h, n))
       \/ (\E n \in Sizes : SetSize(h, n))
  \/ First \/ WalkOn \/ CutChain \/ Grow \/ Link \/ Terminate \/ FreeOne \/ PutEntry
  \/ SetSizeFails \/ PowerOff

Spec == Init /\ [][Next]_vars

----------------------------------------------------------------------------
(* Properties.                                                              *)

FatValues == Clusters \cup {Free, Eoc}
Units == {Blank} \cup (Files \X Nat)
Links == Clusters \cup {Free, Eoc, Err}

\* Every variable has its type, and a walk along a chain has blocks left to cover.
TypeOK ==
  /\ fat \in [Clusters -> FatValues]
  /\ data \in [Clusters -> [0..(ClusterLen - 1) -> Units]]
  /\ dirent \in [Files -> [start : Clusters \cup {0}, size : Nat]]
  /\ nextFree \in Clusters
  /\ fh \in [Handles -> [file : Files, start : Clusters \cup {0}, cur : Links, size : Nat,
                          pos : Nat] \cup {Closed}]
  /\ op = Idle \/ /\ op \in [pc : {"first", "walk", "link", "terminate", "free", "entry"},
                              h : Handles, size : Nat, cluster : Links, left : Nat,
                              fresh : BOOLEAN, next : Links]
                  /\ fh[op.h] # Closed
                  /\ op.pc \in {"first", "walk", "link", "terminate"} => op.left > 0
                  /\ op.pc # "first" /\ op.pc # "entry" => op.cluster \in Clusters
                  /\ op.pc = "link" => ~LastCluster /\ op.next \in Clusters
  /\ full \in BOOLEAN /\ faults \in 0..MaxFaults /\ ops \in 0..MaxOps

Chain(f) == {Follow(dirent[f].start, n) : n \in 0..Cardinality(Clusters)} \cap Clusters

Emptied(f) == op # Idle /\ op.size = 0 /\ fh[op.h].file = f

\* No cluster belongs to two files or is both in a file and free, and every chain ends,
\* whatever of a resize has failed or was cut off by a loss of power; but for a file that
\* is just being emptied, whose entry lets go last.
ChainsApart ==
  \A f \in Files :
    /\ \A g \in Files \ {f} : Chain(f) \cap Chain(g) = {}
    /\ Follow(dirent[f].start, Cardinality(Clusters)) < 2
    /\ Emptied(f) \/ \A c \in Chain(f) : fat[c] # Free

\* The current cluster of a handle is the one its position lies in, however the file was
\* resized, and it is lost only by a failure.
HandleAim ==
  op = Idle => \A h \in Handles :
    fh[h] # Closed /\ fh[h].pos < fh[h].size =>
      \/ fh[h].cur = Follow(dirent[fh[h].file].start, Index(fh[h].pos))
      \/ fh[h].cur = Err /\ faults > 0

\* The table and the handles fit together.
Sound == TypeOK /\ ChainsApart /\ HandleAim

\* As long as nothing fails and the volume is not full, every cluster in use belongs to a
\* file: resizing loses no space.
NoLeak ==
  op = Idle /\ faults = 0 /\ ~full =>
    {c \in Clusters : fat[c] # Free} = UNION {Chain(f) : f \in Files}

\* Reading and writing go to one file at a time and to the position of the handle. Resizing
\* gives a file its new size and keeps what both sizes share; it is refused only by a full
\* volume, or after a failure, and then changes nothing; a failure of the card or of the power
\* costs at most the file that is being resized.
Resizing(f) == op # Idle /\ fh[op.h].file = f

Volume == INSTANCE FileStore WITH
  None   <- Idle,
  file   <- [f \in Files |-> IF Resizing(f) THEN before ELSE Contents(f)],
  resize <- IF op = Idle THEN Idle ELSE [file |-> fh[op.h].file, size |-> op.size]

ImplementsStore == Volume!Spec
=============================================================================
