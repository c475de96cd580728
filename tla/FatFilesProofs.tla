-------------------------- MODULE FatFilesProofs --------------------------
(***************************************************************************)
(* Proofs about FatFiles: its types, that the chains of the files stay     *)
(* apart (Sound), that no cluster is lost (NoLeak) and that the volume     *)
(* implements the abstract store of files (FileStore).                     *)
(*                                                                         *)
(* The argument is an invariant of the table itself: no two entries name   *)
(* the same cluster and none names a free one (Linked), and nothing but    *)
(* one file, or the resize under way, holds the first cluster of a chain   *)
(* (HeadsInv). Two chains that met would be the same from their first      *)
(* clusters on, and a chain that came back to a cluster of its own would   *)
(* have two entries naming it. To that WalkInv adds that a resize stays in *)
(* the chain of its own file, AimInv that each handle stands at the        *)
(* cluster of its position, OwnedInv that each cluster in use has an       *)
(* owner, BeforeInv what a resize has kept of its file so far, and CutInv  *)
(* that the chain it leaves is long enough for the new size.               *)
(***************************************************************************)
EXTENDS FatFiles, FiniteSetTheorems, TLAPS

\* The numbers that a set with 0 and, with n, n + 1 holds are all there are.
LEMMA Induction ==
  ASSUME NEW S, 0 \in S, \A n \in Nat : n \in S => n + 1 \in S
  PROVE  Nat \subseteq S
<1> DEFINE T == Nat \ S
<1> SUFFICES ASSUME T # {} PROVE FALSE
  OBVIOUS
<1>1. PICK n \in T : \A m \in T : <<m, n>> \notin OpToRel(<, Nat)
  BY NatLessThanWellFounded, WFMin, Zenon
<1>2. \A m \in T : ~(m < n)
  BY <1>1 DEF OpToRel
<1>3. n \in Nat /\ n # 0 /\ n \notin S
  OBVIOUS
<1>4. n - 1 \in Nat /\ n - 1 < n
  BY <1>3
<1>5. n - 1 \in S
  BY <1>2, <1>4
<1>6. (n - 1) + 1 \in S
  BY <1>4, <1>5
<1> QED
  BY <1>3, <1>6

\* A set of numbers that has one has a least.
LEMMA Least ==
  ASSUME NEW S, S \subseteq Nat, S # {}
  PROVE  \E n \in S : \A m \in S : n <= m
<1>1. PICK n \in S : \A m \in S : <<m, n>> \notin OpToRel(<, Nat)
  BY NatLessThanWellFounded, WFMin, Zenon
<1>2. \A m \in S : ~(m < n)
  BY <1>1 DEF OpToRel
<1> QED
  BY <1>2

----------------------------------------------------------------------------
(* Chains of clusters in a table t.                                         *)

\* The allocation tables a card may hold.
Tables == [Clusters -> FatValues]

\* What table t says of cluster c: next_cluster reads it, and takes any number below 2 for the end.
EntryOf(t, c) == IF c < 2 THEN Eoc ELSE t[c]

\* The n-th cluster after c in the chains of table t: Follow, with the table as a parameter.
FollowOf(t, c, n) ==
  LET chain[i \in 0..n] == IF i = 0 THEN c ELSE EntryOf(t, chain[i - 1]) IN chain[n]

\* Follow reads the card's table.
LEMMA FollowIsOf == \A c, n : Follow(c, n) = FollowOf(fat, c, n)
  BY DEF Follow, FollowOf, Entry, EntryOf

\* The first n + 1 clusters of the chain that begins with c.
IsChain(g, t, c, n) == g = [i \in 0..n |-> IF i = 0 THEN c ELSE EntryOf(t, g[i - 1])]

\* There is one such chain of each length ...
LEMMA ChainExists ==
  ASSUME NEW t, NEW c, NEW n \in Nat PROVE \E g : IsChain(g, t, c, n)
<1> DEFINE S == {k \in Nat : \E g : IsChain(g, t, c, k)}
<1>1. 0 \in S
  <2>1. IsChain([i \in 0..0 |-> c], t, c, 0)
    BY DEF IsChain
  <2> QED
    BY <2>1
<1>2. ASSUME NEW k \in Nat, k \in S PROVE k + 1 \in S
  <2>1. PICK g : IsChain(g, t, c, k)
    BY <1>2
  <2> DEFINE h == [i \in 0..(k + 1) |-> IF i <= k THEN g[i] ELSE EntryOf(t, g[k])]
  <2>2. ASSUME NEW i \in 0..(k + 1) PROVE h[i] = IF i = 0 THEN c ELSE EntryOf(t, h[i - 1])
    <3>1. CASE i <= k
      <4>1. h[i] = g[i] /\ g[i] = (IF i = 0 THEN c ELSE EntryOf(t, g[i - 1]))
        BY <2>1, <3>1 DEF IsChain
      <4>2. i # 0 => h[i - 1] = g[i - 1]
        BY <3>1
      <4> QED
        BY <4>1, <4>2
    <3>2. CASE i = k + 1
      BY <3>2
    <3> QED
      BY <3>1, <3>2
  <2>3. h = [i \in 0..(k + 1) |-> IF i = 0 THEN c ELSE EntryOf(t, h[i - 1])]
    BY <2>2
  <2>4. \E x : IsChain(x, t, c, k + 1)
    BY <2>3 DEF IsChain
  <2> QED
    BY <2>4
<1> HIDE DEF S
<1>3. Nat \subseteq S
  BY <1>1, <1>2, Induction
<1> QED
  BY <1>3 DEF S

\* ... and chains of different lengths agree.
LEMMA ChainUnique ==
  ASSUME NEW t, NEW c, NEW m \in Nat, NEW n \in Nat, NEW g, NEW h,
         IsChain(g, t, c, m), IsChain(h, t, c, n)
  PROVE  \A i \in Nat : i <= m /\ i <= n => g[i] = h[i]
<1> DEFINE S == {i \in Nat : i <= m /\ i <= n => g[i] = h[i]}
<1>1. 0 \in S
  BY DEF IsChain
<1>2. ASSUME NEW i \in Nat, i \in S PROVE i + 1 \in S
  <2> SUFFICES ASSUME i + 1 <= m, i + 1 <= n PROVE g[i + 1] = h[i + 1]
    OBVIOUS
  <2>1. g[i] = h[i]
    BY <1>2
  <2>2. i + 1 \in 0..m /\ i + 1 \in 0..n /\ i + 1 # 0 /\ (i + 1) - 1 = i
    OBVIOUS
  <2>3. g[i + 1] = EntryOf(t, g[(i + 1) - 1])
    BY <2>2 DEF IsChain
  <2>4. h[i + 1] = EntryOf(t, h[(i + 1) - 1])
    BY <2>2 DEF IsChain
  <2> QED
    BY <2>1, <2>2, <2>3, <2>4
<1> HIDE DEF S
<1>3. Nat \subseteq S
  BY <1>1, <1>2, Induction
<1> QED
  BY <1>3 DEF S

\* What Follow computes, one step at a time.
LEMMA FollowSteps ==
  ASSUME NEW t, NEW c
  PROVE  /\ FollowOf(t, c, 0) = c
         /\ \A n \in Nat : FollowOf(t, c, n + 1) = EntryOf(t, FollowOf(t, c, n))
<1>1. ASSUME NEW n \in Nat PROVE \E g : IsChain(g, t, c, n) /\ FollowOf(t, c, n) = g[n]
  <2>1. \E g : g = [i \in 0..n |-> IF i = 0 THEN c ELSE EntryOf(t, g[i - 1])]
    <3>1. PICK g : IsChain(g, t, c, n)
      BY ChainExists
    <3>2. g = [i \in 0..n |-> IF i = 0 THEN c ELSE EntryOf(t, g[i - 1])]
      BY <3>1 DEF IsChain
    <3> QED
      BY <3>2
  <2>2. \E g : /\ g = [i \in 0..n |-> IF i = 0 THEN c ELSE EntryOf(t, g[i - 1])]
              /\ FollowOf(t, c, n) = g[n]
    BY <2>1 DEF FollowOf
  <2> QED
    BY <2>2 DEF IsChain
<1>2. FollowOf(t, c, 0) = c
  <2>1. PICK g : IsChain(g, t, c, 0) /\ FollowOf(t, c, 0) = g[0]
    BY <1>1
  <2> QED
    BY <2>1 DEF IsChain
<1>3. ASSUME NEW n \in Nat PROVE FollowOf(t, c, n + 1) = EntryOf(t, FollowOf(t, c, n))
  <2>1. PICK g : IsChain(g, t, c, n) /\ FollowOf(t, c, n) = g[n]
    BY <1>1
  <2>2. PICK h : IsChain(h, t, c, n + 1) /\ FollowOf(t, c, n + 1) = h[n + 1]
    BY <1>1
  <2>3. g[n] = h[n]
    BY <2>1, <2>2, ChainUnique
  <2>4. n + 1 \in 0..(n + 1) /\ n + 1 # 0 /\ (n + 1) - 1 = n
    OBVIOUS
  <2>5. h[n + 1] = EntryOf(t, h[(n + 1) - 1])
    BY <2>2, <2>4 DEF IsChain
  <2> QED
    BY <2>1, <2>2, <2>3, <2>4, <2>5
<1> QED
  BY <1>2, <1>3

\* One step along a chain, from where it has come to.
LEMMA FollowNext ==
  ASSUME NEW t, NEW c, NEW n \in Nat
  PROVE  FollowOf(t, c, n + 1) = EntryOf(t, FollowOf(t, c, n))
<1>1. \A k \in Nat : FollowOf(t, c, k + 1) = EntryOf(t, FollowOf(t, c, k))
  BY FollowSteps
<1> QED
  BY <1>1

\* An entry is a cluster or less than 2, and so is whatever a chain comes to.
LEMMA EntryType ==
  ASSUME NEW t \in Tables, NEW c \in Links
  PROVE  /\ EntryOf(t, c) \in Links
         /\ c >= 2 <=> c \in Clusters
         /\ c \in Clusters => EntryOf(t, c) = t[c] /\ t[c] \in FatValues
         /\ c \notin Clusters => EntryOf(t, c) = Eoc /\ c < 2
  BY FatAssumption DEF Tables, EntryOf, Links, FatValues, Clusters, Free, Eoc, Err

\* Following the links of a table gives a link.
LEMMA FollowType ==
  ASSUME NEW t \in Tables, NEW c \in Links, NEW n \in Nat
  PROVE  FollowOf(t, c, n) \in Links
<1> DEFINE S == {k \in Nat : FollowOf(t, c, k) \in Links}
<1>1. 0 \in S
  BY FollowSteps
<1>2. ASSUME NEW k \in Nat, k \in S PROVE k + 1 \in S
  <2>1. FollowOf(t, c, k + 1) = EntryOf(t, FollowOf(t, c, k))
    BY FollowSteps
  <2>2. EntryOf(t, FollowOf(t, c, k)) \in Links
    BY <1>2, EntryType
  <2> QED
    BY <2>1, <2>2
<1> HIDE DEF S
<1>3. Nat \subseteq S
  BY <1>1, <1>2, Induction
<1> QED
  BY <1>3 DEF S

\* A chain that has ended stays at its end.
LEMMA FollowEnds ==
  ASSUME NEW t \in Tables, NEW c \in Links, NEW m \in Nat, NEW n \in Nat, m <= n,
         FollowOf(t, c, m) \notin Clusters
  PROVE  FollowOf(t, c, n) \notin Clusters
<1> DEFINE S == {k \in Nat : m <= k => FollowOf(t, c, k) \notin Clusters}
<1>1. 0 \in S
  OBVIOUS
<1>2. ASSUME NEW k \in Nat, k \in S PROVE k + 1 \in S
  <2>1. CASE m <= k
    <3>1. FollowOf(t, c, k) \in Links /\ FollowOf(t, c, k) \notin Clusters
      BY <1>2, <2>1, FollowType
    <3>2. EntryOf(t, FollowOf(t, c, k)) = Eoc
      BY <3>1, EntryType
    <3>3. FollowOf(t, c, k + 1) = Eoc
      BY <3>2, FollowSteps
    <3> QED
      BY <3>3, FatAssumption DEF Eoc, Clusters
  <2>2. CASE ~(m <= k)
    <3>1. m <= k + 1 => m = k + 1
      BY <2>2
    <3> QED
      BY <3>1
  <2> QED
    BY <2>1, <2>2
<1> HIDE DEF S
<1>3. Nat \subseteq S
  BY <1>1, <1>2, Induction
<1> QED
  BY <1>3 DEF S

\* Going on from where a chain has come to.
LEMMA FollowAdd ==
  ASSUME NEW t, NEW c, NEW m \in Nat, NEW n \in Nat
  PROVE  FollowOf(t, c, m + n) = FollowOf(t, FollowOf(t, c, m), n)
<1> DEFINE S == {k \in Nat : FollowOf(t, c, m + k) = FollowOf(t, FollowOf(t, c, m), k)}
<1>1. 0 \in S
  BY FollowSteps
<1>2. ASSUME NEW k \in Nat, k \in S PROVE k + 1 \in S
  <2>1. FollowOf(t, c, (m + k) + 1) = EntryOf(t, FollowOf(t, c, m + k))
    BY FollowNext, m + k \in Nat
  <2>2. FollowOf(t, FollowOf(t, c, m), k + 1) = EntryOf(t, FollowOf(t, FollowOf(t, c, m), k))
    BY FollowNext
  <2>3. (m + k) + 1 = m + (k + 1)
    OBVIOUS
  <2> QED
    BY <1>2, <2>1, <2>2, <2>3
<1> HIDE DEF S
<1>3. Nat \subseteq S
  BY <1>1, <1>2, Induction
<1> QED
  BY <1>3 DEF S

----------------------------------------------------------------------------
(* Tables in which no two clusters lead to the same one, and none to a free *)
(* one.                                                                     *)

\* No two entries of the table name the same cluster, and none names a free one.
Linked(t) ==
  /\ t \in Tables
  /\ \A c, d \in Clusters : t[c] \in Clusters /\ t[c] = t[d] => c = d
  /\ \A c \in Clusters : t[c] \in Clusters => t[t[c]] # Free

\* No cluster leads to s: a chain can only begin there.
IsFirst(t, s) == \A c \in Clusters : t[c] # s

\* A chain that comes to a cluster has been in clusters before.
LEMMA FollowBefore ==
  ASSUME NEW t \in Tables, NEW c \in Links, NEW m \in Nat, NEW n \in Nat, m <= n,
         FollowOf(t, c, n) \in Clusters
  PROVE  FollowOf(t, c, m) \in Clusters
  BY FollowEnds

\* The step to a cluster.
LEMMA FollowLast ==
  ASSUME NEW t \in Tables, NEW c \in Links, NEW n \in Nat, FollowOf(t, c, n + 1) \in Clusters
  PROVE  /\ FollowOf(t, c, n) \in Clusters
         /\ FollowOf(t, c, n + 1) = t[FollowOf(t, c, n)]
<1>1. FollowOf(t, c, n) \in Clusters
  BY FollowBefore, n + 1 \in Nat, n <= n + 1
<1>2. FollowOf(t, c, n) \in Links
  BY FollowType
<1>3. FollowOf(t, c, n + 1) = EntryOf(t, FollowOf(t, c, n))
  BY FollowSteps
<1>4. EntryOf(t, FollowOf(t, c, n)) = t[FollowOf(t, c, n)]
  BY <1>1, <1>2, EntryType
<1> QED
  BY <1>1, <1>3, <1>4

\* Chains from first clusters never meet, nor does such a chain come back to itself.
LEMMA ChainsMeet ==
  ASSUME NEW t, Linked(t), NEW c \in Clusters, NEW d \in Clusters,
         IsFirst(t, c), IsFirst(t, d), NEW m \in Nat, NEW n \in Nat,
         FollowOf(t, c, m) \in Clusters, FollowOf(t, c, m) = FollowOf(t, d, n)
  PROVE  c = d /\ m = n
<1> DEFINE S == {k \in Nat : \A j \in Nat :
                   FollowOf(t, c, k) \in Clusters /\ FollowOf(t, c, k) = FollowOf(t, d, j)
                   => c = d /\ k = j}
<1>0. t \in Tables /\ c \in Links /\ d \in Links
  BY DEF Linked, Links
<1>1. 0 \in S
  <2> SUFFICES ASSUME NEW j \in Nat, c = FollowOf(t, d, j) PROVE c = d /\ 0 = j
    BY FollowSteps
  <2>1. CASE j = 0
    BY <2>1, FollowSteps
  <2>2. CASE j # 0
    <3> DEFINE i == j - 1
    <3>1. i \in Nat /\ j = i + 1
      BY <2>2
    <3> HIDE DEF i
    <3>2. FollowOf(t, d, i) \in Clusters /\ c = t[FollowOf(t, d, i)]
      BY <1>0, <3>1, FollowLast
    <3> QED
      BY <3>2 DEF IsFirst
  <2> QED
    BY <2>1, <2>2
<1>2. ASSUME NEW k \in Nat, k \in S PROVE k + 1 \in S
  <2> SUFFICES ASSUME NEW j \in Nat, FollowOf(t, c, k + 1) \in Clusters,
                      FollowOf(t, c, k + 1) = FollowOf(t, d, j)
               PROVE  c = d /\ k + 1 = j
    OBVIOUS
  <2>1. FollowOf(t, c, k) \in Clusters /\ FollowOf(t, c, k + 1) = t[FollowOf(t, c, k)]
    BY <1>0, FollowLast
  <2>2. CASE j = 0
    <3>1. t[FollowOf(t, c, k)] = d
      BY <2>1, <2>2, FollowSteps
    <3> QED
      BY <2>1, <3>1 DEF IsFirst
  <2>3. CASE j # 0
    <3> DEFINE i == j - 1
    <3>1. i \in Nat /\ j = i + 1
      BY <2>3
    <3> HIDE DEF i
    <3>2. FollowOf(t, d, i) \in Clusters /\ FollowOf(t, d, j) = t[FollowOf(t, d, i)]
      BY <1>0, <3>1, FollowLast
    <3>3. FollowOf(t, c, k) = FollowOf(t, d, i)
      BY <2>1, <3>2 DEF Linked
    <3>4. c = d /\ k = i
      BY <1>2, <2>1, <3>1, <3>3
    <3> QED
      BY <3>1, <3>4
  <2> QED
    BY <2>2, <2>3
<1> HIDE DEF S
<1>3. Nat \subseteq S
  BY <1>1, <1>2, Induction
<1> QED
  BY <1>3 DEF S

\* Every cluster of a chain is in use.
LEMMA ChainInUse ==
  ASSUME NEW t, Linked(t), NEW c \in Clusters, t[c] # Free, NEW n \in Nat,
         FollowOf(t, c, n) \in Clusters
  PROVE  t[FollowOf(t, c, n)] # Free
<1>0. t \in Tables /\ c \in Links
  BY DEF Linked, Links
<1>1. CASE n = 0
  BY <1>1, FollowSteps
<1>2. CASE n # 0
  <2> DEFINE m == n - 1
  <2>1. m \in Nat /\ n = m + 1
    BY <1>2
  <2> HIDE DEF m
  <2>2. FollowOf(t, c, m) \in Clusters /\ FollowOf(t, c, n) = t[FollowOf(t, c, m)]
    BY <1>0, <2>1, FollowLast
  <2> QED
    BY <2>2 DEF Linked
<1> QED
  BY <1>1, <1>2

\* The volume has as many clusters as it says.
LEMMA ClustersFinite == IsFiniteSet(Clusters) /\ Cardinality(Clusters) = NumClusters
  BY FS_Interval, FatAssumption DEF Clusters

\* A chain from a first cluster ends before it has more clusters than there are.
LEMMA ChainIsShort ==
  ASSUME NEW t, Linked(t), NEW c \in Links, IsFirst(t, c), NEW n \in Nat,
         FollowOf(t, c, n) \in Clusters
  PROVE  n < NumClusters
<1> SUFFICES ASSUME NumClusters <= n PROVE FALSE
  BY FatAssumption
<1>0. t \in Tables /\ NumClusters \in Nat
  BY FatAssumption DEF Linked
<1>1. c \in Clusters
  BY <1>0, FollowBefore, FollowSteps, 0 <= n
<1> DEFINE S == 0..NumClusters
           g == [i \in S |-> FollowOf(t, c, i)]
<1>2. \A i \in S : FollowOf(t, c, i) \in Clusters
  BY <1>0, FollowBefore
<1>3. g \in [S -> Clusters]
  BY <1>2
<1>4. IsFiniteSet(S) /\ Cardinality(S) = NumClusters + 1
  BY <1>0, FS_Interval
<1>5. Cardinality(S) > Cardinality(Clusters)
  BY <1>0, <1>4, ClustersFinite
<1> HIDE DEF S, g
<1>6. \E i, j \in S : i # j /\ g[i] = g[j]
  BY <1>3, <1>4, <1>5, ClustersFinite, FS_PigeonHole
<1>7. PICK i \in S, j \in S : i # j /\ g[i] = g[j]
  BY <1>6
<1>8. i \in Nat /\ j \in Nat /\ FollowOf(t, c, i) \in Clusters
      /\ FollowOf(t, c, i) = FollowOf(t, c, j)
  BY <1>2, <1>7 DEF S, g
<1> QED
  BY <1>1, <1>7, <1>8, ChainsMeet

----------------------------------------------------------------------------
(* Chains in a table one entry of which changes.                            *)

\* Table t with the entry of cluster x set to v.
Changed(t, x, v) == [t EXCEPT ![x] = v]

\* Setting one entry leaves the others as they were.
LEMMA ChangedType ==
  ASSUME NEW t \in Tables, NEW x \in Clusters, NEW v \in FatValues
  PROVE  /\ Changed(t, x, v) \in Tables
         /\ Changed(t, x, v)[x] = v
         /\ \A c \in Clusters : c # x => Changed(t, x, v)[c] = t[c]
         /\ \A c \in Links : c # x => EntryOf(Changed(t, x, v), c) = EntryOf(t, c)
         /\ EntryOf(Changed(t, x, v), x) = v
<1>1. Changed(t, x, v) \in Tables
  BY DEF Changed, Tables
<1>2. Changed(t, x, v)[x] = v /\ \A c \in Clusters : c # x => Changed(t, x, v)[c] = t[c]
  BY DEF Changed, Tables
<1>3. ASSUME NEW c \in Links, c # x PROVE EntryOf(Changed(t, x, v), c) = EntryOf(t, c)
  BY <1>1, <1>2, <1>3, EntryType DEF EntryOf
<1>4. EntryOf(Changed(t, x, v), x) = v
  BY <1>1, <1>2, EntryType, x \in Links DEF Links
<1> QED
  BY <1>1, <1>2, <1>3, <1>4

\* A chain is what it was up to where it comes by the change.
LEMMA FollowAway ==
  ASSUME NEW t \in Tables, NEW x \in Clusters, NEW v \in FatValues, NEW c \in Links,
         NEW n \in Nat, \A k \in Nat : k < n => FollowOf(t, c, k) # x
  PROVE  FollowOf(Changed(t, x, v), c, n) = FollowOf(t, c, n)
<1> DEFINE u == Changed(t, x, v)
           S == {k \in Nat : k <= n => FollowOf(u, c, k) = FollowOf(t, c, k)}
<1>1. 0 \in S
  BY FollowSteps
<1>2. ASSUME NEW k \in Nat, k \in S PROVE k + 1 \in S
  <2> SUFFICES ASSUME k + 1 <= n PROVE FollowOf(u, c, k + 1) = FollowOf(t, c, k + 1)
    OBVIOUS
  <2>1. FollowOf(u, c, k) = FollowOf(t, c, k) /\ FollowOf(t, c, k) # x
    BY <1>2
  <2>2. FollowOf(t, c, k) \in Links
    BY FollowType
  <2>3. EntryOf(u, FollowOf(t, c, k)) = EntryOf(t, FollowOf(t, c, k))
    BY <2>1, <2>2, ChangedType
  <2> HIDE DEF u
  <2>4. FollowOf(u, c, k + 1) = EntryOf(u, FollowOf(u, c, k))
        /\ FollowOf(t, c, k + 1) = EntryOf(t, FollowOf(t, c, k))
    BY FollowNext
  <2> QED
    BY <2>1, <2>3, <2>4
<1> HIDE DEF S
<1>3. Nat \subseteq S
  BY <1>1, <1>2, Induction
<1> QED
  BY <1>3 DEF S

\* Where a chain is cut, what is left of it is what it was.
LEMMA FollowCut ==
  ASSUME NEW t \in Tables, NEW x \in Clusters, NEW v \in {Free, Eoc}, NEW c \in Links,
         NEW n \in Nat, FollowOf(Changed(t, x, v), c, n) \in Clusters
  PROVE  FollowOf(Changed(t, x, v), c, n) = FollowOf(t, c, n)
<1> DEFINE u == Changed(t, x, v)
           S == {k \in Nat : FollowOf(u, c, k) \in Clusters
                             => FollowOf(u, c, k) = FollowOf(t, c, k)}
<1>0. v \in FatValues /\ v \notin Clusters
  BY FatAssumption DEF FatValues, Clusters, Free, Eoc
<1>1. 0 \in S
  BY FollowSteps
<1>2. ASSUME NEW k \in Nat, k \in S PROVE k + 1 \in S
  <2> SUFFICES ASSUME FollowOf(u, c, k + 1) \in Clusters
               PROVE  FollowOf(u, c, k + 1) = FollowOf(t, c, k + 1)
    OBVIOUS
  <2>1. u \in Tables
    BY <1>0, ChangedType
  <2>2. EntryOf(u, x) = v /\ \A d \in Links : d # x => EntryOf(u, d) = EntryOf(t, d)
    BY <1>0, ChangedType
  <2> HIDE DEF u
  <2>3. FollowOf(u, c, k) \in Clusters
    BY <2>1, FollowLast
  <2>4. FollowOf(u, c, k) = FollowOf(t, c, k) /\ FollowOf(t, c, k) \in Links
    BY <1>2, <2>3, FollowType
  <2>5. FollowOf(u, c, k + 1) = EntryOf(u, FollowOf(u, c, k))
        /\ FollowOf(t, c, k + 1) = EntryOf(t, FollowOf(t, c, k))
    BY FollowNext
  <2>6. FollowOf(u, c, k) # x
    BY <1>0, <2>2, <2>5
  <2> QED
    BY <2>2, <2>4, <2>5, <2>6
<1> HIDE DEF S
<1>3. Nat \subseteq S
  BY <1>1, <1>2, Induction
<1> QED
  BY <1>3 DEF S

\* A chain does not come by a cluster that no cluster leads to.
LEMMA AwayFromFirst ==
  ASSUME NEW t \in Tables, NEW x \in Clusters, IsFirst(t, x), NEW v \in FatValues,
         NEW c \in Links, c # x, NEW n \in Nat
  PROVE  FollowOf(Changed(t, x, v), c, n) = FollowOf(t, c, n)
<1>1. ASSUME NEW k \in Nat PROVE FollowOf(t, c, k) # x
  <2>1. CASE k = 0
    BY <2>1, FollowSteps
  <2>2. CASE k # 0
    <3> DEFINE j == k - 1
    <3>1. j \in Nat /\ k = j + 1
      BY <2>2
    <3> HIDE DEF j
    <3>2. SUFFICES ASSUME FollowOf(t, c, k) = x PROVE FALSE
      OBVIOUS
    <3>3. FollowOf(t, c, j) \in Clusters /\ x = t[FollowOf(t, c, j)]
      BY <3>1, <3>2, FollowLast
    <3> QED
      BY <3>3 DEF IsFirst
  <2> QED
    BY <2>1, <2>2
<1> QED
  BY <1>1, FollowAway

\* Nor by a free one, ...
LEMMA AwayFromFree ==
  ASSUME NEW t, Linked(t), NEW x \in Clusters, t[x] = Free, NEW v \in FatValues,
         NEW c \in Clusters, t[c] # Free, NEW n \in Nat
  PROVE  FollowOf(Changed(t, x, v), c, n) = FollowOf(t, c, n)
<1>1. \A k \in Nat : FollowOf(t, c, k) # x
  BY ChainInUse
<1> QED
  BY <1>1, FollowAway DEF Linked, Links

\* ... nor by one of another chain; ...
LEMMA AwayFromOther ==
  ASSUME NEW t, Linked(t), NEW d \in Clusters, IsFirst(t, d), NEW m \in Nat,
         NEW x \in Clusters, x = FollowOf(t, d, m), NEW v \in FatValues,
         NEW c \in Clusters, IsFirst(t, c), c # d, NEW n \in Nat
  PROVE  FollowOf(Changed(t, x, v), c, n) = FollowOf(t, c, n)
<1>1. \A k \in Nat : FollowOf(t, c, k) # x
  BY ChainsMeet
<1> QED
  BY <1>1, FollowAway DEF Linked, Links

\* ... by the last of its own it comes only at its end.
LEMMA AwayFromLast ==
  ASSUME NEW t \in Tables, NEW x \in Clusters, t[x] \notin Clusters, NEW v \in FatValues,
         NEW c \in Links, NEW n \in Nat, FollowOf(t, c, n) \in Clusters
  PROVE  FollowOf(Changed(t, x, v), c, n) = FollowOf(t, c, n)
<1>1. ASSUME NEW k \in Nat, k < n PROVE FollowOf(t, c, k) # x
  <2> SUFFICES ASSUME FollowOf(t, c, k) = x PROVE FALSE
    OBVIOUS
  <2>1. FollowOf(t, c, k + 1) = t[x]
    <3>1. FollowOf(t, c, k + 1) = EntryOf(t, FollowOf(t, c, k))
      BY FollowSteps
    <3>2. EntryOf(t, x) = t[x]
      BY EntryType, x \in Links DEF Links
    <3> QED
      BY <3>1, <3>2
  <2>2. FollowOf(t, c, n) \notin Clusters
    BY <2>1, <1>1, FollowEnds, k + 1 \in Nat, k + 1 <= n
  <2> QED
    BY <2>2
<1> QED
  BY <1>1, FollowAway

\* Chains do not begin behind their end.
LEMMA FollowNowhere ==
  ASSUME NEW t \in Tables, NEW c \in Links, c \notin Clusters, NEW n \in Nat
  PROVE  FollowOf(t, c, n) \notin Clusters
  BY FollowEnds, FollowSteps

\* Places of a file: the cluster it lies in, and where it lies there.
LEMMA Division ==
  ASSUME NEW n \in Nat, NEW k \in Nat, k > 0
  PROVE  \E a \in Nat, b \in 0..(k - 1) : n \div k = a /\ n % k = b /\ n = k * a + b
<1>1. n \div k \in Nat
  OBVIOUS
<1>2. n % k \in 0..(k - 1)
  OBVIOUS
<1>3. n % k = n - (n \div k) * k
  OBVIOUS
<1> DEFINE a == n \div k
           b == n % k
<1>4. a \in Nat /\ b \in 0..(k - 1) /\ b = n - a * k
  BY <1>1, <1>2, <1>3
<1> HIDE DEF a, b
<1>5. n = k * a + b
  BY <1>4
<1> QED
  BY <1>4, <1>5 DEF a, b

\* Products of positive numbers are positive.
LEMMA Product == \A a, b \in Nat : a * b \in Nat /\ (a # 0 /\ b # 0 => a * b # 0)
  OBVIOUS

\* A multiple of a larger number is larger by at least one factor.
LEMMA Times ==
  ASSUME NEW k \in Nat, NEW a \in Nat, NEW b \in Nat, a < b
  PROVE  k * a + k <= k * b
<1>1. b - a \in Nat /\ b - a # 0 /\ b = a + 1 + (b - a - 1) /\ b - a - 1 \in Nat
  OBVIOUS
<1>2. PICK d \in Nat : b = a + 1 + d
  BY <1>1
<1>3. k * b = k * a + k + k * d /\ k * d \in Nat
  BY <1>2, Product
<1> QED
  BY <1>3

\* A cluster holds at least one unit.
LEMMA ClusterLenType == ClusterLen \in Nat /\ ClusterLen > 0
  BY FatAssumption, Product DEF ClusterLen

\* A position splits into the index of its cluster and the place in the cluster.
LEMMA IndexType ==
  ASSUME NEW p \in Nat
  PROVE  /\ Index(p) \in Nat /\ p % ClusterLen \in 0..(ClusterLen - 1)
         /\ \E b \in 0..(ClusterLen - 1) : p % ClusterLen = b /\ p = ClusterLen * Index(p) + b
  BY ClusterLenType, Division DEF Index

\* A later position lies in the same cluster or in a later one.
LEMMA IndexMonotone == ASSUME NEW p \in Nat, NEW q \in Nat, p <= q PROVE Index(p) <= Index(q)
<1>1. SUFFICES ASSUME Index(q) < Index(p) PROVE FALSE
  BY IndexType
<1>2. ClusterLen * Index(q) + ClusterLen <= ClusterLen * Index(p)
  BY <1>1, IndexType, ClusterLenType, Times
<1> DEFINE a == ClusterLen * Index(p)
           b == ClusterLen * Index(q)
<1>3. a \in Nat /\ b \in Nat /\ b + ClusterLen <= a
  BY <1>2, IndexType, ClusterLenType, Product
<1>4. PICK d \in 0..(ClusterLen - 1), e \in 0..(ClusterLen - 1) : p = a + d /\ q = b + e
  BY IndexType
<1> HIDE DEF a, b
<1> QED
  BY <1>3, <1>4, ClusterLenType

\* The cluster and the place in it determine the position.
LEMMA PlaceUnique ==
  ASSUME NEW p \in Nat, NEW q \in Nat, Index(p) = Index(q), p % ClusterLen = q % ClusterLen
  PROVE  p = q
  BY IndexType

\* The first cluster holds the first ClusterLen positions.
LEMMA IndexFirst == ASSUME NEW p \in Nat PROVE Index(p) = 0 <=> p < ClusterLen
<1> DEFINE a == ClusterLen * Index(p)
<1>1. PICK d \in 0..(ClusterLen - 1) : p = a + d
  BY IndexType
<1>2. Index(p) = 0 => a = 0
  BY ClusterLenType
<1>3. Index(p) # 0 => ClusterLen <= a
  <2> SUFFICES ASSUME Index(p) # 0 PROVE ClusterLen <= a
    OBVIOUS
  <2>1. ClusterLen * 0 + ClusterLen <= ClusterLen * Index(p)
    <3>1. 0 \in Nat /\ Index(p) \in Nat /\ 0 < Index(p) /\ ClusterLen \in Nat
      BY IndexType, ClusterLenType
    <3> HIDE DEF a
    <3> QED
      BY <3>1, Times
  <2> QED
    BY <2>1, ClusterLenType
<1>4. a \in Nat
  BY IndexType, ClusterLenType, Product
<1> HIDE DEF a
<1> QED
  BY <1>1, <1>2, <1>3, <1>4, ClusterLenType

\* Only the empty file needs no cluster.
LEMMA BlocksType == ASSUME NEW n \in Nat PROVE Blocks(n) \in Nat /\ (n # 0 => Blocks(n) # 0)
<1> DEFINE m == n + BlockLen - 1
<1>1. m \in Nat /\ BlockLen \in Nat \ {0} /\ (n # 0 => m >= BlockLen)
  BY FatAssumption
<1> HIDE DEF m
<1>2. PICK a \in Nat, b \in 0..(BlockLen - 1) : m \div BlockLen = a /\ m = BlockLen * a + b
  BY <1>1, Division, BlockLen > 0
<1>3. n # 0 => a # 0
  BY <1>1, <1>2
<1>4. Blocks(n) = a
  BY <1>2 DEF Blocks, m
<1> QED
  BY <1>3, <1>4

\* The search of allocate_cluster ends at a cluster that it may take.
LEMMA FirstFreeType == ASSUME nextFree \in Clusters, Allocatable # {} PROVE FirstFree \in Allocatable
<1>1. \A c \in Allocatable : Distance(c) \in Nat
  BY FatAssumption, Division DEF Distance, Allocatable, Clusters
<1> DEFINE S == {Distance(c) : c \in Allocatable}
<1>2. PICK n \in S : \A m \in S : n <= m
  BY <1>1, Least
<1>3. \E c \in Allocatable : \A d \in Allocatable : Distance(c) <= Distance(d)
  BY <1>2
<1> QED
  BY <1>3 DEF FirstFree

\* What an open handle is.
Handled == [file : Files, start : Clusters \cup {0}, cur : Links, size : Nat, pos : Nat]
\* What a resize under way is.
Resizes == [pc : {"first", "walk", "link", "terminate", "free", "entry"},
            h : Handles, size : Nat, cluster : Links, left : Nat,
            fresh : BOOLEAN, next : Links]

\* An open handle is not a closed one.
LEMMA HandledOpen == \A r \in Handled : r # Closed
<1> TAKE r \in Handled
<1>1. "pos" \in DOMAIN r /\ "pos" \notin DOMAIN Closed
  BY DEF Handled, Closed
<1> QED
  BY <1>1

\* An open handle has the type of one.
LEMMA OpenType == ASSUME TypeOK, NEW h \in Handles, fh[h] # Closed PROVE fh[h] \in Handled
  BY DEF TypeOK, Handled

\* What the types say of a resize under way.
LEMMA ResizeType ==
  ASSUME TypeOK, op.pc # "idle"
  PROVE  /\ op # Idle /\ op \in Resizes /\ op.h \in Handles /\ fh[op.h] # Closed
         /\ fh[op.h] \in Handled
         /\ op.pc \in {"first", "walk", "link", "terminate"} => op.left > 0
         /\ op.pc # "first" /\ op.pc # "entry" => op.cluster \in Clusters
         /\ op.pc = "link" => ~LastCluster /\ op.next \in Clusters
<1>1. op # Idle
  BY DEF Idle
<1>2. op \in Resizes
  BY <1>1 DEF TypeOK, Resizes
<1>3. op.h \in Handles
  BY <1>2 DEF Resizes
<1> QED
  BY <1>1, <1>2, <1>3, OpenType DEF TypeOK

\* A resize under way is at a step of its own.
LEMMA ResizePc == ASSUME TypeOK, op # Idle PROVE op.pc # "idle"
  BY DEF TypeOK

\* What an operation leaves alone or changes, in the order of the variables.
LEMMA ValueTypes ==
  /\ Free \in FatValues /\ Eoc \in FatValues /\ Clusters \subseteq FatValues
  /\ Clusters \subseteq Links /\ Clusters \cup {0} \subseteq Links /\ FatValues \subseteq Links
  /\ 0 \in Links /\ Err \in Links /\ Eoc \in Links
  /\ Allocatable \subseteq Clusters /\ 2 \in Clusters
  /\ Free \notin Clusters /\ Eoc \notin Clusters /\ 0 \notin Clusters /\ Err \notin Clusters
  /\ Free = 0 /\ Eoc # Free
  BY FatAssumption DEF FatValues, Links, Clusters, Free, Eoc, Err, Allocatable

\* The links that are no clusters are the numbers below 2.
LEMMA LinkAbove ==
  \A c \in Links : (c >= 2 <=> c \in Clusters) /\ (c < 2 <=> c \notin Clusters)
  BY FatAssumption DEF Links, Clusters, Free, Eoc, Err

\* The entry of a link in the card's table is a link.
LEMMA EntryLink == ASSUME TypeOK, NEW c \in Links PROVE Entry(c) = EntryOf(fat, c) /\ Entry(c) \in Links
  BY EntryType DEF TypeOK, Entry, EntryOf, Tables

\* The link that a resize reads at its cluster is a link.
LEMMA NextLink == ASSUME TypeOK, op.pc # "idle" PROVE Next0 \in Links
  BY ResizeType, EntryLink, ValueTypes DEF Next0, Resizes

\* Following the links of the card gives a link.
LEMMA FollowLink ==
  ASSUME TypeOK, NEW c \in Links, NEW n \in Nat PROVE Follow(c, n) \in Links
  BY FollowType, FollowIsOf DEF TypeOK, Tables

\* A transfer moves at least one unit and stops at the end of the file.
LEMMA MoveType ==
  ASSUME TypeOK, NEW h \in Handles, fh[h] # Closed, fh[h].pos < fh[h].size, NEW n \in Lengths
  PROVE  /\ Moved(fh[h], n) \in Nat /\ Moved(fh[h], n) > 0
         /\ fh[h].pos + Moved(fh[h], n) \in Nat
         /\ fh[h].pos + Moved(fh[h], n) <= fh[h].size
         /\ \A q \in Nat : q >= fh[h].pos =>
              /\ Index(q) - Index(fh[h].pos) \in Nat
              /\ At(fh[h], q) \in Links
<1>0. fh[h] \in Handled /\ n \in Nat /\ n > 0
  BY OpenType, FatAssumption
<1>1. fh[h].pos \in Nat /\ fh[h].size \in Nat /\ fh[h].cur \in Links
  BY <1>0 DEF Handled
<1>2. /\ Moved(fh[h], n) \in Nat /\ Moved(fh[h], n) > 0
      /\ fh[h].pos + Moved(fh[h], n) \in Nat
      /\ fh[h].pos + Moved(fh[h], n) <= fh[h].size
  BY <1>0, <1>1 DEF Moved
<1>3. ASSUME NEW q \in Nat, q >= fh[h].pos
      PROVE  Index(q) - Index(fh[h].pos) \in Nat /\ At(fh[h], q) \in Links
  <2>1. Index(q) - Index(fh[h].pos) \in Nat
    <3> DEFINE p == fh[h].pos
    <3>1. p \in Nat /\ p <= q
      BY <1>1, <1>3
    <3> HIDE DEF p
    <3>2. Index(p) \in Nat /\ Index(q) \in Nat /\ Index(p) <= Index(q)
      BY <3>1, IndexType, IndexMonotone
    <3>3. Index(q) - Index(p) \in Nat
      BY <3>2
    <3> QED
      BY <3>3 DEF p
  <2> QED
    BY <1>1, <2>1, FollowLink DEF At
<1> QED
  BY <1>2, <1>3

\* A write leaves the units of the clusters well typed.
LEMMA StoreType ==
  ASSUME TypeOK, NEW h \in Handles, fh[h] # Closed, NEW p, Store(fh[h], p), NEW e \in Nat, p \in fh[h].pos..e
  PROVE  data' \in [Clusters -> [0..(ClusterLen - 1) -> Units]]
<1> DEFINE r == fh[h]
           Here(c, u) == {q \in r.pos..(p - 1) : At(r, q) = c /\ q % ClusterLen = u}
<1>1. r.file \in Files /\ r.pos \in Nat /\ p \in Nat
  BY OpenType DEF Handled
<1>2. ASSUME NEW c \in Clusters, NEW u \in 0..(ClusterLen - 1)
      PROVE  (IF Here(c, u) = {} THEN data[c][u] ELSE Unit(r.file, CHOOSE q \in Here(c, u) : TRUE))
             \in Units
  <2>0. data[c][u] \in Units
    <3>1. data[c] \in [0..(ClusterLen - 1) -> Units]
      BY DEF TypeOK
    <3> HIDE DEF r, Here
    <3> QED
      BY <3>1
  <2>1. CASE Here(c, u) = {}
    BY <2>0, <2>1
  <2>2. CASE Here(c, u) # {}
    <3>1. (CHOOSE q \in Here(c, u) : TRUE) \in Here(c, u)
      BY <2>2
    <3>2. (CHOOSE q \in Here(c, u) : TRUE) \in Nat
      BY <1>1, <3>1
    <3> HIDE DEF Here, r
    <3> QED
      BY <1>1, <2>2, <3>2 DEF Units, Unit
  <2> QED
    BY <2>1, <2>2
<1> QED
  BY <1>2, Zenon DEF Store

\* The types of what is on the card, and of the counters.
CardType ==
  /\ fat \in Tables
  /\ data \in [Clusters -> [0..(ClusterLen - 1) -> Units]]
  /\ dirent \in [Files -> [start : Clusters \cup {0}, size : Nat]]
  /\ nextFree \in Clusters
  /\ full \in BOOLEAN /\ faults \in 0..MaxFaults /\ ops \in 0..MaxOps

\* The types of the handles.
HandleTypes == fh \in [Handles -> Handled \cup {Closed}]

\* The types of the resize under way.
OpTypes ==
  op = Idle \/ /\ op \in Resizes
               /\ fh[op.h] # Closed
               /\ op.pc \in {"first", "walk", "link", "terminate"} => op.left > 0
               /\ op.pc # "first" /\ op.pc # "entry" => op.cluster \in Clusters
               /\ op.pc = "link" => ~LastCluster /\ op.next \in Clusters

\* The type invariant is the types of the card, of the handles and of the resize.
LEMMA TypeParts == TypeOK <=> CardType /\ HandleTypes /\ OpTypes
<1>1. TypeOK => CardType /\ HandleTypes /\ OpTypes
  BY Zenon DEF TypeOK, CardType, HandleTypes, OpTypes, Tables, Handled, Resizes
<1>2. CardType /\ HandleTypes /\ OpTypes => TypeOK
  BY Zenon DEF TypeOK, CardType, HandleTypes, OpTypes, Tables, Handled, Resizes
<1> QED
  BY <1>1, <1>2

\* The counter of calls stays below its bound.
LEMMA CountType == ASSUME TypeOK, Count PROVE ops' \in 0..MaxOps
  BY FatAssumption DEF TypeOK, Count

\* A fault of the card stays below the bound on faults.
LEMMA FaultType == ASSUME TypeOK, Fault PROVE faults' \in 0..MaxFaults
  BY FatAssumption DEF TypeOK, Fault

\* A failing access stays below the bound on faults.
LEMMA FailingType == ASSUME TypeOK, Failing PROVE faults' \in 0..MaxFaults
  BY FaultType DEF Failing

\* A resize that returns leaves none under way.
LEMMA ReturnType == ASSUME Return PROVE OpTypes'
  BY DEF Return, OpTypes

\* An entry of the table is set, or not, and what follows from it.
LEMMA SetEntryCases ==
  ASSUME NEW x, NEW v, NEW ACTION D, NEW ACTION F, SetEntry(x, v, D, F)
  PROVE  \/ fat' = Changed(fat, x, v) /\ faults' = faults /\ D
         \/ (fat' = Changed(fat, x, v) \/ fat' = fat) /\ Failing /\ F
  BY DEF SetEntry, Changed, NoFault

\* set_next_cluster leaves a well typed table, whichever way it ends.
LEMMA SetEntryType ==
  ASSUME TypeOK, NEW x \in Clusters, NEW v \in FatValues, NEW ACTION D, NEW ACTION F,
         SetEntry(x, v, D, F)
  PROVE  fat' \in Tables /\ faults' \in 0..MaxFaults
<1>1. fat \in Tables /\ faults \in 0..MaxFaults
  BY TypeParts DEF CardType
<1>2. Changed(fat, x, v) \in Tables
  BY <1>1, ChangedType
<1>3. Failing => faults' \in 0..MaxFaults
  BY FailingType
<1> QED
  BY <1>1, <1>2, <1>3, SetEntryCases

\* allocate_cluster leaves a well typed table, and takes a cluster that was free or fails.
LEMMA AllocateType ==
  ASSUME TypeOK, NEW ACTION D, NEW ACTION F, Allocate(D, F)
  PROVE  /\ fat' \in Tables /\ faults' \in 0..MaxFaults /\ nextFree' \in Clusters
         /\ full' \in BOOLEAN /\ (D \/ F) /\ (F \/ FirstFree \in Allocatable)
<1>1. fat \in Tables /\ faults \in 0..MaxFaults /\ nextFree \in Clusters /\ full \in BOOLEAN
  BY TypeParts DEF CardType
<1>2. CASE Allocatable = {} /\ full' = TRUE /\ F /\ UNCHANGED <<fat, nextFree, faults>>
  BY <1>1, <1>2
<1>3. CASE Failing /\ F /\ UNCHANGED <<fat, nextFree, full>>
  BY <1>1, <1>3, FailingType
<1>4. CASE /\ Allocatable # {} /\ nextFree' = FirstFree /\ UNCHANGED full
           /\ SetEntry(FirstFree, Eoc, D, F)
  <2>1. FirstFree \in Allocatable
    BY <1>1, <1>4, FirstFreeType
  <2>2. FirstFree \in Clusters /\ Eoc \in FatValues
    BY <2>1, ValueTypes
  <2>3. fat' \in Tables /\ faults' \in 0..MaxFaults
    BY <1>4, <2>2, SetEntryType
  <2>4. D \/ F
    BY <1>4, SetEntryCases
  <2> QED
    BY <1>1, <1>4, <2>1, <2>2, <2>3, <2>4
<1> QED
  BY <1>2, <1>3, <1>4 DEF Allocate

\* Chains as the volume has them at first.
LEMMA InitType == ASSUME Init PROVE TypeOK
<1>1. PICK l \in Layouts :
        /\ fat = [c \in Clusters |->
                    IF \E f \in Files : \E i \in DOMAIN l[f].chain : l[f].chain[i] = c
                    THEN LET f == CHOOSE f \in Files : \E i \in DOMAIN l[f].chain : l[f].chain[i] = c
                             i == CHOOSE i \in DOMAIN l[f].chain : l[f].chain[i] = c
                         IN  IF i = Len(l[f].chain) THEN Eoc ELSE l[f].chain[i + 1]
                    ELSE Free]
        /\ dirent = [f \in Files |->
                       [start |-> IF l[f].chain = <<>> THEN 0 ELSE l[f].chain[1], size |-> l[f].size]]
        /\ data = [c \in Clusters |-> [u \in 0..(ClusterLen - 1) |-> Blank]]
        /\ nextFree = 2
        /\ fh = [h \in Handles |-> Closed] /\ op = Idle
        /\ before = {} /\ full = FALSE /\ faults = 0 /\ ops = 0
  BY DEF Init
<1>2. ASSUME NEW f \in Files PROVE l[f].chain \in Seq(Clusters) /\ l[f].size \in Nat
  BY LayoutAssumption
<1>3. fat \in Tables
  <2>1. ASSUME NEW c \in Clusters PROVE fat[c] \in FatValues
    <3>1. CASE \E f \in Files : \E i \in DOMAIN l[f].chain : l[f].chain[i] = c
      <4> DEFINE f == CHOOSE f \in Files : \E i \in DOMAIN l[f].chain : l[f].chain[i] = c
                 i == CHOOSE i \in DOMAIN l[f].chain : l[f].chain[i] = c
      <4>1. f \in Files /\ i \in DOMAIN l[f].chain
        BY <3>1, Zenon
      <4>2. fat[c] = IF i = Len(l[f].chain) THEN Eoc ELSE l[f].chain[i + 1]
        BY <1>1, <3>1, Zenon
      <4> HIDE DEF f, i
      <4>3. l[f].chain \in Seq(Clusters)
        BY <1>2, <4>1
      <4>4. i # Len(l[f].chain) => l[f].chain[i + 1] \in Clusters
        BY <4>1, <4>3
      <4> QED
        BY <4>2, <4>4, ValueTypes
    <3>2. CASE ~(\E f \in Files : \E i \in DOMAIN l[f].chain : l[f].chain[i] = c)
      <4>1. fat[c] = Free
        BY <1>1, <3>2, Zenon
      <4> QED
        BY <4>1, ValueTypes
    <3> QED
      BY <3>1, <3>2
  <2> DEFINE E(c) == IF \E f \in Files : \E i \in DOMAIN l[f].chain : l[f].chain[i] = c
                     THEN LET f == CHOOSE f \in Files : \E i \in DOMAIN l[f].chain : l[f].chain[i] = c
                              i == CHOOSE i \in DOMAIN l[f].chain : l[f].chain[i] = c
                          IN  IF i = Len(l[f].chain) THEN Eoc ELSE l[f].chain[i + 1]
                     ELSE Free
  <2>2. fat = [c \in Clusters |-> E(c)]
    BY <1>1, Zenon
  <2> HIDE DEF E
  <2> QED
    BY <2>1, <2>2 DEF Tables
<1>4. data \in [Clusters -> [0..(ClusterLen - 1) -> Units]]
  BY <1>1 DEF Units
<1>5. dirent \in [Files -> [start : Clusters \cup {0}, size : Nat]]
  <2>1. ASSUME NEW f \in Files
        PROVE  (IF l[f].chain = <<>> THEN 0 ELSE l[f].chain[1]) \in Clusters \cup {0}
    BY <1>2
  <2> QED
    BY <1>1, <1>2, <2>1
<1>6. CardType
  <2>1. nextFree \in Clusters
    BY <1>1, ValueTypes
  <2>2. full \in BOOLEAN /\ faults \in 0..MaxFaults /\ ops \in 0..MaxOps
    <3>1. full = FALSE /\ faults = 0 /\ ops = 0
      BY <1>1, Zenon
    <3>2. 0 \in 0..MaxFaults /\ 0 \in 0..MaxOps
      BY FatAssumption
    <3> QED
      BY <3>1, <3>2
  <2> QED
    BY <1>3, <1>4, <1>5, <2>1, <2>2, Zenon DEF CardType
<1>7. HandleTypes /\ OpTypes
  BY <1>1 DEF HandleTypes, OpTypes
<1> QED
  BY <1>6, <1>7, TypeParts

\* Each step leaves every variable in its type.
LEMMA TypeStep == ASSUME TypeOK, [Next]_vars PROVE TypeOK'
<1>0. CardType /\ HandleTypes /\ OpTypes
  BY TypeParts
<1> SUFFICES CardType' /\ HandleTypes' /\ OpTypes'
  <2>1. TypeOK' <=> CardType' /\ HandleTypes' /\ OpTypes'
    <3>1. TypeOK' => CardType' /\ HandleTypes' /\ OpTypes'
      BY Zenon DEF TypeOK, CardType, HandleTypes, OpTypes, Tables, Handled, Resizes
    <3>2. CardType' /\ HandleTypes' /\ OpTypes' => TypeOK'
      BY Zenon DEF TypeOK, CardType, HandleTypes, OpTypes, Tables, Handled, Resizes
    <3> QED
      BY <3>1, <3>2
  <2> QED
    BY <2>1
<1>1. ASSUME NEW h \in Handles, NEW f \in Files, Open(h, f)
      PROVE  CardType' /\ HandleTypes' /\ OpTypes'
  <2>1. CardType'
    BY <1>0, <1>1 DEF CardType, Open, card
  <2>2. HandleTypes'
    <3>1. dirent[f].start \in Clusters \cup {0} /\ dirent[f].size \in Nat
      BY <1>0 DEF CardType
    <3>2. [file |-> f, start |-> dirent[f].start, cur |-> dirent[f].start,
           size |-> dirent[f].size, pos |-> 0] \in Handled
      BY <3>1, ValueTypes DEF Handled
    <3> QED
      BY <1>0, <1>1, <3>2 DEF HandleTypes, Open
  <2>3. OpTypes'
    BY <1>1 DEF OpTypes, Open
  <2> QED
    BY <2>1, <2>2, <2>3
<1>2. ASSUME NEW h \in Handles, Close(h) PROVE CardType' /\ HandleTypes' /\ OpTypes'
  BY <1>0, <1>2 DEF CardType, HandleTypes, OpTypes, Close, card
<1>3. ASSUME NEW h \in Handles, NEW p \in Positions, SetPos(h, p)
      PROVE  CardType' /\ HandleTypes' /\ OpTypes'
  <2>1. CardType'
    BY <1>0, <1>3, CountType DEF CardType, SetPos, card
  <2>2. HandleTypes'
    <3> DEFINE r == fh[h]
               stay == p >= r.size \/ SameCluster(r, p) \/ r.cur = 0
               c == IF stay THEN r.cur ELSE Follow(r.start, Index(p))
    <3>1. r \in Handled /\ p \in Nat
      BY <1>3, OpenType, FatAssumption DEF SetPos
    <3>2. r.cur \in Links /\ r.start \in Links
      BY <3>1, ValueTypes DEF Handled
    <3>3. Follow(r.start, Index(p)) \in Links
      BY <3>1, <3>2, FollowLink, IndexType
    <3>4. c \in Links
      BY <3>2, <3>3
    <3>5. fh' = [fh EXCEPT ![h] = [r EXCEPT !.pos = p, !.cur = c]]
      BY <1>3, Zenon DEF SetPos
    <3> HIDE DEF c
    <3>6. [r EXCEPT !.pos = p, !.cur = c] \in Handled
      BY <3>1, <3>4 DEF Handled
    <3> HIDE DEF r
    <3> QED
      BY <1>0, <3>5, <3>6 DEF HandleTypes
  <2>3. OpTypes'
    BY <1>3 DEF OpTypes, SetPos
  <2> QED
    BY <2>1, <2>2, <2>3
<1>4. ASSUME NEW h \in Handles, NEW n \in Lengths, fh[h] # Closed, fh[h].pos < fh[h].size,
             Advance(h, n)
      PROVE  HandleTypes' /\ faults' \in 0..MaxFaults
  <2> DEFINE r == fh[h]
             p == r.pos + Moved(r, n)
  <2>1. r \in Handled /\ p \in Nat /\ p >= r.pos
    BY <1>4, OpenType, MoveType DEF Handled
  <2>2. At(r, p) \in Links
    BY <1>4, <2>1, MoveType
  <2>3. \E c \in Links : fh' = [fh EXCEPT ![h] = [r EXCEPT !.pos = p, !.cur = c]]
    BY <1>4, <2>2, ValueTypes, Zenon DEF Advance
  <2>4. PICK c \in Links : fh' = [fh EXCEPT ![h] = [r EXCEPT !.pos = p, !.cur = c]]
    BY <2>3
  <2>5. faults' \in 0..MaxFaults
    BY <1>0, <1>4, FaultType, Zenon DEF Advance, NoFault, CardType
  <2> HIDE DEF p
  <2>6. [r EXCEPT !.pos = p, !.cur = c] \in Handled
    BY <2>1, <2>4 DEF Handled
  <2> HIDE DEF r
  <2> QED
    BY <1>0, <2>4, <2>5, <2>6 DEF HandleTypes
<1>5. ASSUME NEW h \in Handles, NEW n \in Lengths, Read(h, n)
      PROVE  CardType' /\ HandleTypes' /\ OpTypes'
  <2>1. HandleTypes' /\ faults' \in 0..MaxFaults
    BY <1>4, <1>5, Zenon DEF Read
  <2>2. CardType'
    BY <1>0, <1>5, <2>1, CountType DEF CardType, Read, card
  <2>3. OpTypes'
    BY <1>5 DEF OpTypes, Read
  <2> QED
    BY <2>1, <2>2, <2>3
<1>6. ASSUME NEW h \in Handles, NEW n \in Lengths, Write(h, n)
      PROVE  CardType' /\ HandleTypes' /\ OpTypes'
  <2>1. HandleTypes' /\ faults' \in 0..MaxFaults
    BY <1>4, <1>6, Zenon DEF Write
  <2>2. data' \in [Clusters -> [0..(ClusterLen - 1) -> Units]]
    <3> DEFINE e == fh[h].pos + Moved(fh[h], n)
    <3>1. fh[h] # Closed /\ fh[h].pos < fh[h].size /\ Store(fh[h], e)
      BY <1>6 DEF Write
    <3>2. e \in Nat /\ fh[h].pos \in Nat /\ fh[h].pos <= e
      BY <3>1, MoveType, OpenType DEF Handled
    <3>3. e \in fh[h].pos..e
      BY <3>2
    <3> HIDE DEF e
    <3> QED
      BY <3>1, <3>2, <3>3, StoreType
  <2>3. CardType'
    BY <1>0, <1>6, <2>1, <2>2, CountType DEF CardType, Write, card
  <2>4. OpTypes'
    BY <1>6 DEF OpTypes, Write
  <2> QED
    BY <2>1, <2>3, <2>4
<1>7. ASSUME NEW h \in Handles, NEW n \in Lengths, WriteFails(h, n)
      PROVE  CardType' /\ HandleTypes' /\ OpTypes'
  <2>1. faults' \in 0..MaxFaults
    BY <1>0, <1>7, FaultType, Zenon DEF WriteFails, NoFault, CardType
  <2>2. data' \in [Clusters -> [0..(ClusterLen - 1) -> Units]]
    <3> DEFINE e == fh[h].pos + Moved(fh[h], n)
    <3>1. fh[h] # Closed /\ fh[h].pos < fh[h].size /\ \E p \in fh[h].pos..e : Store(fh[h], p)
      BY <1>7, Zenon DEF WriteFails
    <3>2. e \in Nat
      BY <3>1, MoveType
    <3> HIDE DEF e
    <3> QED
      BY <3>1, <3>2, StoreType
  <2>3. CardType'
    BY <1>0, <1>7, <2>1, <2>2, CountType DEF CardType, WriteFails
  <2>4. HandleTypes' /\ OpTypes'
    BY <1>0, <1>7 DEF OpTypes, HandleTypes, WriteFails
  <2> QED
    BY <2>3, <2>4
<1>8. ASSUME NEW h \in Handles, NEW n \in Sizes, SetSize(h, n)
      PROVE  CardType' /\ HandleTypes' /\ OpTypes'
  <2>0. n \in Nat /\ fh[h] \in Handled /\ Blocks(n) \in Nat /\ (n # 0 => Blocks(n) # 0)
    BY <1>8, OpenType, BlocksType, FatAssumption DEF SetSize
  <2>1. CardType'
    BY <1>0, <1>8, CountType DEF CardType, SetSize, card
  <2>2. HandleTypes'
    <3>1. CASE n = 0
      <4>1. fh' = [fh EXCEPT ![h] = [[[fh[h] EXCEPT !.start = 0] EXCEPT !.cur = 0] EXCEPT !.pos = 0]]
        BY <1>0, <1>8, <3>1 DEF SetSize, HandleTypes
      <4>2. [[[fh[h] EXCEPT !.start = 0] EXCEPT !.cur = 0] EXCEPT !.pos = 0] \in Handled
        BY <2>0, ValueTypes DEF Handled
      <4> QED
        BY <1>0, <4>1, <4>2 DEF HandleTypes
    <3>2. CASE n # 0
      BY <1>0, <1>8, <3>2 DEF HandleTypes, SetSize
    <3> QED
      BY <3>1, <3>2
  <2>3. OpTypes'
    <3>1. fh[h].start \in Clusters \cup {0} /\ fh[h].start \in Links
      BY <2>0, ValueTypes DEF Handled
    <3>2. op' \in Resizes
      BY <1>8, <2>0, <3>1, ValueTypes DEF SetSize, Resizes
    <3>3. op'.pc \in {"first", "walk", "link", "terminate"} => op'.left > 0
      BY <1>8, <2>0, <3>1 DEF SetSize
    <3>4. op'.pc # "first" /\ op'.pc # "entry" => op'.cluster \in Clusters
      BY <1>8, <2>0, <3>1 DEF SetSize
    <3>5. op'.h = h /\ fh'[h] # Closed
      <4>1. op'.h = h
        BY <1>8 DEF SetSize
      <4>2. fh'[h] \in Handled
        <5>1. fh'[h] = IF n = 0 THEN [[[fh[h] EXCEPT !.start = 0] EXCEPT !.cur = 0] EXCEPT !.pos = 0]
                                ELSE fh[h]
          BY <1>0, <1>8 DEF SetSize, HandleTypes
        <5> QED
          BY <2>0, <5>1, ValueTypes DEF Handled
      <4> QED
        BY <4>1, <4>2, HandledOpen
    <3>6. op'.pc # "link"
      BY <1>8 DEF SetSize
    <3> QED
      BY <3>2, <3>3, <3>4, <3>5, <3>6 DEF OpTypes
  <2> QED
    BY <2>1, <2>2, <2>3
<1>9. CASE First
  <2>1. op # Idle /\ op \in Resizes /\ op.h \in Handles /\ fh[op.h] \in Handled
    BY <1>9, ResizeType DEF First
  <2>2. /\ fat' \in Tables /\ faults' \in 0..MaxFaults /\ nextFree' \in Clusters
        /\ full' \in BOOLEAN
    BY <1>9, AllocateType, Zenon DEF First
  <2>3. CardType'
    BY <1>0, <1>9, <2>2 DEF CardType, First
  <2>4. CASE Return /\ UNCHANGED fh
    BY <1>0, <2>4, <2>3, ReturnType DEF HandleTypes
  <2>5. CASE /\ FirstFree \in Allocatable
             /\ op' = [op EXCEPT !.pc = "walk", !.cluster = FirstFree, !.fresh = TRUE]
             /\ fh' = [fh EXCEPT ![op.h].start = FirstFree, ![op.h].cur = FirstFree,
                                 ![op.h].pos = 0]
    <3> DEFINE r == [[[fh[op.h] EXCEPT !.start = FirstFree] EXCEPT !.cur = FirstFree] EXCEPT !.pos = 0]
    <3>1. FirstFree \in Clusters /\ FirstFree \in Links
      BY <2>5, ValueTypes
    <3>2. r \in Handled
      BY <2>1, <3>1 DEF Handled
    <3>3. fh' = [fh EXCEPT ![op.h] = r]
      BY <1>0, <2>1, <2>5 DEF HandleTypes
    <3> HIDE DEF r
    <3>4. HandleTypes' /\ fh'[op.h] # Closed
      BY <1>0, <2>1, <3>2, <3>3, HandledOpen DEF HandleTypes
    <3>5. op' \in Resizes /\ op'.h = op.h /\ op'.cluster = FirstFree /\ op'.left = op.left
          /\ op'.pc = "walk"
      BY <2>1, <2>5, <3>1 DEF Resizes
    <3>6. op.left > 0
      BY <1>0, <1>9, <2>1 DEF OpTypes, First
    <3> QED
      BY <2>3, <3>1, <3>4, <3>5, <3>6 DEF OpTypes
  <2> QED
    BY <1>9, <2>4, <2>5, AllocateType, Zenon DEF First
<1>10. ASSUME op.pc \in {"walk", "link", "terminate", "free", "entry"}
       PROVE  /\ op # Idle /\ op \in Resizes /\ op.h \in Handles /\ fh[op.h] \in Handled
              /\ fh[op.h] # Closed /\ Next0 \in Links /\ op.left \in Nat /\ op.next \in Links
              /\ op.pc # "entry" => op.cluster \in Clusters
              /\ op.pc \in {"walk", "link", "terminate"} => op.left > 0
              /\ op.pc = "link" => ~LastCluster /\ op.next \in Clusters
  <2>1. /\ op # Idle /\ op \in Resizes /\ op.h \in Handles /\ fh[op.h] \in Handled
        /\ fh[op.h] # Closed /\ Next0 \in Links
        /\ op.pc # "entry" => op.cluster \in Clusters
        /\ op.pc \in {"walk", "link", "terminate"} => op.left > 0
        /\ op.pc = "link" => ~LastCluster /\ op.next \in Clusters
    BY <1>10, ResizeType, NextLink
  <2>2. op.left \in Nat /\ op.next \in Links
    BY <2>1 DEF Resizes
  <2> QED
    BY <2>1, <2>2
<1>11. CASE WalkOn
  <2>0. op.pc = "walk" /\ ~LastCluster /\ Next0 \in Clusters
    BY <1>10, <1>11, LinkAbove DEF WalkOn
  <2>1. op' = [op EXCEPT !.cluster = Next0, !.left = op.left - BlocksPerCluster]
    BY <1>11 DEF WalkOn
  <2>2. op.left - BlocksPerCluster \in Nat /\ op.left - BlocksPerCluster > 0
    BY <1>10, <2>0, FatAssumption DEF LastCluster
  <2>3. op' \in Resizes /\ op'.h = op.h /\ op'.cluster = Next0 /\ op'.left > 0
        /\ op'.pc = "walk"
    BY <1>10, <2>0, <2>1, <2>2 DEF Resizes
  <2>4. CardType' /\ HandleTypes' /\ fh' = fh
    BY <1>0, <1>11 DEF CardType, HandleTypes, WalkOn, card
  <2> QED
    BY <1>10, <2>0, <2>3, <2>4 DEF OpTypes
<1>12. CASE CutChain
  <2>0. op.pc = "walk"
    BY <1>12 DEF CutChain
  <2>1. ASSUME op' = AfterCut PROVE op' \in Resizes /\ op'.h = op.h /\ op'.pc \in {"free", "entry"}
                                   /\ (op'.pc = "free" => op'.cluster \in Clusters)
    BY <1>10, <2>0, <2>1, LinkAbove DEF AfterCut, Resizes
  <2>2. fat' \in Tables /\ faults' \in 0..MaxFaults /\ (op' = AfterCut \/ Return)
    <3>1. CASE op.fresh \/ Next0 >= 2
      <4>1. SetEntry(op.cluster, Eoc, op' = AfterCut /\ UNCHANGED before, Return)
        BY <1>12, <3>1 DEF CutChain, Cut
      <4>2. fat' \in Tables /\ faults' \in 0..MaxFaults
        BY <1>10, <2>0, <4>1, SetEntryType, ValueTypes
      <4>3. op' = AfterCut \/ Return
        BY <4>1 DEF SetEntry
      <4> QED
        BY <4>2, <4>3
    <3>2. CASE ~(op.fresh \/ Next0 >= 2)
      BY <1>0, <1>12, <3>2 DEF CutChain, Cut, CardType
    <3> QED
      BY <3>1, <3>2
  <2>3. CardType' /\ HandleTypes' /\ fh' = fh
    BY <1>0, <1>12, <2>2 DEF CardType, HandleTypes, CutChain
  <2>4. CASE op' = AfterCut
    BY <1>10, <2>0, <2>1, <2>3, <2>4, Zenon DEF OpTypes
  <2> QED
    BY <2>2, <2>3, <2>4, ReturnType
<1>13. CASE Grow
  <2>0. op.pc = "walk"
    BY <1>13 DEF Grow
  <2>1. /\ fat' \in Tables /\ faults' \in 0..MaxFaults /\ nextFree' \in Clusters
        /\ full' \in BOOLEAN
        /\ \/ op' = [op EXCEPT !.pc = "terminate"]
           \/ /\ FirstFree \in Allocatable
              /\ op' = [op EXCEPT !.pc = "link", !.next = FirstFree, !.fresh = TRUE]
    BY <1>13, AllocateType, Zenon DEF Grow
  <2>2. CardType' /\ HandleTypes' /\ fh' = fh
    BY <1>0, <1>13, <2>1 DEF CardType, HandleTypes, Grow
  <2>3. op' \in Resizes /\ op'.h = op.h /\ op'.pc \in {"link", "terminate"}
        /\ op'.left = op.left /\ op'.cluster = op.cluster
        /\ (op'.pc = "link" => op'.next \in Clusters)
    BY <1>10, <2>0, <2>1, ValueTypes DEF Resizes
  <2>4. ~LastCluster
    BY <1>13 DEF Grow
  <2> QED
    BY <1>10, <2>0, <2>2, <2>3, <2>4 DEF OpTypes, LastCluster
<1>14. CASE Link
  <2>0. op.pc = "link"
    BY <1>14 DEF Link
  <2> DEFINE D == /\ op' = [op EXCEPT !.pc = "walk", !.cluster = op.next,
                                      !.left = @ - BlocksPerCluster]
                  /\ UNCHANGED before
  <2>1. SetEntry(op.cluster, op.next, D, Return)
    BY <1>14 DEF Link
  <2>2. fat' \in Tables /\ faults' \in 0..MaxFaults
    BY <1>10, <2>0, <2>1, SetEntryType, ValueTypes
  <2>3. D \/ Return
    BY <2>1 DEF SetEntry
  <2>4. CardType' /\ HandleTypes' /\ fh' = fh
    BY <1>0, <1>14, <2>2 DEF CardType, HandleTypes, Link
  <2>5. CASE D
    <3>1. op.left - BlocksPerCluster \in Nat /\ op.left - BlocksPerCluster > 0
      BY <1>10, <2>0, FatAssumption DEF LastCluster
    <3>2. op' \in Resizes /\ op'.h = op.h /\ op'.cluster \in Clusters /\ op'.left > 0
          /\ op'.pc = "walk"
      BY <1>10, <2>0, <2>5, <3>1 DEF Resizes
    <3> QED
      BY <1>10, <2>0, <2>4, <3>2 DEF OpTypes
  <2> QED
    BY <2>3, <2>4, <2>5, ReturnType
<1>15. CASE Terminate
  <2>0. op.pc = "terminate"
    BY <1>15 DEF Terminate
  <2>1. SetEntry(op.cluster, Eoc, Return, Return)
    BY <1>15 DEF Terminate
  <2>2. fat' \in Tables /\ faults' \in 0..MaxFaults
    BY <1>10, <2>0, <2>1, SetEntryType, ValueTypes
  <2>3. Return
    BY <2>1 DEF SetEntry
  <2>4. CardType' /\ HandleTypes'
    BY <1>0, <1>15, <2>2 DEF CardType, HandleTypes, Terminate
  <2> QED
    BY <2>3, <2>4, ReturnType
<1>16. CASE FreeOne
  <2>0. op.pc = "free"
    BY <1>16 DEF FreeOne
  <2> DEFINE D == /\ op' = IF FreeDone(Next0) THEN [op EXCEPT !.pc = "entry"]
                                              ELSE [op EXCEPT !.cluster = Next0]
                  /\ UNCHANGED before
  <2>1. \/ SetEntry(op.cluster, Free, D, Return)
        \/ fat' = Changed(fat, op.cluster, Free) /\ Failing /\ Return
    BY <1>16 DEF FreeOne, Changed
  <2>2. fat' \in Tables /\ faults' \in 0..MaxFaults
    <3>1. CASE SetEntry(op.cluster, Free, D, Return)
      BY <1>10, <2>0, <3>1, SetEntryType, ValueTypes
    <3>2. CASE fat' = Changed(fat, op.cluster, Free) /\ Failing
      BY <1>0, <1>10, <2>0, <3>2, ChangedType, ValueTypes, FailingType DEF CardType
    <3> QED
      BY <2>1, <3>1, <3>2
  <2>3. D \/ Return
    BY <2>1 DEF SetEntry
  <2>4. CardType' /\ HandleTypes' /\ fh' = fh
    BY <1>0, <1>16, <2>2 DEF CardType, HandleTypes, FreeOne
  <2>5. CASE D
    <3>1. op' \in Resizes /\ op'.h = op.h /\ op'.pc \in {"free", "entry"}
          /\ (op'.pc = "free" => op'.cluster \in Clusters)
      <4>1. CASE FreeDone(Next0)
        BY <1>10, <2>0, <2>5, <4>1 DEF Resizes
      <4>2. CASE ~FreeDone(Next0)
        <5>1. Next0 \in Clusters
          BY <1>10, <2>0, <4>2, LinkAbove DEF FreeDone
        <5>2. op' = [op EXCEPT !.cluster = Next0]
          BY <2>5, <4>2
        <5> QED
          BY <1>10, <2>0, <5>1, <5>2, ValueTypes DEF Resizes
      <4> QED
        BY <4>1, <4>2
    <3> QED
      BY <1>10, <2>0, <2>4, <3>1 DEF OpTypes
  <2> QED
    BY <2>3, <2>4, <2>5, ReturnType
<1>17. CASE PutEntry
  <2>0. op.pc = "entry"
    BY <1>17 DEF PutEntry
  <2> DEFINE f == fh[op.h].file
             e == [start |-> fh[op.h].start, size |-> op.size]
  <2>1. f \in Files /\ e \in [start : Clusters \cup {0}, size : Nat] /\ op.size \in Nat
    BY <1>10, <2>0 DEF Handled, Resizes
  <2>2. \/ dirent' = [dirent EXCEPT ![f] = e] /\ NoFault
           /\ fh' = [fh EXCEPT ![op.h].size = op.size]
        \/ (dirent' = [dirent EXCEPT ![f] = e] \/ UNCHANGED dirent) /\ Failing /\ UNCHANGED fh
    BY <1>17, Zenon DEF PutEntry
  <2>3. UNCHANGED <<fat, data, nextFree, full, ops>> /\ Return
    BY <1>17, Zenon DEF PutEntry
  <2> HIDE DEF f, e
  <2>4. faults' \in 0..MaxFaults
    BY <1>0, <2>2, FailingType DEF NoFault, CardType
  <2>5. dirent' \in [Files -> [start : Clusters \cup {0}, size : Nat]]
    BY <1>0, <2>1, <2>2 DEF CardType
  <2>6. CardType'
    BY <1>0, <2>3, <2>4, <2>5 DEF CardType
  <2>7. HandleTypes'
    <3>1. [fh[op.h] EXCEPT !.size = op.size] \in Handled
      BY <1>10, <2>0, <2>1 DEF Handled
    <3>2. fh' = fh \/ fh' = [fh EXCEPT ![op.h] = [fh[op.h] EXCEPT !.size = op.size]]
      BY <2>2
    <3> QED
      BY <1>0, <1>10, <2>0, <3>1, <3>2 DEF HandleTypes
  <2> QED
    BY <2>3, <2>6, <2>7, ReturnType
<1>18. CASE SetSizeFails
  <2>1. faults' \in 0..MaxFaults /\ Return
    BY <1>18, FailingType DEF SetSizeFails
  <2>2. CardType' /\ HandleTypes'
    BY <1>0, <1>18, <2>1 DEF CardType, HandleTypes, SetSizeFails, card
  <2> QED
    BY <2>1, <2>2, ReturnType
<1>19. CASE PowerOff
  <2>1. faults' \in 0..MaxFaults /\ Return
    BY <1>19, FailingType, FaultType DEF PowerOff
  <2>2. CardType' /\ HandleTypes'
    BY <1>0, <1>19, <2>1, ValueTypes DEF CardType, HandleTypes, PowerOff, card
  <2> QED
    BY <2>1, <2>2, ReturnType
<1>20. CASE UNCHANGED vars
  BY <1>0, <1>20 DEF CardType, HandleTypes, OpTypes, vars, card, LastCluster
<1> QED
  BY <1>1, <1>2, <1>3, <1>5, <1>6, <1>7, <1>8, <1>9, <1>11, <1>12, <1>13, <1>14, <1>15, <1>16,
     <1>17, <1>18, <1>19, <1>20, Zenon DEF Next

\* Every variable has its type in every state of every volume.
THEOREM FilesTypeCorrect == Spec => []TypeOK
<1>1. Init => TypeOK
  BY InitType
<1>2. TypeOK /\ [Next]_vars => TypeOK'
  BY TypeStep
<1> QED
  BY <1>1, <1>2, PTL DEF Spec

\* A chain is cut behind x, ...
LEMMA CutLinks ==
  ASSUME NEW t, Linked(t), NEW x \in Clusters
  PROVE  /\ Linked(Changed(t, x, Eoc))
         /\ \A s \in Clusters : IsFirst(t, s) => IsFirst(Changed(t, x, Eoc), s)
         /\ \A s \in Clusters : t[s] # Free => Changed(t, x, Eoc)[s] # Free
         /\ t[x] \in Clusters => IsFirst(Changed(t, x, Eoc), t[x])
<1> DEFINE u == Changed(t, x, Eoc)
<1>1. u \in Tables /\ u[x] = Eoc /\ \A c \in Clusters : c # x => u[c] = t[c]
  BY ChangedType, ValueTypes DEF Linked
<1>2. Eoc \notin Clusters /\ Eoc # Free
  BY ValueTypes
<1> HIDE DEF u
<1>3. \A s \in Clusters : t[s] # Free => u[s] # Free
  BY <1>1, <1>2
<1>4. \A s \in Clusters : IsFirst(t, s) => IsFirst(u, s)
  BY <1>1, <1>2 DEF IsFirst
<1>5. Linked(u)
  BY <1>1, <1>2, <1>3 DEF Linked
<1>6. t[x] \in Clusters => IsFirst(u, t[x])
  BY <1>1, <1>2 DEF IsFirst, Linked
<1> QED
  BY <1>3, <1>4, <1>5, <1>6 DEF u

\* ... or x, which no cluster leads to, let go, ...
LEMMA FreeLinks ==
  ASSUME NEW t, Linked(t), NEW x \in Clusters, IsFirst(t, x)
  PROVE  /\ Linked(Changed(t, x, Free))
         /\ \A s \in Clusters : IsFirst(t, s) => IsFirst(Changed(t, x, Free), s)
         /\ \A s \in Clusters : s # x /\ t[s] # Free => Changed(t, x, Free)[s] # Free
         /\ t[x] \in Clusters => /\ IsFirst(Changed(t, x, Free), t[x])
                                 /\ Changed(t, x, Free)[t[x]] # Free
<1> DEFINE u == Changed(t, x, Free)
<1>1. u \in Tables /\ u[x] = Free /\ \A c \in Clusters : c # x => u[c] = t[c]
  BY ChangedType, ValueTypes DEF Linked
<1>2. Free \notin Clusters
  BY ValueTypes
<1> HIDE DEF u
<1>3. \A s \in Clusters : s # x /\ t[s] # Free => u[s] # Free
  BY <1>1, <1>2
<1>4. \A s \in Clusters : IsFirst(t, s) => IsFirst(u, s)
  BY <1>1, <1>2 DEF IsFirst
<1>5. Linked(u)
  <2>1. ASSUME NEW c \in Clusters, u[c] \in Clusters
        PROVE  u[u[c]] # Free /\ \A d \in Clusters : u[c] = u[d] => c = d
    <3>1. c # x /\ u[c] = t[c] /\ t[c] # x
      BY <1>1, <1>2, <2>1 DEF IsFirst
    <3> QED
      BY <1>1, <1>2, <2>1, <3>1 DEF Linked
  <2> QED
    BY <1>1, <2>1 DEF Linked
<1>6. t[x] \in Clusters => IsFirst(u, t[x]) /\ u[t[x]] # Free
  BY <1>1, <1>2 DEF IsFirst, Linked
<1> QED
  BY <1>3, <1>4, <1>5, <1>6 DEF u

\* ... or x led to another first cluster.
LEMMA JoinLinks ==
  ASSUME NEW t, Linked(t), NEW x \in Clusters, NEW y \in Clusters, x # y, IsFirst(t, y),
         t[y] # Free
  PROVE  /\ Linked(Changed(t, x, y))
         /\ \A s \in Clusters : s # y /\ IsFirst(t, s) => IsFirst(Changed(t, x, y), s)
         /\ \A s \in Clusters : t[s] # Free => Changed(t, x, y)[s] # Free
<1> DEFINE u == Changed(t, x, y)
<1>1. u \in Tables /\ u[x] = y /\ \A c \in Clusters : c # x => u[c] = t[c]
  BY ChangedType, ValueTypes DEF Linked
<1>2. Free \notin Clusters
  BY ValueTypes
<1> HIDE DEF u
<1>3. \A s \in Clusters : t[s] # Free => u[s] # Free
  BY <1>1, <1>2
<1>4. \A s \in Clusters : s # y /\ IsFirst(t, s) => IsFirst(u, s)
  BY <1>1, <1>2 DEF IsFirst
<1>5. Linked(u)
  <2>1. ASSUME NEW c \in Clusters, u[c] \in Clusters PROVE u[u[c]] # Free
    BY <1>1, <1>2, <1>3, <2>1 DEF Linked
  <2>2. ASSUME NEW c \in Clusters, NEW d \in Clusters, u[c] \in Clusters, u[c] = u[d] PROVE c = d
    BY <1>1, <1>2, <2>2 DEF Linked, IsFirst
  <2> QED
    BY <1>1, <2>1, <2>2 DEF Linked
<1> QED
  BY <1>3, <1>4, <1>5 DEF u

\* A free cluster is nobody's next.
LEMMA FreeIsFirst ==
  ASSUME NEW t, Linked(t), NEW x \in Clusters, t[x] = Free PROVE IsFirst(t, x)
  BY DEF Linked, IsFirst

----------------------------------------------------------------------------
(* Where chains begin.                                                      *)

\* The handles in use.
Opened == {h \in Handles : fh[h] # Closed}

\* The handle h is truncating its file to nothing.
Emptying(h) == op # Idle /\ op.h = h /\ op.size = 0

\* Entries of the files: each file's chain begins at a first cluster, a file without one
\* is empty.
EntryInv ==
  /\ \A f \in Files : dirent[f].start \in Clusters =>
       /\ IsFirst(fat, dirent[f].start)
       /\ ~Emptied(f) => fat[dirent[f].start] # Free
       /\ \A g \in Files \ {f} : dirent[g].start # dirent[f].start
  /\ \A f \in Files : dirent[f].start = 0 => dirent[f].size = 0

\* Handles: one for a file, which begins where its entry says or where the entry is going
\* to say it does.
OpenInv ==
  /\ \A h \in Opened : fh[h].start \in Clusters =>
       /\ IsFirst(fat, fh[h].start) /\ fat[fh[h].start] # Free
       /\ \A f \in Files \ {fh[h].file} : dirent[f].start # fh[h].start
       /\ \A k \in Opened \ {h} : fh[k].start # fh[h].start
  /\ \A h \in Opened, k \in Opened : fh[h].file = fh[k].file => h = k
  /\ \A h \in Opened :
       \/ fh[h].start = dirent[fh[h].file].start
       \/ dirent[fh[h].file].start = 0
       \/ Emptying(h) /\ fh[h].start = 0
  /\ \A h \in Opened : dirent[fh[h].file].start = 0 => fh[h].size = 0

\* The clusters a resize works on: where it walks they are the file's, what it allocates is
\* nobody's until it is linked, and what it lets go of is nobody's any more.
WorkInv ==
  op # Idle =>
    /\ op.size = 0 => op.pc \in {"free", "entry"} /\ fh[op.h].start = 0
    /\ op.pc = "first" => fh[op.h].start = 0 /\ dirent[fh[op.h].file].start = 0
    /\ op.size # 0 /\ op.pc # "first" => fh[op.h].start \in Clusters
    /\ op.pc \in {"walk", "link", "terminate"} =>
         /\ fat[op.cluster] # Free
         /\ op.fresh \/ op.pc # "walk" => fat[op.cluster] = Eoc
    /\ op.pc = "link" =>
         /\ fat[op.next] = Eoc /\ IsFirst(fat, op.next) /\ op.next # op.cluster
         /\ \A f \in Files : dirent[f].start # op.next
         /\ \A h \in Opened : fh[h].start # op.next
    /\ op.pc = "free" =>
         /\ fat[op.cluster] # Free /\ IsFirst(fat, op.cluster)
         /\ \A f \in Files : dirent[f].start = op.cluster => op.size = 0 /\ f = fh[op.h].file
         /\ \A h \in Opened : fh[h].start # op.cluster

\* The chains on the card, and who may hold which: the invariant of the allocation table.
HeadsInv == Linked(fat) /\ EntryInv /\ OpenInv /\ WorkInv

\* The volumes at first: each chain is in the table, and nothing else.
LEMMA InitChains ==
  ASSUME Init
  PROVE  \E l \in Layouts :
           /\ \A f \in Files : l[f].chain \in Seq(Clusters) /\ l[f].size \in Nat
           /\ \A f \in Files : \A i \in DOMAIN l[f].chain :
                fat[l[f].chain[i]] = IF i = Len(l[f].chain) THEN Eoc ELSE l[f].chain[i + 1]
           /\ \A c \in Clusters : fat[c] # Free =>
                \E f \in Files : \E i \in DOMAIN l[f].chain : l[f].chain[i] = c
           /\ \A f \in Files :
                /\ dirent[f].size = l[f].size
                /\ dirent[f].start = IF l[f].chain = <<>> THEN 0 ELSE l[f].chain[1]
                /\ l[f].chain = <<>> => dirent[f].size = 0
           /\ \A f \in Files, g \in Files : \A i \in DOMAIN l[f].chain, j \in DOMAIN l[g].chain :
                l[f].chain[i] = l[g].chain[j] => f = g /\ i = j
<1> DEFINE In(l, f, c) == \E i \in DOMAIN l[f].chain : l[f].chain[i] = c
           E(l, c) == LET f == CHOOSE f \in Files : \E i \in DOMAIN l[f].chain : l[f].chain[i] = c
                          i == CHOOSE i \in DOMAIN l[f].chain : l[f].chain[i] = c
                      IN  IF i = Len(l[f].chain) THEN Eoc ELSE l[f].chain[i + 1]
<1>1. PICK l \in Layouts :
        /\ fat = [c \in Clusters |-> IF \E f \in Files : In(l, f, c) THEN E(l, c) ELSE Free]
        /\ dirent = [f \in Files |->
                       [start |-> IF l[f].chain = <<>> THEN 0 ELSE l[f].chain[1], size |-> l[f].size]]
  BY Zenon DEF Init
<1>2. \A f \in Files : /\ l[f].chain \in Seq(Clusters) /\ l[f].size \in Nat
                       /\ l[f].size <= Len(l[f].chain) * ClusterLen
  BY LayoutAssumption
<1>3. \A f \in Files, g \in Files : \A i \in DOMAIN l[f].chain, j \in DOMAIN l[g].chain :
        l[f].chain[i] = l[g].chain[j] => f = g /\ i = j
  BY LayoutAssumption
<1> HIDE DEF E
<1>4. \A c \in Clusters : fat[c] = IF \E f \in Files : In(l, f, c) THEN E(l, c) ELSE Free
  BY <1>1
<1>5. ASSUME NEW f \in Files, NEW i \in DOMAIN l[f].chain
      PROVE  fat[l[f].chain[i]] = IF i = Len(l[f].chain) THEN Eoc ELSE l[f].chain[i + 1]
  <2> DEFINE c == l[f].chain[i]
             g == CHOOSE g \in Files : \E j \in DOMAIN l[g].chain : l[g].chain[j] = c
             j == CHOOSE j \in DOMAIN l[g].chain : l[g].chain[j] = c
  <2>1. c \in Clusters
    BY <1>2
  <2>2. fat[c] = E(l, c)
    BY <1>4, <2>1
  <2>3. E(l, c) = IF j = Len(l[g].chain) THEN Eoc ELSE l[g].chain[j + 1]
    BY Zenon DEF E
  <2>4. g \in Files /\ \E k \in DOMAIN l[g].chain : l[g].chain[k] = c
    BY Zenon
  <2>5. j \in DOMAIN l[g].chain /\ l[g].chain[j] = c
    BY <2>4, Zenon
  <2> HIDE DEF g, j
  <2>6. g = f /\ j = i
    BY <1>3, <2>4, <2>5
  <2> QED
    BY <2>2, <2>3, <2>6
<1>6. ASSUME NEW f \in Files
      PROVE  /\ dirent[f].size = l[f].size
             /\ dirent[f].start = IF l[f].chain = <<>> THEN 0 ELSE l[f].chain[1]
             /\ l[f].chain = <<>> => dirent[f].size = 0
  <2>1. dirent[f] = [start |-> IF l[f].chain = <<>> THEN 0 ELSE l[f].chain[1], size |-> l[f].size]
    BY <1>1, Zenon
  <2>2. l[f].chain = <<>> => l[f].size = 0
    <3> SUFFICES ASSUME l[f].chain = <<>> PROVE l[f].size = 0
      OBVIOUS
    <3>1. Len(l[f].chain) = 0 /\ l[f].size \in Nat /\ l[f].size <= 0 * ClusterLen
      BY <1>2
    <3> QED
      BY <3>1, ClusterLenType
  <2> QED
    BY <2>1, <2>2
<1> QED
  BY <1>2, <1>3, <1>4, <1>5, <1>6

\* The element after one of a sequence that is not the last.
LEMMA NextOf ==
  ASSUME NEW S, NEW s \in Seq(S), NEW i \in DOMAIN s
  PROVE  i \in Nat /\ s[i] \in S /\ (i # Len(s) => i + 1 \in DOMAIN s /\ s[i + 1] \in S)
  OBVIOUS

\* The chains of a freshly laid out card are the chains of its files.
LEMMA HeadsInit == ASSUME Init PROVE HeadsInv
<1>1. PICK l \in Layouts :
           /\ \A f \in Files : l[f].chain \in Seq(Clusters) /\ l[f].size \in Nat
           /\ \A f \in Files : \A i \in DOMAIN l[f].chain :
                fat[l[f].chain[i]] = IF i = Len(l[f].chain) THEN Eoc ELSE l[f].chain[i + 1]
           /\ \A c \in Clusters : fat[c] # Free =>
                \E f \in Files : \E i \in DOMAIN l[f].chain : l[f].chain[i] = c
           /\ \A f \in Files :
                /\ dirent[f].size = l[f].size
                /\ dirent[f].start = IF l[f].chain = <<>> THEN 0 ELSE l[f].chain[1]
                /\ l[f].chain = <<>> => dirent[f].size = 0
           /\ \A f \in Files, g \in Files : \A i \in DOMAIN l[f].chain, j \in DOMAIN l[g].chain :
                l[f].chain[i] = l[g].chain[j] => f = g /\ i = j
  BY InitChains
<1>chains. ASSUME NEW f \in Files PROVE l[f].chain \in Seq(Clusters)
  BY <1>1
<1>entry. ASSUME NEW f \in Files, NEW i \in DOMAIN l[f].chain
      PROVE  fat[l[f].chain[i]] = IF i = Len(l[f].chain) THEN Eoc ELSE l[f].chain[i + 1]
  BY <1>1
<1>unique. ASSUME NEW f \in Files, NEW g \in Files, NEW i \in DOMAIN l[f].chain,
             NEW j \in DOMAIN l[g].chain, l[f].chain[i] = l[g].chain[j]
      PROVE  f = g /\ i = j
  BY <1>1, <1>unique
<1>2. TypeOK /\ fat \in Tables
  BY InitType DEF TypeOK, Tables
<1>3. ASSUME NEW c \in Clusters, fat[c] \in Clusters
      PROVE  \E f \in Files : \E i \in DOMAIN l[f].chain :
               /\ l[f].chain[i] = c /\ fat[c] = l[f].chain[i + 1]
               /\ i + 1 \in DOMAIN l[f].chain /\ i + 1 # 1
  <2>1. fat[c] # Free
    BY <1>3, ValueTypes
  <2>2f. PICK f \in Files : \E i \in DOMAIN l[f].chain :
          l[f].chain[i] = c
    BY <1>1, <2>1
  <2>2. PICK i \in DOMAIN l[f].chain :
          l[f].chain[i] = c
    BY <2>2f
  <2>3. l[f].chain \in Seq(Clusters) /\ i \in 1..Len(l[f].chain)
    BY <1>1, <2>2
  <2>4. fat[c] = IF i = Len(l[f].chain) THEN Eoc ELSE l[f].chain[i + 1]
    BY <1>1, <2>2
  <2>5. i # Len(l[f].chain)
    BY <1>3, <2>4, ValueTypes
  <2> QED
    BY <2>2, <2>3, <2>4, <2>5
<1>4. Linked(fat)
  <2>1. ASSUME NEW c \in Clusters, NEW d \in Clusters, fat[c] \in Clusters, fat[c] = fat[d]
        PROVE  c = d
    <3>1f. PICK f \in Files : \E i \in DOMAIN l[f].chain :
            /\ l[f].chain[i] = c /\ fat[c] = l[f].chain[i + 1] /\ i + 1 \in DOMAIN l[f].chain
      BY <1>3, <2>1
    <3>1. PICK i \in DOMAIN l[f].chain :
            /\ l[f].chain[i] = c /\ fat[c] = l[f].chain[i + 1] /\ i + 1 \in DOMAIN l[f].chain
      BY <3>1f
    <3>2f. PICK g \in Files : \E j \in DOMAIN l[g].chain :
            /\ l[g].chain[j] = d /\ fat[d] = l[g].chain[j + 1] /\ j + 1 \in DOMAIN l[g].chain
      BY <1>3, <2>1
    <3>2. PICK j \in DOMAIN l[g].chain :
            /\ l[g].chain[j] = d /\ fat[d] = l[g].chain[j + 1] /\ j + 1 \in DOMAIN l[g].chain
      BY <3>2f
    <3>3. f = g /\ i + 1 = j + 1
      <4>1. l[f].chain[i + 1] = l[g].chain[j + 1]
        BY <2>1, <3>1, <3>2
      <4>2. i + 1 \in DOMAIN l[f].chain /\ j + 1 \in DOMAIN l[g].chain
        BY <3>1, <3>2
      <4> DEFINE a == i + 1
                 b == j + 1
      <4> HIDE DEF a, b
      <4>3. a \in DOMAIN l[f].chain /\ b \in DOMAIN l[g].chain /\ l[f].chain[a] = l[g].chain[b]
        BY <4>1, <4>2 DEF a, b
      <4>4. f = g /\ a = b
        BY <1>unique, <4>3
      <4> QED
        BY <4>4 DEF a, b
    <3>4. i \in Nat /\ j \in Nat
      BY <1>chains, <3>1, <3>2, NextOf
    <3> QED
      BY <3>1, <3>2, <3>3, <3>4
  <2>2. ASSUME NEW c \in Clusters, fat[c] \in Clusters PROVE fat[fat[c]] # Free
    <3>1f. PICK f \in Files : \E i \in DOMAIN l[f].chain :
            fat[c] = l[f].chain[i + 1] /\ i + 1 \in DOMAIN l[f].chain
      BY <1>3, <2>2
    <3>1. PICK i \in DOMAIN l[f].chain :
            fat[c] = l[f].chain[i + 1] /\ i + 1 \in DOMAIN l[f].chain
      BY <3>1f
    <3>2. fat[fat[c]] = IF i + 1 = Len(l[f].chain) THEN Eoc ELSE l[f].chain[(i + 1) + 1]
      BY <1>entry, <3>1
    <3>3. l[f].chain \in Seq(Clusters)
      BY <1>chains
    <3>4. i + 1 # Len(l[f].chain) => l[f].chain[(i + 1) + 1] \in Clusters
      BY <3>1, <3>3, NextOf
    <3> QED
      BY <3>2, <3>4, ValueTypes
  <2> QED
    BY <1>2, <2>1, <2>2 DEF Linked
<1>5. EntryInv
  <2>1. ASSUME NEW f \in Files, dirent[f].start \in Clusters
        PROVE  dirent[f].start = l[f].chain[1] /\ 1 \in DOMAIN l[f].chain
    <3>1. l[f].chain # <<>> /\ dirent[f].start = l[f].chain[1]
      BY <1>1, <2>1, ValueTypes
    <3> QED
      BY <1>1, <3>1
  <2>2. ASSUME NEW f \in Files, dirent[f].start \in Clusters
        PROVE  /\ IsFirst(fat, dirent[f].start)
               /\ fat[dirent[f].start] # Free
               /\ \A g \in Files \ {f} : dirent[g].start # dirent[f].start
    <3>1. dirent[f].start = l[f].chain[1] /\ 1 \in DOMAIN l[f].chain
      BY <2>1, <2>2
    <3>2. IsFirst(fat, dirent[f].start)
      <4> SUFFICES ASSUME NEW c \in Clusters, fat[c] = dirent[f].start PROVE FALSE
        BY DEF IsFirst
      <4>1f. PICK g \in Files : \E j \in DOMAIN l[g].chain :
              fat[c] = l[g].chain[j + 1] /\ j + 1 \in DOMAIN l[g].chain /\ j + 1 # 1
        BY <1>3, <2>2
      <4>1. PICK j \in DOMAIN l[g].chain :
              fat[c] = l[g].chain[j + 1] /\ j + 1 \in DOMAIN l[g].chain /\ j + 1 # 1
        BY <4>1f
      <4> QED
        BY <1>1, <3>1, <4>1
    <3>3. fat[dirent[f].start] # Free
      <4>0. \A j \in DOMAIN l[f].chain :
              fat[l[f].chain[j]] = IF j = Len(l[f].chain) THEN Eoc ELSE l[f].chain[j + 1]
        BY <1>1
      <4>1. fat[l[f].chain[1]] = IF 1 = Len(l[f].chain) THEN Eoc ELSE l[f].chain[1 + 1]
        BY <3>1, <4>0
      <4>2. l[f].chain \in Seq(Clusters)
        BY <1>1
      <4>3. 1 # Len(l[f].chain) => l[f].chain[1 + 1] \in Clusters
        BY <3>1, <4>2, NextOf
      <4> QED
        BY <3>1, <4>1, <4>3, ValueTypes
    <3>4. ASSUME NEW g \in Files \ {f} PROVE dirent[g].start # dirent[f].start
      BY <1>1, <2>1, <2>2, <3>1
    <3> QED
      BY <3>2, <3>3, <3>4
  <2>3. ASSUME NEW f \in Files, dirent[f].start = 0 PROVE dirent[f].size = 0
    <3>1. l[f].chain \in Seq(Clusters) /\ (l[f].chain # <<>> => dirent[f].start = l[f].chain[1])
      BY <1>1
    <3>2. l[f].chain # <<>> => l[f].chain[1] \in Clusters
      BY <3>1
    <3> QED
      BY <1>1, <2>3, <3>1, <3>2, ValueTypes
  <2> QED
    BY <2>2, <2>3 DEF EntryInv
<1>6. OpenInv /\ WorkInv
  <2>1. fh = [h \in Handles |-> Closed] /\ op = Idle
    BY DEF Init
  <2> QED
    BY <2>1 DEF OpenInv, WorkInv, Opened
<1> QED
  BY <1>4, <1>5, <1>6 DEF HeadsInv

\* Calls only go wrong between states worth having: no file is open twice, and a file is
\* emptied without a failure.
Orderly == "alias" \notin Hazards /\ "torn" \notin Hazards

\* A step that leaves entries and handles alone keeps their chains when it keeps their first clusters.
LEMMA HeadsStay ==
  ASSUME EntryInv, OpenInv, dirent' = dirent, fh' = fh,
         \A f \in Files : dirent[f].start \in Clusters =>
           /\ IsFirst(fat', dirent[f].start)
           /\ ~(Emptied(f)') => fat'[dirent[f].start] # Free,
         \A h \in Opened : fh[h].start \in Clusters =>
           IsFirst(fat', fh[h].start) /\ fat'[fh[h].start] # Free,
         \A h \in Opened : Emptying(h) => Emptying(h)'
  PROVE  EntryInv' /\ OpenInv'
<1>1. EntryInv'
  <2>1. ASSUME NEW f \in Files, dirent[f].start \in Clusters
        PROVE  /\ IsFirst(fat', dirent[f].start)
               /\ ~(Emptied(f)') => fat'[dirent[f].start] # Free
               /\ \A g \in Files \ {f} : dirent[g].start # dirent[f].start
    BY <2>1 DEF EntryInv
  <2>2. \A f \in Files : dirent[f].start = 0 => dirent[f].size = 0
    BY DEF EntryInv
  <2> QED
    BY <2>1, <2>2 DEF EntryInv
<1>2. OpenInv'
  <2>1. Opened' = Opened
    BY DEF Opened
  <2>2. ASSUME NEW h \in Opened, fh[h].start \in Clusters
        PROVE  /\ IsFirst(fat', fh[h].start) /\ fat'[fh[h].start] # Free
               /\ \A f \in Files \ {fh[h].file} : dirent[f].start # fh[h].start
               /\ \A k \in Opened \ {h} : fh[k].start # fh[h].start
    BY <2>2 DEF OpenInv
  <2>3. /\ \A h \in Opened, k \in Opened : fh[h].file = fh[k].file => h = k
        /\ \A h \in Opened : dirent[fh[h].file].start = 0 => fh[h].size = 0
    BY DEF OpenInv
  <2>4. ASSUME NEW h \in Opened
        PROVE  \/ fh[h].start = dirent[fh[h].file].start
               \/ dirent[fh[h].file].start = 0
               \/ Emptying(h)' /\ fh[h].start = 0
    BY DEF OpenInv
  <2> QED
    BY <2>1, <2>2, <2>3, <2>4 DEF OpenInv
<1> QED
  BY <1>1, <1>2

\* An entry of the table is cut while a file is given another size than 0.
LEMMA HeadsCut ==
  ASSUME TypeOK, HeadsInv, op # Idle, op.size # 0, NEW x \in Clusters,
         fat' = Changed(fat, x, Eoc) \/ fat' = fat, dirent' = dirent, fh' = fh
  PROVE  Linked(fat)' /\ EntryInv' /\ OpenInv'
<1>1. Linked(fat) /\ EntryInv /\ OpenInv
  BY DEF HeadsInv
<1>2. /\ Linked(fat')
      /\ \A s \in Clusters : IsFirst(fat, s) => IsFirst(fat', s)
      /\ \A s \in Clusters : fat[s] # Free => fat'[s] # Free
  BY <1>1, CutLinks
<1>3. \A f \in Files : ~Emptied(f)
  BY DEF Emptied
<1>4. \A h \in Handles : ~Emptying(h)
  BY DEF Emptying
<1>5. \A f \in Files : dirent[f].start \in Clusters =>
        IsFirst(fat', dirent[f].start) /\ fat'[dirent[f].start] # Free
  BY <1>1, <1>2, <1>3 DEF EntryInv
<1>6. \A h \in Opened : fh[h].start \in Clusters =>
        IsFirst(fat', fh[h].start) /\ fat'[fh[h].start] # Free
  BY <1>1, <1>2 DEF OpenInv
<1>7. Opened \subseteq Handles
  BY DEF Opened
<1> QED
  BY <1>1, <1>2, <1>4, <1>5, <1>6, <1>7, HeadsStay

\* A cluster is let go.
LEMMA HeadsFree ==
  ASSUME TypeOK, HeadsInv, op.pc = "free",
         fat' = Changed(fat, op.cluster, Free) \/ fat' = fat, dirent' = dirent, fh' = fh,
         op.size = 0 => op' # Idle /\ op'.h = op.h /\ op'.size = 0
  PROVE  Linked(fat)' /\ EntryInv' /\ OpenInv'
<1>1. Linked(fat) /\ EntryInv /\ OpenInv /\ WorkInv
  BY DEF HeadsInv
<1>2. op # Idle /\ op.cluster \in Clusters
  BY ResizeType
<1>3. /\ fat[op.cluster] # Free /\ IsFirst(fat, op.cluster)
      /\ \A f \in Files : dirent[f].start = op.cluster => op.size = 0 /\ f = fh[op.h].file
      /\ \A h \in Opened : fh[h].start # op.cluster
  BY <1>1, <1>2 DEF WorkInv
<1>4. /\ Linked(fat')
      /\ \A s \in Clusters : IsFirst(fat, s) => IsFirst(fat', s)
      /\ \A s \in Clusters : s # op.cluster /\ fat[s] # Free => fat'[s] # Free
  BY <1>1, <1>2, <1>3, FreeLinks
<1>5. ASSUME NEW f \in Files, dirent[f].start \in Clusters
      PROVE  /\ IsFirst(fat', dirent[f].start)
             /\ ~(Emptied(f)') => fat'[dirent[f].start] # Free
  <2>1. IsFirst(fat', dirent[f].start)
    BY <1>1, <1>4, <1>5 DEF EntryInv
  <2>2. CASE Emptied(f)
    BY <2>1, <2>2 DEF Emptied
  <2>3. CASE ~Emptied(f)
    <3>1. dirent[f].start # op.cluster
      BY <1>2, <1>3, <2>3 DEF Emptied
    <3> QED
      BY <1>1, <1>4, <1>5, <2>1, <2>3, <3>1 DEF EntryInv
  <2> QED
    BY <2>2, <2>3
<1>6. \A h \in Opened : fh[h].start \in Clusters =>
        IsFirst(fat', fh[h].start) /\ fat'[fh[h].start] # Free
  BY <1>1, <1>3, <1>4 DEF OpenInv
<1>7. \A h \in Opened : Emptying(h) => Emptying(h)'
  BY DEF Emptying
<1> QED
  BY <1>1, <1>4, <1>5, <1>6, <1>7, HeadsStay

\* A new cluster is linked to the last one.
LEMMA HeadsJoin ==
  ASSUME TypeOK, HeadsInv, op.pc = "link",
         fat' = Changed(fat, op.cluster, op.next) \/ fat' = fat, dirent' = dirent, fh' = fh
  PROVE  Linked(fat)' /\ EntryInv' /\ OpenInv'
<1>1. Linked(fat) /\ EntryInv /\ OpenInv /\ WorkInv
  BY DEF HeadsInv
<1>2. op # Idle /\ op.cluster \in Clusters /\ op.next \in Clusters
  BY ResizeType
<1>3. /\ fat[op.next] = Eoc /\ IsFirst(fat, op.next) /\ op.next # op.cluster /\ op.size # 0
      /\ \A f \in Files : dirent[f].start # op.next
      /\ \A h \in Opened : fh[h].start # op.next
  BY <1>1, <1>2 DEF WorkInv
<1>4. /\ Linked(fat')
      /\ \A s \in Clusters : s # op.next /\ IsFirst(fat, s) => IsFirst(fat', s)
      /\ \A s \in Clusters : fat[s] # Free => fat'[s] # Free
  <2>1. fat[op.next] # Free
    BY <1>3, ValueTypes
  <2>2. CASE fat' = Changed(fat, op.cluster, op.next)
    BY <1>1, <1>2, <1>3, <2>1, <2>2, JoinLinks
  <2>3. CASE fat' = fat
    BY <1>1, <2>3
  <2> QED
    BY <2>2, <2>3
<1>5. \A f \in Files : ~Emptied(f)
  BY <1>3 DEF Emptied
<1>6. \A h \in Handles : ~Emptying(h)
  BY <1>3 DEF Emptying
<1>7. \A f \in Files : dirent[f].start \in Clusters =>
        IsFirst(fat', dirent[f].start) /\ fat'[dirent[f].start] # Free
  BY <1>1, <1>3, <1>4, <1>5 DEF EntryInv
<1>8. \A h \in Opened : fh[h].start \in Clusters =>
        IsFirst(fat', fh[h].start) /\ fat'[fh[h].start] # Free
  BY <1>1, <1>3, <1>4 DEF OpenInv
<1>9. Opened \subseteq Handles
  BY DEF Opened
<1> QED
  BY <1>1, <1>4, <1>6, <1>7, <1>8, <1>9, HeadsStay

\* A handle moves along its file.
LEMMA HeadsMove ==
  ASSUME HeadsInv, op = Idle, op' = Idle, fat' = fat, dirent' = dirent,
         \A k \in Handles :
           fh'[k] = fh[k] \/ /\ fh[k] # Closed /\ fh'[k] # Closed
                             /\ fh'[k].file = fh[k].file /\ fh'[k].start = fh[k].start
                             /\ fh'[k].size = fh[k].size
  PROVE  HeadsInv'
<1>1. Linked(fat)' /\ EntryInv' /\ WorkInv'
  BY DEF HeadsInv, EntryInv, WorkInv, Emptied
<1>2. /\ Opened' = Opened
      /\ \A k \in Opened : /\ fh'[k].file = fh[k].file /\ fh'[k].start = fh[k].start
                           /\ fh'[k].size = fh[k].size
  BY DEF Opened
<1>3. OpenInv
  BY DEF HeadsInv
<1>4. OpenInv'
  BY <1>2, <1>3 DEF OpenInv, Emptying
<1> QED
  BY <1>1, <1>4 DEF HeadsInv

\* Without the hazard of a torn truncation, no access of a resize to nothing fails.
LEMMA FailingSize == ASSUME Orderly, HeadsInv, op # Idle, Failing PROVE op.size # 0
  BY DEF Orderly, HeadsInv, WorkInv, Failing, Tearing

\* Once the resize has returned, what it worked on needs no more to hold.
LEMMA ReturnHeads == ASSUME Linked(fat)', EntryInv', OpenInv', Return PROVE HeadsInv'
  BY DEF Return, HeadsInv, WorkInv

\* fatfs_open takes the chain of the entry it found.
LEMMA OpenHeads ==
  ASSUME Orderly, TypeOK, HeadsInv, NEW h \in Handles, NEW f \in Files, Open(h, f)
  PROVE  HeadsInv'
<1>1. Linked(fat) /\ EntryInv /\ OpenInv
  BY DEF HeadsInv
<1>2. /\ op = Idle /\ fh[h] = Closed /\ UNCHANGED <<fat, dirent, op>>
      /\ \A g \in Handles : fh[g] = Closed \/ fh[g].file # f
      /\ fh' = [fh EXCEPT ![h] = [file |-> f, start |-> dirent[f].start, cur |-> dirent[f].start,
                                  size |-> dirent[f].size, pos |-> 0]]
  BY DEF Open, Orderly, card
<1>3. Linked(fat)' /\ EntryInv' /\ WorkInv'
  BY <1>1, <1>2 DEF HeadsInv, EntryInv, WorkInv, Emptied
<1> DEFINE r == [file |-> f, start |-> dirent[f].start, cur |-> dirent[f].start,
                 size |-> dirent[f].size, pos |-> 0]
<1>4. /\ fh'[h] = r /\ r # Closed
      /\ \A k \in Handles \ {h} : fh'[k] = fh[k]
  <2>1. dirent[f].start \in Clusters \cup {0} /\ dirent[f].size \in Nat
    BY DEF TypeOK
  <2>2. r \in Handled
    BY <2>1, ValueTypes DEF Handled
  <2>3. fh'[h] = r /\ \A k \in Handles \ {h} : fh'[k] = fh[k]
    BY <1>2 DEF TypeOK
  <2> QED
    BY <2>2, <2>3, HandledOpen
<1>5. Opened' = Opened \cup {h} /\ h \notin Opened /\ \A k \in Opened : k # h /\ fh'[k] = fh[k] /\ fh[k].file # f
  BY <1>2, <1>4 DEF Opened
<1>6. r.file = f /\ r.start = dirent[f].start /\ r.size = dirent[f].size
  OBVIOUS
<1> HIDE DEF r
<1>7. OpenInv'
  <2>1. ASSUME NEW k \in Opened', fh'[k].start \in Clusters
        PROVE  /\ IsFirst(fat, fh'[k].start) /\ fat[fh'[k].start] # Free
               /\ \A g \in Files \ {fh'[k].file} : dirent[g].start # fh'[k].start
               /\ \A j \in Opened' \ {k} : fh'[j].start # fh'[k].start
    <3>1. CASE k = h
      <4>1. IsFirst(fat, dirent[f].start) /\ fat[dirent[f].start] # Free
            /\ \A g \in Files \ {f} : dirent[g].start # dirent[f].start
        BY <1>1, <1>2, <1>4, <1>6, <2>1, <3>1 DEF EntryInv, Emptied
      <4>2. ASSUME NEW j \in Opened PROVE fh[j].start # dirent[f].start
        BY <1>1, <1>4, <1>5, <1>6, <2>1, <3>1 DEF OpenInv
      <4> QED
        BY <1>4, <1>5, <1>6, <3>1, <4>1, <4>2
    <3>2. CASE k # h
      BY <1>1, <1>4, <1>5, <1>6, <2>1, <3>2 DEF OpenInv
    <3> QED
      BY <3>1, <3>2
  <2>2. \A k \in Opened', j \in Opened' : fh'[k].file = fh'[j].file => k = j
    BY <1>1, <1>4, <1>5, <1>6 DEF OpenInv
  <2>3. ASSUME NEW k \in Opened'
        PROVE  /\ \/ fh'[k].start = dirent[fh'[k].file].start
                  \/ dirent[fh'[k].file].start = 0
               /\ dirent[fh'[k].file].start = 0 => fh'[k].size = 0
    <3>1. CASE k = h
      BY <1>1, <1>4, <1>6, <3>1 DEF EntryInv
    <3>2. CASE k # h
      BY <1>1, <1>2, <1>4, <1>5, <3>2 DEF OpenInv, Emptying
    <3> QED
      BY <3>1, <3>2
  <2> QED
    BY <1>2, <2>1, <2>2, <2>3 DEF OpenInv
<1> QED
  BY <1>3, <1>7 DEF HeadsInv

\* A handle that is given up leaves the chains as they are.
LEMMA CloseHeads ==
  ASSUME TypeOK, HeadsInv, NEW h \in Handles, Close(h) PROVE HeadsInv'
<1>1. Linked(fat) /\ EntryInv /\ OpenInv
  BY DEF HeadsInv
<1>2. op = Idle /\ UNCHANGED <<fat, dirent, op>> /\ fh' = [fh EXCEPT ![h] = Closed]
  BY DEF Close, card
<1>3. Linked(fat)' /\ EntryInv' /\ WorkInv'
  BY <1>1, <1>2 DEF HeadsInv, EntryInv, WorkInv, Emptied
<1>4. Opened' \subseteq Opened /\ \A k \in Opened' : fh'[k] = fh[k]
  BY <1>2 DEF Opened, TypeOK
<1>5. OpenInv'
  BY <1>1, <1>2, <1>4 DEF OpenInv, Emptying
<1> QED
  BY <1>3, <1>5 DEF HeadsInv

\* Seeking leaves the chains as they are.
LEMMA SetPosHeads ==
  ASSUME TypeOK, HeadsInv, NEW h \in Handles, NEW p \in Positions, SetPos(h, p) PROVE HeadsInv'
<1>1. op = Idle /\ fh[h] # Closed /\ UNCHANGED <<fat, dirent, op>>
  BY DEF SetPos, card
<1>2. \E c : fh' = [fh EXCEPT ![h] = [fh[h] EXCEPT !.pos = p, !.cur = c]]
  BY Zenon DEF SetPos
<1>3. PICK c : fh' = [fh EXCEPT ![h] = [fh[h] EXCEPT !.pos = p, !.cur = c]]
  BY <1>2
<1>4. fh[h] \in Handled
  BY <1>1, OpenType
<1> DEFINE r == [fh[h] EXCEPT !.pos = p, !.cur = c]
<1>5. r.file = fh[h].file /\ r.start = fh[h].start /\ r.size = fh[h].size /\ "pos" \in DOMAIN r
  BY <1>4 DEF Handled
<1>6. r # Closed
  <2>1. "pos" \notin DOMAIN Closed
    BY DEF Closed
  <2> QED
    BY <1>5, <2>1
<1> HIDE DEF r
<1>7. fh'[h] = r /\ \A k \in Handles \ {h} : fh'[k] = fh[k]
  BY <1>3 DEF TypeOK, r
<1> QED
  BY <1>1, <1>5, <1>6, <1>7, HeadsMove

\* A transfer moves only the place of its own handle.
LEMMA AdvanceMoves ==
  ASSUME TypeOK, NEW h \in Handles, fh[h] # Closed, NEW n, Advance(h, n)
  PROVE  \A k \in Handles :
           fh'[k] = fh[k] \/ /\ fh[k] # Closed /\ fh'[k] # Closed
                             /\ fh'[k].file = fh[k].file /\ fh'[k].start = fh[k].start
                             /\ fh'[k].size = fh[k].size
<1>2. \E p, c : fh' = [fh EXCEPT ![h] = [fh[h] EXCEPT !.pos = p, !.cur = c]]
  BY Zenon DEF Advance
<1>3. PICK p, c : fh' = [fh EXCEPT ![h] = [fh[h] EXCEPT !.pos = p, !.cur = c]]
  BY <1>2
<1>4. fh[h] \in Handled
  BY OpenType
<1> DEFINE r == [fh[h] EXCEPT !.pos = p, !.cur = c]
<1>5. r.file = fh[h].file /\ r.start = fh[h].start /\ r.size = fh[h].size /\ "pos" \in DOMAIN r
  BY <1>4 DEF Handled
<1>6. r # Closed
  <2>1. "pos" \notin DOMAIN Closed
    BY DEF Closed
  <2> QED
    BY <1>5, <2>1
<1> HIDE DEF r
<1>7. fh'[h] = r /\ \A k \in Handles \ {h} : fh'[k] = fh[k]
  BY <1>3 DEF TypeOK, r
<1> QED
  BY <1>5, <1>6, <1>7

\* Reading and writing leave the chains as they are.
LEMMA TransferHeads ==
  ASSUME TypeOK, HeadsInv, NEW h \in Handles, NEW n \in Lengths,
         Read(h, n) \/ Write(h, n) \/ WriteFails(h, n)
  PROVE  HeadsInv'
<1>1. op = Idle /\ UNCHANGED <<fat, dirent, op>> /\ fh[h] # Closed /\ (fh' = fh \/ Advance(h, n))
  BY DEF Read, Write, WriteFails, card
<1> QED
  BY <1>1, AdvanceMoves, HeadsMove

\* A resize begins with the chains as they were.
LEMMA SetSizeHeads ==
  ASSUME TypeOK, HeadsInv, NEW h \in Handles, NEW n \in Sizes, SetSize(h, n) PROVE HeadsInv'
<1>1. Linked(fat) /\ EntryInv /\ OpenInv
  BY DEF HeadsInv
<1>2. /\ op = Idle /\ fh[h] # Closed /\ UNCHANGED <<fat, dirent>>
      /\ op' = [pc |-> IF n = 0 THEN IF fh[h].start = 0 THEN "entry" ELSE "free"
                       ELSE IF fh[h].start = 0 THEN "first" ELSE "walk",
                h |-> h, size |-> n, cluster |-> fh[h].start, left |-> Blocks(n),
                fresh |-> FALSE, next |-> 0]
      /\ fh' = IF n = 0 THEN [fh EXCEPT ![h].start = 0, ![h].cur = 0, ![h].pos = 0] ELSE fh
  BY DEF SetSize, card
<1>3. fh[h] \in Handled /\ fh[h].start \in Clusters \cup {0} /\ h \in Opened
  BY <1>2, OpenType DEF Handled, Opened
<1>4. /\ op'.pc = IF n = 0 THEN IF fh[h].start = 0 THEN "entry" ELSE "free"
                  ELSE IF fh[h].start = 0 THEN "first" ELSE "walk"
      /\ op'.h = h /\ op'.size = n /\ op'.cluster = fh[h].start /\ op'.fresh = FALSE
  BY <1>2
<1>5. op' # Idle
  BY <1>4 DEF Idle
<1>6. EntryInv'
  BY <1>1, <1>2 DEF EntryInv, Emptied
<1>7. /\ fh'[h] # Closed /\ fh'[h].file = fh[h].file /\ fh'[h].size = fh[h].size
      /\ fh'[h].start = IF n = 0 THEN 0 ELSE fh[h].start
      /\ \A k \in Handles \ {h} : fh'[k] = fh[k]
  <2> DEFINE r == [[[fh[h] EXCEPT !.start = 0] EXCEPT !.cur = 0] EXCEPT !.pos = 0]
  <2>1. r \in Handled /\ r.file = fh[h].file /\ r.size = fh[h].size /\ r.start = 0
    BY <1>3, ValueTypes DEF Handled
  <2>2. n = 0 => fh' = [fh EXCEPT ![h] = r]
    BY <1>2 DEF TypeOK
  <2>3. r # Closed
    BY <2>1, HandledOpen
  <2> HIDE DEF r
  <2>4. CASE n = 0
    BY <2>1, <2>2, <2>3, <2>4 DEF TypeOK
  <2>5. CASE n # 0
    BY <1>2, <2>5
  <2> QED
    BY <2>4, <2>5
<1>8. Opened' = Opened
  BY <1>2, <1>3, <1>7 DEF Opened
<1>9. OpenInv'
  <2>1. ASSUME NEW k \in Opened, fh'[k].start \in Clusters
        PROVE  /\ IsFirst(fat, fh'[k].start) /\ fat[fh'[k].start] # Free
               /\ \A g \in Files \ {fh'[k].file} : dirent[g].start # fh'[k].start
               /\ \A j \in Opened \ {k} : fh'[j].start # fh'[k].start
    <3>1. fh'[k].start = fh[k].start /\ fh'[k].file = fh[k].file
      BY <1>7, <2>1, ValueTypes DEF Opened
    <3>2. \A j \in Opened : fh'[j].start = fh[j].start \/ fh'[j].start = 0
      BY <1>7 DEF Opened
    <3> QED
      BY <1>1, <2>1, <3>1, <3>2, ValueTypes DEF OpenInv
  <2>2. \A k \in Opened : fh'[k].file = fh[k].file /\ fh'[k].size = fh[k].size
    BY <1>7 DEF Opened
  <2>3. \A k \in Opened, j \in Opened : fh'[k].file = fh'[j].file => k = j
    BY <1>1, <2>2 DEF OpenInv
  <2>4. ASSUME NEW k \in Opened
        PROVE  \/ fh'[k].start = dirent[fh[k].file].start
               \/ dirent[fh[k].file].start = 0
               \/ Emptying(k)' /\ fh'[k].start = 0
    <3>1. CASE k = h
      BY <1>1, <1>2, <1>4, <1>5, <1>7, <3>1 DEF OpenInv, Emptying
    <3>2. CASE k # h
      BY <1>1, <1>2, <1>7, <3>2 DEF OpenInv, Emptying, Opened
    <3> QED
      BY <3>1, <3>2
  <2>5. \A k \in Opened : dirent[fh[k].file].start = 0 => fh'[k].size = 0
    BY <1>1, <2>2 DEF OpenInv
  <2>6. fat' = fat /\ dirent' = dirent
    BY <1>2
  <2> QED
    BY <1>8, <2>1, <2>2, <2>3, <2>4, <2>5, <2>6 DEF OpenInv
<1>10. WorkInv'
  <2>1. n = 0 => op'.pc \in {"free", "entry"} /\ fh'[h].start = 0
    BY <1>4, <1>7
  <2>2. op'.pc = "first" => fh'[h].start = 0 /\ dirent[fh'[h].file].start = 0
    BY <1>1, <1>2, <1>3, <1>4, <1>7 DEF OpenInv, Emptying
  <2>3. n # 0 /\ op'.pc # "first" => fh'[h].start \in Clusters
    BY <1>3, <1>4, <1>7
  <2>4. op'.pc \in {"walk", "link", "terminate"} =>
          op'.pc = "walk" /\ fat[fh[h].start] # Free
    BY <1>1, <1>3, <1>4 DEF OpenInv
  <2>5. op'.pc = "free" =>
         /\ fat[fh[h].start] # Free /\ IsFirst(fat, fh[h].start)
         /\ \A f \in Files : dirent[f].start = fh[h].start => n = 0 /\ f = fh'[h].file
         /\ \A k \in Opened : fh'[k].start # fh[h].start
    <3> SUFFICES ASSUME op'.pc = "free"
                 PROVE  /\ fat[fh[h].start] # Free /\ IsFirst(fat, fh[h].start)
                        /\ \A f \in Files : dirent[f].start = fh[h].start => n = 0 /\ f = fh'[h].file
                        /\ \A k \in Opened : fh'[k].start # fh[h].start
      OBVIOUS
    <3>1. n = 0 /\ fh[h].start \in Clusters
      BY <1>3, <1>4
    <3>2. \A k \in Opened : k = h \/ fh'[k] = fh[k]
      BY <1>7 DEF Opened
    <3> QED
      BY <1>1, <1>3, <1>7, <3>1, <3>2, ValueTypes DEF OpenInv
  <2> QED
    BY <1>2, <1>4, <1>8, <2>1, <2>2, <2>3, <2>4, <2>5 DEF WorkInv
<1> QED
  BY <1>1, <1>2, <1>6, <1>9, <1>10 DEF HeadsInv

\* What a step of a resize finds.
LEMMA WorkFacts ==
  ASSUME TypeOK, HeadsInv, op.pc # "idle"
  PROVE  /\ Linked(fat) /\ EntryInv /\ OpenInv /\ op # Idle /\ op \in Resizes
         /\ op.h \in Handles /\ op.h \in Opened /\ fh[op.h] \in Handled /\ fh[op.h].file \in Files
         /\ op.size = 0 => op.pc \in {"free", "entry"} /\ fh[op.h].start = 0
         /\ op.pc = "first" => fh[op.h].start = 0 /\ dirent[fh[op.h].file].start = 0
         /\ op.size # 0 /\ op.pc # "first" => fh[op.h].start \in Clusters
         /\ op.pc \in {"walk", "link", "terminate"} =>
              /\ fat[op.cluster] # Free
              /\ op.fresh \/ op.pc # "walk" => fat[op.cluster] = Eoc
         /\ op.pc = "link" =>
              /\ fat[op.next] = Eoc /\ IsFirst(fat, op.next) /\ op.next # op.cluster
              /\ \A f \in Files : dirent[f].start # op.next
              /\ \A h \in Opened : fh[h].start # op.next
         /\ op.pc = "free" =>
              /\ fat[op.cluster] # Free /\ IsFirst(fat, op.cluster)
              /\ \A f \in Files : dirent[f].start = op.cluster => op.size = 0 /\ f = fh[op.h].file
              /\ \A h \in Opened : fh[h].start # op.cluster
         /\ op.pc # "first" /\ op.pc # "entry" => op.cluster \in Clusters
         /\ op.pc = "link" => op.next \in Clusters
<1>1. /\ op # Idle /\ op \in Resizes /\ op.h \in Handles /\ fh[op.h] # Closed /\ fh[op.h] \in Handled
      /\ op.pc # "first" /\ op.pc # "entry" => op.cluster \in Clusters
      /\ op.pc = "link" => op.next \in Clusters
  BY ResizeType
<1>2. op.h \in Opened /\ fh[op.h].file \in Files
  BY <1>1 DEF Opened, Handled
<1> QED
  BY <1>1, <1>2, Zenon DEF HeadsInv, WorkInv

\* What taking a cluster does, or failing to.
LEMMA AllocateCases ==
  ASSUME TypeOK, NEW ACTION D, NEW ACTION F, Allocate(D, F)
  PROVE  \/ F /\ fat' = fat /\ ((full' = TRUE /\ faults' = faults) \/ Failing)
         \/ /\ FirstFree \in Clusters /\ fat[FirstFree] = Free
            /\ \/ D /\ fat' = Changed(fat, FirstFree, Eoc) /\ faults' = faults
               \/ F /\ Failing /\ (fat' = fat \/ fat' = Changed(fat, FirstFree, Eoc))
            /\ full' = full
<1>1. CASE Allocatable = {} /\ full' = TRUE /\ F /\ UNCHANGED <<fat, nextFree, faults>>
  BY <1>1
<1>2. CASE Failing /\ F /\ UNCHANGED <<fat, nextFree, full>>
  BY <1>2
<1>3. CASE /\ Allocatable # {} /\ nextFree' = FirstFree /\ UNCHANGED full
           /\ SetEntry(FirstFree, Eoc, D, F)
  <2>1. FirstFree \in Allocatable
    BY <1>3, FirstFreeType DEF TypeOK
  <2>2. FirstFree \in Clusters /\ fat[FirstFree] = Free
    BY <2>1, ValueTypes DEF Allocatable
  <2>3. \/ fat' = Changed(fat, FirstFree, Eoc) /\ faults' = faults /\ D
        \/ (fat' = Changed(fat, FirstFree, Eoc) \/ fat' = fat) /\ Failing /\ F
    BY <1>3, SetEntryCases
  <2> QED
    BY <1>3, <2>2, <2>3
<1> QED
  BY <1>1, <1>2, <1>3 DEF Allocate

\* The first cluster of an empty file is a free one: nobody else has it.
LEMMA FirstHeads == ASSUME Orderly, TypeOK, HeadsInv, First PROVE HeadsInv'
<1>1. op.pc = "first" /\ dirent' = dirent
  BY DEF First
<1>2. /\ Linked(fat) /\ EntryInv /\ OpenInv /\ op # Idle /\ op \in Resizes
      /\ op.h \in Handles /\ op.h \in Opened /\ fh[op.h] \in Handled /\ fh[op.h].file \in Files
      /\ op.size # 0 /\ fh[op.h].start = 0 /\ dirent[fh[op.h].file].start = 0
  BY <1>1, WorkFacts
<1> DEFINE D == /\ op' = [op EXCEPT !.pc = "walk", !.cluster = FirstFree, !.fresh = TRUE]
                /\ fh' = [fh EXCEPT ![op.h].start = FirstFree, ![op.h].cur = FirstFree,
                                    ![op.h].pos = 0]
                /\ UNCHANGED before
           F == Return /\ UNCHANGED fh
<1>3. Allocate(D, F)
  BY Zenon DEF First
<1>4. \/ F /\ fat' = fat
      \/ /\ FirstFree \in Clusters /\ fat[FirstFree] = Free
         /\ \/ D /\ fat' = Changed(fat, FirstFree, Eoc)
            \/ F /\ (fat' = fat \/ fat' = Changed(fat, FirstFree, Eoc))
  BY <1>3, AllocateCases
<1>5. CASE F /\ fat' = fat
  <2>1. Linked(fat)' /\ EntryInv' /\ OpenInv'
    BY <1>1, <1>2, <1>5, HeadsCut, ValueTypes
  <2> QED
    BY <1>5, <2>1, ReturnHeads
<1>6. CASE /\ FirstFree \in Clusters
           /\ F /\ (fat' = fat \/ fat' = Changed(fat, FirstFree, Eoc))
  <2>1. Linked(fat)' /\ EntryInv' /\ OpenInv'
    BY <1>1, <1>2, <1>6, HeadsCut
  <2> QED
    BY <1>6, <2>1, ReturnHeads
<1>7. CASE /\ FirstFree \in Clusters /\ fat[FirstFree] = Free
           /\ D /\ fat' = Changed(fat, FirstFree, Eoc)
  <2> DEFINE x == FirstFree
             r == [[[fh[op.h] EXCEPT !.start = x] EXCEPT !.cur = x] EXCEPT !.pos = 0]
  <2>0. x \in Clusters /\ fat[x] = Free /\ fat' = Changed(fat, x, Eoc)
    BY <1>7
  <2>1. r \in Handled /\ r.file = fh[op.h].file /\ r.size = fh[op.h].size /\ r.start = x
    BY <1>2, <2>0, ValueTypes DEF Handled
  <2>2. fh' = [fh EXCEPT ![op.h] = r]
    BY <1>7 DEF TypeOK
  <2>3. /\ op'.pc = "walk" /\ op'.cluster = x /\ op'.fresh = TRUE /\ op'.h = op.h
        /\ op'.size = op.size /\ op' # Idle
    BY <1>2, <1>7 DEF Resizes, Idle
  <2> HIDE DEF x, r, D, F
  <2>4. fh'[op.h] = r /\ \A k \in Handles \ {op.h} : fh'[k] = fh[k]
    BY <1>2, <2>2 DEF TypeOK
  <2>5. Opened' = Opened
    BY <1>2, <2>1, <2>4, HandledOpen DEF Opened
  <2>6. /\ Linked(fat') /\ fat'[x] = Eoc
        /\ \A s \in Clusters : IsFirst(fat, s) => IsFirst(fat', s)
        /\ \A s \in Clusters : fat[s] # Free => fat'[s] # Free
    <3>1. fat \in Tables /\ Eoc \in FatValues
      BY <1>2, ValueTypes DEF Linked
    <3>2. fat'[x] = Eoc
      BY <2>0, <3>1, ChangedType
    <3> QED
      BY <1>2, <2>0, <3>2, CutLinks
  <2>7. IsFirst(fat', x) /\ fat'[x] # Free
    BY <1>2, <2>0, <2>6, FreeIsFirst, ValueTypes
  <2>8. \A f \in Files : dirent[f].start # x
    BY <1>2, <2>0 DEF EntryInv, Emptied
  <2>9. \A k \in Opened : fh[k].start # x
    BY <1>2, <2>0 DEF OpenInv
  <2>10. EntryInv'
    BY <1>1, <1>2, <2>6 DEF EntryInv, Emptied
  <2>11. OpenInv'
    <3>1. ASSUME NEW k \in Opened, fh'[k].start \in Clusters
          PROVE  /\ IsFirst(fat', fh'[k].start) /\ fat'[fh'[k].start] # Free
                 /\ \A g \in Files \ {fh'[k].file} : dirent[g].start # fh'[k].start
                 /\ \A j \in Opened \ {k} : fh'[j].start # fh'[k].start
      <4>1. CASE k = op.h
        <5>1. \A j \in Opened \ {k} : fh'[j] = fh[j]
          BY <2>4, <4>1 DEF Opened
        <5> QED
          BY <2>1, <2>4, <2>7, <2>8, <2>9, <4>1, <5>1
      <4>2. CASE k # op.h
        <5>1. fh'[k] = fh[k]
          BY <2>4, <4>2 DEF Opened
        <5>2. \A j \in Opened : fh'[j] = fh[j] \/ fh'[j].start = x
          BY <2>1, <2>4 DEF Opened
        <5> QED
          BY <1>2, <2>6, <2>9, <3>1, <5>1, <5>2 DEF OpenInv
      <4> QED
        BY <4>1, <4>2
    <3>2. \A k \in Opened : fh'[k].file = fh[k].file /\ fh'[k].size = fh[k].size
      BY <2>1, <2>4 DEF Opened
    <3>3. \A k \in Opened, j \in Opened : fh'[k].file = fh'[j].file => k = j
      BY <1>2, <3>2 DEF OpenInv
    <3>4. ASSUME NEW k \in Opened
          PROVE  \/ fh'[k].start = dirent[fh[k].file].start
                 \/ dirent[fh[k].file].start = 0
      BY <1>2, <2>4 DEF OpenInv, Emptying, Opened
    <3>5. \A k \in Opened : dirent[fh[k].file].start = 0 => fh'[k].size = 0
      BY <1>2, <3>2 DEF OpenInv
    <3> QED
      BY <1>1, <2>5, <3>1, <3>2, <3>3, <3>4, <3>5 DEF OpenInv
  <2>12. WorkInv'
    BY <1>2, <2>0, <2>1, <2>3, <2>4, <2>6, <2>7 DEF WorkInv
  <2> QED
    BY <2>6, <2>10, <2>11, <2>12 DEF HeadsInv
<1> QED
  BY <1>4, <1>5, <1>6, <1>7

\* A step along the chain leaves the chains as they are.
LEMMA WalkOnHeads == ASSUME TypeOK, HeadsInv, WalkOn PROVE HeadsInv'
<1>1. /\ op.pc = "walk" /\ ~LastCluster /\ Next0 \in Clusters
      /\ UNCHANGED <<fat, dirent, fh>>
  BY NextLink, LinkAbove DEF WalkOn, card
<1>2. op' = [op EXCEPT !.cluster = Next0, !.left = op.left - BlocksPerCluster]
  BY DEF WalkOn
<1>3. /\ Linked(fat) /\ EntryInv /\ OpenInv /\ op # Idle /\ op \in Resizes
      /\ op.size # 0 /\ fh[op.h].start \in Clusters /\ op.cluster \in Clusters
  BY <1>1, WorkFacts
<1>4. /\ op'.pc = "walk" /\ op'.cluster = Next0 /\ op'.h = op.h /\ op'.size = op.size
      /\ op'.fresh = op.fresh /\ op' # Idle
  BY <1>1, <1>2, <1>3 DEF Resizes, Idle
<1>5. ~op.fresh /\ Next0 = fat[op.cluster]
  <2>1. ~op.fresh
    BY <1>1, ValueTypes DEF Next0
  <2>2. Entry(op.cluster) = EntryOf(fat, op.cluster)
    BY <1>3, ValueTypes, EntryLink
  <2>3. EntryOf(fat, op.cluster) = fat[op.cluster]
    BY <1>3, EntryType, ValueTypes DEF Linked
  <2> QED
    BY <2>1, <2>2, <2>3 DEF Next0
<1>6. EntryInv' /\ OpenInv'
  BY <1>1, <1>3, <1>4, HeadsCut, ValueTypes
<1>7. WorkInv'
  BY <1>1, <1>3, <1>4, <1>5 DEF WorkInv, Linked
<1> QED
  BY <1>1, <1>3, <1>6, <1>7 DEF HeadsInv

\* The next cluster, where the table is asked for it.
LEMMA NextIs ==
  ASSUME TypeOK, op.pc # "idle", op.cluster \in Clusters
  PROVE  /\ op.fresh => Next0 = Free
         /\ ~op.fresh => Next0 = fat[op.cluster]
         /\ Next0 \in Links
<1>1. Entry(op.cluster) = EntryOf(fat, op.cluster)
  BY ValueTypes, EntryLink
<1>2. EntryOf(fat, op.cluster) = fat[op.cluster]
  BY EntryType, ValueTypes DEF TypeOK, Tables
<1> QED
  BY <1>1, <1>2, NextLink DEF Next0

\* The chain is cut at its new end, and the clusters after it are held by the resize alone.
LEMMA CutHeads == ASSUME Orderly, TypeOK, HeadsInv, CutChain PROVE HeadsInv'
<1>1. op.pc = "walk" /\ UNCHANGED <<dirent, fh>> /\ Cut
  BY DEF CutChain
<1>2. /\ Linked(fat) /\ EntryInv /\ OpenInv /\ op # Idle /\ op \in Resizes /\ op.h \in Handles
      /\ op.size # 0 /\ fh[op.h].start \in Clusters /\ op.cluster \in Clusters
      /\ (op.fresh => fat[op.cluster] = Eoc)
  BY <1>1, WorkFacts
<1>3. \/ fat' = Changed(fat, op.cluster, Eoc) /\ op' = AfterCut
      \/ (fat' = Changed(fat, op.cluster, Eoc) \/ fat' = fat) /\ Return
      \/ fat' = fat /\ op' = AfterCut /\ ~op.fresh /\ ~(Next0 >= 2)
  <2>1. CASE op.fresh \/ Next0 >= 2
    <3>1. SetEntry(op.cluster, Eoc, op' = AfterCut /\ UNCHANGED before, Return)
      BY <1>1, <2>1 DEF Cut
    <3> QED
      BY <3>1 DEF SetEntry, Changed
  <2>2. CASE ~(op.fresh \/ Next0 >= 2)
    BY <1>1, <2>2 DEF Cut
  <2> QED
    BY <2>1, <2>2
<1>4. Linked(fat)' /\ EntryInv' /\ OpenInv'
  BY <1>1, <1>2, <1>3, HeadsCut
<1>5. CASE Return
  BY <1>4, <1>5, ReturnHeads
<1>6. CASE op' = AfterCut
  <2>1. /\ op'.pc = IF ~op.fresh /\ Next0 >= 2 THEN "free" ELSE "entry"
        /\ op'.cluster = Next0 /\ op'.h = op.h /\ op'.size = op.size /\ op' # Idle
    BY <1>2, <1>6 DEF AfterCut, Resizes, Idle
  <2>2. ASSUME op'.pc = "entry" PROVE WorkInv'
    <3>1. op'.size # 0 /\ fh'[op'.h].start \in Clusters
      BY <1>1, <1>2, <2>1
    <3> QED
      BY <2>2, <3>1 DEF WorkInv
  <2>3. ASSUME op'.pc = "free" PROVE WorkInv'
    <3>1. ~op.fresh /\ Next0 = fat[op.cluster] /\ Next0 \in Clusters
      BY <1>1, <1>2, <2>1, <2>3, NextIs, LinkAbove
    <3>2. fat' = Changed(fat, op.cluster, Eoc)
      BY <1>3, <1>6, <2>1, <2>3 DEF Return
    <3>3. /\ IsFirst(fat', Next0)
          /\ \A s \in Clusters : fat[s] # Free => fat'[s] # Free
      BY <1>2, <3>1, <3>2, CutLinks
    <3>4. fat'[Next0] # Free
      BY <1>2, <3>1, <3>3 DEF Linked
    <3>5. \A f \in Files : dirent[f].start # Next0
      BY <1>2, <3>1 DEF EntryInv, IsFirst
    <3>6. \A h \in Opened : fh[h].start # Next0
      BY <1>2, <3>1 DEF OpenInv, IsFirst
    <3>7. Opened' = Opened
      BY <1>1 DEF Opened
    <3> QED
      <4>1. op'.size # 0 /\ fh'[op'.h].start \in Clusters
        BY <1>1, <1>2, <2>1
      <4> QED
        BY <1>1, <2>1, <2>3, <3>3, <3>4, <3>5, <3>6, <3>7, <4>1 DEF WorkInv
  <2>4. WorkInv'
    BY <2>1, <2>2, <2>3
  <2> QED
    BY <1>4, <2>4 DEF HeadsInv
<1> QED
  BY <1>3, <1>5, <1>6

\* The cluster that a growing file takes is a free one.
LEMMA GrowHeads == ASSUME Orderly, TypeOK, HeadsInv, Grow PROVE HeadsInv'
<1>1. op.pc = "walk" /\ UNCHANGED <<dirent, fh>> /\ Next0 < 2
  BY DEF Grow
<1>2. /\ Linked(fat) /\ EntryInv /\ OpenInv /\ op # Idle /\ op \in Resizes /\ op.h \in Handles
      /\ op.size # 0 /\ fh[op.h].start \in Clusters /\ op.cluster \in Clusters
      /\ fat[op.cluster] # Free /\ (op.fresh => fat[op.cluster] = Eoc)
  BY <1>1, WorkFacts
<1>3. fat[op.cluster] = Eoc
  <2>1. CASE op.fresh
    BY <1>2, <2>1
  <2>2. CASE ~op.fresh
    <3>1. fat[op.cluster] \notin Clusters
      BY <1>1, <1>2, <2>2, NextIs, LinkAbove
    <3> QED
      BY <1>2, <3>1 DEF Linked, Tables, FatValues
  <2> QED
    BY <1>2, <2>1, <2>2 DEF Resizes
<1> DEFINE D == op' = [op EXCEPT !.pc = "link", !.next = FirstFree, !.fresh = TRUE]
           F == op' = [op EXCEPT !.pc = "terminate"]
<1>4. \/ F /\ fat' = fat
      \/ /\ FirstFree \in Clusters /\ fat[FirstFree] = Free
         /\ \/ D /\ fat' = Changed(fat, FirstFree, Eoc)
            \/ F /\ (fat' = fat \/ fat' = Changed(fat, FirstFree, Eoc))
  <2>1. Allocate(D, F)
    BY Zenon DEF Grow
  <2> QED
    BY <2>1, AllocateCases
<1>5. Opened' = Opened
  BY <1>1 DEF Opened
<1>6. CASE FirstFree \in Clusters /\ fat[FirstFree] = Free
           /\ (fat' = fat \/ fat' = Changed(fat, FirstFree, Eoc))
  <2> DEFINE x == FirstFree
  <2>1. x \in Clusters /\ fat[x] = Free /\ (fat' = fat \/ fat' = Changed(fat, x, Eoc)) /\ x # op.cluster
    BY <1>2, <1>6
  <2>2. D \/ F => op' # Idle /\ op'.h = op.h /\ op'.size = op.size /\ op'.cluster = op.cluster
                  /\ op'.pc \in {"link", "terminate"}
    BY <1>2 DEF Resizes, Idle
  <2>3. D => op'.next = x /\ op'.pc = "link"
    BY <1>2 DEF Resizes
  <2>4. F => op'.pc = "terminate"
    BY <1>2 DEF Resizes
  <2>5. Linked(fat)' /\ EntryInv' /\ OpenInv'
    BY <1>1, <1>2, <2>1, HeadsCut
  <2>6. /\ \A s \in Clusters : IsFirst(fat, s) => IsFirst(fat', s)
        /\ fat'[op.cluster] = Eoc
        /\ fat' = Changed(fat, x, Eoc) => fat'[x] = Eoc
    <3>1. fat \in Tables /\ Eoc \in FatValues
      BY <1>2, ValueTypes DEF Linked
    <3>2. fat' = Changed(fat, x, Eoc) => fat'[x] = Eoc /\ fat'[op.cluster] = fat[op.cluster]
      BY <1>2, <2>1, <3>1, ChangedType
    <3>3. \A s \in Clusters : IsFirst(fat, s) => IsFirst(fat', s)
      BY <1>2, <2>1, CutLinks
    <3> QED
      BY <1>3, <2>1, <3>2, <3>3
  <2>7. IsFirst(fat', x)
    BY <1>2, <2>1, <2>6, FreeIsFirst
  <2>8. (\A f \in Files : dirent[f].start # x) /\ (\A h \in Opened : fh[h].start # x)
    BY <1>2, <2>1 DEF EntryInv, OpenInv, Emptied
  <2> HIDE DEF x, D, F
  <2>9. F => WorkInv'
    BY <1>1, <1>2, <2>2, <2>4, <2>6, ValueTypes DEF WorkInv
  <2>10. D /\ fat' = Changed(fat, x, Eoc) => WorkInv'
    BY <1>1, <1>2, <1>5, <2>1, <2>2, <2>3, <2>6, <2>7, <2>8, ValueTypes DEF WorkInv
  <2>11. F \/ (D /\ fat' = Changed(fat, x, Eoc))
    BY <1>2, <1>4, <1>6 DEF x
  <2> QED
    BY <2>5, <2>9, <2>10, <2>11 DEF HeadsInv
<1>7. CASE F /\ fat' = fat
  <2>1. op' # Idle /\ op'.h = op.h /\ op'.size = op.size /\ op'.cluster = op.cluster
        /\ op'.pc = "terminate"
    BY <1>2, <1>7 DEF Resizes, Idle
  <2>2. EntryInv' /\ OpenInv' /\ Linked(fat)'
    BY <1>1, <1>2, <1>7, HeadsCut
  <2>3. WorkInv'
    BY <1>1, <1>2, <1>3, <1>7, <2>1, ValueTypes DEF WorkInv
  <2> QED
    BY <2>2, <2>3 DEF HeadsInv
<1> QED
  BY <1>4, <1>6, <1>7

\* The cluster that a growing file took goes to the end of its chain.
LEMMA LinkHeads == ASSUME Orderly, TypeOK, HeadsInv, Link PROVE HeadsInv'
<1>1. op.pc = "link" /\ UNCHANGED <<dirent, fh>>
  BY DEF Link
<1>2. /\ Linked(fat) /\ EntryInv /\ OpenInv /\ op # Idle /\ op \in Resizes /\ op.h \in Handles
      /\ op.size # 0 /\ fh[op.h].start \in Clusters /\ op.cluster \in Clusters
      /\ op.next \in Clusters /\ fat[op.next] = Eoc /\ op.next # op.cluster
  BY <1>1, WorkFacts
<1> DEFINE D == /\ op' = [op EXCEPT !.pc = "walk", !.cluster = op.next,
                                    !.left = @ - BlocksPerCluster]
                /\ UNCHANGED before
<1>3. \/ fat' = Changed(fat, op.cluster, op.next) /\ D
      \/ (fat' = Changed(fat, op.cluster, op.next) \/ fat' = fat) /\ Return
  BY DEF Link, SetEntry, Changed
<1>4. Linked(fat)' /\ EntryInv' /\ OpenInv'
  BY <1>1, <1>3, HeadsJoin
<1>5. CASE Return
  BY <1>4, <1>5, ReturnHeads
<1>6. CASE fat' = Changed(fat, op.cluster, op.next) /\ D
  <2>1. /\ op'.pc = "walk" /\ op'.cluster = op.next /\ op'.h = op.h /\ op'.size = op.size
        /\ op' # Idle
    BY <1>2, <1>6 DEF Resizes, Idle
  <2>2. fat'[op.next] = Eoc
    <3>1. fat \in Tables /\ op.next \in FatValues
      BY <1>2, ValueTypes DEF Linked
    <3>2. fat'[op.next] = fat[op.next]
      BY <1>2, <1>6, <3>1, ChangedType
    <3> QED
      BY <1>2, <3>2
  <2>3. op'.size # 0 /\ fh'[op'.h].start \in Clusters
    BY <1>1, <1>2, <2>1
  <2>4. WorkInv'
    BY <2>1, <2>2, <2>3, ValueTypes DEF WorkInv
  <2> QED
    BY <1>4, <2>4 DEF HeadsInv
<1> QED
  BY <1>3, <1>5, <1>6

\* The mark of the end is set on the last cluster of a chain.
LEMMA TerminateHeads == ASSUME Orderly, TypeOK, HeadsInv, Terminate PROVE HeadsInv'
<1>1. op.pc = "terminate" /\ UNCHANGED <<dirent, fh>>
  BY DEF Terminate
<1>2. op # Idle /\ op.size # 0 /\ op.cluster \in Clusters
  BY <1>1, WorkFacts
<1>3. (fat' = Changed(fat, op.cluster, Eoc) \/ fat' = fat) /\ Return
  BY DEF Terminate, SetEntry, Changed
<1>4. Linked(fat)' /\ EntryInv' /\ OpenInv'
  BY <1>1, <1>2, <1>3, HeadsCut
<1> QED
  BY <1>3, <1>4, ReturnHeads

\* Letting go of one cluster and going on to the next.
LEMMA FreeCases ==
  ASSUME Orderly, TypeOK, HeadsInv, FreeOne
  PROVE  /\ op.pc = "free" /\ UNCHANGED <<data, dirent, nextFree, fh, full, ops>>
         /\ \/ /\ fat' = Changed(fat, op.cluster, Free) /\ UNCHANGED <<before, faults>>
               /\ op' = IF Next0 < 2 THEN [op EXCEPT !.pc = "entry"]
                                     ELSE [op EXCEPT !.cluster = Next0]
            \/ /\ fat' = Changed(fat, op.cluster, Free) \/ fat' = fat
               /\ Failing /\ Return /\ op.size # 0
<1> DEFINE D == /\ op' = IF Next0 < 2 THEN [op EXCEPT !.pc = "entry"]
                                      ELSE [op EXCEPT !.cluster = Next0]
                /\ UNCHANGED before
<1>1. op.pc = "free" /\ UNCHANGED <<data, dirent, nextFree, fh, full, ops>>
  BY DEF FreeOne
<1>2. \/ fat' = Changed(fat, op.cluster, Free) /\ UNCHANGED faults /\ D
      \/ (fat' = Changed(fat, op.cluster, Free) \/ fat' = fat) /\ Failing /\ Return
  BY DEF FreeOne, SetEntry, Changed, FreeDone, NoFault
<1>3. op # Idle
  BY <1>1, ResizeType
<1>4. Failing => op.size # 0
  BY <1>3, FailingSize
<1> QED
  BY <1>1, <1>2, <1>4

\* A cluster is freed when no entry of the table names it any more.
LEMMA FreeHeads == ASSUME Orderly, TypeOK, HeadsInv, FreeOne PROVE HeadsInv'
<1>1. op.pc = "free" /\ UNCHANGED <<dirent, fh>>
  BY FreeCases
<1>2. /\ Linked(fat) /\ EntryInv /\ OpenInv /\ op # Idle /\ op \in Resizes /\ op.h \in Handles
      /\ (op.size # 0 => fh[op.h].start \in Clusters) /\ op.cluster \in Clusters
      /\ (op.size = 0 => fh[op.h].start = 0)
      /\ IsFirst(fat, op.cluster)
  BY <1>1, WorkFacts
<1> DEFINE D == op' = IF Next0 < 2 THEN [op EXCEPT !.pc = "entry"] ELSE [op EXCEPT !.cluster = Next0]
<1>3. \/ fat' = Changed(fat, op.cluster, Free) /\ D
      \/ (fat' = Changed(fat, op.cluster, Free) \/ fat' = fat) /\ Return /\ op.size # 0
  BY FreeCases
<1>4. D => op' # Idle /\ op'.h = op.h /\ op'.size = op.size
           /\ op'.pc = (IF Next0 < 2 THEN "entry" ELSE "free")
           /\ (~(Next0 < 2) => op'.cluster = Next0)
  BY <1>1, <1>2 DEF Resizes, Idle
<1> HIDE DEF D
<1>5. Linked(fat)' /\ EntryInv' /\ OpenInv'
  BY <1>1, <1>3, <1>4, HeadsFree
<1>6. CASE Return
  BY <1>5, <1>6, ReturnHeads
<1>7. CASE fat' = Changed(fat, op.cluster, Free) /\ D
  <2>1. op'.size = 0 => op'.pc \in {"free", "entry"} /\ fh'[op'.h].start = 0
    BY <1>1, <1>2, <1>4, <1>7
  <2>2. op'.size # 0 => fh'[op'.h].start \in Clusters
    BY <1>1, <1>2, <1>4, <1>7
  <2>3. ASSUME op'.pc = "free"
        PROVE  /\ op'.cluster \in Clusters /\ fat'[op'.cluster] # Free /\ IsFirst(fat', op'.cluster)
               /\ \A f \in Files : dirent[f].start # op'.cluster
               /\ \A h \in Opened : fh[h].start # op'.cluster
    <3>1. ~(Next0 < 2) /\ op'.cluster = Next0
      BY <1>4, <1>7, <2>3
    <3>2. Next0 = fat[op.cluster] /\ Next0 \in Clusters
      BY <1>1, <1>2, <3>1, NextIs, LinkAbove, ValueTypes DEF Resizes
    <3>3. IsFirst(fat', Next0) /\ fat'[Next0] # Free
      BY <1>2, <1>7, <3>2, FreeLinks
    <3>4. (\A f \in Files : dirent[f].start # Next0) /\ (\A h \in Opened : fh[h].start # Next0)
      BY <1>2, <3>2 DEF EntryInv, OpenInv, IsFirst
    <3> QED
      BY <3>1, <3>2, <3>3, <3>4
  <2>4. op' # Idle /\ op'.pc \in {"free", "entry"} /\ Opened' = Opened
    BY <1>1, <1>4, <1>7 DEF Opened
  <2>5. WorkInv'
    BY <1>1, <2>1, <2>2, <2>3, <2>4 DEF WorkInv
  <2> QED
    BY <1>5, <2>5 DEF HeadsInv
<1> QED
  BY <1>3, <1>6, <1>7

\* The entry is written, or its writing fails, with an effect or without.
LEMMA PutCases ==
  ASSUME Orderly, TypeOK, HeadsInv, PutEntry
  PROVE  /\ op.pc = "entry" /\ UNCHANGED <<fat, data, nextFree, full, ops>> /\ Return
         /\ \/ /\ fh' = [fh EXCEPT ![op.h] = [fh[op.h] EXCEPT !.size = op.size]]
               /\ dirent' = [dirent EXCEPT ![fh[op.h].file] =
                               [start |-> fh[op.h].start, size |-> op.size]]
               /\ UNCHANGED faults
            \/ /\ fh' = fh /\ Failing /\ op.size # 0
               /\ \/ dirent' = [dirent EXCEPT ![fh[op.h].file] =
                                  [start |-> fh[op.h].start, size |-> op.size]]
                  \/ dirent' = dirent
<1>1. /\ op.pc = "entry" /\ UNCHANGED <<fat, data, nextFree, full, ops>> /\ Return
      /\ \/ /\ fh' = [fh EXCEPT ![op.h] = [fh[op.h] EXCEPT !.size = op.size]]
            /\ dirent' = [dirent EXCEPT ![fh[op.h].file] =
                            [start |-> fh[op.h].start, size |-> op.size]]
            /\ UNCHANGED faults
         \/ /\ fh' = fh /\ Failing
            /\ \/ dirent' = [dirent EXCEPT ![fh[op.h].file] =
                               [start |-> fh[op.h].start, size |-> op.size]]
               \/ dirent' = dirent
  BY DEF PutEntry, NoFault
<1>2. op # Idle
  BY <1>1, ResizeType
<1>3. Failing => op.size # 0
  BY <1>2, FailingSize
<1> QED
  BY <1>1, <1>3

\* The directory entry takes over the chain of the handle.
LEMMA PutHeads == ASSUME Orderly, TypeOK, HeadsInv, PutEntry PROVE HeadsInv'
<1>1. op.pc = "entry" /\ UNCHANGED fat /\ op' = Idle
  BY PutCases DEF Return
<1>2. /\ Linked(fat) /\ EntryInv /\ OpenInv /\ op # Idle /\ op \in Resizes /\ op.h \in Handles
      /\ op.h \in Opened /\ fh[op.h] \in Handled /\ fh[op.h].file \in Files
      /\ (op.size # 0 => fh[op.h].start \in Clusters)
      /\ (op.size = 0 => fh[op.h].start = 0)
  BY <1>1, WorkFacts
<1> DEFINE h == op.h
           f == fh[op.h].file
           s == fh[op.h].start
<1>3. /\ h \in Opened /\ h \in Handles /\ f \in Files /\ fh[h].file = f /\ fh[h].start = s /\ op.size \in Nat
      /\ (op.size # 0 => s \in Clusters) /\ (op.size = 0 => s = 0)
  BY <1>2 DEF Resizes
<1>4. \A k \in Handles :
        /\ fh'[k] = Closed <=> fh[k] = Closed
        /\ k \in Opened => fh'[k].file = fh[k].file /\ fh'[k].start = fh[k].start
        /\ k \in Opened \ {h} => fh'[k] = fh[k]
  <2> DEFINE r == [fh[op.h] EXCEPT !.size = op.size]
  <2>1. r \in Handled /\ r.file = fh[op.h].file /\ r.start = fh[op.h].start
    BY <1>2, <1>3 DEF Handled
  <2>2. fh' = fh \/ fh' = [fh EXCEPT ![op.h] = r]
    BY PutCases
  <2>3. r # Closed /\ fh[op.h] # Closed
    BY <1>2, <2>1, HandledOpen
  <2> HIDE DEF r
  <2> QED
    BY <1>2, <2>1, <2>2, <2>3 DEF TypeOK
<1>5. \/ dirent' = dirent /\ fh' = fh /\ op.size # 0
      \/ /\ dirent'[f] = [start |-> s, size |-> op.size]
         /\ \A g \in Files \ {f} : dirent'[g] = dirent[g]
         /\ fh' = fh \/ fh'[h].size = op.size
         /\ op.size # 0 \/ fh'[h].size = op.size
  <2> DEFINE e == [start |-> fh[op.h].start, size |-> op.size]
             r == [fh[op.h] EXCEPT !.size = op.size]
  <2>1. r.size = op.size
    BY <1>2 DEF Handled
  <2>2. \/ fh' = [fh EXCEPT ![op.h] = r] /\ dirent' = [dirent EXCEPT ![fh[op.h].file] = e]
        \/ fh' = fh /\ op.size # 0 /\ (dirent' = [dirent EXCEPT ![fh[op.h].file] = e] \/ dirent' = dirent)
    BY PutCases
  <2> HIDE DEF r, e
  <2>3. /\ fh' = [fh EXCEPT ![op.h] = r] => fh'[op.h].size = op.size
        /\ dirent' = [dirent EXCEPT ![fh[op.h].file] = e] =>
             dirent'[fh[op.h].file] = e /\ \A g \in Files \ {fh[op.h].file} : dirent'[g] = dirent[g]
    BY <1>2, <2>1 DEF TypeOK
  <2> QED
    BY <2>2, <2>3 DEF e
<1> HIDE DEF h, f, s
<1>6. Opened' = Opened
  BY <1>4 DEF Opened
<1>7. CASE dirent' = dirent /\ fh' = fh /\ op.size # 0
  BY <1>1, <1>2, <1>7, HeadsCut, ReturnHeads, PutCases, ValueTypes
<1>8. CASE /\ dirent'[f] = [start |-> s, size |-> op.size]
           /\ \A g \in Files \ {f} : dirent'[g] = dirent[g]
           /\ fh' = fh \/ fh'[h].size = op.size
           /\ op.size # 0 \/ fh'[h].size = op.size
  <2>1. dirent'[f].start = s /\ dirent'[f].size = op.size
    BY <1>8
  <2>2. s \in Clusters => /\ IsFirst(fat, s) /\ fat[s] # Free
                          /\ \A g \in Files \ {f} : dirent[g].start # s
                          /\ \A k \in Opened \ {h} : fh[k].start # s
    BY <1>2, <1>3 DEF OpenInv
  <2>3. \A g \in Files \ {f} : ~Emptied(g)
    BY <1>3 DEF Emptied, f
  <2>4. EntryInv'
    <3>1. ASSUME NEW g \in Files, dirent'[g].start \in Clusters
          PROVE  /\ IsFirst(fat, dirent'[g].start) /\ fat[dirent'[g].start] # Free
                 /\ \A j \in Files \ {g} : dirent'[j].start # dirent'[g].start
      <4>1. CASE g = f
        BY <1>8, <2>1, <2>2, <3>1, <4>1
      <4>2. CASE g # f
        <5>1. dirent'[g] = dirent[g] /\ ~Emptied(g)
          BY <1>8, <2>3, <4>2
        <5>2. \A j \in Files \ {g} : dirent[j].start # dirent[g].start
          BY <1>2, <3>1, <5>1 DEF EntryInv
        <5>3. dirent'[f].start # dirent[g].start
          BY <2>1, <2>2, <3>1, <4>2, <5>1
        <5> QED
          BY <1>2, <1>8, <3>1, <4>2, <5>1, <5>2, <5>3 DEF EntryInv
      <4> QED
        BY <4>1, <4>2
    <3>2. ASSUME NEW g \in Files, dirent'[g].start = 0 PROVE dirent'[g].size = 0
      <4>1. CASE g = f
        BY <1>3, <2>1, <3>2, <4>1, ValueTypes
      <4>2. CASE g # f
        BY <1>2, <1>8, <3>2, <4>2 DEF EntryInv
      <4> QED
        BY <4>1, <4>2
    <3> QED
      BY <1>1, <3>1, <3>2 DEF EntryInv
  <2>5. OpenInv'
    <3>1. ASSUME NEW k \in Opened PROVE fh'[k].file = fh[k].file /\ fh'[k].start = fh[k].start
      BY <1>4 DEF Opened
    <3>2. ASSUME NEW k \in Opened, fh[k].start \in Clusters
          PROVE  /\ IsFirst(fat, fh[k].start) /\ fat[fh[k].start] # Free
                 /\ \A g \in Files \ {fh[k].file} : dirent'[g].start # fh[k].start
                 /\ \A j \in Opened \ {k} : fh[j].start # fh[k].start
      <4>1. /\ IsFirst(fat, fh[k].start) /\ fat[fh[k].start] # Free
            /\ \A g \in Files \ {fh[k].file} : dirent[g].start # fh[k].start
            /\ \A j \in Opened \ {k} : fh[j].start # fh[k].start
        BY <1>2, <3>2 DEF OpenInv
      <4>2. fh[k].file # f => s # fh[k].start
        BY <1>3, <4>1
      <4> QED
        BY <1>8, <2>1, <4>1, <4>2
    <3>3. \A k \in Opened, j \in Opened : fh[k].file = fh[j].file => k = j
      BY <1>2 DEF OpenInv
    <3>4. ASSUME NEW k \in Opened
          PROVE  /\ \/ fh[k].start = dirent'[fh[k].file].start
                    \/ dirent'[fh[k].file].start = 0
                 /\ dirent'[fh[k].file].start = 0 => fh'[k].size = 0
      <4>1. CASE k = h
        BY <1>3, <1>8, <2>1, <4>1, ValueTypes
      <4>2. CASE k # h
        <5>1. fh[k].file # f /\ fh[k].file \in Files
          BY <1>3, <3>3, <4>2, OpenType DEF Opened, Handled
        <5>2. fh'[k] = fh[k] /\ dirent'[fh[k].file] = dirent[fh[k].file]
          BY <1>4, <1>8, <4>2, <5>1 DEF Opened
        <5>3. ~Emptying(k)
          BY <4>2 DEF Emptying, h
        <5> QED
          BY <1>2, <5>2, <5>3 DEF OpenInv
      <4> QED
        BY <4>1, <4>2
    <3> QED
      BY <1>1, <1>6, <3>1, <3>2, <3>3, <3>4 DEF OpenInv
  <2> QED
    BY <1>1, <1>2, <2>4, <2>5, ReturnHeads, PutCases
<1> QED
  BY <1>5, <1>7, <1>8

\* Losing power in a resize leaves the chains that the card has.
LEMMA OffHeads == ASSUME Orderly, TypeOK, HeadsInv, PowerOff PROVE HeadsInv'
<1>1. Linked(fat) /\ EntryInv
  BY DEF HeadsInv
<1>2. UNCHANGED <<fat, dirent>> /\ Return /\ fh' = [k \in Handles |-> Closed] /\ op' = Idle
  BY DEF PowerOff, card, Return
<1>3. \A f \in Files : ~Emptied(f)
  <2>1. CASE op = Idle
    BY <2>1 DEF Emptied
  <2>2. CASE op # Idle
    BY <2>2, FailingSize DEF Emptied, PowerOff
  <2> QED
    BY <2>1, <2>2
<1>4. EntryInv'
  BY <1>1, <1>2, <1>3 DEF EntryInv
<1>5. OpenInv'
  <2>1. Opened' = {}
    BY <1>2 DEF Opened
  <2> QED
    BY <2>1 DEF OpenInv
<1> QED
  BY <1>1, <1>2, <1>4, <1>5, ReturnHeads

\* A failed resize leaves the chains that the card has.
LEMMA FailsHeads == ASSUME Orderly, TypeOK, HeadsInv, SetSizeFails PROVE HeadsInv'
<1>1. op.pc \in {"walk", "entry"} /\ Failing /\ Return /\ UNCHANGED <<fat, dirent, fh>>
  BY DEF SetSizeFails, card
<1>2. op # Idle /\ op.size # 0
  BY <1>1, ResizeType, FailingSize
<1> QED
  BY <1>1, <1>2, HeadsCut, ReturnHeads, ValueTypes

\* Every step keeps the chains apart.
LEMMA HeadsStep == ASSUME Orderly, TypeOK, HeadsInv, [Next]_vars PROVE HeadsInv'
<1>1. CASE UNCHANGED vars
  <2>1. fat' = fat /\ dirent' = dirent /\ fh' = fh /\ op' = op
    BY <1>1 DEF vars, card
  <2>2. Linked(fat)' /\ EntryInv'
    BY <2>1 DEF HeadsInv, EntryInv, Emptied
  <2>3. Opened' = Opened
    BY <2>1 DEF Opened
  <2>4. OpenInv'
    BY <2>1, <2>3 DEF HeadsInv, OpenInv, Emptying
  <2>5. WorkInv'
    BY <2>1, <2>3 DEF HeadsInv, WorkInv
  <2> QED
    BY <2>2, <2>4, <2>5 DEF HeadsInv
<1> QED
  BY <1>1, OpenHeads, CloseHeads, SetPosHeads, TransferHeads, SetSizeHeads, FirstHeads, WalkOnHeads,
     CutHeads, GrowHeads, LinkHeads, TerminateHeads, FreeHeads, PutHeads, FailsHeads, OffHeads,
     Zenon DEF Next

\* Chains of the entries, given where they begin.
LEMMA ApartOf == ASSUME TypeOK, HeadsInv PROVE ChainsApart
<1>1. Linked(fat) /\ EntryInv /\ fat \in Tables
  BY DEF HeadsInv, Linked
<1>2. ASSUME NEW f \in Files, NEW c \in Chain(f)
      PROVE  \E n \in Nat : /\ c = FollowOf(fat, dirent[f].start, n) /\ c \in Clusters
                            /\ dirent[f].start \in Clusters
  <2>1. PICK n \in 0..Cardinality(Clusters) : c = Follow(dirent[f].start, n) /\ c \in Clusters
    BY <1>2 DEF Chain
  <2>2. n \in Nat /\ c = FollowOf(fat, dirent[f].start, n)
    BY <2>1, FollowIsOf, ClustersFinite
  <2>3. dirent[f].start \in Clusters
    <3>1. dirent[f].start \in Clusters \cup {0}
      BY DEF TypeOK
    <3>2. dirent[f].start \in Links
      BY <3>1, ValueTypes
    <3> QED
      BY <1>1, <2>1, <2>2, <3>2, FollowNowhere
  <2> QED
    BY <2>1, <2>2, <2>3
<1>3. ASSUME NEW f \in Files, NEW g \in Files \ {f}, NEW c \in Chain(f), c \in Chain(g) PROVE FALSE
  <2>1. PICK m \in Nat : c = FollowOf(fat, dirent[f].start, m) /\ c \in Clusters /\ dirent[f].start \in Clusters
    BY <1>2
  <2>2. PICK n \in Nat : c = FollowOf(fat, dirent[g].start, n) /\ dirent[g].start \in Clusters
    BY <1>2, <1>3
  <2>3. IsFirst(fat, dirent[f].start) /\ IsFirst(fat, dirent[g].start)
        /\ dirent[g].start # dirent[f].start
    BY <1>1, <2>1, <2>2 DEF EntryInv
  <2> DEFINE s == dirent[f].start
             t == dirent[g].start
  <2>4. /\ s \in Clusters /\ t \in Clusters /\ IsFirst(fat, s) /\ IsFirst(fat, t) /\ s # t
        /\ FollowOf(fat, s, m) \in Clusters /\ FollowOf(fat, s, m) = FollowOf(fat, t, n)
    BY <2>1, <2>2, <2>3
  <2> HIDE DEF s, t
  <2> QED
    BY <1>1, <2>4, ChainsMeet
<1>4. ASSUME NEW f \in Files PROVE Follow(dirent[f].start, Cardinality(Clusters)) < 2
  <2> DEFINE s == dirent[f].start
             e == FollowOf(fat, s, NumClusters)
  <2>1. s \in Clusters \cup {0} /\ s \in Links /\ NumClusters \in Nat
    BY ValueTypes, FatAssumption DEF TypeOK
  <2>2. e \notin Clusters
    <3>1. CASE s \in Clusters
      <4>1. IsFirst(fat, s)
        BY <1>1, <3>1 DEF EntryInv
      <4> QED
        BY <1>1, <2>1, <4>1, ChainIsShort
    <3>2. CASE s \notin Clusters
      BY <1>1, <2>1, <3>2, FollowNowhere
    <3> QED
      BY <3>1, <3>2
  <2>3. e \in Links
    BY <1>1, <2>1, FollowType
  <2>4. Follow(s, Cardinality(Clusters)) = e
    BY FollowIsOf, ClustersFinite
  <2> HIDE DEF e
  <2> QED
    BY <2>2, <2>3, <2>4, LinkAbove
<1>5. ASSUME NEW f \in Files, ~Emptied(f), NEW c \in Chain(f) PROVE fat[c] # Free
  <2>1. PICK n \in Nat : c = FollowOf(fat, dirent[f].start, n) /\ c \in Clusters /\ dirent[f].start \in Clusters
    BY <1>2
  <2>2. fat[dirent[f].start] # Free
    BY <1>1, <1>5, <2>1 DEF EntryInv
  <2> QED
    BY <1>1, <2>1, <2>2, ChainInUse
<1> QED
  BY <1>3, <1>4, <1>5 DEF ChainsApart

\* However files are resized, and whatever fails or is cut off but the emptying of a file,
\* no two files share a cluster, none is in a file and free, and every chain ends.
THEOREM ChainsStayApart ==
  "alias" \notin Hazards /\ "torn" \notin Hazards => (Spec => []ChainsApart)
<1> SUFFICES ASSUME Orderly PROVE Spec => []ChainsApart
  BY DEF Orderly
<1>1. Init => TypeOK /\ HeadsInv
  BY InitType, HeadsInit
<1>2. TypeOK /\ HeadsInv /\ [Next]_vars => (TypeOK /\ HeadsInv)'
  BY TypeStep, HeadsStep
<1>3. TypeOK /\ HeadsInv => ChainsApart
  BY ApartOf
<1> QED
  BY <1>1, <1>2, <1>3, PTL DEF Spec

----------------------------------------------------------------------------
(* What a resize does to the chains of the other files.                     *)

\* A walk along a chain is on it, and as far as the blocks it has left say.
WalkInv ==
  /\ op.pc = "first" => op.left = Blocks(op.size)
  /\ op.pc \in {"walk", "link", "terminate"} =>
       \E k \in Nat : /\ op.cluster = FollowOf(fat, fh[op.h].start, k)
                      /\ k * BlocksPerCluster + op.left = Blocks(op.size)

\* The blocks of one more cluster are behind the walk.
LEMMA OnePart ==
  ASSUME NEW b \in Nat, NEW k \in Nat, NEW l \in Nat
  PROVE  (k + 1) * b + (l - b) = k * b + l
<1>1. (k + 1) * b = k * b + b /\ k * b \in Nat
  BY Product
<1> QED
  BY <1>1

\* A step of a resize changes at most one entry of the table, and which one depends on where it is.
LEMMA WalkSteps ==
  ASSUME Orderly, TypeOK, HeadsInv,
         First \/ WalkOn \/ CutChain \/ Grow \/ Link \/ Terminate \/ FreeOne \/ PutEntry \/ SetSizeFails
  PROVE  /\ op.pc # "idle" /\ op # Idle
         /\ \/ fat' = fat
            \/ /\ op.pc \in {"first", "walk"} /\ fat' = Changed(fat, FirstFree, Eoc)
               /\ FirstFree \in Clusters /\ fat[FirstFree] = Free
            \/ op.pc \in {"walk", "terminate"} /\ fat' = Changed(fat, op.cluster, Eoc)
            \/ op.pc = "link" /\ fat' = Changed(fat, op.cluster, op.next)
            \/ op.pc = "free" /\ fat' = Changed(fat, op.cluster, Free)
<1>0. op.pc # "idle"
  BY DEF First, WalkOn, CutChain, Grow, Link, Terminate, FreeOne, PutEntry, SetSizeFails
<1>1. op # Idle
  BY <1>0, ResizeType
<1>2. CASE First \/ Grow
  <2>1. ASSUME NEW ACTION D, NEW ACTION F, Allocate(D, F)
        PROVE  \/ fat' = fat
               \/ /\ fat' = Changed(fat, FirstFree, Eoc)
                  /\ FirstFree \in Clusters /\ fat[FirstFree] = Free
    BY <2>1, AllocateCases
  <2>2. CASE First
    <3>1. op.pc = "first"
      BY <2>2 DEF First
    <3>2. Allocate(/\ op' = [op EXCEPT !.pc = "walk", !.cluster = FirstFree, !.fresh = TRUE]
              /\ fh' = [fh EXCEPT ![op.h].start = FirstFree, ![op.h].cur = FirstFree,
                                  ![op.h].pos = 0]
              /\ UNCHANGED before,
              Return /\ UNCHANGED fh)
      BY <2>2, Zenon DEF First
    <3> QED
      BY <1>0, <1>1, <2>1, <3>1, <3>2
  <2>3. CASE Grow
    <3>1. op.pc = "walk"
      BY <2>3 DEF Grow
    <3>2. Allocate(op' = [op EXCEPT !.pc = "link", !.next = FirstFree, !.fresh = TRUE],
              op' = [op EXCEPT !.pc = "terminate"])
      BY <2>3, Zenon DEF Grow
    <3> QED
      BY <1>0, <1>1, <2>1, <3>1, <3>2
  <2> QED
    BY <1>2, <2>2, <2>3
<1>3. CASE WalkOn \/ PutEntry \/ SetSizeFails
  BY <1>0, <1>1, <1>3 DEF WalkOn, PutEntry, SetSizeFails, card
<1>4. CASE CutChain
  BY <1>0, <1>1, <1>4 DEF CutChain, Cut, SetEntry, Changed
<1>5. CASE Link
  BY <1>0, <1>1, <1>5 DEF Link, SetEntry, Changed
<1>6. CASE Terminate
  BY <1>0, <1>1, <1>6 DEF Terminate, SetEntry, Changed
<1>7. CASE FreeOne
  BY <1>0, <1>1, <1>7, FreeCases
<1> QED
  BY <1>2, <1>3, <1>4, <1>5, <1>6, <1>7

\* Where other files begin, by their entries or their handles.
Foreign(s) ==
  \/ \E g \in Files \ {fh[op.h].file} : s = dirent[g].start
  \/ \E k \in Opened \ {op.h} : s = fh[k].start

\* The chains of the other files begin away from the resize.
LEMMA ForeignFirst ==
  ASSUME TypeOK, HeadsInv, op.pc # "idle", NEW s, Foreign(s)
  PROVE  /\ s \in Clusters \cup {0} /\ s \in Links
         /\ s \in Clusters => /\ IsFirst(fat, s) /\ fat[s] # Free
                              /\ s # fh[op.h].start
                              /\ op.pc = "free" => s # op.cluster
                              /\ op.pc = "link" => s # op.next
<1>1. /\ EntryInv /\ OpenInv /\ op # Idle
      /\ op.h \in Opened /\ fh[op.h] \in Handled /\ fh[op.h].file \in Files
      /\ op.pc = "free" =>
           /\ \A f \in Files : dirent[f].start = op.cluster => op.size = 0 /\ f = fh[op.h].file
           /\ \A h \in Opened : fh[h].start # op.cluster
      /\ op.pc = "link" =>
           /\ \A f \in Files : dirent[f].start # op.next
           /\ \A h \in Opened : fh[h].start # op.next
  BY WorkFacts
<1>2. CASE \E g \in Files \ {fh[op.h].file} : s = dirent[g].start
  <2>1. PICK g \in Files \ {fh[op.h].file} : s = dirent[g].start
    BY <1>2
  <2>2. ~Emptied(g)
    BY DEF Emptied
  <2>3. s \in Clusters \cup {0}
    BY <2>1 DEF TypeOK
  <2>4. s \in Clusters => IsFirst(fat, s) /\ fat[s] # Free
    BY <1>1, <2>1, <2>2 DEF EntryInv
  <2>5. s \in Clusters => s # fh[op.h].start
    BY <1>1, <2>1 DEF OpenInv
  <2> QED
    BY <1>1, <2>1, <2>3, <2>4, <2>5, ValueTypes
<1>3. CASE \E k \in Opened \ {op.h} : s = fh[k].start
  <2>1. PICK k \in Opened \ {op.h} : s = fh[k].start
    BY <1>3
  <2>2. s \in Clusters \cup {0}
    BY <2>1, OpenType DEF Opened, Handled
  <2>3. s \in Clusters => IsFirst(fat, s) /\ fat[s] # Free /\ s # fh[op.h].start
    BY <1>1, <2>1 DEF OpenInv
  <2> QED
    BY <1>1, <2>1, <2>2, <2>3, ValueTypes
<1> QED
  BY <1>2, <1>3 DEF Foreign

\* Past the end of a chain a change of the table is not seen.
LEMMA NowhereKept ==
  ASSUME NEW t \in Tables, NEW x \in Clusters, NEW v \in FatValues, NEW c \in Links,
         c \notin Clusters, NEW n \in Nat
  PROVE  FollowOf(Changed(t, x, v), c, n) = FollowOf(t, c, n)
<1>1. \A k \in Nat : FollowOf(t, c, k) # x
  BY FollowNowhere
<1> QED
  BY <1>1, FollowAway

\* A step of a resize changes no link of the chain of another file.
LEMMA ForeignKept ==
  ASSUME Orderly, TypeOK, HeadsInv, WalkInv,
         First \/ WalkOn \/ CutChain \/ Grow \/ Link \/ Terminate \/ FreeOne \/ PutEntry \/ SetSizeFails,
         NEW s, Foreign(s), NEW n \in Nat
  PROVE  FollowOf(fat', s, n) = FollowOf(fat, s, n)
<1>1. Linked(fat) /\ fat \in Tables
  BY DEF HeadsInv, Linked
<1>2. op.pc # "idle" /\ op # Idle
  BY WalkSteps
<1>3. /\ s \in Clusters \cup {0} /\ s \in Links
      /\ s \in Clusters => /\ IsFirst(fat, s) /\ fat[s] # Free
                           /\ s # fh[op.h].start
                           /\ op.pc = "free" => s # op.cluster
  BY <1>2, ForeignFirst
<1>4. /\ op.pc \in {"walk", "link", "terminate"} =>
           /\ op.cluster \in Clusters /\ fh[op.h].start \in Clusters
           /\ IsFirst(fat, fh[op.h].start)
      /\ op.pc = "link" => op.next \in FatValues
      /\ op.pc = "free" => op.cluster \in Clusters /\ IsFirst(fat, op.cluster)
  <2>1. /\ op.h \in Opened /\ OpenInv
        /\ op.pc \in {"walk", "link", "terminate"} => op.cluster \in Clusters /\ fh[op.h].start \in Clusters
        /\ op.pc = "link" => op.next \in Clusters
        /\ op.pc = "free" => op.cluster \in Clusters /\ IsFirst(fat, op.cluster)
    BY <1>2, WorkFacts
  <2>2. fh[op.h].start \in Clusters => IsFirst(fat, fh[op.h].start)
    BY <2>1 DEF OpenInv
  <2> QED
    BY <2>1, <2>2, ValueTypes
<1>5. CASE s \notin Clusters
  <2>1. Eoc \in FatValues /\ Free \in FatValues
    BY ValueTypes
  <2>2. \/ fat' = fat
        \/ \E x \in Clusters, v \in FatValues : fat' = Changed(fat, x, v)
    BY <1>4, <2>1, WalkSteps
  <2> QED
    BY <1>1, <1>3, <1>5, <2>2, NowhereKept
<1>6. CASE s \in Clusters
  <2>1. CASE fat' = fat
    BY <2>1
  <2>2. CASE fat' = Changed(fat, FirstFree, Eoc) /\ FirstFree \in Clusters /\ fat[FirstFree] = Free
    BY <1>1, <1>3, <1>6, <2>2, AwayFromFree, ValueTypes
  <2>3. ASSUME op.pc \in {"walk", "link", "terminate"}, NEW v \in FatValues,
               fat' = Changed(fat, op.cluster, v)
        PROVE  FollowOf(fat', s, n) = FollowOf(fat, s, n)
    <3> DEFINE d == fh[op.h].start
               x == op.cluster
    <3>1. PICK k \in Nat : x = FollowOf(fat, d, k)
      BY <2>3 DEF WalkInv
    <3>2. d \in Clusters /\ IsFirst(fat, d) /\ x \in Clusters /\ s # d /\ fat' = Changed(fat, x, v)
          /\ IsFirst(fat, s)
      BY <1>3, <1>4, <1>6, <2>3
    <3> HIDE DEF d, x
    <3> QED
      BY <1>1, <1>6, <3>1, <3>2, AwayFromOther
  <2>4. CASE op.pc = "free" /\ fat' = Changed(fat, op.cluster, Free)
    <3> DEFINE x == op.cluster
    <3>1. x \in Clusters /\ IsFirst(fat, x) /\ s # x /\ fat' = Changed(fat, x, Free)
          /\ Free \in FatValues
      BY <1>3, <1>4, <1>6, <2>4, ValueTypes
    <3> HIDE DEF x
    <3> QED
      BY <1>1, <1>3, <3>1, AwayFromFirst
  <2> QED
    BY <1>4, <2>1, <2>2, <2>3, <2>4, WalkSteps, ValueTypes
<1> QED
  BY <1>5, <1>6

\* Every step keeps the resize inside the chain of its own file.
LEMMA WalkStep == ASSUME Orderly, TypeOK, HeadsInv, WalkInv, [Next]_vars PROVE WalkInv'
<1> DEFINE s == fh[op.h].start
<1>0. Linked(fat) /\ fat \in Tables
  BY DEF HeadsInv, Linked
<1>1. ASSUME Return PROVE WalkInv'
  BY <1>1 DEF Return, WalkInv, Idle
<1>2. ASSUME op = Idle, op' = Idle PROVE WalkInv'
  BY <1>2 DEF WalkInv, Idle
<1>3. ASSUME NEW h \in Handles, NEW n \in Sizes, SetSize(h, n) PROVE WalkInv'
  <2>1. fh[h] # Closed /\ op'.h = h /\ op'.cluster = fh[h].start /\ fat' = fat
        /\ (op'.pc \in {"walk", "link", "terminate"} => fh' = fh)
    BY <1>3 DEF SetSize, card
  <2>2. FollowOf(fat, fh[h].start, 0) = fh[h].start
    BY FollowSteps
  <2>3. op'.left = Blocks(n) /\ op'.size = n
    BY <1>3 DEF SetSize
  <2>4. 0 * BlocksPerCluster + Blocks(n) = Blocks(n)
    BY BlocksType, FatAssumption
  <2> QED
    BY <2>1, <2>2, <2>3, <2>4 DEF WalkInv
<1>4. CASE First
  <2>1. op.pc = "first" /\ op \in Resizes /\ op.h \in Handles /\ fh[op.h] \in Handled
    BY <1>4, WorkFacts DEF First
  <2>2. \/ Return
        \/ /\ op' = [op EXCEPT !.pc = "walk", !.cluster = FirstFree, !.fresh = TRUE]
           /\ fh' = [fh EXCEPT ![op.h].start = FirstFree, ![op.h].cur = FirstFree,
                               ![op.h].pos = 0]
    BY <1>4, AllocateType, Zenon DEF First
  <2>3. CASE /\ op' = [op EXCEPT !.pc = "walk", !.cluster = FirstFree, !.fresh = TRUE]
             /\ fh' = [fh EXCEPT ![op.h].start = FirstFree, ![op.h].cur = FirstFree,
                                 ![op.h].pos = 0]
    <3>1. /\ op'.h = op.h /\ op'.cluster = FirstFree /\ op'.left = op.left /\ op'.size = op.size
          /\ op'.pc = "walk"
      BY <2>1, <2>3 DEF Resizes
    <3>2. fh' = [fh EXCEPT ![op.h] = [[[fh[op.h] EXCEPT !.start = FirstFree] EXCEPT !.cur = FirstFree]
                                      EXCEPT !.pos = 0]]
      BY <2>1, <2>3 DEF TypeOK
    <3>3. fh'[op.h].start = FirstFree
      BY <2>1, <3>2 DEF TypeOK, Handled
    <3>4. FollowOf(fat', FirstFree, 0) = FirstFree
      BY FollowSteps
    <3>5. op.left = Blocks(op.size) /\ 0 * BlocksPerCluster + op.left = op.left
      BY <2>1, FatAssumption DEF WalkInv, Resizes
    <3> QED
      BY <3>1, <3>3, <3>4, <3>5 DEF WalkInv
  <2> QED
    BY <1>1, <2>2, <2>3
<1>5. ASSUME op.pc \in {"walk", "link"}
      PROVE  \E k \in Nat :
               /\ op.cluster = FollowOf(fat, s, k)
               /\ op.cluster \in Clusters /\ s \in Clusters
               /\ fat[s] # Free /\ IsFirst(fat, s)
               /\ op \in Resizes /\ op.h \in Handles
               /\ k * BlocksPerCluster + op.left = Blocks(op.size)
  <2>1. op.pc # "idle" /\ op.pc # "first"
    BY <1>5
  <2>2. /\ OpenInv /\ op.h \in Opened /\ op.size # 0 /\ s \in Clusters
        /\ op.cluster \in Clusters /\ op \in Resizes /\ op.h \in Handles
    BY <1>5, <2>1, WorkFacts
  <2>3. fat[s] # Free /\ IsFirst(fat, s)
    BY <2>2 DEF OpenInv
  <2>4. \E k \in Nat : /\ op.cluster = FollowOf(fat, s, k)
                     /\ k * BlocksPerCluster + op.left = Blocks(op.size)
    BY <1>5 DEF WalkInv
  <2> QED
    BY <2>2, <2>3, <2>4
<1>6. CASE WalkOn
  <2>1. op.pc = "walk" /\ fat' = fat /\ fh' = fh /\ Next0 >= 2
        /\ op' = [op EXCEPT !.cluster = Next0, !.left = op.left - BlocksPerCluster]
    BY <1>6 DEF WalkOn, card
  <2>2. PICK k \in Nat : /\ op.cluster = FollowOf(fat, s, k) /\ op.cluster \in Clusters
                         /\ op \in Resizes /\ op.h \in Handles
                         /\ k * BlocksPerCluster + op.left = Blocks(op.size)
    BY <1>5, <2>1
  <2>3. Next0 = fat[op.cluster]
    BY <2>1, <2>2, NextIs, ValueTypes DEF Resizes
  <2>4. EntryOf(fat, op.cluster) = fat[op.cluster]
    BY <1>0, <2>2, EntryType, ValueTypes
  <2>5. FollowOf(fat, s, k + 1) = Next0
    <3>1. FollowOf(fat, s, k + 1) = EntryOf(fat, FollowOf(fat, s, k))
      BY FollowNext
    <3> QED
      BY <2>2, <2>3, <2>4, <3>1
  <2>6. /\ op'.h = op.h /\ op'.cluster = Next0 /\ k + 1 \in Nat /\ op'.size = op.size
        /\ op'.pc = "walk" /\ op'.left = op.left - BlocksPerCluster
    BY <2>1, <2>2 DEF Resizes
  <2>7. (k + 1) * BlocksPerCluster + (op.left - BlocksPerCluster) = k * BlocksPerCluster + op.left
    BY <2>2, OnePart, FatAssumption DEF Resizes
  <2> QED
    BY <2>1, <2>2, <2>5, <2>6, <2>7 DEF WalkInv
<1>7. CASE Grow
  <2>1. op.pc = "walk" /\ fh' = fh
    BY <1>7 DEF Grow
  <2>2. PICK k \in Nat : /\ op.cluster = FollowOf(fat, s, k) /\ op.cluster \in Clusters
                         /\ op \in Resizes /\ op.h \in Handles /\ s \in Clusters /\ fat[s] # Free
                         /\ k * BlocksPerCluster + op.left = Blocks(op.size)
    BY <1>5, <2>1
  <2>3. \/ op' = [op EXCEPT !.pc = "link", !.next = FirstFree, !.fresh = TRUE]
        \/ op' = [op EXCEPT !.pc = "terminate"]
    BY <1>7, AllocateType, Zenon DEF Grow
  <2>4. /\ op'.h = op.h /\ op'.cluster = op.cluster /\ op'.left = op.left /\ op'.size = op.size
        /\ op'.pc \in {"link", "terminate"}
    BY <2>2, <2>3 DEF Resizes
  <2>5. FollowOf(fat', s, k) = FollowOf(fat, s, k)
    <3>1. \/ fat' = fat
          \/ /\ fat' = Changed(fat, FirstFree, Eoc)
             /\ FirstFree \in Clusters /\ fat[FirstFree] = Free
          \/ fat' = Changed(fat, op.cluster, Eoc)
      BY <1>7, <2>1, WalkSteps
    <3>2. CASE fat' = Changed(fat, FirstFree, Eoc)
               /\ FirstFree \in Clusters /\ fat[FirstFree] = Free
      <4> DEFINE x == FirstFree
      <4>1. /\ x \in Clusters /\ fat[x] = Free /\ fat' = Changed(fat, x, Eoc)
            /\ s \in Clusters /\ fat[s] # Free /\ Eoc \in FatValues
        BY <2>2, <3>2, ValueTypes
      <4> HIDE DEF x, s
      <4> QED
        BY <1>0, <4>1, AwayFromFree
    <3>3. CASE fat' = Changed(fat, op.cluster, Eoc)
      <4>1. Next0 < 2
        BY <1>7 DEF Grow
      <4>2. fat[op.cluster] \notin Clusters
        <5>1. op.pc # "idle" /\ (op.fresh => fat[op.cluster] = Eoc)
          BY <2>1, WorkFacts
        <5> QED
          BY <2>2, <4>1, <5>1, NextIs, LinkAbove, ValueTypes DEF Resizes
      <4> DEFINE x == op.cluster
      <4>3. x \in Clusters /\ fat[x] \notin Clusters /\ fat' = Changed(fat, x, Eoc) /\ s \in Links
            /\ FollowOf(fat, s, k) \in Clusters /\ Eoc \in FatValues
        BY <2>2, <3>3, <4>2, ValueTypes
      <4> HIDE DEF x, s
      <4> QED
        BY <1>0, <4>3, AwayFromLast
    <3> QED
      BY <3>1, <3>2, <3>3
  <2> QED
    BY <2>1, <2>2, <2>4, <2>5 DEF WalkInv
<1>8. CASE Link
  <2>1. op.pc = "link" /\ fh' = fh
    BY <1>8 DEF Link
  <2>2. PICK k \in Nat : /\ op.cluster = FollowOf(fat, s, k) /\ op.cluster \in Clusters
                         /\ op \in Resizes /\ op.h \in Handles /\ s \in Clusters
                         /\ k * BlocksPerCluster + op.left = Blocks(op.size)
    BY <1>5, <2>1
  <2>3. \/ Return
        \/ /\ fat' = Changed(fat, op.cluster, op.next)
           /\ op' = [op EXCEPT !.pc = "walk", !.cluster = op.next, !.left = op.left - BlocksPerCluster]
    BY <1>8 DEF Link, SetEntry, Changed
  <2>4. CASE /\ fat' = Changed(fat, op.cluster, op.next)
             /\ op' = [op EXCEPT !.pc = "walk", !.cluster = op.next, !.left = op.left - BlocksPerCluster]
    <3>1. /\ op'.h = op.h /\ op'.cluster = op.next /\ op'.pc = "walk" /\ op'.size = op.size
          /\ op'.left = op.left - BlocksPerCluster
          /\ op.next \in Clusters /\ op.next \in FatValues
          /\ fat[op.cluster] \notin Clusters
      <4>1. op.pc # "idle" /\ op.next \in Clusters /\ fat[op.cluster] = Eoc
        BY <2>1, WorkFacts
      <4> QED
        BY <2>2, <2>4, <4>1, ValueTypes DEF Resizes
    <3> DEFINE x == op.cluster
               y == op.next
    <3>2. /\ x \in Clusters /\ y \in Clusters /\ y \in FatValues /\ fat[x] \notin Clusters
          /\ fat' = Changed(fat, x, y) /\ s \in Links /\ x = FollowOf(fat, s, k) /\ x \in Links
      BY <2>2, <2>4, <3>1, ValueTypes
    <3> HIDE DEF x, y, s
    <3>3. FollowOf(fat', s, k) = x
      BY <1>0, <3>2, AwayFromLast
    <3>4. EntryOf(fat', x) = y
      BY <1>0, <3>2, ChangedType
    <3>5. FollowOf(fat', s, k + 1) = y
      BY <3>3, <3>4, FollowSteps
    <3>6. (k + 1) * BlocksPerCluster + (op.left - BlocksPerCluster) = k * BlocksPerCluster + op.left
      BY <2>2, OnePart, FatAssumption DEF Resizes
    <3> QED
      BY <2>1, <2>2, <2>4, <3>1, <3>5, <3>6, k + 1 \in Nat DEF WalkInv, s, y
  <2> QED
    BY <1>1, <2>3, <2>4
<1>9. CASE CutChain
  <2>1. op' = AfterCut \/ Return
    BY <1>9 DEF CutChain, Cut, SetEntry
  <2>2. op' = AfterCut => op'.pc \in {"free", "entry"}
    <3>1. op.pc = "walk"
      BY <1>9 DEF CutChain
    <3>2. op \in Resizes
      BY <1>5, <3>1
    <3> QED
      BY <3>2 DEF AfterCut, Resizes
  <2> QED
    BY <1>1, <2>1, <2>2 DEF WalkInv
<1>10. CASE FreeOne
  <2>1. op.pc = "free" /\ op \in Resizes
    BY <1>10, FreeCases, ResizeType
  <2>2. Return \/ op' = [op EXCEPT !.pc = "entry"] \/ op' = [op EXCEPT !.cluster = Next0]
    BY <1>10, FreeCases
  <2>3. Return \/ op'.pc \in {"free", "entry"}
    BY <2>1, <2>2 DEF Resizes
  <2> QED
    BY <1>1, <2>3 DEF WalkInv
<1>11. CASE Terminate \/ PutEntry \/ SetSizeFails \/ PowerOff
  <2>1. Return
    BY <1>11 DEF Terminate, PutEntry, SetSizeFails, PowerOff, SetEntry
  <2> QED
    BY <1>1, <2>1
<1>12. ASSUME NEW h \in Handles,
              (\E f \in Files : Open(h, f)) \/ Close(h) \/ (\E p \in Positions : SetPos(h, p))
              \/ (\E n \in Lengths : Read(h, n) \/ Write(h, n) \/ WriteFails(h, n))
       PROVE  WalkInv'
  <2>1. op = Idle /\ op' = Idle
    BY <1>12 DEF Open, Close, SetPos, Read, Write, WriteFails
  <2> QED
    BY <1>2, <2>1
<1>13. CASE UNCHANGED vars
  BY <1>13 DEF WalkInv, vars, card
<1> QED
  BY <1>3, <1>4, <1>6, <1>7, <1>8, <1>9, <1>10, <1>11, <1>12, <1>13, Zenon DEF Next

----------------------------------------------------------------------------
(* Where handles stand.                                                     *)

\* A handle that has lost its cluster to a failure.
LostAt(r) == r.cur = Err /\ faults > 0

\* The current cluster is the one of the position inside of the file, and the first one
\* where a growing file can bring the position inside.
AimInv ==
  /\ \A h \in Opened :
       /\ fh[h].pos < fh[h].size =>
            fh[h].cur = FollowOf(fat, fh[h].start, Index(fh[h].pos)) \/ LostAt(fh[h])
       /\ fh[h].size < ClusterLen \/ Index(fh[h].pos) = 0 =>
            fh[h].cur = fh[h].start \/ LostAt(fh[h])
       /\ fh[h].cur = 0 => fh[h].start = 0
  /\ op # Idle => Index(fh[op.h].pos) = 0

\* A step fails once at most.
LEMMA FaultsCounted == ASSUME Next PROVE faults' = faults \/ faults' = faults + 1
<1>1. ASSUME NEW h \in Handles, NEW f \in Files, Open(h, f) PROVE faults' = faults
  BY <1>1 DEF Open
<1>2. ASSUME NEW h \in Handles, Close(h) PROVE faults' = faults
  BY <1>2 DEF Close
<1>3. ASSUME NEW h \in Handles, NEW p \in Positions, SetPos(h, p) PROVE faults' = faults
  BY <1>3 DEF SetPos
<1>4. ASSUME NEW h \in Handles, NEW n \in Lengths, Read(h, n) \/ Write(h, n) \/ WriteFails(h, n)
      PROVE  faults' = faults \/ faults' = faults + 1
  <2>1. Advance(h, n) \/ Fault \/ NoFault
    BY <1>4, Zenon DEF Read, Write, WriteFails
  <2> QED
    BY <2>1 DEF Advance, Fault, NoFault
<1>5. ASSUME NEW h \in Handles, NEW n \in Sizes, SetSize(h, n) PROVE faults' = faults
  BY <1>5 DEF SetSize
<1>6. ASSUME NEW ACTION D, NEW ACTION F, NEW x, NEW v, SetEntry(x, v, D, F)
      PROVE  faults' = faults \/ faults' = faults + 1
  BY <1>6 DEF SetEntry, Failing, Fault, NoFault
<1>7. ASSUME NEW ACTION D, NEW ACTION F, Allocate(D, F)
      PROVE  faults' = faults \/ faults' = faults + 1
  BY <1>6, <1>7, Zenon DEF Allocate, Failing, Fault
<1>8. CASE First \/ Grow
  BY <1>7, <1>8, Zenon DEF First, Grow
<1>9. CASE Link \/ Terminate
  BY <1>6, <1>9, Zenon DEF Link, Terminate
<1>10. CASE WalkOn
  BY <1>10 DEF WalkOn
<1>11. CASE CutChain
  <2>1. CASE op.fresh \/ Next0 >= 2
    BY <1>6, <1>11, <2>1, Zenon DEF CutChain, Cut
  <2>2. CASE ~(op.fresh \/ Next0 >= 2)
    BY <1>11, <2>2 DEF CutChain, Cut
  <2> QED
    BY <2>1, <2>2
<1>12. CASE FreeOne
  BY <1>6, <1>12, Zenon DEF FreeOne, Failing, Fault
<1>13. CASE PutEntry \/ SetSizeFails \/ PowerOff
  BY <1>13 DEF PutEntry, SetSizeFails, PowerOff, Failing, Fault, NoFault
<1> QED
  BY <1>1, <1>2, <1>3, <1>4, <1>5, <1>8, <1>9, <1>10, <1>11, <1>12, <1>13, Zenon DEF Next

\* Faults are counted and never forgotten.
LEMMA FaultsGrow == ASSUME TypeOK, Next PROVE faults > 0 => faults' > 0
<1>1. faults \in Nat
  BY FatAssumption DEF TypeOK
<1> QED
  BY <1>1, FaultsCounted

\* No handle is open at first.
LEMMA AimInit == ASSUME Init PROVE AimInv
<1>1. fh = [h \in Handles |-> Closed] /\ op = Idle
  BY DEF Init
<1> QED
  BY <1>1 DEF AimInv, Opened

\* One handle's part of AimInv.
Aimed(t, r, lost) ==
  /\ r.pos < r.size => r.cur = FollowOf(t, r.start, Index(r.pos)) \/ lost
  /\ r.size < ClusterLen \/ Index(r.pos) = 0 => r.cur = r.start \/ lost
  /\ r.cur = 0 => r.start = 0

\* The invariant of the aim in terms of the table and the handle.
LEMMA AimIs ==
  AimInv <=> /\ \A h \in Opened : Aimed(fat, fh[h], LostAt(fh[h]))
             /\ op # Idle => Index(fh[op.h].pos) = 0
  BY Zenon DEF AimInv, Aimed

\* The same after a step.
LEMMA AimIsNext ==
  AimInv' <=> /\ \A h \in Opened' : Aimed(fat', fh'[h], fh'[h].cur = Err /\ faults' > 0)
              /\ op' # Idle => Index(fh'[op'.h].pos) = 0
  BY Zenon DEF AimInv, Aimed, LostAt

\* A handle that does not move.
LEMMA AimStays ==
  ASSUME TypeOK, AimInv, Next, NEW h \in Opened, fh'[h] = fh[h],
         \A n \in Nat : FollowOf(fat', fh[h].start, n) = FollowOf(fat, fh[h].start, n)
  PROVE  Aimed(fat', fh'[h], fh'[h].cur = Err /\ faults' > 0)
<1>1. fh[h] \in Handled
  BY OpenType DEF Opened
<1>2. Index(fh[h].pos) \in Nat
  BY <1>1, IndexType DEF Handled
<1>3. Aimed(fat, fh[h], LostAt(fh[h]))
  BY AimIs
<1>4. LostAt(fh[h]) => fh[h].cur = Err /\ faults' > 0
  BY FaultsGrow DEF LostAt
<1> QED
  BY <1>2, <1>3, <1>4 DEF Aimed

\* A handle in the first cluster, with its current cluster the first.
LEMMA AimFirst ==
  ASSUME NEW t, NEW r, NEW lost, Index(r.pos) = 0, r.cur = r.start \/ lost, r.cur = 0 => r.start = 0
  PROVE  Aimed(t, r, lost)
<1>1. FollowOf(t, r.start, 0) = r.start
  BY FollowSteps
<1> QED
  BY <1>1 DEF Aimed

\* A chain comes to 0 only where there is none.
LEMMA NoZero ==
  ASSUME NEW t, Linked(t), NEW s \in Clusters, t[s] # Free, NEW n \in Nat
  PROVE  FollowOf(t, s, n) # 0
<1>0. t \in Tables /\ s \in Links
  BY ValueTypes DEF Linked
<1>1. CASE n = 0
  BY <1>1, FollowSteps, ValueTypes
<1>2. CASE n # 0
  <2> DEFINE m == n - 1
  <2>1. m \in Nat /\ n = m + 1
    BY <1>2
  <2> HIDE DEF m
  <2>2. FollowOf(t, s, n) = EntryOf(t, FollowOf(t, s, m)) /\ FollowOf(t, s, m) \in Links
    <3>1. FollowOf(t, s, m + 1) = EntryOf(t, FollowOf(t, s, m))
      BY <2>1, FollowNext
    <3> QED
      BY <1>0, <2>1, <3>1, FollowType
  <2>3. CASE FollowOf(t, s, m) \in Clusters
    <3>1. t[FollowOf(t, s, m)] # Free
      BY <2>1, <2>3, ChainInUse
    <3> QED
      BY <1>0, <2>2, <2>3, <3>1, EntryType, ValueTypes
  <2>4. CASE FollowOf(t, s, m) \notin Clusters
    BY <1>0, <2>2, <2>4, EntryType, ValueTypes
  <2> QED
    BY <2>3, <2>4
<1> QED
  BY <1>1, <1>2

\* What the invariants say of an open handle.
LEMMA HandleFacts ==
  ASSUME TypeOK, HeadsInv, NEW h \in Opened
  PROVE  /\ fh[h] \in Handled /\ fh[h].pos \in Nat /\ fh[h].size \in Nat /\ fh[h].cur \in Links
         /\ fh[h].start \in Clusters \cup {0} /\ fh[h].start \in Links
         /\ fh[h].start \in Clusters => IsFirst(fat, fh[h].start) /\ fat[fh[h].start] # Free
         /\ op = Idle /\ fh[h].start = 0 => fh[h].size = 0
         /\ op = Idle /\ fh[h].size # 0 => fh[h].start = dirent[fh[h].file].start
         /\ fh[h].file \in Files
<1>1. fh[h] \in Handled /\ OpenInv
  BY OpenType DEF HeadsInv, Opened
<1>2. /\ fh[h].pos \in Nat /\ fh[h].size \in Nat /\ fh[h].cur \in Links
      /\ fh[h].start \in Clusters \cup {0} /\ fh[h].file \in Files
  BY <1>1 DEF Handled
<1>3. op = Idle => ~Emptying(h)
  BY DEF Emptying
<1> QED
  BY <1>1, <1>2, <1>3, ValueTypes DEF OpenInv

\* A fresh handle stands at the first cluster of its file.
LEMMA AimOpen ==
  ASSUME TypeOK, AimInv, NEW h \in Handles, NEW f \in Files, Open(h, f), Next PROVE AimInv'
<1> DEFINE r == [file |-> f, start |-> dirent[f].start, cur |-> dirent[f].start,
                 size |-> dirent[f].size, pos |-> 0]
<1>1. op' = Idle /\ fat' = fat /\ fh' = [fh EXCEPT ![h] = r]
  BY DEF Open, card
<1>2. fh'[h] = r /\ \A k \in Handles \ {h} : fh'[k] = fh[k]
  BY <1>1 DEF TypeOK
<1>3. r.cur = r.start /\ r.pos = 0
  OBVIOUS
<1> HIDE DEF r
<1>4. Index(r.pos) = 0
  BY <1>3, IndexFirst, ClusterLenType
<1>5. Aimed(fat', r, r.cur = Err /\ faults' > 0)
  BY <1>3, <1>4, AimFirst
<1>6. ASSUME NEW k \in Opened', k # h PROVE Aimed(fat', fh'[k], fh'[k].cur = Err /\ faults' > 0)
  <2>1. k \in Opened /\ fh'[k] = fh[k]
    BY <1>2, <1>6 DEF Opened
  <2> QED
    BY <1>1, <2>1, AimStays
<1> QED
  BY <1>1, <1>2, <1>5, <1>6, AimIsNext

\* Giving up a handle moves no other.
LEMMA AimClose ==
  ASSUME TypeOK, AimInv, NEW h \in Handles, Close(h), Next PROVE AimInv'
<1>1. op' = Idle /\ fat' = fat /\ fh' = [fh EXCEPT ![h] = Closed]
  BY DEF Close, card
<1>2. ASSUME NEW k \in Opened' PROVE Aimed(fat', fh'[k], fh'[k].cur = Err /\ faults' > 0)
  <2>1. k \in Opened /\ fh'[k] = fh[k]
    BY <1>1 DEF Opened, TypeOK
  <2> QED
    BY <1>1, <2>1, AimStays
<1> QED
  BY <1>1, <1>2, AimIsNext

\* Seeking walks the chain to the cluster of the new position.
LEMMA AimSetPos ==
  ASSUME TypeOK, HeadsInv, AimInv, NEW h \in Handles, NEW p \in Positions, SetPos(h, p), Next
  PROVE  AimInv'
<1> DEFINE r == fh[h]
           stay == p >= r.size \/ SameCluster(r, p) \/ r.cur = 0
           c == IF stay THEN r.cur ELSE Follow(r.start, Index(p))
           q == [r EXCEPT !.pos = p, !.cur = c]
<1>1. /\ op = Idle /\ op' = Idle /\ fat' = fat /\ fh[h] # Closed /\ h \in Opened
      /\ fh' = [fh EXCEPT ![h] = q] /\ (stay \/ c >= 2)
  BY Zenon DEF SetPos, card, Opened
<1>2. p \in Nat
  BY FatAssumption
<1>3. /\ r \in Handled /\ r.pos \in Nat /\ r.size \in Nat /\ r.cur \in Links
      /\ (r.start = 0 => r.size = 0) /\ r.start \in Links
  BY <1>1, HandleFacts
<1>4. Aimed(fat, r, LostAt(r))
  BY <1>1, AimIs
<1>5. q.pos = p /\ q.cur = c /\ q.size = r.size /\ q.start = r.start
  BY <1>3 DEF Handled
<1>6. fh'[h] = q /\ \A k \in Handles \ {h} : fh'[k] = fh[k]
  BY <1>1 DEF TypeOK
<1>7. faults > 0 => faults' > 0
  BY FaultsGrow
<1>8. ~stay => c = FollowOf(fat, r.start, Index(p)) /\ c # 0 /\ p < r.size
  <2>1. ~stay => p < r.size
    BY <1>2, <1>3
  <2> QED
    BY <1>1, <2>1, FollowIsOf
<1>9. stay => c = r.cur
  OBVIOUS
<1> HIDE DEF q, c
<1>10. Aimed(fat', q, q.cur = Err /\ faults' > 0)
  <2>1. CASE stay
    <3>1. q.cur = r.cur
      BY <1>5, <1>9, <2>1
    <3>2. LostAt(r) => q.cur = Err /\ faults' > 0
      BY <1>7, <3>1 DEF LostAt
    <3>3. q.pos < q.size => q.cur = FollowOf(fat, r.start, Index(p)) \/ LostAt(r)
      <4> SUFFICES ASSUME p < r.size PROVE q.cur = FollowOf(fat, r.start, Index(p)) \/ LostAt(r)
        BY <1>5
      <4>1. r.cur # 0
        BY <1>2, <1>3, <1>4 DEF Aimed
      <4>2. SameCluster(r, p)
        BY <1>2, <1>3, <2>1, <4>1
      <4> QED
        BY <1>4, <3>1, <4>2 DEF Aimed, SameCluster
    <3>4. q.size < ClusterLen \/ Index(q.pos) = 0 => q.cur = r.start \/ LostAt(r)
      <4> SUFFICES ASSUME r.size < ClusterLen \/ Index(p) = 0 PROVE q.cur = r.start \/ LostAt(r)
        BY <1>5
      <4>1. CASE r.size < ClusterLen
        BY <1>4, <3>1, <4>1 DEF Aimed
      <4>2. CASE Index(p) = 0
        <5>1. p < ClusterLen
          BY <1>2, <4>2, IndexFirst
        <5>2. CASE p >= r.size
          <6>1. r.size < ClusterLen
            BY <1>2, <1>3, <5>1, <5>2, ClusterLenType
          <6> QED
            BY <1>4, <3>1, <6>1 DEF Aimed
        <5>3. CASE SameCluster(r, p)
          BY <1>4, <3>1, <4>2, <5>3 DEF Aimed, SameCluster
        <5>4. CASE r.cur = 0
          BY <1>4, <3>1, <5>4 DEF Aimed
        <5> QED
          BY <2>1, <5>2, <5>3, <5>4
      <4> QED
        BY <4>1, <4>2
    <3>5. q.cur = 0 => q.start = 0
      BY <1>4, <1>5, <3>1 DEF Aimed
    <3> QED
      BY <1>1, <1>5, <3>2, <3>3, <3>4, <3>5 DEF Aimed
  <2>2. CASE ~stay
    <3>1. q.cur = FollowOf(fat, r.start, Index(p)) /\ q.cur # 0 /\ p < r.size
      BY <1>5, <1>8, <2>2
    <3>2. ASSUME r.size < ClusterLen \/ Index(p) = 0 PROVE q.cur = r.start
      <4>1. Index(p) = 0
        <5>1. r.size < ClusterLen => p < ClusterLen
          BY <1>2, <1>3, <3>1, ClusterLenType
        <5> QED
          BY <1>2, <3>2, <5>1, IndexFirst
      <4>2. FollowOf(fat, r.start, 0) = r.start
        BY FollowSteps
      <4> QED
        BY <3>1, <4>1, <4>2
    <3> QED
      BY <1>1, <1>5, <3>1, <3>2 DEF Aimed
  <2> QED
    BY <2>1, <2>2
<1>11. ASSUME NEW k \in Opened', k # h PROVE Aimed(fat', fh'[k], fh'[k].cur = Err /\ faults' > 0)
  <2>1. k \in Opened /\ fh'[k] = fh[k]
    BY <1>6, <1>11 DEF Opened
  <2> QED
    BY <1>1, <2>1, AimStays
<1> QED
  BY <1>1, <1>6, <1>10, <1>11, AimIsNext

\* Where the units of a transfer go: to the clusters of their places in the file.
LEMMA AtIs ==
  ASSUME TypeOK, HeadsInv, AimInv, NEW h \in Opened, fh[h].pos < fh[h].size,
         NEW p \in Nat, fh[h].pos <= p
  PROVE  \/ At(fh[h], p) = FollowOf(fat, fh[h].start, Index(p))
         \/ LostAt(fh[h]) /\ At(fh[h], p) \notin Clusters
<1> DEFINE r == fh[h]
           i == Index(r.pos)
           j == Index(p)
<1>1. /\ r.pos \in Nat /\ r.start \in Links /\ r.cur \in Links
  BY HandleFacts
<1>2. i \in Nat /\ j \in Nat /\ i <= j
  <2> DEFINE m == r.pos
  <2>1. m \in Nat /\ m <= p
    BY <1>1
  <2> HIDE DEF m
  <2> QED
    BY <2>1, IndexType, IndexMonotone DEF m
<1>3. At(r, p) = FollowOf(fat, r.cur, j - i)
  BY FollowIsOf DEF At
<1>4. Aimed(fat, r, LostAt(r))
  BY AimIs
<1>5. r.cur = FollowOf(fat, r.start, i) \/ LostAt(r)
  BY <1>4 DEF Aimed
<1> HIDE DEF i, j
<1>6. i + (j - i) = j /\ j - i \in Nat
  BY <1>2
<1>7. CASE r.cur = FollowOf(fat, r.start, i)
  <2>1. FollowOf(fat, r.start, i + (j - i)) = FollowOf(fat, FollowOf(fat, r.start, i), j - i)
    BY <1>2, <1>6, FollowAdd
  <2> QED
    BY <1>3, <1>6, <1>7, <2>1 DEF j
<1>8. CASE LostAt(r)
  <2>1. r.cur \notin Clusters
    BY <1>8, ValueTypes DEF LostAt
  <2>2. fat \in Tables
    BY DEF HeadsInv, Linked
  <2>3. FollowOf(fat, r.cur, j - i) \notin Clusters
    BY <1>1, <1>6, <2>1, <2>2, FollowNowhere
  <2> QED
    BY <1>3, <1>8, <2>3
<1> QED
  BY <1>5, <1>7, <1>8

\* A transfer steps to the next cluster exactly when it crosses into it.
LEMMA AimTransfer ==
  ASSUME TypeOK, HeadsInv, AimInv, NEW h \in Handles, NEW n \in Lengths,
         Read(h, n) \/ Write(h, n), Next
  PROVE  AimInv'
<1> DEFINE r == fh[h]
           p == r.pos + Moved(r, n)
<1>1. /\ op = Idle /\ op' = Idle /\ fat' = fat /\ fh[h] # Closed /\ h \in Opened /\ r.pos < r.size
      /\ Reaches(r, n) /\ Advance(h, n)
  BY DEF Read, Write, card, Opened
<1>2. /\ p \in Nat /\ p > r.pos /\ p <= r.size /\ At(r, r.pos) \in Links /\ At(r, p) \in Links
      /\ r.pos \in r.pos..(r.pos + Moved(r, n) - 1)
  <2>1. r.pos \in Nat
    BY <1>1, HandleFacts
  <2>2. Moved(r, n) \in Nat /\ Moved(r, n) > 0 /\ p \in Nat /\ p <= r.size
        /\ \A q \in Nat : q >= r.pos => At(r, q) \in Links
    BY <1>1, MoveType
  <2>3. p >= r.pos
    BY <2>1, <2>2
  <2> QED
    BY <2>1, <2>2, <2>3
<1>3. /\ r \in Handled /\ r.pos \in Nat /\ r.size \in Nat /\ r.cur \in Links /\ r.start \in Links
      /\ r.start \in Clusters \cup {0}
      /\ (r.start = 0 => r.size = 0)
      /\ (r.start \in Clusters => fat[r.start] # Free)
  BY <1>1, HandleFacts
<1>4. At(r, p) = FollowOf(fat, r.start, Index(p))
  <2>1. At(r, r.pos) >= 2
    BY <1>1, <1>2, Zenon DEF Reaches
  <2>2. At(r, r.pos) \in Clusters
    BY <1>2, <2>1, LinkAbove
  <2>3. ~LostAt(r)
    <3>1. SUFFICES ASSUME LostAt(r) PROVE FALSE
      OBVIOUS
    <3>2. r.cur \notin Clusters
      BY <3>1, ValueTypes DEF LostAt
    <3>3. At(r, r.pos) = FollowOf(fat, r.cur, 0)
      <4> DEFINE m == r.pos
      <4>1. Index(m) \in Nat
        BY <1>3, IndexType
      <4>2. Index(m) - Index(m) = 0
        BY <4>1
      <4> QED
        BY <4>2, FollowIsOf DEF At
    <3> QED
      BY <2>2, <3>2, <3>3, FollowSteps
  <2>4. r.pos <= p
    BY <1>2, <1>3
  <2> HIDE DEF p
  <2> QED
    BY <1>1, <1>2, <2>3, <2>4, AtIs
<1>5. \E c \in Links : /\ fh' = [fh EXCEPT ![h] = [r EXCEPT !.pos = p, !.cur = c]]
                       /\ c = At(r, p) \/ (c = Err /\ Fault)
  <2>1. Err \in Links
    BY ValueTypes
  <2> QED
    BY <1>1, <1>2, <2>1, Zenon DEF Advance
<1>6. PICK c \in Links : /\ fh' = [fh EXCEPT ![h] = [r EXCEPT !.pos = p, !.cur = c]]
                         /\ c = At(r, p) \/ (c = Err /\ Fault)
  BY <1>5
<1> DEFINE q == [r EXCEPT !.pos = p, !.cur = c]
<1>7. q.pos = p /\ q.cur = c /\ q.size = r.size /\ q.start = r.start
  BY <1>3 DEF Handled
<1>8. fh'[h] = q /\ \A k \in Handles \ {h} : fh'[k] = fh[k]
  BY <1>6 DEF TypeOK
<1>9. Fault => faults' > 0
  BY FatAssumption DEF Fault, TypeOK
<1> HIDE DEF q, p
<1>10. Aimed(fat', q, q.cur = Err /\ faults' > 0)
  <2>1. CASE c = Err /\ Fault
    <3>1. Err # 0
      BY DEF Err
    <3> QED
      BY <1>7, <1>9, <2>1, <3>1 DEF Aimed
  <2>2. CASE c = At(r, p)
    <3>1. c = FollowOf(fat, r.start, Index(p))
      BY <1>4, <2>2
    <3>2. ASSUME r.size < ClusterLen \/ Index(p) = 0 PROVE c = r.start
      <4>1. Index(p) = 0
        <5>1. r.size < ClusterLen => p < ClusterLen
          BY <1>2, <1>3, ClusterLenType
        <5> QED
          BY <1>2, <3>2, <5>1, IndexFirst
      <4>2. FollowOf(fat, r.start, 0) = r.start
        BY FollowSteps
      <4> QED
        BY <3>1, <4>1, <4>2
    <3>3. c # 0
      <4>1. r.start \in Clusters
        BY <1>1, <1>3
      <4>2. Linked(fat) /\ Index(p) \in Nat
        BY <1>2, IndexType DEF HeadsInv
      <4> QED
        BY <1>3, <3>1, <4>1, <4>2, NoZero
    <3> QED
      BY <1>1, <1>7, <3>1, <3>2, <3>3 DEF Aimed
  <2> QED
    BY <1>6, <2>1, <2>2
<1>11. ASSUME NEW k \in Opened', k # h PROVE Aimed(fat', fh'[k], fh'[k].cur = Err /\ faults' > 0)
  <2>1. k \in Opened /\ fh'[k] = fh[k]
    BY <1>8, <1>11 DEF Opened
  <2> QED
    BY <1>1, <2>1, AimStays
<1> QED
  BY <1>1, <1>8, <1>10, <1>11, AimIsNext

\* A resize begins with the place of its handle at the start of the file.
LEMMA AimSetSize ==
  ASSUME TypeOK, HeadsInv, AimInv, "far" \notin Hazards, NEW h \in Handles, NEW n \in Sizes,
         SetSize(h, n), Next
  PROVE  AimInv'
<1>1. /\ op = Idle /\ fh[h] # Closed /\ h \in Opened /\ Index(fh[h].pos) = 0 /\ fat' = fat
      /\ op'.h = h
      /\ fh' = IF n = 0 THEN [fh EXCEPT ![h].start = 0, ![h].cur = 0, ![h].pos = 0] ELSE fh
  BY DEF SetSize, card, Opened
<1>2. CASE n # 0
  <2>1. fh' = fh
    BY <1>1, <1>2
  <2>2. ASSUME NEW k \in Opened' PROVE Aimed(fat', fh'[k], fh'[k].cur = Err /\ faults' > 0)
    <3>1. k \in Opened /\ fh'[k] = fh[k]
      BY <2>1 DEF Opened
    <3> QED
      BY <1>1, <3>1, AimStays
  <2> QED
    BY <1>1, <2>1, <2>2, AimIsNext
<1>3. CASE n = 0
  <2> DEFINE q == [[[fh[h] EXCEPT !.start = 0] EXCEPT !.cur = 0] EXCEPT !.pos = 0]
  <2>1. fh' = [fh EXCEPT ![h] = q] /\ fh[h] \in Handled
    BY <1>1, <1>3, OpenType DEF TypeOK
  <2>2. q.start = 0 /\ q.cur = 0 /\ q.pos = 0
    BY <2>1 DEF Handled
  <2> HIDE DEF q
  <2>3. fh'[h] = q /\ \A k \in Handles \ {h} : fh'[k] = fh[k]
    BY <2>1 DEF TypeOK
  <2>4. Index(q.pos) = 0
    BY <2>2, IndexFirst, ClusterLenType
  <2>5. Aimed(fat', q, q.cur = Err /\ faults' > 0)
    BY <2>2, <2>4, AimFirst
  <2>6. ASSUME NEW k \in Opened', k # h PROVE Aimed(fat', fh'[k], fh'[k].cur = Err /\ faults' > 0)
    <3>1. k \in Opened /\ fh'[k] = fh[k]
      BY <2>3, <2>6 DEF Opened
    <3> QED
      BY <1>1, <3>1, AimStays
  <2> QED
    BY <1>1, <2>3, <2>4, <2>5, <2>6, AimIsNext
<1> QED
  BY <1>2, <1>3

\* The steps of a resize.
LEMMA AimResize ==
  ASSUME Orderly, TypeOK, HeadsInv, WalkInv, AimInv, Next,
         First \/ WalkOn \/ CutChain \/ Grow \/ Link \/ Terminate \/ FreeOne \/ PutEntry \/ SetSizeFails
  PROVE  AimInv'
<1>1. op.pc # "idle" /\ op # Idle
  BY WalkSteps
<1>2. /\ op.h \in Handles /\ op.h \in Opened /\ fh[op.h] \in Handled /\ op \in Resizes
  BY <1>1, WorkFacts
<1>3. Index(fh[op.h].pos) = 0 /\ Aimed(fat, fh[op.h], LostAt(fh[op.h]))
  BY <1>1, <1>2, AimIs
<1>4. LostAt(fh[op.h]) => fh[op.h].cur = Err /\ faults' > 0
  BY FaultsGrow DEF LostAt
<1>5. \/ fh' = fh
      \/ \E x \in Clusters : fh' = [fh EXCEPT ![op.h] =
           [[[fh[op.h] EXCEPT !.start = x] EXCEPT !.cur = x] EXCEPT !.pos = 0]]
      \/ fh' = [fh EXCEPT ![op.h] = [fh[op.h] EXCEPT !.size = op.size]]
  <2>1. CASE First
    <3> DEFINE D == fh' = [fh EXCEPT ![op.h].start = FirstFree, ![op.h].cur = FirstFree,
                                     ![op.h].pos = 0]
    <3>1. fh' = fh \/ (FirstFree \in Allocatable /\ D)
      BY <2>1, AllocateType, Zenon DEF First
    <3>2. D => fh' = [fh EXCEPT ![op.h] =
                [[[fh[op.h] EXCEPT !.start = FirstFree] EXCEPT !.cur = FirstFree] EXCEPT !.pos = 0]]
      BY <1>2 DEF TypeOK
    <3>3. Allocatable \subseteq Clusters
      BY ValueTypes
    <3> HIDE DEF D
    <3> QED
      BY <3>1, <3>2, <3>3
  <2>2. CASE PutEntry
    BY <2>2, PutCases
  <2>3. CASE WalkOn \/ CutChain \/ Grow \/ Link \/ Terminate \/ FreeOne \/ SetSizeFails
    BY <2>3 DEF WalkOn, CutChain, Grow, Link, Terminate, FreeOne, SetSizeFails
  <2> QED
    BY <2>1, <2>2, <2>3
<1>6. /\ Index(fh'[op.h].pos) = 0 /\ Aimed(fat', fh'[op.h], fh'[op.h].cur = Err /\ faults' > 0)
      /\ fh'[op.h] # Closed
      /\ \A k \in Handles \ {op.h} : fh'[k] = fh[k]
  <2>1. CASE fh' = fh
    <3>1. fh[op.h].cur = fh[op.h].start \/ LostAt(fh[op.h])
      BY <1>3 DEF Aimed
    <3>2. fh[op.h].cur = 0 => fh[op.h].start = 0
      BY <1>3 DEF Aimed
    <3> QED
      BY <1>2, <1>3, <1>4, <2>1, <3>1, <3>2, AimFirst DEF Opened
  <2>2. ASSUME NEW x \in Clusters, fh' = [fh EXCEPT ![op.h] =
           [[[fh[op.h] EXCEPT !.start = x] EXCEPT !.cur = x] EXCEPT !.pos = 0]]
        PROVE  /\ Index(fh'[op.h].pos) = 0 /\ Aimed(fat', fh'[op.h], fh'[op.h].cur = Err /\ faults' > 0)
               /\ fh'[op.h] # Closed
               /\ \A k \in Handles \ {op.h} : fh'[k] = fh[k]
    <3> DEFINE q == [[[fh[op.h] EXCEPT !.start = x] EXCEPT !.cur = x] EXCEPT !.pos = 0]
    <3>1. q.start = x /\ q.cur = x /\ q.pos = 0 /\ q \in Handled
      BY <1>2, ValueTypes DEF Handled
    <3>2. fh' = [fh EXCEPT ![op.h] = q]
      BY <2>2
    <3> HIDE DEF q
    <3>3. fh'[op.h] = q /\ \A k \in Handles \ {op.h} : fh'[k] = fh[k]
      BY <1>2, <3>2 DEF TypeOK
    <3>4. Index(q.pos) = 0
      BY <3>1, IndexFirst, ClusterLenType
    <3>5. Aimed(fat', q, q.cur = Err /\ faults' > 0)
      BY <3>1, <3>4, AimFirst
    <3> QED
      BY <3>1, <3>3, <3>4, <3>5, HandledOpen
  <2>3. CASE fh' = [fh EXCEPT ![op.h] = [fh[op.h] EXCEPT !.size = op.size]]
    <3> DEFINE r == fh[op.h]
               q == [r EXCEPT !.size = op.size]
    <3>1. q.start = r.start /\ q.cur = r.cur /\ q.pos = r.pos /\ q \in Handled
      BY <1>2 DEF Handled, Resizes
    <3>2. fh' = [fh EXCEPT ![op.h] = q]
      BY <2>3
    <3> HIDE DEF q
    <3>3. fh'[op.h] = q /\ \A k \in Handles \ {op.h} : fh'[k] = fh[k]
      BY <1>2, <3>2 DEF TypeOK
    <3>4. Index(q.pos) = 0
      BY <1>3, <3>1
    <3>5. (r.cur = r.start \/ LostAt(r)) /\ (r.cur = 0 => r.start = 0)
      BY <1>3 DEF Aimed
    <3>6. Aimed(fat', q, q.cur = Err /\ faults' > 0)
      BY <1>4, <3>1, <3>4, <3>5, AimFirst
    <3> QED
      BY <3>1, <3>3, <3>4, <3>6, HandledOpen
  <2> QED
    BY <1>5, <2>1, <2>2, <2>3
<1>7. ASSUME NEW k \in Opened', k # op.h PROVE Aimed(fat', fh'[k], fh'[k].cur = Err /\ faults' > 0)
  <2>1. k \in Opened /\ fh'[k] = fh[k]
    BY <1>6, <1>7 DEF Opened
  <2>2. Foreign(fh[k].start)
    BY <1>7, <2>1 DEF Foreign
  <2>3. \A n \in Nat : FollowOf(fat', fh[k].start, n) = FollowOf(fat, fh[k].start, n)
    BY <2>2, ForeignKept
  <2> QED
    BY <2>1, <2>3, AimStays
<1>8. op' # Idle => op'.h = op.h
  <2>1. CASE First
    <3>1. Return \/ op' = [op EXCEPT !.pc = "walk", !.cluster = FirstFree, !.fresh = TRUE]
      BY <2>1, AllocateType, Zenon DEF First
    <3> QED
      BY <1>2, <3>1 DEF Return, Resizes
  <2>2. CASE WalkOn
    BY <1>2, <2>2 DEF WalkOn, Resizes
  <2>3. CASE CutChain
    <3>1. op' = AfterCut \/ Return
      BY <2>3 DEF CutChain, Cut, SetEntry
    <3> QED
      BY <1>2, <3>1 DEF Return, AfterCut, Resizes
  <2>4. CASE Grow
    <3>1. \/ op' = [op EXCEPT !.pc = "link", !.next = FirstFree, !.fresh = TRUE]
          \/ op' = [op EXCEPT !.pc = "terminate"]
      BY <2>4, AllocateType, Zenon DEF Grow
    <3> QED
      BY <1>2, <3>1 DEF Resizes
  <2>5. CASE Link
    <3>1. \/ op' = [op EXCEPT !.pc = "walk", !.cluster = op.next, !.left = @ - BlocksPerCluster]
          \/ Return
      BY <2>5 DEF Link, SetEntry
    <3> QED
      BY <1>2, <3>1 DEF Return, Resizes
  <2>6. CASE FreeOne
    BY <1>2, <2>6, FreeCases DEF Return, Resizes
  <2>7. CASE Terminate \/ PutEntry \/ SetSizeFails
    BY <2>7 DEF Terminate, SetEntry, PutEntry, SetSizeFails, Return
  <2> QED
    BY <2>1, <2>2, <2>3, <2>4, <2>5, <2>6, <2>7
<1> QED
  BY <1>6, <1>7, <1>8, AimIsNext

\* Every step keeps every handle at the cluster of its position.
LEMMA AimStep ==
  ASSUME Orderly, "far" \notin Hazards, TypeOK, HeadsInv, WalkInv, AimInv, [Next]_vars
  PROVE  AimInv'
<1>1. ASSUME UNCHANGED vars PROVE AimInv'
  <2>1. fh' = fh /\ op' = op /\ fat' = fat /\ faults' = faults
    BY <1>1 DEF vars, card
  <2> QED
    BY <2>1, Zenon DEF AimInv, Opened, LostAt
<1>2. ASSUME Next, op' = Idle, fat' = fat, fh' = fh PROVE AimInv'
  <2>1. ASSUME NEW k \in Opened' PROVE Aimed(fat', fh'[k], fh'[k].cur = Err /\ faults' > 0)
    <3>1. k \in Opened /\ fh'[k] = fh[k]
      BY <1>2, <2>1 DEF Opened
    <3> QED
      BY <1>2, <3>1, AimStays
  <2> QED
    BY <1>2, <2>1, AimIsNext
<1>3. ASSUME NEW h \in Handles, NEW n \in Lengths, WriteFails(h, n) PROVE op' = Idle /\ fat' = fat /\ fh' = fh
  BY <1>3 DEF WriteFails
<1>4. ASSUME PowerOff PROVE AimInv'
  <2>1. op' = Idle /\ fh' = [h \in Handles |-> Closed]
    BY <1>4 DEF PowerOff, Return
  <2> QED
    BY <2>1 DEF AimInv, Opened
<1>5. ASSUME Next PROVE AimInv'
  <2>1. ASSUME NEW h \in Handles, NEW f \in Files, Open(h, f) PROVE AimInv'
    BY <1>5, <2>1, AimOpen
  <2>2. ASSUME NEW h \in Handles, Close(h) PROVE AimInv'
    BY <1>5, <2>2, AimClose
  <2>3. ASSUME NEW h \in Handles, NEW p \in Positions, SetPos(h, p) PROVE AimInv'
    BY <1>5, <2>3, AimSetPos
  <2>4. ASSUME NEW h \in Handles, NEW n \in Lengths, Read(h, n) \/ Write(h, n) PROVE AimInv'
    BY <1>5, <2>4, AimTransfer
  <2>5. ASSUME NEW h \in Handles, NEW n \in Lengths, WriteFails(h, n) PROVE AimInv'
    BY <1>2, <1>3, <1>5, <2>5
  <2>6. ASSUME NEW h \in Handles, NEW n \in Sizes, SetSize(h, n) PROVE AimInv'
    BY <1>5, <2>6, AimSetSize
  <2>7. CASE First \/ WalkOn \/ CutChain \/ Grow \/ Link \/ Terminate \/ FreeOne \/ PutEntry
             \/ SetSizeFails
    BY <1>5, <2>7, AimResize
  <2> QED
    BY <1>4, <1>5, <2>1, <2>2, <2>3, <2>4, <2>5, <2>6, <2>7, Zenon DEF Next
<1> QED
  BY <1>1, <1>5

\* The invariant of the aim is the part of Sound about handles.
LEMMA AimOf ==
  ASSUME TypeOK, HeadsInv, AimInv PROVE HandleAim
<1> SUFFICES ASSUME op = Idle, NEW h \in Handles, fh[h] # Closed, fh[h].pos < fh[h].size
             PROVE  \/ fh[h].cur = Follow(dirent[fh[h].file].start, Index(fh[h].pos))
                    \/ fh[h].cur = Err /\ faults > 0
  BY DEF HandleAim
<1>1. h \in Opened
  BY DEF Opened
<1>2. Aimed(fat, fh[h], LostAt(fh[h]))
  BY <1>1, AimIs
<1>3. fh[h].pos \in Nat /\ fh[h].size \in Nat
      /\ (fh[h].size # 0 => fh[h].start = dirent[fh[h].file].start)
  BY <1>1, HandleFacts
<1>4. fh[h].start = dirent[fh[h].file].start
  BY <1>3
<1>5. fh[h].cur = FollowOf(fat, fh[h].start, Index(fh[h].pos)) \/ LostAt(fh[h])
  BY <1>2 DEF Aimed
<1> QED
  BY <1>4, <1>5, FollowIsOf DEF LostAt

\* On the volumes of sequential use no two files ever share a cluster, no chain runs into a
\* free cluster or in a circle, and every open handle stands at the cluster of its position.
THEOREM VolumeIsSound ==
  Hazards = {} => (Spec => []Sound)
<1> SUFFICES ASSUME Hazards = {} PROVE Spec => []Sound
  OBVIOUS
<1>0. Orderly /\ "far" \notin Hazards
  BY DEF Orderly
<1> DEFINE IInv == TypeOK /\ HeadsInv /\ WalkInv /\ AimInv
<1>1. Init => IInv
  <2>1. Init => op = Idle
    BY DEF Init
  <2>2. op = Idle => WalkInv
    BY DEF WalkInv, Idle
  <2> QED
    BY <2>1, <2>2, InitType, HeadsInit, AimInit
<1>2. IInv /\ [Next]_vars => IInv'
  BY <1>0, TypeStep, HeadsStep, WalkStep, AimStep
<1>3. IInv => Sound
  BY ApartOf, AimOf DEF Sound
<1> QED
  BY <1>1, <1>2, <1>3, PTL DEF Spec

----------------------------------------------------------------------------
(* No cluster is lost.                                                      *)

\* The clusters of the chain that begins with s.
Reached(t, s) == {c \in Clusters : \E n \in Nat : c = FollowOf(t, s, n)}

\* A chain that a change of the table does not touch.
LEMMA ReachKept ==
  ASSUME NEW t, NEW u, NEW s,
         \A n \in Nat : FollowOf(t, s, n) \in Clusters => FollowOf(u, s, n) = FollowOf(t, s, n)
  PROVE  Reached(t, s) \subseteq Reached(u, s)
<1> SUFFICES ASSUME NEW n \in Nat, FollowOf(t, s, n) \in Clusters
             PROVE  FollowOf(t, s, n) \in Reached(u, s)
  BY DEF Reached
<1> QED
  BY DEF Reached

\* A chain that is cut behind x falls in two.
LEMMA CutReach ==
  ASSUME NEW t, Linked(t), NEW s \in Clusters, IsFirst(t, s), NEW k \in Nat,
         NEW x \in Clusters, x = FollowOf(t, s, k), t[x] \in Clusters
  PROVE  Reached(t, s) \subseteq Reached(Changed(t, x, Eoc), s) \cup Reached(Changed(t, x, Eoc), t[x])
<1> DEFINE u == Changed(t, x, Eoc)
           y == t[x]
<1>1. t \in Tables /\ Eoc \in FatValues /\ s \in Links /\ x \in Links /\ y \in Clusters /\ y \in Links
  BY ValueTypes DEF Linked
<1>2. FollowOf(t, s, k + 1) = y
  <2>1. EntryOf(t, x) = y
    BY <1>1, EntryType
  <2> QED
    BY <2>1, FollowSteps
<1>3. \A j \in Nat : FollowOf(t, s, j) = x => j = k
  BY ChainsMeet
<1>4. ASSUME NEW n \in Nat, FollowOf(t, s, n) \in Clusters, n <= k
      PROVE  FollowOf(t, s, n) \in Reached(u, s)
  <2>1. \A j \in Nat : j < n => FollowOf(t, s, j) # x
    BY <1>3, <1>4
  <2>2. FollowOf(u, s, n) = FollowOf(t, s, n)
    BY <1>1, <1>4, <2>1, FollowAway
  <2> HIDE DEF u
  <2> QED
    BY <1>4, <2>2 DEF Reached
<1>5. ASSUME NEW n \in Nat, FollowOf(t, s, n) \in Clusters, n > k
      PROVE  FollowOf(t, s, n) \in Reached(u, y)
  <2> DEFINE i == n - (k + 1)
  <2>1. i \in Nat /\ n = (k + 1) + i /\ k + 1 \in Nat
    BY <1>5
  <2> HIDE DEF i, y
  <2>2. \A j \in Nat : FollowOf(t, s, (k + 1) + j) = FollowOf(t, y, j)
    BY <1>2, FollowAdd, k + 1 \in Nat
  <2>3. \A j \in Nat : FollowOf(t, y, j) # x
    <3> SUFFICES ASSUME NEW j \in Nat, FollowOf(t, y, j) = x PROVE FALSE
      OBVIOUS
    <3>1. FollowOf(t, s, (k + 1) + j) = x /\ (k + 1) + j \in Nat
      BY <2>2
    <3>2. (k + 1) + j = k
      BY <1>3, <3>1
    <3> QED
      BY <3>2
  <2>4. FollowOf(u, y, i) = FollowOf(t, y, i)
    BY <1>1, <2>1, <2>3, FollowAway
  <2>5. FollowOf(t, s, n) = FollowOf(u, y, i)
    BY <2>1, <2>2, <2>4
  <2> HIDE DEF u
  <2> QED
    BY <1>5, <2>1, <2>5 DEF Reached
<1>6. ASSUME NEW c \in Reached(t, s) PROVE c \in Reached(u, s) \cup Reached(u, y)
  <2>1. PICK n \in Nat : c = FollowOf(t, s, n) /\ c \in Clusters
    BY <1>6 DEF Reached
  <2> QED
    BY <1>4, <1>5, <2>1
<1> QED
  BY <1>6

\* A chain led to from the last cluster of another becomes its rest.
LEMMA JoinReach ==
  ASSUME NEW t, Linked(t), NEW s \in Clusters, IsFirst(t, s), NEW k \in Nat,
         NEW x \in Clusters, x = FollowOf(t, s, k), t[x] \notin Clusters,
         NEW y \in Clusters, IsFirst(t, y), y # s
  PROVE  Reached(t, y) \subseteq Reached(Changed(t, x, y), s)
<1> DEFINE u == Changed(t, x, y)
<1>1. t \in Tables /\ y \in FatValues /\ s \in Links /\ x \in Links /\ y \in Links
  BY ValueTypes DEF Linked
<1>2. FollowOf(u, s, k) = x
  BY <1>1, AwayFromLast
<1>3. FollowOf(u, s, k + 1) = y
  <2>1. EntryOf(u, x) = y
    BY <1>1, ChangedType
  <2> HIDE DEF u
  <2> QED
    BY <1>2, <2>1, FollowSteps
<1>4. \A j \in Nat : FollowOf(t, y, j) # x
  BY ChainsMeet
<1>5. \A j \in Nat : FollowOf(u, y, j) = FollowOf(t, y, j)
  BY <1>1, <1>4, FollowAway
<1> HIDE DEF u
<1>6. ASSUME NEW c \in Reached(t, y) PROVE c \in Reached(u, s)
  <2>1. PICK j \in Nat : c = FollowOf(t, y, j) /\ c \in Clusters
    BY <1>6 DEF Reached
  <2>2. FollowOf(u, s, (k + 1) + j) = FollowOf(u, FollowOf(u, s, k + 1), j)
    BY FollowAdd, k + 1 \in Nat
  <2>3. c = FollowOf(u, s, (k + 1) + j) /\ (k + 1) + j \in Nat
    BY <1>3, <1>5, <2>1, <2>2
  <2> QED
    BY <2>1, <2>3 DEF Reached
<1> QED
  BY <1>6 DEF u

\* When the first cluster of a chain is let go, the others are the chain from the next.
LEMMA FreeReach ==
  ASSUME NEW t, Linked(t), NEW x \in Clusters, IsFirst(t, x), NEW c \in Reached(t, x), c # x
  PROVE  t[x] \in Clusters /\ c \in Reached(Changed(t, x, Free), t[x])
<1> DEFINE u == Changed(t, x, Free)
           y == t[x]
<1>1. t \in Tables /\ Free \in FatValues /\ x \in Links
  BY ValueTypes DEF Linked
<1>2. PICK n \in Nat : c = FollowOf(t, x, n) /\ c \in Clusters
  BY DEF Reached
<1>3. n # 0
  BY <1>2, FollowSteps
<1> DEFINE m == n - 1
<1>4. m \in Nat /\ n = 1 + m
  BY <1>3
<1>5. FollowOf(t, x, 1) = y
  <2>1. EntryOf(t, x) = y
    BY <1>1, EntryType
  <2>2. FollowOf(t, x, 0 + 1) = EntryOf(t, FollowOf(t, x, 0)) /\ FollowOf(t, x, 0) = x
    BY FollowSteps
  <2> QED
    BY <2>1, <2>2
<1> HIDE DEF m, y
<1>6. y \in Clusters
  <2>1. FollowOf(t, x, 1) \in Clusters
    BY <1>1, <1>2, <1>4, FollowBefore
  <2> QED
    BY <1>5, <2>1
<1>7. y # x /\ y \in Links
  BY <1>6, ValueTypes DEF IsFirst, y
<1>8. FollowOf(t, x, 1 + m) = FollowOf(t, y, m)
  BY <1>4, <1>5, FollowAdd
<1>9. FollowOf(u, y, m) = FollowOf(t, y, m)
  BY <1>1, <1>4, <1>7, AwayFromFirst
<1>10. c = FollowOf(u, y, m)
  BY <1>2, <1>4, <1>8, <1>9
<1> HIDE DEF u
<1>11. c \in Reached(u, y)
  BY <1>2, <1>4, <1>10 DEF Reached
<1> QED
  BY <1>6, <1>11 DEF u, y

\* No access has failed and no allocation has found the card full.
Clean == faults = 0 /\ ~full

\* Where the chains of the clusters in use begin.
Roots ==
  {s \in Clusters :
     \/ \E f \in Files : ~Emptied(f) /\ s = dirent[f].start
     \/ op # Idle /\ s = fh[op.h].start
     \/ op.pc = "free" /\ s = op.cluster
     \/ op.pc = "link" /\ s = op.next}

\* Every allocated cluster is reached from a chain that somebody holds.
Owned == \A c \in Clusters : fat[c] # Free => \E s \in Roots : c \in Reached(fat, s)

\* As long as nothing fails, each handle begins where its entry says, but for the one of a
\* resize, and a resize is never given up.
OwnedInv ==
  Clean =>
    /\ op.pc # "terminate"
    /\ op.pc = "free" => ~op.fresh
    /\ \A h \in Opened : op = Idle \/ h # op.h => fh[h].start = dirent[fh[h].file].start
    /\ Owned

\* A volume that was found full once stays so.
LEMMA FullStays == ASSUME Next PROVE full' = full \/ full' = TRUE
<1>1. ASSUME NEW ACTION D, NEW ACTION F, Allocate(D, F) PROVE full' = full \/ full' = TRUE
  BY <1>1 DEF Allocate
<1>2. CASE First \/ Grow
  BY <1>1, <1>2, Zenon DEF First, Grow
<1>3. CASE WalkOn \/ CutChain \/ Link \/ Terminate \/ FreeOne \/ PutEntry \/ SetSizeFails \/ PowerOff
  BY <1>3, Zenon DEF WalkOn, CutChain, Link, Terminate, FreeOne, PutEntry, SetSizeFails, PowerOff
<1>4. ASSUME NEW h \in Handles,
             (\E f \in Files : Open(h, f)) \/ Close(h) \/ (\E p \in Positions : SetPos(h, p))
             \/ (\E n \in Lengths : Read(h, n) \/ Write(h, n) \/ WriteFails(h, n))
             \/ (\E n \in Sizes : SetSize(h, n))
      PROVE  full' = full
  BY <1>4, Zenon DEF Open, Close, SetPos, Read, Write, WriteFails, SetSize
<1> QED
  BY <1>2, <1>3, <1>4, Zenon DEF Next

\* A step to a state without failures comes from one, and is no failure.
LEMMA CleanBefore == ASSUME TypeOK, Next, Clean' PROVE Clean /\ faults' = faults
<1>1. faults \in Nat /\ faults' = 0 /\ faults = 0
  <2>1. faults \in Nat
    BY FatAssumption DEF TypeOK
  <2> QED
    BY <2>1, FaultsGrow DEF Clean
<1>2. full' = full \/ full' = TRUE
  BY FullStays
<1> QED
  BY <1>1, <1>2 DEF Clean

\* A failing access is a failure.
LEMMA FailingIsNotClean == ASSUME TypeOK PROVE Failing \/ Fault => ~Clean'
<1>1. faults \in Nat
  BY FatAssumption DEF TypeOK
<1> QED
  BY <1>1 DEF Failing, Fault, Clean

\* A chain reaches its own first cluster.
LEMMA RootReached == ASSUME NEW t, NEW s \in Clusters PROVE s \in Reached(t, s)
<1>1. s = FollowOf(t, s, 0) /\ 0 \in Nat
  BY FollowSteps
<1> QED
  BY <1>1 DEF Reached

\* The clusters stay owned when the chains keep theirs and the new ones have an owner.
LEMMA OwnedNext ==
  ASSUME Owned,
         \A s \in Roots : \A c \in Reached(fat, s) :
           fat'[c] # Free => \E r \in Roots' : c \in Reached(fat', r),
         \A c \in Clusters :
           fat[c] = Free /\ fat'[c] # Free => \E r \in Roots' : c \in Reached(fat', r)
  PROVE  Owned'
<1>1. ASSUME NEW c \in Clusters, fat'[c] # Free PROVE \E r \in Roots' : c \in Reached(fat', r)
  BY <1>1 DEF Owned
<1>2. Owned' <=> \A c \in Clusters : fat'[c] # Free => \E r \in Roots' : c \in Reached(fat', r)
  BY Zenon DEF Owned, Reached
<1> QED
  BY <1>1, <1>2

\* The table stays, and no chain loses its beginning.
LEMMA OwnedStays == ASSUME Owned, fat' = fat, Roots \subseteq Roots' PROVE Owned'
<1>1. \A s \in Roots : \A c \in Reached(fat, s) : \E r \in Roots' : c \in Reached(fat', r)
  OBVIOUS
<1> QED
  BY <1>1, OwnedNext

\* The chains in a resize: of the other files, of its own, and the piece it is working on.
LEMMA RootCases ==
  ASSUME TypeOK, HeadsInv, op.pc # "idle", NEW s \in Roots
  PROVE  \/ \E g \in Files \ {fh[op.h].file} : s = dirent[g].start
         \/ s = fh[op.h].start
         \/ op.pc = "free" /\ s = op.cluster
         \/ op.pc = "link" /\ s = op.next
<1>1. OpenInv /\ op.h \in Opened /\ op # Idle /\ fh[op.h].file \in Files
  BY WorkFacts
<1>2. ASSUME NEW f \in Files, ~Emptied(f), s = dirent[f].start, f = fh[op.h].file
      PROVE  s = fh[op.h].start
  <2>1. s # 0
    BY ValueTypes DEF Roots
  <2>2. ~Emptying(op.h)
    BY <1>1, <1>2 DEF Emptying, Emptied
  <2> QED
    BY <1>1, <1>2, <2>1, <2>2 DEF OpenInv
<1>3. \/ \E f \in Files : ~Emptied(f) /\ s = dirent[f].start
      \/ s = fh[op.h].start
      \/ op.pc = "free" /\ s = op.cluster
      \/ op.pc = "link" /\ s = op.next
  BY DEF Roots
<1> QED
  BY <1>2, <1>3

\* The chains of other files.
LEMMA ForeignRoot ==
  ASSUME NEW g \in Files, g # fh[op.h].file, dirent'[g] = dirent[g], dirent[g].start \in Clusters,
         op' = Idle \/ fh'[op'.h].file = fh[op.h].file
  PROVE  dirent[g].start \in Roots'
<1>1. ~(op' # Idle /\ op'.size = 0 /\ fh'[op'.h].file = g)
  OBVIOUS
<1>2. ~Emptied(g)'
  BY <1>1 DEF Emptied
<1> QED
  BY <1>2 DEF Roots

\* The chains of the other files reach after a step of a resize what they reached before.
LEMMA ForeignReached ==
  ASSUME Orderly, TypeOK, HeadsInv, WalkInv,
         First \/ WalkOn \/ CutChain \/ Grow \/ Link \/ Terminate \/ FreeOne \/ PutEntry \/ SetSizeFails,
         NEW g \in Files, g # fh[op.h].file, dirent'[g] = dirent[g], dirent[g].start \in Clusters,
         op' = Idle \/ fh'[op'.h].file = fh[op.h].file
  PROVE  \A c \in Reached(fat, dirent[g].start) : \E r \in Roots' : c \in Reached(fat', r)
<1> DEFINE s == dirent[g].start
<1>1. Foreign(s)
  BY DEF Foreign
<1>2. \A n \in Nat : FollowOf(fat', s, n) = FollowOf(fat, s, n)
  BY <1>1, ForeignKept
<1>3. s \in Roots'
  BY ForeignRoot
<1> HIDE DEF s
<1>4. Reached(fat, s) \subseteq Reached(fat', s)
  BY <1>2, ReachKept
<1> QED
  BY <1>3, <1>4 DEF s

\* Between two resizes.
LEMMA OwnedIdle ==
  ASSUME TypeOK, OwnedInv, Next, NEW h \in Handles,
         \/ \E f \in Files : Open(h, f)
         \/ Close(h)
         \/ \E p \in Positions : SetPos(h, p)
         \/ \E n \in Lengths : Read(h, n) \/ Write(h, n) \/ WriteFails(h, n)
  PROVE  OwnedInv'
<1>1. op = Idle /\ op' = Idle /\ fat' = fat /\ dirent' = dirent
  BY DEF Open, Close, SetPos, Read, Write, WriteFails, card
<1> DEFINE Kept(k) == \/ k \in Opened /\ fh'[k].start = fh[k].start /\ fh'[k].file = fh[k].file
                      \/ fh'[k].start = dirent[fh'[k].file].start
<1>2. ASSUME NEW r \in Handled \cup {Closed}, fh' = [fh EXCEPT ![h] = r],
             \/ r = Closed
             \/ r.start = dirent[r.file].start
             \/ h \in Opened /\ r.start = fh[h].start /\ r.file = fh[h].file
      PROVE  \A k \in Opened' : Kept(k)
  <2>1. fh'[h] = r /\ \A k \in Handles \ {h} : fh'[k] = fh[k]
    BY <1>2 DEF TypeOK
  <2> QED
    BY <1>2, <2>1 DEF Opened
<1>3. ASSUME NEW p, NEW c, fh[h] # Closed,
             fh' = [fh EXCEPT ![h] = [[fh[h] EXCEPT !.pos = p] EXCEPT !.cur = c]]
      PROVE  \A k \in Opened' : Kept(k)
  <2>1. fh[h] \in Handled /\ h \in Opened
    BY <1>3, OpenType DEF Opened
  <2> DEFINE r == [[fh[h] EXCEPT !.pos = p] EXCEPT !.cur = c]
  <2>2. r.start = fh[h].start /\ r.file = fh[h].file
    BY <2>1 DEF Handled
  <2>3. fh'[h] = r /\ \A k \in Handles \ {h} : fh'[k] = fh[k]
    BY <1>3 DEF TypeOK
  <2> HIDE DEF r
  <2> QED
    BY <2>1, <2>2, <2>3 DEF Opened
<1>4. \A k \in Opened' : Kept(k)
  <2>1. ASSUME NEW f \in Files, Open(h, f) PROVE \A k \in Opened' : Kept(k)
    <3> DEFINE r == [file |-> f, start |-> dirent[f].start, cur |-> dirent[f].start,
                     size |-> dirent[f].size, pos |-> 0]
    <3>1. r \in Handled /\ r.start = dirent[r.file].start
      BY ValueTypes DEF TypeOK, Handled
    <3>2. fh' = [fh EXCEPT ![h] = r]
      BY <2>1 DEF Open
    <3> HIDE DEF r, Kept
    <3> QED
      BY <1>2, <3>1, <3>2
  <2>2. CASE Close(h)
    <3>1. fh' = [fh EXCEPT ![h] = Closed]
      BY <2>2 DEF Close
    <3> HIDE DEF Kept
    <3> QED
      BY <1>2, <3>1
  <2>3. ASSUME NEW p \in Positions, SetPos(h, p) PROVE \A k \in Opened' : Kept(k)
    <3>1. fh[h] # Closed
      BY <2>3 DEF SetPos
    <3>2. \E c : fh' = [fh EXCEPT ![h] = [[fh[h] EXCEPT !.pos = p] EXCEPT !.cur = c]]
      BY <2>3, Zenon DEF SetPos
    <3> HIDE DEF Kept
    <3> QED
      BY <1>3, <3>1, <3>2
  <2>4. ASSUME NEW n \in Lengths, Read(h, n) \/ Write(h, n) PROVE \A k \in Opened' : Kept(k)
    <3>1. fh[h] # Closed /\ Advance(h, n)
      BY <2>4 DEF Read, Write
    <3>2. \E p, c : fh' = [fh EXCEPT ![h] = [[fh[h] EXCEPT !.pos = p] EXCEPT !.cur = c]]
      BY <3>1, Zenon DEF Advance
    <3> HIDE DEF Kept
    <3> QED
      BY <1>3, <3>1, <3>2
  <2>5. ASSUME NEW n \in Lengths, WriteFails(h, n) PROVE \A k \in Opened' : Kept(k)
    <3>1. fh' = fh
      BY <2>5 DEF WriteFails
    <3> QED
      BY <3>1 DEF Opened
  <2> QED
    BY <2>1, <2>2, <2>3, <2>4, <2>5
<1> SUFFICES ASSUME Clean' PROVE OwnedInv'
  BY DEF OwnedInv
<1>5. Clean
  BY CleanBefore
<1>6. Roots' = Roots
  BY <1>1 DEF Roots, Emptied, Idle
<1>7. Owned'
  BY <1>1, <1>5, <1>6, OwnedStays DEF OwnedInv
<1>8. \A k \in Opened' : fh'[k].start = dirent'[fh'[k].file].start
  BY <1>1, <1>4, <1>5 DEF OwnedInv
<1>9. op'.pc = "idle"
  BY <1>1 DEF Idle
<1> QED
  BY <1>7, <1>8, <1>9 DEF OwnedInv

\* A resize begins with every cluster owned.
LEMMA OwnedSetSize ==
  ASSUME TypeOK, HeadsInv, OwnedInv, Next, NEW h \in Handles, NEW n \in Sizes, SetSize(h, n)
  PROVE  OwnedInv'
<1> SUFFICES ASSUME Clean' PROVE OwnedInv'
  BY DEF OwnedInv
<1>1. /\ op = Idle /\ fh[h] # Closed /\ h \in Opened /\ fat' = fat /\ dirent' = dirent
      /\ op' = [pc |-> IF n = 0 THEN IF fh[h].start = 0 THEN "entry" ELSE "free"
                   ELSE IF fh[h].start = 0 THEN "first" ELSE "walk",
            h |-> h, size |-> n, cluster |-> fh[h].start, left |-> Blocks(n), fresh |-> FALSE,
            next |-> 0]
      /\ fh' = IF n = 0 THEN [fh EXCEPT ![h].start = 0, ![h].cur = 0, ![h].pos = 0] ELSE fh
  BY DEF SetSize, card, Opened
<1>2. Clean
  BY CleanBefore
<1>3. /\ op'.h = h /\ op'.size = n /\ op'.fresh = FALSE /\ op'.cluster = fh[h].start
      /\ op'.pc # "terminate" /\ op'.pc # "link" /\ op' # Idle
      /\ op'.pc = "free" <=> n = 0 /\ fh[h].start # 0
  BY <1>1 DEF Idle
<1>4. Owned /\ \A k \in Opened : fh[k].start = dirent[fh[k].file].start
  BY <1>1, <1>2 DEF OwnedInv
<1>5. /\ \A k \in Handles \ {h} : fh'[k] = fh[k]
      /\ fh'[h] \in Handled /\ fh'[h].file = fh[h].file /\ (n # 0 => fh'[h].start = fh[h].start)
  <2>1. CASE n # 0
    BY <1>1, <2>1, OpenType
  <2>2. CASE n = 0
    <3> DEFINE q == [[[fh[h] EXCEPT !.start = 0] EXCEPT !.cur = 0] EXCEPT !.pos = 0]
    <3>1. fh' = [fh EXCEPT ![h] = q] /\ fh[h] \in Handled
      BY <1>1, <2>2, OpenType DEF TypeOK
    <3>2. q \in Handled /\ q.file = fh[h].file
      BY <3>1, ValueTypes DEF Handled
    <3> HIDE DEF q
    <3> QED
      BY <2>2, <3>1, <3>2 DEF TypeOK
  <2> QED
    BY <2>1, <2>2
<1>6. ASSUME NEW k \in Opened', k # h PROVE fh'[k].start = dirent'[fh'[k].file].start
  <2>1. k \in Opened /\ fh'[k] = fh[k]
    BY <1>5, <1>6 DEF Opened
  <2> QED
    BY <1>1, <1>4, <2>1
<1>7. ASSUME NEW s \in Roots PROVE s \in Roots'
  <2>1. s \in Clusters /\ \E f \in Files : s = dirent[f].start
    BY <1>1 DEF Roots, Idle
  <2>2. PICK f \in Files : s = dirent[f].start
    BY <2>1
  <2>3. CASE f = fh[h].file /\ n = 0
    <3>1. s = op'.cluster /\ s # 0
      BY <1>1, <1>3, <1>4, <2>1, <2>2, <2>3, ValueTypes
    <3>2. op'.pc = "free"
      BY <1>3, <2>3, <3>1
    <3> QED
      BY <2>1, <3>1, <3>2 DEF Roots
  <2>4. CASE ~(f = fh[h].file /\ n = 0)
    <3>1. ~Emptied(f)'
      <4>1. ~(op' # Idle /\ op'.size = 0 /\ fh'[op'.h].file = f)
        BY <1>3, <1>5, <2>4
      <4> QED
        BY <4>1 DEF Emptied
    <3> QED
      BY <1>1, <2>1, <2>2, <3>1 DEF Roots
  <2> QED
    BY <2>3, <2>4
<1>8. Owned'
  BY <1>1, <1>4, <1>7, OwnedStays
<1> QED
  BY <1>3, <1>6, <1>8 DEF OwnedInv

\* What the steps of a resize have in common: its handle and the chains of other files.
LEMMA OwnedWork ==
  ASSUME Orderly, TypeOK, HeadsInv, WalkInv, OwnedInv, Next, Clean',
         First \/ WalkOn \/ CutChain \/ Grow \/ Link \/ Terminate \/ FreeOne \/ PutEntry \/ SetSizeFails
  PROVE  /\ Clean /\ faults' = faults /\ Owned /\ op.pc # "terminate" /\ op.pc # "idle"
         /\ op.pc = "free" => ~op.fresh
         /\ \A k \in Opened \ {op.h} : fh[k].start = dirent[fh[k].file].start
         /\ Linked(fat) /\ fat \in Tables /\ OpenInv /\ op # Idle /\ op \in Resizes
         /\ op.h \in Handles /\ op.h \in Opened /\ fh[op.h] \in Handled
<1>1. Clean /\ faults' = faults
  BY CleanBefore
<1>2. op.pc # "idle"
  BY WalkSteps
<1> QED
  BY <1>1, <1>2, WorkFacts, Zenon DEF OwnedInv, Linked

\* A step that goes on with the handle as it was.
LEMMA OwnedGoesOn ==
  ASSUME Orderly, TypeOK, HeadsInv, WalkInv, OwnedInv, Next, Clean',
         First \/ WalkOn \/ CutChain \/ Grow \/ Link \/ Terminate \/ FreeOne \/ PutEntry \/ SetSizeFails,
         dirent' = dirent, op' # Idle, op'.h = op.h, op'.pc # "terminate", op'.pc = "free" => ~op'.fresh,
         fh'[op.h] \in Handled, fh'[op.h].file = fh[op.h].file,
         \A k \in Handles \ {op.h} : fh'[k] = fh[k],
         fh[op.h].start \in Clusters =>
           \A c \in Reached(fat, fh[op.h].start) :
             fat'[c] # Free => \E r \in Roots' : c \in Reached(fat', r),
         op.pc = "free" =>
           \A c \in Reached(fat, op.cluster) :
             fat'[c] # Free => \E r \in Roots' : c \in Reached(fat', r),
         op.pc = "link" =>
           \A c \in Reached(fat, op.next) :
             fat'[c] # Free => \E r \in Roots' : c \in Reached(fat', r),
         \A c \in Clusters :
           fat[c] = Free /\ fat'[c] # Free => \E r \in Roots' : c \in Reached(fat', r)
  PROVE  OwnedInv'
<1>1. /\ Clean /\ Owned /\ op.pc # "idle"
      /\ \A k \in Opened \ {op.h} : fh[k].start = dirent[fh[k].file].start
  BY OwnedWork
<1>2. ASSUME NEW k \in Opened', k # op.h PROVE fh'[k].start = dirent'[fh'[k].file].start
  <2>1. k \in Opened \ {op.h} /\ fh'[k] = fh[k]
    BY <1>2 DEF Opened
  <2> QED
    BY <1>1, <2>1
<1>3. ASSUME NEW s \in Roots, NEW c \in Reached(fat, s), fat'[c] # Free
      PROVE  \E r \in Roots' : c \in Reached(fat', r)
  <2>0. s \in Clusters
    BY DEF Roots
  <2>1. CASE \E g \in Files \ {fh[op.h].file} : s = dirent[g].start
    <3>1. PICK g \in Files \ {fh[op.h].file} : s = dirent[g].start
      BY <2>1
    <3>2. dirent'[g] = dirent[g] /\ dirent[g].start \in Clusters /\ fh'[op'.h].file = fh[op.h].file
      BY <2>0, <3>1
    <3> QED
      BY <3>1, <3>2, ForeignReached
  <2>2. CASE ~\E g \in Files \ {fh[op.h].file} : s = dirent[g].start
    <3>1. \/ s = fh[op.h].start
          \/ op.pc = "free" /\ s = op.cluster
          \/ op.pc = "link" /\ s = op.next
      BY <1>1, <2>2, RootCases
    <3> QED
      BY <1>3, <2>0, <3>1
  <2> QED
    BY <2>1, <2>2
<1>4. Owned'
  BY <1>1, <1>3, OwnedNext
<1> QED
  BY <1>2, <1>4 DEF OwnedInv

\* The file's own chain, where the handle goes on to begin.
LEMMA StartRoot ==
  ASSUME op' # Idle, fh'[op'.h].start \in Clusters PROVE fh'[op'.h].start \in Roots'
  BY DEF Roots

\* The first cluster of an empty file is owned by its handle.
LEMMA OwnedFirst ==
  ASSUME Orderly, TypeOK, HeadsInv, WalkInv, OwnedInv, Next, Clean', First
  PROVE  OwnedInv'
<1>1. /\ Linked(fat) /\ fat \in Tables /\ op \in Resizes /\ op.h \in Handles /\ fh[op.h] \in Handled
      /\ op # Idle
  BY OwnedWork
<1>2. op.pc = "first" /\ dirent' = dirent /\ fh[op.h].start = 0
  BY WorkFacts DEF First
<1> DEFINE D == /\ op' = [op EXCEPT !.pc = "walk", !.cluster = FirstFree, !.fresh = TRUE]
                /\ fh' = [fh EXCEPT ![op.h].start = FirstFree, ![op.h].cur = FirstFree,
                                    ![op.h].pos = 0]
                /\ UNCHANGED before
           F == Return /\ UNCHANGED fh
<1>3. Allocate(D, F)
  BY Zenon DEF First
<1>4. /\ FirstFree \in Clusters /\ fat[FirstFree] = Free
      /\ D /\ fat' = Changed(fat, FirstFree, Eoc)
  <2>1. ~(full' = TRUE) /\ ~Failing
    BY FailingIsNotClean DEF Clean
  <2>2. \/ F /\ fat' = fat /\ (full' = TRUE \/ Failing)
        \/ /\ FirstFree \in Clusters /\ fat[FirstFree] = Free
           /\ (D /\ fat' = Changed(fat, FirstFree, Eoc)) \/ (F /\ Failing)
    BY <1>3, AllocateCases
  <2> HIDE DEF D, F
  <2> QED
    BY <2>1, <2>2
<1> DEFINE x == FirstFree
           r == [[[fh[op.h] EXCEPT !.start = x] EXCEPT !.cur = x] EXCEPT !.pos = 0]
<1>5. x \in Clusters /\ fat[x] = Free /\ fat' = Changed(fat, x, Eoc)
  BY <1>4
<1>6. r \in Handled /\ r.file = fh[op.h].file /\ r.start = x
  BY <1>1, <1>5, ValueTypes DEF Handled
<1>7. fh' = [fh EXCEPT ![op.h] = r]
  BY <1>4 DEF TypeOK
<1>8. op'.pc = "walk" /\ op'.h = op.h /\ op' # Idle
  BY <1>1, <1>4 DEF Resizes, Idle
<1> HIDE DEF x, r, D, F
<1>9. fh'[op.h] = r /\ \A k \in Handles \ {op.h} : fh'[k] = fh[k]
  BY <1>1, <1>7 DEF TypeOK
<1>10. x \in Roots'
  BY <1>5, <1>6, <1>8, <1>9, StartRoot
<1>11. ASSUME NEW c \in Clusters, fat[c] = Free, fat'[c] # Free
       PROVE  \E s \in Roots' : c \in Reached(fat', s)
  <2>1. c = x
    BY <1>1, <1>5, <1>11 DEF Changed, Tables
  <2> QED
    BY <1>10, <2>1, RootReached
<1>12. fh[op.h].start \notin Clusters /\ op.pc # "free" /\ op.pc # "link" /\ op'.pc # "terminate"
       /\ op'.pc # "free"
  BY <1>2, <1>8, ValueTypes
<1> QED
  BY <1>2, <1>6, <1>8, <1>9, <1>11, <1>12, OwnedGoesOn

\* A step along the chain leaves every cluster with its owner.
LEMMA OwnedWalkOn ==
  ASSUME Orderly, TypeOK, HeadsInv, WalkInv, OwnedInv, Next, Clean', WalkOn
  PROVE  OwnedInv'
<1>1. /\ op \in Resizes /\ op.h \in Handles /\ fh[op.h] \in Handled
      /\ op # Idle
  BY OwnedWork
<1>2. op.pc = "walk" /\ dirent' = dirent /\ fat' = fat /\ fh' = fh
      /\ op' = [op EXCEPT !.cluster = Next0, !.left = op.left - BlocksPerCluster]
  BY DEF WalkOn, card
<1>3. op'.pc = "walk" /\ op'.h = op.h /\ op' # Idle
  BY <1>1, <1>2 DEF Resizes, Idle
<1>4. fh[op.h].start \in Clusters => fh[op.h].start \in Roots'
  BY <1>2, <1>3, StartRoot
<1> QED
  BY <1>1, <1>2, <1>3, <1>4, OwnedGoesOn

\* The clusters cut off a chain are owned by the resize, which will free them.
LEMMA OwnedCut ==
  ASSUME Orderly, TypeOK, HeadsInv, WalkInv, OwnedInv, Next, Clean', CutChain
  PROVE  OwnedInv'
<1>1. /\ Linked(fat) /\ fat \in Tables /\ OpenInv /\ op \in Resizes /\ op.h \in Handles
      /\ fh[op.h] \in Handled /\ op # Idle /\ op.h \in Opened
  BY OwnedWork
<1>2. op.pc = "walk" /\ dirent' = dirent /\ fh' = fh
  BY DEF CutChain
<1>3. /\ op.cluster \in Clusters /\ fat[op.cluster] # Free
      /\ (op.fresh => fat[op.cluster] = Eoc)
      /\ fh[op.h].start \in Clusters
  BY <1>2, WorkFacts
<1>4. op' = AfterCut
      /\ (fat' = Changed(fat, op.cluster, Eoc) \/ fat' = fat)
      /\ (op.fresh \/ Next0 >= 2 => fat' = Changed(fat, op.cluster, Eoc))
      /\ (~(op.fresh \/ Next0 >= 2) => fat' = fat)
  <2>1. ~Failing
    BY FailingIsNotClean
  <2>2. CASE op.fresh \/ Next0 >= 2
    <3>1. SetEntry(op.cluster, Eoc, op' = AfterCut /\ UNCHANGED before, Return)
      BY <2>2 DEF CutChain, Cut
    <3> QED
      BY <2>1, <2>2, <3>1 DEF SetEntry, Changed
  <2>3. CASE ~(op.fresh \/ Next0 >= 2)
    BY <2>3 DEF CutChain, Cut
  <2> QED
    BY <2>2, <2>3
<1>5. /\ op'.h = op.h /\ op' # Idle /\ op'.pc \in {"free", "entry"} /\ op'.cluster = Next0
      /\ op'.fresh = op.fresh
      /\ op'.pc = "free" <=> ~op.fresh /\ Next0 >= 2
  BY <1>1, <1>4 DEF AfterCut, Resizes, Idle
<1>6. /\ (op.fresh => Next0 = Free) /\ (~op.fresh => Next0 = fat[op.cluster]) /\ Next0 \in Links
      /\ (Next0 >= 2 <=> Next0 \in Clusters)
  BY <1>2, <1>3, NextIs, LinkAbove
<1>7. fh[op.h].start \in Roots'
  BY <1>2, <1>3, <1>5, StartRoot
<1> DEFINE s == fh[op.h].start
           x == op.cluster
<1>8. ASSUME NEW c \in Reached(fat, s) PROVE \E r \in Roots' : c \in Reached(fat', r)
  <2>1. CASE fat[x] \in Clusters
    <3>1. ~op.fresh /\ Next0 = fat[x] /\ op'.pc = "free" /\ fat' = Changed(fat, x, Eoc)
      BY <1>3, <1>4, <1>5, <1>6, <2>1, ValueTypes
    <3>2. fat[x] \in Roots'
      BY <1>5, <2>1, <3>1 DEF Roots
    <3>3. PICK k \in Nat : x = FollowOf(fat, s, k)
      BY <1>2 DEF WalkInv
    <3>4. IsFirst(fat, s)
      BY <1>1, <1>3 DEF OpenInv
    <3> HIDE DEF s, x
    <3>5. s \in Clusters /\ x \in Clusters
      BY <1>3 DEF s, x
    <3>6. c \in Reached(fat', s) \cup Reached(fat', fat[x])
      BY <1>1, <1>8, <2>1, <3>1, <3>3, <3>4, <3>5, CutReach
    <3> QED
      BY <1>7, <3>2, <3>6 DEF s
  <2>2. CASE fat[x] \notin Clusters
    <3>1. fat' = fat
      <4>1. CASE op.fresh
        <5>1. fat' = Changed(fat, x, Eoc) /\ fat[x] = Eoc
          BY <1>3, <1>4, <4>1
        <5> QED
          BY <1>1, <5>1 DEF Changed, Tables
      <4>2. CASE ~op.fresh
        BY <1>4, <1>6, <2>2, <4>2
      <4> QED
        BY <4>1, <4>2
    <3> QED
      BY <1>7, <1>8, <3>1
  <2> QED
    BY <2>1, <2>2
<1>9. ASSUME NEW c \in Clusters, fat[c] = Free PROVE fat'[c] = Free
  <2> DEFINE y == op.cluster
  <2>1. y \in Clusters /\ fat[y] # Free /\ (fat' = Changed(fat, y, Eoc) \/ fat' = fat)
    BY <1>3, <1>4
  <2> HIDE DEF y
  <2> QED
    BY <1>1, <1>9, <2>1 DEF Changed, Tables
<1>10. op.pc # "free" /\ op.pc # "link" /\ op'.pc # "terminate" /\ (op'.pc = "free" => ~op'.fresh)
  BY <1>2, <1>5, <1>1 DEF Resizes
<1> HIDE DEF x
<1> QED
  BY <1>1, <1>2, <1>5, <1>8, <1>9, <1>10, OwnedGoesOn

\* The cluster that a growing file took is owned by the resize, which will link it.
LEMMA OwnedGrow ==
  ASSUME Orderly, TypeOK, HeadsInv, WalkInv, OwnedInv, Next, Clean', Grow
  PROVE  OwnedInv'
<1>1. /\ Linked(fat) /\ fat \in Tables /\ OpenInv /\ op \in Resizes /\ op.h \in Handles
      /\ fh[op.h] \in Handled /\ op # Idle /\ op.h \in Opened
  BY OwnedWork
<1>2. op.pc = "walk" /\ dirent' = dirent /\ fh' = fh
  BY DEF Grow
<1>3. fh[op.h].start \in Clusters /\ fat[fh[op.h].start] # Free
  <2>1. fh[op.h].start \in Clusters
    BY <1>2, WorkFacts
  <2> QED
    BY <1>1, <2>1 DEF OpenInv
<1> DEFINE D == op' = [op EXCEPT !.pc = "link", !.next = FirstFree, !.fresh = TRUE]
           F == op' = [op EXCEPT !.pc = "terminate"]
<1>4. Allocate(D, F)
  BY Zenon DEF Grow
<1>5. /\ FirstFree \in Clusters /\ fat[FirstFree] = Free
      /\ D /\ fat' = Changed(fat, FirstFree, Eoc)
  <2>1. ~(full' = TRUE) /\ ~Failing
    BY FailingIsNotClean DEF Clean
  <2>2. \/ F /\ fat' = fat /\ (full' = TRUE \/ Failing)
        \/ /\ FirstFree \in Clusters /\ fat[FirstFree] = Free
           /\ (D /\ fat' = Changed(fat, FirstFree, Eoc)) \/ (F /\ Failing)
    BY <1>4, AllocateCases
  <2> HIDE DEF D, F
  <2> QED
    BY <2>1, <2>2
<1> DEFINE x == FirstFree
           s == fh[op.h].start
<1>6. x \in Clusters /\ fat[x] = Free /\ fat' = Changed(fat, x, Eoc)
  BY <1>5
<1>7. op'.pc = "link" /\ op'.h = op.h /\ op' # Idle /\ op'.next = x
  BY <1>1, <1>5 DEF Resizes, Idle
<1>8. s \in Roots'
  BY <1>2, <1>3, <1>7, StartRoot
<1> HIDE DEF x, D, F
<1>9. x \in Roots'
  BY <1>6, <1>7 DEF Roots
<1>10. ASSUME NEW c \in Reached(fat, s) PROVE \E r \in Roots' : c \in Reached(fat', r)
  <2>1. s \in Clusters /\ fat[s] # Free
    BY <1>3
  <2> HIDE DEF s
  <2>2. \A n \in Nat : FollowOf(fat', s, n) = FollowOf(fat, s, n)
    BY <1>1, <1>6, <2>1, AwayFromFree, ValueTypes
  <2>3. Reached(fat, s) \subseteq Reached(fat', s)
    BY <2>2, ReachKept
  <2> QED
    BY <1>8, <1>10, <2>3 DEF s
<1>11. ASSUME NEW c \in Clusters, fat[c] = Free, fat'[c] # Free
       PROVE  \E r \in Roots' : c \in Reached(fat', r)
  <2>1. c = x
    BY <1>1, <1>6, <1>11 DEF Changed, Tables
  <2> QED
    BY <1>9, <2>1, RootReached
<1>12. op.pc # "free" /\ op.pc # "link" /\ op'.pc # "terminate" /\ op'.pc # "free"
  BY <1>2, <1>7
<1> QED
  BY <1>1, <1>2, <1>7, <1>10, <1>11, <1>12, OwnedGoesOn

\* The cluster that is linked is reached by the chain it is linked to.
LEMMA OwnedLink ==
  ASSUME Orderly, TypeOK, HeadsInv, WalkInv, OwnedInv, Next, Clean', Link
  PROVE  OwnedInv'
<1>1. /\ Linked(fat) /\ fat \in Tables /\ OpenInv /\ op \in Resizes /\ op.h \in Handles
      /\ fh[op.h] \in Handled /\ op # Idle /\ op.h \in Opened
  BY OwnedWork
<1>2. op.pc = "link" /\ dirent' = dirent /\ fh' = fh
  BY DEF Link
<1>3. /\ fh[op.h].start \in Clusters /\ op.cluster \in Clusters /\ op.next \in Clusters
      /\ fat[op.cluster] = Eoc /\ IsFirst(fat, op.next) /\ fh[op.h].start # op.next
  BY <1>1, <1>2, WorkFacts
<1>4. /\ fat' = Changed(fat, op.cluster, op.next)
      /\ op' = [op EXCEPT !.pc = "walk", !.cluster = op.next, !.left = op.left - BlocksPerCluster]
  BY FailingIsNotClean DEF Link, SetEntry, Changed
<1>5. op'.pc = "walk" /\ op'.h = op.h /\ op' # Idle
  BY <1>1, <1>4 DEF Resizes, Idle
<1> DEFINE s == fh[op.h].start
           x == op.cluster
           y == op.next
<1>6. s \in Roots'
  BY <1>2, <1>3, <1>5, StartRoot
<1>7. PICK k \in Nat : x = FollowOf(fat, s, k)
  BY <1>2 DEF WalkInv
<1>8. /\ s \in Clusters /\ x \in Clusters /\ y \in Clusters /\ fat[x] \notin Clusters
      /\ IsFirst(fat, y) /\ s # y /\ fat' = Changed(fat, x, y) /\ IsFirst(fat, s)
      /\ s \in Links /\ y \in FatValues
  BY <1>1, <1>3, <1>4, ValueTypes DEF OpenInv
<1>9. /\ \A c \in Reached(fat, s) : \E r \in Roots' : c \in Reached(fat', r)
      /\ \A c \in Reached(fat, y) : \E r \in Roots' : c \in Reached(fat', r)
  <2> HIDE DEF s, x, y
  <2>1. Reached(fat, y) \subseteq Reached(fat', s)
    BY <1>1, <1>7, <1>8, JoinReach
  <2>2. \A n \in Nat : FollowOf(fat, s, n) \in Clusters => FollowOf(fat', s, n) = FollowOf(fat, s, n)
    BY <1>1, <1>8, AwayFromLast
  <2>3. Reached(fat, s) \subseteq Reached(fat', s)
    BY <2>2, ReachKept
  <2> QED
    BY <1>6, <2>1, <2>3
<1>10. ASSUME NEW c \in Clusters, fat[c] = Free, fat'[c] # Free PROVE FALSE
  <2> HIDE DEF x, y
  <2>1. c = x
    BY <1>1, <1>8, <1>10 DEF Changed, Tables
  <2> QED
    BY <1>3, <1>10, <2>1, ValueTypes DEF x
<1>11. op.pc # "free" /\ op'.pc # "terminate" /\ op'.pc # "free"
  BY <1>2, <1>5
<1> QED
  BY <1>1, <1>2, <1>5, <1>9, <1>10, <1>11, OwnedGoesOn

\* A freed cluster needs no owner, and the resize still holds the ones after it.
LEMMA OwnedFree ==
  ASSUME Orderly, TypeOK, HeadsInv, WalkInv, OwnedInv, Next, Clean', FreeOne
  PROVE  OwnedInv'
<1>1. /\ Linked(fat) /\ fat \in Tables /\ OpenInv /\ op \in Resizes /\ op.h \in Handles
      /\ fh[op.h] \in Handled /\ op # Idle /\ op.h \in Opened
      /\ (op.pc = "free" => ~op.fresh)
  BY OwnedWork
<1>2. op.pc = "free" /\ dirent' = dirent /\ fh' = fh
  BY FreeCases
<1>3. /\ op.cluster \in Clusters /\ IsFirst(fat, op.cluster) /\ fh[op.h].start # op.cluster
  BY <1>1, <1>2, WorkFacts
<1>4. /\ fat' = Changed(fat, op.cluster, Free)
      /\ op' = IF Next0 < 2 THEN [op EXCEPT !.pc = "entry"] ELSE [op EXCEPT !.cluster = Next0]
  BY FailingIsNotClean, FreeCases
<1>5. /\ op'.h = op.h /\ op' # Idle /\ op'.fresh = op.fresh /\ op'.pc \in {"free", "entry"}
      /\ ~(Next0 < 2) => op'.pc = "free" /\ op'.cluster = Next0
  BY <1>1, <1>2, <1>4 DEF Resizes, Idle
<1>6. Next0 = fat[op.cluster] /\ (Next0 < 2 <=> Next0 \notin Clusters)
  BY <1>1, <1>2, <1>3, NextIs, LinkAbove
<1> DEFINE s == fh[op.h].start
           x == op.cluster
<1>7. ASSUME s \in Clusters, NEW c \in Reached(fat, s)
      PROVE  \E r \in Roots' : c \in Reached(fat', r)
  <2>1. s \in Roots'
    BY <1>2, <1>5, <1>7, StartRoot
  <2>2. x \in Clusters /\ IsFirst(fat, x) /\ s # x /\ fat' = Changed(fat, x, Free) /\ s \in Links
        /\ Free \in FatValues
    BY <1>3, <1>4, <1>7, ValueTypes
  <2> HIDE DEF s, x
  <2>3. \A n \in Nat : FollowOf(fat', s, n) = FollowOf(fat, s, n)
    BY <1>1, <2>2, AwayFromFirst
  <2>4. Reached(fat, s) \subseteq Reached(fat', s)
    BY <2>3, ReachKept
  <2> QED
    BY <1>7, <2>1, <2>4
<1>8. ASSUME NEW c \in Reached(fat, x), fat'[c] # Free
      PROVE  \E r \in Roots' : c \in Reached(fat', r)
  <2>1. x \in Clusters /\ IsFirst(fat, x) /\ fat' = Changed(fat, x, Free)
    BY <1>3, <1>4
  <2>2. Next0 = fat[x] /\ (fat[x] \in Clusters => op'.pc = "free" /\ op'.cluster = fat[x])
    BY <1>5, <1>6
  <2> HIDE DEF x
  <2>3. c # x
    BY <1>1, <1>8, <2>1 DEF Changed, Tables
  <2>4. fat[x] \in Clusters /\ c \in Reached(fat', fat[x])
    BY <1>1, <1>8, <2>1, <2>3, FreeReach
  <2>5. fat[x] \in Roots'
    BY <2>2, <2>4 DEF Roots
  <2> QED
    BY <2>4, <2>5
<1>9. ASSUME NEW c \in Clusters, fat[c] = Free PROVE fat'[c] = Free
  <2>1. x \in Clusters /\ fat' = Changed(fat, x, Free)
    BY <1>3, <1>4
  <2> HIDE DEF x
  <2> QED
    BY <1>1, <1>9, <2>1 DEF Changed, Tables
<1>10. op.pc # "link" /\ op'.pc # "terminate" /\ (op'.pc = "free" => ~op'.fresh)
  BY <1>1, <1>2, <1>5
<1> QED
  BY <1>1, <1>2, <1>5, <1>7, <1>8, <1>9, <1>10, OwnedGoesOn

\* The directory entry owns what the handle of the resize owned.
LEMMA OwnedPut ==
  ASSUME Orderly, TypeOK, HeadsInv, WalkInv, OwnedInv, Next, Clean', PutEntry
  PROVE  OwnedInv'
<1>1. /\ OpenInv /\ op \in Resizes /\ op.h \in Handles /\ Owned
      /\ fh[op.h] \in Handled /\ op # Idle /\ op.h \in Opened
      /\ \A k \in Opened \ {op.h} : fh[k].start = dirent[fh[k].file].start
  BY OwnedWork
<1>2. /\ op.pc = "entry" /\ fat' = fat /\ op' = Idle
      /\ fh' = [fh EXCEPT ![op.h] = [fh[op.h] EXCEPT !.size = op.size]]
      /\ dirent' = [dirent EXCEPT ![fh[op.h].file] = [start |-> fh[op.h].start, size |-> op.size]]
  BY FailingIsNotClean, PutCases DEF Return
<1> DEFINE f == fh[op.h].file
           s == fh[op.h].start
<1>3. f \in Files /\ dirent'[f].start = s /\ \A g \in Files \ {f} : dirent'[g] = dirent[g]
  BY <1>1, <1>2 DEF TypeOK, Handled
<1>4. \A k \in Opened' : k \in Opened /\ fh'[k].file = fh[k].file /\ fh'[k].start = fh[k].start
  <2> DEFINE r == [fh[op.h] EXCEPT !.size = op.size]
  <2>1. r.file = fh[op.h].file /\ r.start = fh[op.h].start
    BY <1>1 DEF Handled
  <2>2. fh' = [fh EXCEPT ![op.h] = r]
    BY <1>2
  <2> HIDE DEF r
  <2>3. fh'[op.h] = r /\ \A k \in Handles \ {op.h} : fh'[k] = fh[k]
    BY <1>1, <2>2 DEF TypeOK
  <2> QED
    BY <1>1, <2>1, <2>3 DEF Opened
<1>5. ASSUME NEW k \in Opened' PROVE fh'[k].start = dirent'[fh'[k].file].start
  <2>1. k \in Opened /\ fh'[k].file = fh[k].file /\ fh'[k].start = fh[k].start
    BY <1>4
  <2>2. CASE k = op.h
    BY <1>3, <2>1, <2>2
  <2>3. CASE k # op.h
    <3>1. fh[k].file # f /\ fh[k].file \in Files
      BY <1>1, <2>1, <2>3, HandleFacts DEF OpenInv
    <3> QED
      BY <1>1, <1>3, <2>1, <2>3, <3>1
  <2> QED
    BY <2>2, <2>3
<1>6. \A g \in Files : ~Emptied(g)'
  BY <1>2 DEF Emptied
<1>7. ASSUME NEW r \in Roots PROVE r \in Roots'
  <2>1. r \in Clusters
    BY DEF Roots
  <2>2. r = s \/ \E g \in Files \ {f} : r = dirent[g].start
    BY <1>2, RootCases
  <2>3. \E g \in Files : r = dirent'[g].start
    BY <1>3, <2>2
  <2> QED
    BY <1>6, <2>1, <2>3 DEF Roots
<1>8. Owned'
  BY <1>1, <1>2, <1>7, OwnedStays
<1>9. op'.pc = "idle"
  BY <1>2 DEF Idle
<1> QED
  BY <1>5, <1>8, <1>9 DEF OwnedInv

\* Every step keeps every allocated cluster owned, until something fails.
LEMMA OwnedStep ==
  ASSUME Orderly, TypeOK, HeadsInv, WalkInv, OwnedInv, [Next]_vars
  PROVE  OwnedInv'
<1>1. CASE UNCHANGED vars
  <2>1. UNCHANGED <<fat, dirent, fh, op, full, faults>>
    BY <1>1 DEF vars, card
  <2>2. Roots' = Roots /\ Clean' = Clean /\ Opened' = Opened
    BY <2>1 DEF Roots, Emptied, Clean, Opened
  <2>3. Owned => Owned'
    BY <2>1, <2>2, OwnedStays
  <2> QED
    BY <2>1, <2>2, <2>3 DEF OwnedInv
<1>2. CASE Next
  <2> SUFFICES ASSUME Clean' PROVE OwnedInv'
    BY DEF OwnedInv
  <2>1. ASSUME NEW h \in Handles,
               \/ \E f \in Files : Open(h, f)
               \/ Close(h)
               \/ \E p \in Positions : SetPos(h, p)
               \/ \E n \in Lengths : Read(h, n) \/ Write(h, n) \/ WriteFails(h, n)
        PROVE  OwnedInv'
    BY <1>2, <2>1, OwnedIdle
  <2>2. ASSUME NEW h \in Handles, NEW n \in Sizes, SetSize(h, n) PROVE OwnedInv'
    BY <1>2, <2>2, OwnedSetSize
  <2>3. CASE First
    BY <1>2, <2>3, OwnedFirst
  <2>4. CASE WalkOn
    BY <1>2, <2>4, OwnedWalkOn
  <2>5. CASE CutChain
    BY <1>2, <2>5, OwnedCut
  <2>6. CASE Grow
    BY <1>2, <2>6, OwnedGrow
  <2>7. CASE Link
    BY <1>2, <2>7, OwnedLink
  <2>8. CASE Terminate
    <3>1. op.pc # "terminate"
      BY <1>2, <2>8, OwnedWork
    <3> QED
      BY <2>8, <3>1 DEF Terminate
  <2>9. CASE FreeOne
    BY <1>2, <2>9, OwnedFree
  <2>10. CASE PutEntry
    BY <1>2, <2>10, OwnedPut
  <2>11. CASE SetSizeFails \/ PowerOff
    <3>1. Failing \/ Fault
      BY <2>11 DEF SetSizeFails, PowerOff
    <3> QED
      BY <3>1, FailingIsNotClean
  <2> QED
    BY <1>2, <2>1, <2>2, <2>3, <2>4, <2>5, <2>6, <2>7, <2>8, <2>9, <2>10, <2>11, Zenon DEF Next
<1> QED
  BY <1>1, <1>2

\* At first each chain is the one of its file's layout.
LEMMA InitFollow ==
  ASSUME Init
  PROVE  \E l \in Layouts :
           /\ \A f \in Files : /\ l[f].chain \in Seq(Clusters) /\ l[f].size \in Nat
                               /\ dirent[f].size = l[f].size
           /\ \A f \in Files : \A n \in Nat :
                n < Len(l[f].chain) => FollowOf(fat, dirent[f].start, n) = l[f].chain[n + 1]
           /\ \A c \in Clusters : fat[c] # Free =>
                \E f \in Files : \E n \in Nat : n < Len(l[f].chain) /\ l[f].chain[n + 1] = c
<1>1. PICK l \in Layouts :
           /\ \A f \in Files : l[f].chain \in Seq(Clusters) /\ l[f].size \in Nat
           /\ \A f \in Files : \A i \in DOMAIN l[f].chain :
                fat[l[f].chain[i]] = IF i = Len(l[f].chain) THEN Eoc ELSE l[f].chain[i + 1]
           /\ \A c \in Clusters : fat[c] # Free =>
                \E f \in Files : \E i \in DOMAIN l[f].chain : l[f].chain[i] = c
           /\ \A f \in Files :
                /\ dirent[f].size = l[f].size
                /\ dirent[f].start = IF l[f].chain = <<>> THEN 0 ELSE l[f].chain[1]
                /\ l[f].chain = <<>> => dirent[f].size = 0
  BY InitChains
<1>2. fat \in Tables
  BY InitType DEF TypeOK, Tables
<1>3. ASSUME NEW f \in Files, NEW n \in Nat, n < Len(l[f].chain)
      PROVE  FollowOf(fat, dirent[f].start, n) = l[f].chain[n + 1]
  <2> DEFINE q == l[f].chain
             s == dirent[f].start
             S == {k \in Nat : k < Len(q) => FollowOf(fat, s, k) = q[k + 1]}
  <2>1. q \in Seq(Clusters) /\ Len(q) \in Nat /\ (0 < Len(q) => s = q[1])
        /\ \A i \in DOMAIN q : fat[q[i]] = IF i = Len(q) THEN Eoc ELSE q[i + 1]
    BY <1>1
  <2> HIDE DEF q, s
  <2>2. 0 \in S
    BY <2>1, FollowSteps
  <2>3. ASSUME NEW k \in Nat, k \in S PROVE k + 1 \in S
    <3> SUFFICES ASSUME k + 1 < Len(q) PROVE FollowOf(fat, s, k + 1) = q[(k + 1) + 1]
      OBVIOUS
    <3>1. FollowOf(fat, s, k) = q[k + 1] /\ k + 1 \in DOMAIN q /\ q[k + 1] \in Clusters
      BY <2>1, <2>3
    <3>2. EntryOf(fat, q[k + 1]) = fat[q[k + 1]]
      BY <1>2, <3>1, EntryType, ValueTypes
    <3>3. fat[q[k + 1]] = q[(k + 1) + 1]
      <4> DEFINE i == k + 1
      <4>1. i \in DOMAIN q /\ i # Len(q)
        BY <2>1, <3>1
      <4> HIDE DEF i
      <4>2. fat[q[i]] = q[i + 1]
        BY <2>1, <4>1
      <4> QED
        BY <4>2 DEF i
    <3>4. FollowOf(fat, s, k + 1) = EntryOf(fat, FollowOf(fat, s, k))
      BY FollowSteps
    <3> QED
      BY <3>1, <3>2, <3>3, <3>4
  <2> HIDE DEF S
  <2>4. n \in S
    BY <2>2, <2>3, Induction
  <2> QED
    BY <1>3, <2>4 DEF S, q, s
<1>4. ASSUME NEW c \in Clusters, fat[c] # Free
      PROVE  \E f \in Files : \E n \in Nat : n < Len(l[f].chain) /\ l[f].chain[n + 1] = c
  <2>1. PICK f \in Files : \E i \in DOMAIN l[f].chain : l[f].chain[i] = c
    BY <1>1, <1>4
  <2>2. PICK i \in DOMAIN l[f].chain : l[f].chain[i] = c
    BY <2>1
  <2>3. l[f].chain \in Seq(Clusters)
    BY <1>1
  <2>4. i - 1 \in Nat /\ i - 1 < Len(l[f].chain) /\ (i - 1) + 1 = i
    BY <2>2, <2>3
  <2> QED
    BY <2>2, <2>4
<1> QED
  BY <1>1, <1>3, <1>4

\* The clusters of a freshly laid out card belong to its files.
LEMMA OwnedInit == ASSUME Init PROVE OwnedInv
<1>1. PICK l \in Layouts :
           /\ \A f \in Files : /\ l[f].chain \in Seq(Clusters) /\ l[f].size \in Nat
                               /\ dirent[f].size = l[f].size
           /\ \A f \in Files : \A n \in Nat :
                n < Len(l[f].chain) => FollowOf(fat, dirent[f].start, n) = l[f].chain[n + 1]
           /\ \A c \in Clusters : fat[c] # Free =>
                \E f \in Files : \E n \in Nat : n < Len(l[f].chain) /\ l[f].chain[n + 1] = c
  BY InitFollow
<1>2. op = Idle /\ op.pc = "idle" /\ Opened = {} /\ fat \in Tables /\ TypeOK
  <2>1. op = Idle /\ fh = [h \in Handles |-> Closed]
    BY DEF Init
  <2> QED
    BY <2>1, InitType DEF Idle, Opened, TypeOK, Tables
<1>3. ASSUME NEW c \in Clusters, fat[c] # Free PROVE \E s \in Roots : c \in Reached(fat, s)
  <2>1. PICK f \in Files : \E n \in Nat : n < Len(l[f].chain) /\ l[f].chain[n + 1] = c
    BY <1>1, <1>3
  <2>2. PICK n \in Nat : n < Len(l[f].chain) /\ l[f].chain[n + 1] = c
    BY <2>1
  <2>3. FollowOf(fat, dirent[f].start, n) = c
    BY <1>1, <2>2
  <2>4. dirent[f].start \in Clusters
    <3>1. dirent[f].start \in Clusters \cup {0} /\ dirent[f].start \in Links
      BY <1>2, ValueTypes DEF TypeOK
    <3>2. dirent[f].start \notin Clusters => FollowOf(fat, dirent[f].start, n) \notin Clusters
      BY <1>2, <3>1, FollowNowhere
    <3> QED
      BY <2>3, <3>2
  <2>5. ~Emptied(f)
    BY <1>2 DEF Emptied
  <2> QED
    BY <2>3, <2>4, <2>5 DEF Roots, Reached
<1> QED
  BY <1>2, <1>3 DEF OwnedInv, Owned

\* With no resize under way the chains that own clusters are the chains of the files.
LEMMA NoLeakOf == ASSUME TypeOK, HeadsInv, OwnedInv PROVE NoLeak
<1> SUFFICES ASSUME op = Idle, Clean
             PROVE  {c \in Clusters : fat[c] # Free} = UNION {Chain(f) : f \in Files}
  BY DEF NoLeak, Clean
<1>1. Linked(fat) /\ EntryInv /\ Owned
  BY DEF HeadsInv, OwnedInv
<1>2. \A f \in Files : ~Emptied(f)
  BY DEF Emptied
<1>3. ASSUME NEW c \in Clusters, fat[c] # Free PROVE \E f \in Files : c \in Chain(f)
  <2>1. PICK s \in Roots : c \in Reached(fat, s)
    BY <1>1, <1>3 DEF Owned
  <2>2. PICK f \in Files : s = dirent[f].start
    BY DEF Roots, Idle
  <2>3. s \in Clusters /\ s \in Links /\ IsFirst(fat, s)
    <3>1. s \in Clusters
      BY DEF Roots
    <3> QED
      BY <1>1, <2>2, <3>1, ValueTypes DEF EntryInv
  <2>4. PICK n \in Nat : c = FollowOf(fat, s, n)
    BY <2>1 DEF Reached
  <2>5. n < NumClusters
    BY <1>1, <1>3, <2>3, <2>4, ChainIsShort
  <2>6. n \in 0..Cardinality(Clusters)
    BY <2>5, ClustersFinite, FatAssumption
  <2> QED
    BY <1>3, <2>2, <2>4, <2>6, FollowIsOf DEF Chain
<1>4. ASSUME NEW f \in Files, NEW c \in Chain(f) PROVE c \in Clusters /\ fat[c] # Free
  BY <1>2, ApartOf DEF ChainsApart, Chain
<1> QED
  BY <1>3, <1>4

\* However files are resized, as long as nothing fails and the card is not full the clusters
\* in use are exactly those of the files: resizing loses no space.
THEOREM NoClusterLost ==
  "alias" \notin Hazards /\ "torn" \notin Hazards => (Spec => []NoLeak)
<1> SUFFICES ASSUME Orderly PROVE Spec => []NoLeak
  BY DEF Orderly
<1> DEFINE IInv == TypeOK /\ HeadsInv /\ WalkInv /\ OwnedInv
<1>1. Init => IInv
  <2>1. Init => op = Idle
    BY DEF Init
  <2>2. op = Idle => WalkInv
    BY DEF WalkInv, Idle
  <2> QED
    BY <2>1, <2>2, InitType, HeadsInit, OwnedInit
<1>2. IInv /\ [Next]_vars => IInv'
  BY TypeStep, HeadsStep, WalkStep, OwnedStep
<1>3. IInv => NoLeak
  BY NoLeakOf
<1> QED
  BY <1>1, <1>2, <1>3, PTL DEF Spec

----------------------------------------------------------------------------
(* What the files hold.                                                     *)

\* Contents of a file, for any table, clusters and entry.
ContentsIn(t, d, e) ==
  IF \A p \in 0..(e.size - 1) : FollowOf(t, e.start, Index(p)) >= 2
  THEN {[i \in 1..e.size |-> d[FollowOf(t, e.start, Index(i - 1))][(i - 1) % ClusterLen]]}
  ELSE {}

\* What a file holds is read from the table, the units and its entry.
LEMMA ContentsAre == \A f \in Files : Contents(f) = ContentsIn(fat, data, dirent[f])
  BY FollowIsOf, Zenon DEF Contents, ContentsIn

\* The same after a step.
LEMMA ContentsAreNext == \A f \in Files : Contents(f)' = ContentsIn(fat', data', dirent'[f])
<1>1. \A c, n : Follow(c, n)' = FollowOf(fat', c, n)
  BY Zenon DEF Follow, FollowOf, Entry, EntryOf
<1> QED
  BY <1>1, Zenon DEF Contents, ContentsIn

\* The contents of a file, unit by unit.
LEMMA ContentsHold ==
  ASSUME NEW t \in Tables, NEW d, NEW e \in [start : Clusters \cup {0}, size : Nat],
         NEW b \in ContentsIn(t, d, e)
  PROVE  /\ DOMAIN b = 1..e.size /\ Len(b) = e.size
         /\ \A p \in Nat : p < e.size =>
              /\ FollowOf(t, e.start, Index(p)) \in Clusters
              /\ b[p + 1] = d[FollowOf(t, e.start, Index(p))][p % ClusterLen]
<1> DEFINE B == [i \in 1..e.size |-> d[FollowOf(t, e.start, Index(i - 1))][(i - 1) % ClusterLen]]
<1>1. (\A p \in 0..(e.size - 1) : FollowOf(t, e.start, Index(p)) >= 2) /\ b = B
  BY DEF ContentsIn
<1>2. e.size \in Nat /\ e.start \in Links
  BY ValueTypes
<1>3. ASSUME NEW p \in Nat, p < e.size
      PROVE  /\ FollowOf(t, e.start, Index(p)) \in Clusters
             /\ b[p + 1] = d[FollowOf(t, e.start, Index(p))][p % ClusterLen]
  <2>1. FollowOf(t, e.start, Index(p)) >= 2 /\ FollowOf(t, e.start, Index(p)) \in Links
    <3>1. Index(p) \in Nat
      BY IndexType
    <3>2. p \in 0..(e.size - 1)
      BY <1>2, <1>3
    <3> QED
      BY <1>1, <1>2, <3>1, <3>2, FollowType
  <2>2. p + 1 \in 1..e.size /\ (p + 1) - 1 = p
    BY <1>2, <1>3
  <2>3. B[p + 1] = d[FollowOf(t, e.start, Index((p + 1) - 1))][((p + 1) - 1) % ClusterLen]
    BY <2>2, Zenon
  <2> QED
    BY <1>1, <2>1, <2>2, <2>3, LinkAbove
<1>4. DOMAIN b = 1..e.size /\ Len(b) = e.size
  <2>1. DOMAIN b = 1..e.size
    BY <1>1, Zenon
  <2>2. B \in Seq({B[i] : i \in 1..e.size})
    BY <1>2
  <2> QED
    BY <1>1, <1>2, <2>1, <2>2
<1> QED
  BY <1>3, <1>4

\* Files whose entry, clusters and their contents stay have the same contents.
LEMMA ContentsKept ==
  ASSUME NEW t \in Tables, NEW u \in Tables, NEW d, NEW dd,
         NEW e \in [start : Clusters \cup {0}, size : Nat],
         \A p \in Nat : p < e.size =>
           /\ FollowOf(u, e.start, Index(p)) = FollowOf(t, e.start, Index(p))
           /\ FollowOf(t, e.start, Index(p)) \in Clusters =>
                dd[FollowOf(t, e.start, Index(p))][p % ClusterLen] =
                  d[FollowOf(t, e.start, Index(p))][p % ClusterLen]
  PROVE  ContentsIn(u, dd, e) = ContentsIn(t, d, e)
<1> DEFINE P(v) == \A p \in 0..(e.size - 1) : FollowOf(v, e.start, Index(p)) >= 2
           V(v, w, i) == w[FollowOf(v, e.start, Index(i - 1))][(i - 1) % ClusterLen]
<1>1. e.size \in Nat /\ e.start \in Links
  BY ValueTypes
<1>2. P(u) <=> P(t)
  BY <1>1
<1>3. ASSUME P(t), NEW i \in 1..e.size PROVE V(u, dd, i) = V(t, d, i)
  <2> DEFINE p == i - 1
  <2>1. p \in Nat /\ p < e.size /\ p \in 0..(e.size - 1)
    BY <1>1
  <2>2. FollowOf(t, e.start, Index(p)) >= 2 /\ FollowOf(t, e.start, Index(p)) \in Links
    BY <1>1, <1>3, <2>1, IndexType, FollowType
  <2>3. FollowOf(t, e.start, Index(p)) \in Clusters
    BY <2>2, LinkAbove
  <2> HIDE DEF p
  <2>4. dd[FollowOf(u, e.start, Index(p))][p % ClusterLen] = d[FollowOf(t, e.start, Index(p))][p % ClusterLen]
    BY <2>1, <2>3
  <2> QED
    BY <2>4 DEF p
<1> HIDE DEF P, V
<1>4. P(t) => [i \in 1..e.size |-> V(u, dd, i)] = [i \in 1..e.size |-> V(t, d, i)]
  BY <1>3
<1>5. \A v, w : ContentsIn(v, w, e) = IF P(v) THEN {[i \in 1..e.size |-> V(v, w, i)]} ELSE {}
  BY Zenon DEF ContentsIn, P, V
<1> QED
  BY <1>2, <1>4, <1>5

----------------------------------------------------------------------------
(* A resize of a file.                                                      *)

\* The clusters that still hold what the file held before, which are all of them until the
\* chain is cut.
BeforeInv ==
  op # Idle =>
    LET e == dirent[fh[op.h].file] IN
    \A b \in before :
      /\ DOMAIN b = 1..e.size
      /\ \A p \in Nat : p < e.size =>
           LET c == FollowOf(fat, e.start, Index(p)) IN
           /\ c \in Clusters => b[p + 1] = data[c][p % ClusterLen]
           /\ op.pc \in {"first", "walk", "link", "terminate"} => c \in Clusters

\* The file's own chain, as its entry has it.
LEMMA OwnEntry ==
  ASSUME TypeOK, HeadsInv, op.pc # "idle"
  PROVE  LET e == dirent[fh[op.h].file] IN
         /\ e \in [start : Clusters \cup {0}, size : Nat] /\ e.start \in Links
         /\ e.size # 0 => e.start \in Clusters
         /\ e.start \in Clusters => IsFirst(fat, e.start)
         /\ e.start \in Clusters /\ op.size # 0 => fat[e.start] # Free /\ e.start = fh[op.h].start
<1>1. /\ EntryInv /\ OpenInv /\ op # Idle /\ op.h \in Opened /\ fh[op.h].file \in Files
  BY WorkFacts
<1> DEFINE e == dirent[fh[op.h].file]
<1>2. e \in [start : Clusters \cup {0}, size : Nat]
  BY <1>1 DEF TypeOK
<1>3. e.start \in Clusters \cup {0} /\ e.start \in Links /\ e.size \in Nat
  BY <1>2, ValueTypes
<1>4. e.start = 0 => e.size = 0
  BY <1>1 DEF EntryInv
<1>5. e.start \in Clusters => IsFirst(fat, e.start)
  BY <1>1 DEF EntryInv
<1>6. op.size # 0 => ~Emptied(fh[op.h].file) /\ ~Emptying(op.h)
  BY DEF Emptied, Emptying
<1>7. e.start \in Clusters /\ op.size # 0 => fat[e.start] # Free /\ e.start = fh[op.h].start
  BY <1>1, <1>6, ValueTypes DEF EntryInv, OpenInv
<1> QED
  BY <1>2, <1>3, <1>4, <1>5, <1>7

\* Where a step leaves the chain long enough, it leaves its clusters what they are ...
LEMMA OwnKept ==
  ASSUME Orderly, TypeOK, HeadsInv, WalkInv,
         First \/ WalkOn \/ CutChain \/ Grow \/ Link \/ Terminate \/ FreeOne \/ PutEntry \/ SetSizeFails,
         NEW n \in Nat, FollowOf(fat', dirent[fh[op.h].file].start, n) \in Clusters,
         op.pc = "link" => FollowOf(fat, dirent[fh[op.h].file].start, n) \in Clusters
  PROVE  FollowOf(fat', dirent[fh[op.h].file].start, n) = FollowOf(fat, dirent[fh[op.h].file].start, n)
<1>1. op.pc # "idle"
  BY WalkSteps
<1> DEFINE s == dirent[fh[op.h].file].start
<1>2. s \in Links /\ fat \in Tables /\ Eoc \in {Free, Eoc} /\ Free \in {Free, Eoc}
  BY <1>1, OwnEntry DEF HeadsInv, Linked
<1>3. CASE fat' = fat
  BY <1>3
<1>4. ASSUME NEW x \in Clusters, NEW v \in {Free, Eoc}, fat' = Changed(fat, x, v)
      PROVE  FollowOf(fat', s, n) = FollowOf(fat, s, n)
  <2> HIDE DEF s
  <2> QED
    BY <1>2, <1>4, FollowCut DEF s
<1>5. CASE op.pc = "link" /\ fat' = Changed(fat, op.cluster, op.next)
  <2> DEFINE x == op.cluster
             y == op.next
  <2>1. x \in Clusters /\ y \in FatValues /\ fat[x] \notin Clusters /\ fat' = Changed(fat, x, y)
        /\ FollowOf(fat, s, n) \in Clusters
    <3>1. op.cluster \in Clusters /\ op.next \in Clusters /\ fat[op.cluster] = Eoc
      BY <1>1, <1>5, WorkFacts
    <3> QED
      BY <1>5, <3>1, ValueTypes
  <2> HIDE DEF s, x, y
  <2>2. FollowOf(fat', s, n) = FollowOf(fat, s, n)
    BY <1>2, <2>1, AwayFromLast
  <2> QED
    BY <2>2 DEF s
<1>6. op.pc \in {"walk", "terminate", "free"} => op.cluster \in Clusters
  BY <1>1, WorkFacts
<1> QED
  BY <1>2, <1>3, <1>4, <1>5, <1>6, WalkSteps

\* ... and up to where the chain is cut, it leaves it long enough.
LEMMA OwnStays ==
  ASSUME Orderly, TypeOK, HeadsInv, WalkInv, WalkOn \/ Grow \/ Link,
         NEW n \in Nat, FollowOf(fat, dirent[fh[op.h].file].start, n) \in Clusters
  PROVE  FollowOf(fat', dirent[fh[op.h].file].start, n) = FollowOf(fat, dirent[fh[op.h].file].start, n)
<1>1. op.pc \in {"walk", "link"} /\ op.pc # "idle"
  BY DEF WalkOn, Grow, Link
<1> DEFINE s == dirent[fh[op.h].file].start
<1>2. s \in Links /\ fat \in Tables /\ Linked(fat) /\ Eoc \in FatValues
  BY <1>1, OwnEntry, ValueTypes DEF HeadsInv, Linked
<1>3. s \in Clusters /\ fat[s] # Free
  <2>1. s \in Clusters
    BY <1>2, FollowNowhere
  <2>2. op.size # 0
    BY <1>1, WorkFacts
  <2> QED
    BY <1>1, <2>1, <2>2, OwnEntry
<1>4. op.cluster \in Clusters /\ (op.pc = "link" => op.next \in Clusters /\ fat[op.cluster] = Eoc)
  BY <1>1, WorkFacts
<1>5. ASSUME NEW x \in Clusters, NEW v \in FatValues, fat[x] \notin Clusters, fat' = Changed(fat, x, v)
      PROVE  FollowOf(fat', s, n) = FollowOf(fat, s, n)
  <2>1. FollowOf(fat, s, n) \in Clusters
    OBVIOUS
  <2> HIDE DEF s
  <2> QED
    BY <1>2, <1>5, <2>1, AwayFromLast
<1>6. CASE WalkOn
  BY <1>6 DEF WalkOn, card
<1>7. CASE Link
  <2>1. fat' = fat \/ fat' = Changed(fat, op.cluster, op.next)
    BY <1>7 DEF Link, SetEntry, Changed
  <2>2. op.pc = "link"
    BY <1>7 DEF Link
  <2> QED
    BY <1>4, <1>5, <2>1, <2>2, ValueTypes
<1>8. CASE Grow
  <2>1. op.pc = "walk" /\ Next0 < 2
    BY <1>8 DEF Grow
  <2>2. \/ fat' = fat
        \/ /\ fat' = Changed(fat, FirstFree, Eoc)
           /\ FirstFree \in Clusters /\ fat[FirstFree] = Free
        \/ fat' = Changed(fat, op.cluster, Eoc)
    BY <1>8, <2>1, WalkSteps
  <2>3. fat[op.cluster] \notin Clusters
    <3>1. op.fresh => fat[op.cluster] = Eoc
      BY <2>1, WorkFacts
    <3>2. op \in Resizes
      BY <1>1, WorkFacts
    <3> QED
      BY <1>1, <1>4, <2>1, <3>1, <3>2, NextIs, LinkAbove, ValueTypes DEF Resizes
  <2>4. Free \notin Clusters
    BY ValueTypes
  <2> QED
    BY <1>2, <1>4, <1>5, <2>2, <2>3, <2>4
<1> QED
  BY <1>6, <1>7, <1>8

\* A step of a resize returns or goes on with the same file.
LEMMA ResizeSteps ==
  ASSUME Orderly, TypeOK, HeadsInv,
         First \/ WalkOn \/ CutChain \/ Grow \/ Link \/ Terminate \/ FreeOne \/ PutEntry \/ SetSizeFails
  PROVE  /\ data' = data
         /\ \/ Return
            \/ /\ op' # Idle /\ op'.h = op.h /\ op'.size = op.size /\ before' = before
               /\ fh'[op.h].file = fh[op.h].file
               /\ \A k \in Handles \ {op.h} : fh'[k] = fh[k]
               /\ op'.pc \in {"first", "walk", "link", "terminate"} =>
                    First \/ WalkOn \/ Grow \/ Link
         /\ dirent' = dirent \/ PutEntry
<1>1. /\ op # Idle /\ op.pc # "idle"
  BY WalkSteps
<1>2. op \in Resizes /\ op.h \in Handles /\ fh[op.h] \in Handled
  BY <1>1, WorkFacts
<1>3. CASE First
  <2>1. data' = data /\ dirent' = dirent
    BY <1>3 DEF First
  <2>2. \/ Return
        \/ /\ op' = [op EXCEPT !.pc = "walk", !.cluster = FirstFree, !.fresh = TRUE]
           /\ fh' = [fh EXCEPT ![op.h].start = FirstFree, ![op.h].cur = FirstFree,
                               ![op.h].pos = 0]
           /\ before' = before
    BY <1>3, AllocateType, Zenon DEF First
  <2>3. CASE /\ op' = [op EXCEPT !.pc = "walk", !.cluster = FirstFree, !.fresh = TRUE]
             /\ fh' = [fh EXCEPT ![op.h].start = FirstFree, ![op.h].cur = FirstFree,
                                 ![op.h].pos = 0]
             /\ before' = before
    <3> DEFINE r == [[[fh[op.h] EXCEPT !.start = FirstFree] EXCEPT !.cur = FirstFree] EXCEPT !.pos = 0]
    <3>1. fh' = [fh EXCEPT ![op.h] = r]
      BY <1>2, <2>3 DEF TypeOK
    <3>2. r.file = fh[op.h].file
      BY <1>2 DEF Handled
    <3> HIDE DEF r
    <3>3. fh'[op.h] = r /\ \A k \in Handles \ {op.h} : fh'[k] = fh[k]
      BY <1>2, <3>1 DEF TypeOK
    <3>4. op' # Idle /\ op'.h = op.h /\ op'.size = op.size
      BY <1>2, <2>3 DEF Resizes, Idle
    <3> QED
      BY <1>3, <2>1, <2>3, <3>2, <3>3, <3>4
  <2> QED
    BY <2>1, <2>2, <2>3
<1>4. CASE WalkOn
  <2>1. op'.h = op.h /\ op' # Idle /\ op'.size = op.size
    BY <1>1, <1>2, <1>4 DEF WalkOn, Resizes, Idle
  <2> QED
    BY <1>4, <2>1 DEF WalkOn, card
<1>5. CASE CutChain
  <2>1. data' = data /\ dirent' = dirent /\ fh' = fh /\ op.pc = "walk"
    BY <1>5 DEF CutChain
  <2>2. Return \/ (op' = AfterCut /\ before' = before)
    <3>1. CASE op.fresh \/ Next0 >= 2
      BY <1>5, <3>1 DEF CutChain, Cut, SetEntry
    <3>2. CASE ~(op.fresh \/ Next0 >= 2)
      BY <1>5, <3>2 DEF CutChain, Cut
    <3> QED
      BY <3>1, <3>2
  <2>3. op' = AfterCut => op' # Idle /\ op'.h = op.h /\ op'.size = op.size /\ op'.pc \in {"free", "entry"}
    BY <1>2 DEF AfterCut, Resizes, Idle
  <2> QED
    BY <2>1, <2>2, <2>3
<1>6. CASE Grow
  <2>1. data' = data /\ dirent' = dirent /\ fh' = fh /\ before' = before
    BY <1>6 DEF Grow
  <2>2. \/ op' = [op EXCEPT !.pc = "link", !.next = FirstFree, !.fresh = TRUE]
        \/ op' = [op EXCEPT !.pc = "terminate"]
    BY <1>6, AllocateType, Zenon DEF Grow
  <2>3. op' # Idle /\ op'.h = op.h /\ op'.size = op.size
    BY <1>2, <2>2 DEF Resizes, Idle
  <2> QED
    BY <1>6, <2>1, <2>3
<1>7. CASE Link
  <2>1. data' = data /\ dirent' = dirent /\ fh' = fh
    BY <1>7 DEF Link
  <2>2. \/ op' = [op EXCEPT !.pc = "walk", !.cluster = op.next, !.left = op.left - BlocksPerCluster]
           /\ before' = before
        \/ Return
    BY <1>7 DEF Link, SetEntry
  <2>3. Return \/ (op' # Idle /\ op'.h = op.h /\ op'.size = op.size /\ before' = before)
    BY <1>2, <2>2 DEF Resizes, Idle
  <2> QED
    BY <1>7, <2>1, <2>3
<1>8. CASE FreeOne
  <2>1. data' = data /\ dirent' = dirent /\ fh' = fh /\ op.pc = "free"
    BY <1>8, FreeCases
  <2>2. \/ Return
        \/ before' = before /\ op' = [op EXCEPT !.pc = "entry"]
        \/ before' = before /\ op' = [op EXCEPT !.cluster = Next0]
    BY <1>8, FreeCases
  <2>3. \/ Return
        \/ /\ before' = before /\ op' # Idle /\ op'.h = op.h /\ op'.size = op.size
           /\ op'.pc \in {"free", "entry"}
    BY <1>2, <2>1, <2>2 DEF Resizes, Idle
  <2> QED
    BY <2>1, <2>3
<1>9. CASE Terminate \/ SetSizeFails
  BY <1>9 DEF Terminate, SetSizeFails, SetEntry, card
<1>10. CASE PutEntry
  BY <1>10, PutCases
<1> QED
  BY <1>3, <1>4, <1>5, <1>6, <1>7, <1>8, <1>9, <1>10

\* Every step keeps what the resize remembers true of its file.
LEMMA BeforeStep ==
  ASSUME Orderly, TypeOK, HeadsInv, WalkInv, BeforeInv, [Next]_vars
  PROVE  BeforeInv'
<1>1. ASSUME op' = Idle PROVE BeforeInv'
  BY <1>1 DEF BeforeInv
<1>2. CASE UNCHANGED vars
  <2>1. UNCHANGED <<fat, data, dirent, fh, op, before>>
    BY <1>2 DEF vars, card
  <2> QED
    BY <2>1, Zenon DEF BeforeInv
<1>3. ASSUME NEW h \in Handles, NEW n \in Sizes, SetSize(h, n) PROVE BeforeInv'
  <2>1. /\ op' # Idle /\ op'.h = h /\ before' = Contents(fh[h].file) /\ fh[h] # Closed
        /\ fat' = fat /\ data' = data /\ dirent' = dirent
        /\ fh' = IF n = 0 THEN [fh EXCEPT ![h].start = 0, ![h].cur = 0, ![h].pos = 0] ELSE fh
    BY <1>3 DEF SetSize, card, Idle
  <2>2. fh'[h].file = fh[h].file /\ fh[h].file \in Files
    <3>1. fh[h] \in Handled
      BY <2>1, OpenType
    <3>2. CASE n # 0
      BY <2>1, <3>1, <3>2 DEF Handled
    <3>3. CASE n = 0
      <4> DEFINE q == [[[fh[h] EXCEPT !.start = 0] EXCEPT !.cur = 0] EXCEPT !.pos = 0]
      <4>1. fh' = [fh EXCEPT ![h] = q]
        BY <2>1, <3>1, <3>3 DEF TypeOK
      <4>2. q.file = fh[h].file
        BY <3>1 DEF Handled
      <4> HIDE DEF q
      <4> QED
        BY <3>1, <4>1, <4>2 DEF TypeOK, Handled
    <3> QED
      BY <3>2, <3>3
  <2> DEFINE e == dirent[fh[h].file]
  <2>3. e \in [start : Clusters \cup {0}, size : Nat] /\ fat \in Tables
    BY <2>2 DEF TypeOK, Tables
  <2>4. before' = ContentsIn(fat, data, e)
    BY <2>1, <2>2, ContentsAre
  <2> HIDE DEF e
  <2>5. \A b \in before' :
          /\ DOMAIN b = 1..e.size
          /\ \A p \in Nat : p < e.size =>
               LET c == FollowOf(fat, e.start, Index(p)) IN
               /\ c \in Clusters => b[p + 1] = data[c][p % ClusterLen]
               /\ op'.pc \in {"first", "walk", "link", "terminate"} => c \in Clusters
    BY <2>3, <2>4, ContentsHold
  <2>6. dirent'[fh'[op'.h].file] = e
    BY <2>1, <2>2 DEF e
  <2> QED
    BY <2>1, <2>5, <2>6, ZenonT(60) DEF BeforeInv
<1>4. ASSUME First \/ WalkOn \/ CutChain \/ Grow \/ Link \/ Terminate \/ FreeOne \/ PutEntry \/ SetSizeFails
      PROVE  BeforeInv'
  <2> SUFFICES ASSUME op' # Idle PROVE BeforeInv'
    BY <1>1
  <2>1. /\ op'.h = op.h /\ before' = before /\ data' = data
        /\ fh'[op.h].file = fh[op.h].file
        /\ op'.pc \in {"first", "walk", "link", "terminate"} =>
             First \/ WalkOn \/ Grow \/ Link
    BY <1>4, ResizeSteps DEF Return
  <2>2. dirent' = dirent
    BY <1>4, ResizeSteps, PutCases DEF Return
  <2>3. op.pc # "idle" /\ op # Idle
    BY <1>4, WalkSteps
  <2> DEFINE e == dirent[fh[op.h].file]
  <2>4. e.size \in Nat /\ e.start \in Links /\ (e.size # 0 => e.start \in Clusters)
    BY <2>3, OwnEntry
  <2>5. \A b \in before :
          /\ DOMAIN b = 1..e.size
          /\ \A p \in Nat : p < e.size =>
               LET c == FollowOf(fat, e.start, Index(p)) IN
               /\ c \in Clusters => b[p + 1] = data[c][p % ClusterLen]
               /\ op.pc \in {"first", "walk", "link", "terminate"} => c \in Clusters
    BY <2>3 DEF BeforeInv
  <2>6. ASSUME NEW b \in before, NEW p \in Nat, p < e.size
        PROVE  /\ FollowOf(fat', e.start, Index(p)) \in Clusters =>
                    b[p + 1] = data[FollowOf(fat', e.start, Index(p))][p % ClusterLen]
               /\ op'.pc \in {"first", "walk", "link", "terminate"} =>
                    FollowOf(fat', e.start, Index(p)) \in Clusters
    <3>1. Index(p) \in Nat
      BY IndexType
    <3>2. /\ FollowOf(fat, e.start, Index(p)) \in Clusters =>
               b[p + 1] = data[FollowOf(fat, e.start, Index(p))][p % ClusterLen]
          /\ op.pc \in {"first", "walk", "link", "terminate"} =>
               FollowOf(fat, e.start, Index(p)) \in Clusters
      BY <2>5, <2>6
    <3>3. FollowOf(fat', e.start, Index(p)) \in Clusters =>
            FollowOf(fat', e.start, Index(p)) = FollowOf(fat, e.start, Index(p))
      BY <1>4, <3>1, <3>2, OwnKept
    <3>4. ASSUME op'.pc \in {"first", "walk", "link", "terminate"}
          PROVE  FollowOf(fat', e.start, Index(p)) \in Clusters
      <4>1. First \/ WalkOn \/ Grow \/ Link
        BY <2>1, <3>4
      <4>2. CASE First
        <5>1. e.start = 0
          BY <2>3, <4>2, WorkFacts DEF First
        <5> QED
          BY <2>4, <2>6, <5>1, ValueTypes
      <4>3. CASE WalkOn \/ Grow \/ Link
        <5>1. op.pc \in {"walk", "link"}
          BY <4>3 DEF WalkOn, Grow, Link
        <5> QED
          BY <3>1, <3>2, <4>3, <5>1, OwnStays
      <4> QED
        BY <4>1, <4>2, <4>3
    <3> QED
      BY <3>2, <3>3, <3>4
  <2>7. dirent'[fh'[op'.h].file] = e
    BY <2>1, <2>2
  <2> HIDE DEF e
  <2> QED
    BY <2>1, <2>5, <2>6, <2>7, Zenon DEF BeforeInv
<1>5. ASSUME PowerOff \/ \E h \in Handles :
               (\E f \in Files : Open(h, f)) \/ Close(h) \/ (\E p \in Positions : SetPos(h, p))
               \/ (\E n \in Lengths : Read(h, n) \/ Write(h, n) \/ WriteFails(h, n))
      PROVE  op' = Idle
  BY <1>5 DEF PowerOff, Return, Open, Close, SetPos, Read, Write, WriteFails
<1> QED
  BY <1>1, <1>2, <1>3, <1>4, <1>5, Zenon DEF Next

----------------------------------------------------------------------------
(* What a resize has made of the chain.                                     *)

\* Once a chain is cut it is as long as the new size needs, and a resize that gives up has met
\* a full volume or a failure.
CutInv ==
  /\ op.pc \in {"free", "entry"} /\ op.size # 0 =>
       \A n \in Nat : n * BlocksPerCluster < Blocks(op.size) =>
         FollowOf(fat, fh[op.h].start, n) \in Clusters
  /\ op.pc = "terminate" => full = TRUE \/ faults > 0

\* Where the last of the blocks lie in a cluster, the clusters of all others come before.
LEMMA Within ==
  ASSUME NEW b \in Nat, NEW k \in Nat, NEW l \in Nat, NEW n \in Nat, l <= b, n * b < k * b + l
  PROVE  n <= k
<1> SUFFICES ASSUME k < n PROVE FALSE
  OBVIOUS
<1>1. b * k + b <= b * n
  BY Times
<1>2. b * k = k * b /\ b * n = n * b /\ k * b \in Nat /\ n * b \in Nat
  BY Product
<1> QED
  BY <1>1, <1>2

\* The position of a unit lies in one of the blocks of its file.
LEMMA IndexBlocks ==
  ASSUME NEW n \in Nat, NEW p \in Nat, p < n PROVE Index(p) * BlocksPerCluster < Blocks(n)
<1> DEFINE m == n + (BlockLen - 1)
           i == Index(p)
           j == i * BlocksPerCluster
<1>1. BlockLen \in Nat /\ BlockLen > 0 /\ BlocksPerCluster \in Nat /\ i \in Nat
  BY IndexType, FatAssumption
<1>2. m \in Nat /\ m = n + (BlockLen - 1)
  BY <1>1
<1> HIDE DEF m
<1>3. PICK a \in Nat, b \in 0..(BlockLen - 1) : m \div BlockLen = a /\ m = BlockLen * a + b
  BY <1>1, <1>2, Division
<1>4. Blocks(n) = a
  BY <1>1, <1>2, <1>3 DEF Blocks
<1>5. j \in Nat /\ BlockLen * a \in Nat /\ BlockLen * j \in Nat
  BY <1>1, Product
<1>6. ClusterLen * i = BlockLen * j
  <2> HIDE DEF i
  <2>1. \A x, y, z \in Nat : (x * y) * z = y * (z * x)
    OBVIOUS
  <2> QED
    BY <1>1, <2>1 DEF ClusterLen
<1>7. ClusterLen * i <= p
  <2>1. PICK d \in 0..(ClusterLen - 1) : p = ClusterLen * i + d
    BY IndexType
  <2>2. ClusterLen * i \in Nat
    BY <1>1, ClusterLenType, Product
  <2> QED
    BY <2>1, <2>2, ClusterLenType
<1>8. n <= BlockLen * a
  BY <1>1, <1>2, <1>3, <1>5
<1> HIDE DEF i, j
<1>9. j < a
  <2> SUFFICES ASSUME a <= j PROVE FALSE
    BY <1>5
  <2>1. BlockLen * a <= BlockLen * j
    <3>1. CASE a = j
      BY <1>5, <3>1
    <3>2. CASE a < j
      <4>1. BlockLen * a + BlockLen <= BlockLen * j
        BY <1>1, <1>5, <3>2, Times
      <4> QED
        BY <1>1, <1>5, <4>1
    <3> QED
      BY <1>5, <3>1, <3>2
  <2> QED
    BY <1>5, <1>6, <1>7, <1>8, <2>1
<1> QED
  BY <1>4, <1>9 DEF j, i

\* Cutting the chain keeps what the new size needs of it.
LEMMA CutKeeps ==
  ASSUME Orderly, TypeOK, HeadsInv, WalkInv, CutChain, op' = AfterCut, NEW n \in Nat,
         n * BlocksPerCluster < Blocks(op.size)
  PROVE  FollowOf(fat', fh[op.h].start, n) \in Clusters
<1> DEFINE s == fh[op.h].start
           x == op.cluster
<1>1. op.pc = "walk" /\ op.left <= BlocksPerCluster
  BY DEF CutChain, LastCluster
<1>2. /\ Linked(fat) /\ OpenInv /\ op.h \in Opened /\ op \in Resizes /\ s \in Clusters /\ x \in Clusters
      /\ fat \in Tables
  BY <1>1, WorkFacts DEF Linked
<1>3. IsFirst(fat, s) /\ s \in Links
  BY <1>2, ValueTypes DEF OpenInv
<1>4. PICK k \in Nat : x = FollowOf(fat, s, k) /\ k * BlocksPerCluster + op.left = Blocks(op.size)
  BY <1>1 DEF WalkInv
<1>5. n <= k
  BY <1>1, <1>2, <1>4, Within, FatAssumption DEF Resizes
<1>6. fat' = fat \/ fat' = Changed(fat, x, Eoc)
  BY DEF CutChain, Cut, SetEntry, Changed
<1> HIDE DEF s, x
<1>7. FollowOf(fat, s, n) \in Clusters
  BY <1>2, <1>3, <1>4, <1>5, FollowBefore
<1>8. \A j \in Nat : j < n => FollowOf(fat, s, j) # x
  BY <1>2, <1>3, <1>4, <1>5, ChainsMeet
<1>9. Eoc \in FatValues
  BY ValueTypes
<1>10. fat' = Changed(fat, x, Eoc) => FollowOf(fat', s, n) = FollowOf(fat, s, n)
  BY <1>2, <1>3, <1>8, <1>9, FollowAway
<1> QED
  BY <1>6, <1>7, <1>10 DEF s

\* Every step keeps it so.
LEMMA CutStep ==
  ASSUME Orderly, TypeOK, HeadsInv, WalkInv, CutInv, [Next]_vars PROVE CutInv'
<1>1. ASSUME op' = Idle PROVE CutInv'
  BY <1>1 DEF CutInv, Idle
<1>2. CASE UNCHANGED vars
  BY <1>2 DEF CutInv, vars, card
<1>3. ASSUME NEW h \in Handles, NEW n \in Sizes, SetSize(h, n) PROVE CutInv'
  <2>1. op'.size = n /\ op'.pc # "terminate" /\ (op'.pc \in {"free", "entry"} => n = 0)
    BY <1>3 DEF SetSize
  <2> QED
    BY <2>1 DEF CutInv
<1>4. ASSUME op'.pc \in {"walk", "link"} PROVE CutInv'
  BY <1>4 DEF CutInv
<1>5. CASE First
  <2>1. op.pc # "idle" /\ op \in Resizes
    BY <1>5, WorkFacts DEF First
  <2>2. Return \/ op' = [op EXCEPT !.pc = "walk", !.cluster = FirstFree, !.fresh = TRUE]
    BY <1>5, AllocateType, Zenon DEF First
  <2>3. Return \/ op'.pc = "walk"
    BY <2>1, <2>2 DEF Resizes
  <2> QED
    BY <1>1, <1>4, <2>3 DEF Return
<1>6. CASE WalkOn \/ Link
  <2>1. op.pc # "idle" /\ op \in Resizes
    BY <1>6, WorkFacts DEF WalkOn, Link
  <2>2. \/ Return
        \/ WalkOn /\ op' = [op EXCEPT !.cluster = Next0, !.left = op.left - BlocksPerCluster]
        \/ op' = [op EXCEPT !.pc = "walk", !.cluster = op.next, !.left = op.left - BlocksPerCluster]
    BY <1>6 DEF WalkOn, Link, SetEntry
  <2>3. Return \/ op'.pc = "walk"
    BY <2>1, <2>2 DEF Resizes, WalkOn
  <2> QED
    BY <1>1, <1>4, <2>3 DEF Return
<1>7. CASE Grow
  <2>1. op.pc # "idle" /\ op \in Resizes
    BY <1>7, WorkFacts DEF Grow
  <2>2. /\ op'.pc = "link" \/ op'.pc = "terminate"
        /\ op'.pc = "terminate" => full' = TRUE \/ Failing
    <3> DEFINE D == op' = [op EXCEPT !.pc = "link", !.next = FirstFree, !.fresh = TRUE]
               F == op' = [op EXCEPT !.pc = "terminate"]
    <3>1. (D => op'.pc = "link") /\ (F => op'.pc = "terminate")
      BY <2>1 DEF Resizes
    <3>2. Allocate(D, F)
      BY <1>7, Zenon DEF Grow
    <3>3. ASSUME NEW ACTION G, NEW ACTION H, Allocate(G, H)
          PROVE  G \/ (H /\ (full' = TRUE \/ Failing))
      BY <3>3, Zenon DEF Allocate, SetEntry
    <3>4. D \/ (F /\ (full' = TRUE \/ Failing))
      BY <3>2, <3>3, Zenon
    <3> HIDE DEF D, F
    <3> QED
      BY <3>1, <3>4
  <2>3. Failing => faults' > 0
    BY FatAssumption DEF Failing, Fault, TypeOK
  <2> QED
    BY <2>2, <2>3 DEF CutInv
<1>8. CASE CutChain
  <2>1. op.pc # "idle" /\ op \in Resizes /\ (op' = AfterCut \/ Return)
    BY <1>8, WorkFacts DEF CutChain, Cut, SetEntry
  <2>2. CASE op.pc # "idle" /\ op \in Resizes /\ op' = AfterCut
    <3>1. op'.h = op.h /\ op'.size = op.size /\ op'.pc \in {"free", "entry"} /\ fh' = fh
      BY <1>8, <2>2 DEF CutChain, AfterCut, Resizes
    <3>2. \A n \in Nat : n * BlocksPerCluster < Blocks(op.size) =>
            FollowOf(fat', fh[op.h].start, n) \in Clusters
      BY <1>8, <2>2, CutKeeps
    <3> QED
      BY <3>1, <3>2 DEF CutInv
  <2> QED
    BY <1>1, <2>1, <2>2 DEF Return
<1>9. CASE FreeOne
  <2> DEFINE s == fh[op.h].start
             x == op.cluster
  <2>1. op.pc = "free" /\ fh' = fh /\ op \in Resizes
    BY <1>9, FreeCases, WorkFacts
  <2>2. \/ Return
        \/ /\ fat' = Changed(fat, x, Free)
           /\ op' = [op EXCEPT !.pc = "entry"] \/ op' = [op EXCEPT !.cluster = Next0]
    BY <1>9, FreeCases
  <2>3. CASE /\ fat' = Changed(fat, x, Free)
             /\ op' = [op EXCEPT !.pc = "entry"] \/ op' = [op EXCEPT !.cluster = Next0]
    <3>1. op'.h = op.h /\ op'.size = op.size /\ op'.pc \in {"free", "entry"}
      BY <2>1, <2>3 DEF Resizes
    <3>2. ASSUME op.size # 0, NEW n \in Nat, n * BlocksPerCluster < Blocks(op.size)
          PROVE  FollowOf(fat', s, n) \in Clusters
      <4>1. /\ Linked(fat) /\ OpenInv /\ op.h \in Opened /\ s \in Clusters /\ x \in Clusters
            /\ IsFirst(fat, x) /\ \A h \in Opened : fh[h].start # x
        BY <2>1, <3>2, WorkFacts
      <4>2. s # x /\ s \in Links /\ fat \in Tables /\ Free \in FatValues
        BY <4>1, ValueTypes DEF Linked
      <4>3. FollowOf(fat, s, n) \in Clusters
        BY <2>1, <3>2 DEF CutInv
      <4>4. fat' = Changed(fat, x, Free)
        BY <2>3
      <4> HIDE DEF s, x
      <4> QED
        BY <4>1, <4>2, <4>3, <4>4, AwayFromFirst
    <3> QED
      BY <2>1, <3>1, <3>2 DEF CutInv
  <2> QED
    BY <1>1, <2>2, <2>3 DEF Return
<1>10. CASE Terminate \/ PutEntry \/ SetSizeFails \/ PowerOff
  <2>1. Return
    BY <1>10 DEF Terminate, PutEntry, SetSizeFails, PowerOff, SetEntry
  <2> QED
    BY <1>1, <2>1 DEF Return
<1>11. ASSUME NEW h \in Handles,
              (\E f \in Files : Open(h, f)) \/ Close(h) \/ (\E p \in Positions : SetPos(h, p))
              \/ (\E n \in Lengths : Read(h, n) \/ Write(h, n) \/ WriteFails(h, n))
       PROVE  CutInv'
  <2>1. op' = Idle
    BY <1>11 DEF Open, Close, SetPos, Read, Write, WriteFails
  <2> QED
    BY <1>1, <2>1
<1> QED
  BY <1>2, <1>3, <1>5, <1>6, <1>7, <1>8, <1>9, <1>10, <1>11, Zenon DEF Next

----------------------------------------------------------------------------
(* The volume implements the store of files.                                *)

\* What the store has of a file, and the resize under way.
Held(f) == IF Resizing(f) THEN before ELSE Contents(f)
Under == IF op = Idle THEN Idle ELSE [file |-> fh[op.h].file, size |-> op.size]

\* How failures and the full volume go on in every step of the store.
Counted == faults' \in {faults, faults + 1} /\ (full => full')

\* They do in every step.
LEMMA StepCounted == ASSUME TypeOK, Next PROVE Counted
<1>1. full' = full \/ full' = TRUE
  BY FullStays
<1>2. faults' \in {faults, faults + 1}
  BY FaultsCounted
<1>3. full => full'
  BY <1>1, Zenon
<1> QED
  BY <1>2, <1>3, Zenon DEF Counted

\* No file changes.
LEMMA VolumeStays ==
  ASSUME Counted, \A g \in Files : Held(g)' = Held(g),
         Under' = Under \/ (Under = Idle /\ Under' \in [file : Files, size : Nat])
  PROVE  Volume!Next
<1> DEFINE file == [f \in Files |-> IF Resizing(f) THEN before ELSE Contents(f)]
<1>1. file = [f \in Files |-> Held(f)] /\ file' = [f \in Files |-> Held(f)']
  BY Zenon DEF Held
<1>2. file' = file
  BY <1>1
<1>3. CASE Under' = Under
  <2>1. Volume!Meanwhile
    BY <1>2, <1>3, Zenon DEF Volume!Meanwhile, Under
  <2> QED
    BY <2>1, Zenon DEF Volume!Next, Counted
<1>4. CASE Under = Idle /\ Under' \in [file : Files, size : Nat]
  <2>1. Volume!Begin
    BY <1>2, <1>4, Zenon DEF Volume!Begin, Under
  <2> QED
    BY <2>1, Zenon DEF Volume!Next, Counted
<1> QED
  BY <1>3, <1>4

\* One file is written.
LEMMA VolumeWrites ==
  ASSUME Counted, Under = Idle, Under' = Idle, NEW f \in Files,
         \A g \in Files \ {f} : Held(g)' = Held(g),
         \E old \in Held(f), new \in Held(f)' : Volume!Put(f, old, new)
  PROVE  Volume!Next
<1> DEFINE file == [g \in Files |-> IF Resizing(g) THEN before ELSE Contents(g)]
<1>1. \A g \in Files : file[g] = Held(g) /\ file'[g] = Held(g)'
  BY Zenon DEF Held
<1>2. Volume!Write(f) <=>
        /\ Under = Idle /\ Under' = Under /\ \A g \in Files \ {f} : file'[g] = file[g]
        /\ \E old \in file[f], new \in file'[f] : Volume!Put(f, old, new)
  BY Zenon DEF Volume!Write, Volume!Only, Under
<1> HIDE DEF file
<1>3. Volume!Write(f)
  BY <1>1, <1>2
<1> QED
  BY <1>3, Zenon DEF Volume!Next, Counted

\* What a resize may come to: it is done, it is refused, or it has failed.
Ended(f) ==
  \/ /\ faults' = faults /\ Held(f)' # {}
     /\ \A new \in Held(f)' : DOMAIN new = 1..op.size
  \/ /\ faults' = faults /\ (full' = TRUE \/ faults > 0)
     /\ Held(f) # {} => Held(f)' # {}
     /\ \A old \in Held(f), new \in Held(f)' : DOMAIN new = DOMAIN old
  \/ faults' = faults + 1

\* A resize ends.
LEMMA VolumeEnds ==
  ASSUME Counted, TypeOK, op # Idle, op' = Idle, NEW f \in Files, f = fh[op.h].file,
         \A g \in Files \ {f} : Held(g)' = Held(g),
         \A old \in Held(f), new \in Held(f)' : Volume!Kept(old, new),
         Ended(f)
  PROVE  Volume!Next
<1> DEFINE file == [g \in Files |-> IF Resizing(g) THEN before ELSE Contents(g)]
<1>1. \A g \in Files : file[g] = Held(g) /\ file'[g] = Held(g)'
  BY Zenon DEF Held
<1>2. /\ Under = [file |-> fh[op.h].file, size |-> op.size] /\ Under' = Idle
      /\ Under # Idle /\ Under.file = f /\ Under.size = op.size
  <2>1. Under = [file |-> fh[op.h].file, size |-> op.size] /\ Under' = Idle
    BY DEF Under
  <2>2. Under # Idle
    <3> SUFFICES ASSUME Under = Idle PROVE FALSE
      OBVIOUS
    <3>1. DOMAIN Under = {"file", "size"} /\ DOMAIN Idle = {"pc"}
      BY <2>1 DEF Idle
    <3>2. "pc" \notin {"file", "size"}
      OBVIOUS
    <3> QED
      BY <3>1, <3>2
  <2> QED
    BY <2>1, <2>2
<1>3. Volume!End(f) <=>
        /\ Under # Idle /\ f = Under.file /\ Under' = Idle
        /\ \A g \in Files \ {f} : file'[g] = file[g]
        /\ \A old \in file[f], new \in file'[f] : Volume!Kept(old, new)
  BY Zenon DEF Volume!End, Volume!Only, Under
<1>4. Volume!Done(f) <=>
        /\ Volume!End(f) /\ faults' = faults
        /\ file'[f] # {} /\ \A new \in file'[f] : DOMAIN new = 1..Under.size
  BY Zenon DEF Volume!Done, Under
<1>5. Volume!Refused(f) <=>
        /\ Volume!End(f) /\ faults' = faults /\ (full' \/ faults > 0)
        /\ file[f] # {} => file'[f] # {}
        /\ \A old \in file[f], new \in file'[f] : DOMAIN new = DOMAIN old
  BY Zenon DEF Volume!Refused
<1>6. Volume!Failed(f) <=> Volume!End(f) /\ faults' = faults + 1
  BY Zenon DEF Volume!Failed
<1> HIDE DEF file
<1>7. Volume!End(f)
  BY <1>1, <1>2, <1>3
<1>8. Volume!Done(f) \/ Volume!Refused(f) \/ Volume!Failed(f)
  <2>1. CASE /\ faults' = faults /\ Held(f)' # {}
             /\ \A new \in Held(f)' : DOMAIN new = 1..op.size
    BY <1>1, <1>2, <1>4, <1>7, <2>1
  <2>2. CASE /\ faults' = faults /\ (full' = TRUE \/ faults > 0)
             /\ Held(f) # {} => Held(f)' # {}
             /\ \A old \in Held(f), new \in Held(f)' : DOMAIN new = DOMAIN old
    <3>1. full' \/ faults > 0
      BY <2>2, Zenon
    <3>2. /\ file[f] # {} => file'[f] # {}
          /\ \A old \in file[f], new \in file'[f] : DOMAIN new = DOMAIN old
      BY <1>1, <2>2
    <3> QED
      BY <1>5, <1>7, <2>2, <3>1, <3>2, Zenon
  <2>3. CASE faults' = faults + 1
    BY <1>6, <1>7, <2>3
  <2> QED
    BY <2>1, <2>2, <2>3 DEF Ended
<1> QED
  BY <1>8, Zenon DEF Volume!Next, Counted

\* Where what is written goes: to its places in the file, and nowhere else.
LEMMA StoreIs ==
  ASSUME NEW r, NEW p, Store(r, p), NEW c \in Clusters, NEW u \in 0..(ClusterLen - 1)
  PROVE  \/ /\ data'[c][u] = data[c][u]
         \/ \E q \in r.pos..(p - 1) :
              At(r, q) = c /\ q % ClusterLen = u /\ data'[c][u] = Unit(r.file, q)
<1> DEFINE Here(d, v) == {q \in r.pos..(p - 1) : At(r, q) = d /\ q % ClusterLen = v}
           V(d, v) == IF Here(d, v) = {} THEN data[d][v]
                      ELSE Unit(r.file, CHOOSE q \in Here(d, v) : TRUE)
<1>1. data' = [d \in Clusters |-> [v \in 0..(ClusterLen - 1) |-> V(d, v)]]
  BY Zenon DEF Store
<1> HIDE DEF V
<1>2. data'[c][u] = V(c, u)
  BY <1>1
<1>3. CASE Here(c, u) = {}
  <2>1. V(c, u) = data[c][u]
    BY <1>3, Zenon DEF V
  <2> QED
    BY <1>2, <2>1
<1>4. CASE Here(c, u) # {}
  <2> DEFINE k == CHOOSE q \in Here(c, u) : TRUE
  <2>1. k \in Here(c, u)
    BY <1>4, Zenon
  <2>2. V(c, u) = Unit(r.file, k)
    BY <1>4, Zenon DEF V
  <2> HIDE DEF k
  <2> QED
    BY <1>2, <2>1, <2>2
<1> QED
  BY <1>3, <1>4

\* Writing through a handle changes its own file where it writes, and no other file.
LEMMA WriteKeeps ==
  ASSUME TypeOK, HeadsInv, AimInv, op = Idle, NEW h \in Opened, fh[h].pos < fh[h].size,
         NEW p \in Nat, Store(fh[h], p), \A q \in fh[h].pos..(p - 1) : At(fh[h], q) >= 2,
         p <= fh[h].size, fat' = fat, dirent' = dirent, op' = Idle, Counted
  PROVE  Volume!Next
<1> DEFINE r == fh[h]
<1>0. PICK f \in Files : f = r.file
  BY HandleFacts
<1>1. /\ Linked(fat) /\ fat \in Tables /\ EntryInv
      /\ r \in Handled /\ r.pos \in Nat /\ r.size \in Nat /\ r.start \in Links /\ f \in Files
      /\ r.start = dirent[f].start
  BY <1>0, HandleFacts DEF HeadsInv, Linked
<1>2. ASSUME NEW q \in r.pos..(p - 1)
      PROVE  /\ q \in Nat /\ Index(q) \in Nat
             /\ At(r, q) = FollowOf(fat, r.start, Index(q)) /\ At(r, q) \in Clusters
  <2>1. q \in Nat /\ r.pos <= q /\ At(r, q) >= 2
    BY <1>1, <1>2
  <2>2. \/ At(r, q) = FollowOf(fat, r.start, Index(q))
        \/ LostAt(r) /\ At(r, q) \notin Clusters
    BY <2>1, AtIs
  <2>3. At(r, q) \in Links
    <3> DEFINE i == Index(q)
               j == Index(r.pos)
    <3>1. i - j \in Nat
      <4> DEFINE m == r.pos
      <4>1. m \in Nat /\ m <= q
        BY <1>1, <2>1
      <4> HIDE DEF m
      <4>2. Index(m) <= Index(q) /\ Index(m) \in Nat /\ Index(q) \in Nat
        BY <2>1, <4>1, IndexType, IndexMonotone
      <4> QED
        BY <4>2 DEF m
    <3> HIDE DEF i, j
    <3>2. r.cur \in Links
      BY <1>1 DEF Handled
    <3>3. Follow(r.cur, i - j) \in Links
      BY <3>1, <3>2, FollowLink
    <3> QED
      BY <3>3 DEF At, i, j
  <2>4. At(r, q) \in Clusters
    BY <2>1, <2>3, LinkAbove
  <2> QED
    BY <2>1, <2>2, <2>4, IndexType
<1>3. \A g \in Files : dirent[g] \in [start : Clusters \cup {0}, size : Nat]
  BY DEF TypeOK
<1>4. \A g \in Files : /\ Held(g) = ContentsIn(fat, data, dirent[g])
                       /\ Held(g)' = ContentsIn(fat, data', dirent[g])
  <2>1. \A g \in Files : ~Resizing(g) /\ ~Resizing(g)'
    BY DEF Resizing
  <2>2. \A g \in Files : Held(g)' = ContentsIn(fat', data', dirent'[g])
    BY <2>1, ContentsAreNext DEF Held
  <2> QED
    BY <2>1, <2>2, ContentsAre DEF Held
\* where a place of a file is written, it is by the handle of the file, at that place
<1>5. ASSUME NEW g \in Files, NEW k \in Nat, k < dirent[g].size,
             FollowOf(fat, dirent[g].start, Index(k)) \in Clusters,
             NEW q \in r.pos..(p - 1), At(r, q) = FollowOf(fat, dirent[g].start, Index(k)),
             q % ClusterLen = k % ClusterLen
      PROVE  g = f /\ q = k
  <2> DEFINE s == dirent[g].start
  <2>1. s \in Clusters \cup {0} /\ s \in Links
    BY <1>3, ValueTypes
  <2>2. Index(k) \in Nat
    BY IndexType
  <2>3. s \in Clusters /\ IsFirst(fat, s)
    <3>1. s \in Clusters
      <4> HIDE DEF s
      <4>1. s \notin Clusters => FollowOf(fat, s, Index(k)) \notin Clusters
        BY <1>1, <2>1, <2>2, FollowNowhere
      <4> QED
        BY <1>5, <4>1 DEF s
    <3> QED
      BY <1>1, <3>1 DEF EntryInv
  <2>4. /\ q \in Nat /\ Index(q) \in Nat
        /\ FollowOf(fat, r.start, Index(q)) = FollowOf(fat, s, Index(k))
        /\ FollowOf(fat, r.start, Index(q)) \in Clusters
    BY <1>2, <1>5
  <2>5. r.start \in Clusters /\ IsFirst(fat, r.start)
    <3>1. r.start \notin Clusters => FollowOf(fat, r.start, Index(q)) \notin Clusters
      <4> DEFINE d == r.start
      <4>1. d \in Links
        BY <1>1
      <4> HIDE DEF d
      <4> QED
        BY <1>1, <2>4, <4>1, FollowNowhere DEF d
    <3> QED
      BY <1>1, <2>4, <3>1 DEF EntryInv
  <2>6. r.start = s /\ Index(q) = Index(k)
    <3> DEFINE d == r.start
               i == Index(q)
               j == Index(k)
    <3>1. d \in Clusters /\ IsFirst(fat, d) /\ i \in Nat /\ j \in Nat
          /\ FollowOf(fat, d, i) = FollowOf(fat, s, j) /\ FollowOf(fat, d, i) \in Clusters
      BY <2>2, <2>4, <2>5
    <3> HIDE DEF d, i, j, s
    <3>2. d = s /\ i = j
      BY <1>1, <2>3, <3>1, ChainsMeet
    <3> QED
      BY <3>2 DEF d, i, j
  <2>7. g = f
    BY <1>1, <2>3, <2>6 DEF EntryInv
  <2>8. q = k
    BY <1>5, <2>4, <2>6, PlaceUnique
  <2> QED
    BY <2>7, <2>8
<1>6. ASSUME NEW g \in Files, NEW k \in Nat, k < dirent[g].size,
             FollowOf(fat, dirent[g].start, Index(k)) \in Clusters
      PROVE  \/ data'[FollowOf(fat, dirent[g].start, Index(k))][k % ClusterLen]
                  = data[FollowOf(fat, dirent[g].start, Index(k))][k % ClusterLen]
             \/ /\ g = f
                /\ data'[FollowOf(fat, dirent[g].start, Index(k))][k % ClusterLen] = Unit(f, k)
  <2> DEFINE c == FollowOf(fat, dirent[g].start, Index(k))
             u == k % ClusterLen
  <2>1. c \in Clusters /\ u \in 0..(ClusterLen - 1)
    BY <1>6, IndexType
  <2>2. \/ data'[c][u] = data[c][u]
        \/ \E q \in r.pos..(p - 1) :
             At(r, q) = c /\ q % ClusterLen = u /\ data'[c][u] = Unit(r.file, q)
    <3> HIDE DEF c, u, r
    <3> QED
      BY <2>1, StoreIs DEF r
  <2> QED
    BY <1>0, <1>5, <1>6, <2>2
<1>7. ASSUME NEW g \in Files \ {f} PROVE Held(g)' = Held(g)
  <2> DEFINE e == dirent[g]
             dd == data'
  <2>1. e \in [start : Clusters \cup {0}, size : Nat]
    BY <1>3
  <2>2. \A k \in Nat : k < e.size =>
          (FollowOf(fat, e.start, Index(k)) \in Clusters =>
             dd[FollowOf(fat, e.start, Index(k))][k % ClusterLen]
               = data[FollowOf(fat, e.start, Index(k))][k % ClusterLen])
    BY <1>6, <1>7
  <2>3. Held(g) = ContentsIn(fat, data, e) /\ Held(g)' = ContentsIn(fat, dd, e)
    BY <1>4
  <2> HIDE DEF e, dd
  <2>4. ContentsIn(fat, dd, e) = ContentsIn(fat, data, e)
    BY <1>1, <2>1, <2>2, ContentsKept
  <2> QED
    BY <2>3, <2>4
<1>8. ASSUME NEW old \in Held(f), NEW new \in Held(f)' PROVE Volume!Put(f, old, new)
  <2> DEFINE e == dirent[f]
             dd == data'
  <2>1. e \in [start : Clusters \cup {0}, size : Nat] /\ old \in ContentsIn(fat, data, e)
        /\ new \in ContentsIn(fat, dd, e)
    BY <1>1, <1>3, <1>4, <1>8
  <2>2. \A k \in Nat : k < e.size =>
          (FollowOf(fat, e.start, Index(k)) \in Clusters =>
             \/ dd[FollowOf(fat, e.start, Index(k))][k % ClusterLen]
                  = data[FollowOf(fat, e.start, Index(k))][k % ClusterLen]
             \/ dd[FollowOf(fat, e.start, Index(k))][k % ClusterLen] = Unit(f, k))
    BY <1>1, <1>6
  <2> HIDE DEF e, dd
  <2>3. /\ DOMAIN old = 1..e.size /\ Len(old) = e.size
        /\ \A k \in Nat : k < e.size =>
             /\ FollowOf(fat, e.start, Index(k)) \in Clusters
             /\ old[k + 1] = data[FollowOf(fat, e.start, Index(k))][k % ClusterLen]
    BY <1>1, <2>1, ContentsHold
  <2>4. /\ Len(new) = e.size
        /\ \A k \in Nat : k < e.size =>
             new[k + 1] = dd[FollowOf(fat, e.start, Index(k))][k % ClusterLen]
    BY <1>1, <2>1, ContentsHold
  <2>5. ASSUME NEW i \in 1..e.size PROVE new[i] \in {old[i], Unit(f, i - 1)}
    <3> DEFINE k == i - 1
    <3>1. k \in Nat /\ k < e.size /\ k + 1 = i
      BY <2>1
    <3> HIDE DEF k
    <3>2. new[k + 1] = old[k + 1] \/ new[k + 1] = Unit(f, k)
      BY <2>2, <2>3, <2>4, <3>1
    <3> QED
      BY <3>1, <3>2 DEF k
  <2> QED
    BY <2>3, <2>4, <2>5 DEF Volume!Put
<1>9. Under = Idle /\ Under' = Idle
  BY DEF Under
<1>10. CASE Held(f) = {}
  <2>1. Held(f)' = {}
    BY <1>4, <1>10, Zenon DEF ContentsIn
  <2> QED
    BY <1>7, <1>9, <1>10, <2>1, VolumeStays
<1>11. CASE Held(f) # {}
  <2>1. Held(f)' # {}
    BY <1>4, <1>11, Zenon DEF ContentsIn
  <2> QED
    BY <1>1, <1>7, <1>8, <1>9, <1>11, <2>1, VolumeWrites
<1> QED
  BY <1>10, <1>11

\* Between two resizes, where nothing is written.
LEMMA IdleKeeps ==
  ASSUME op = Idle, op' = Idle, fat' = fat, data' = data, dirent' = dirent, NEW g \in Files
  PROVE  Held(g)' = Held(g)
<1>1. ~Resizing(g) /\ ~Resizing(g)'
  BY DEF Resizing
<1>2. Held(g)' = ContentsIn(fat', data', dirent'[g])
  BY <1>1, ContentsAreNext DEF Held
<1> QED
  BY <1>1, <1>2, ContentsAre DEF Held

\* A resize begins with every file as it was.
LEMMA BeginKeeps ==
  ASSUME TypeOK, NEW h \in Handles, NEW n \in Sizes, SetSize(h, n), NEW g \in Files
  PROVE  Held(g)' = Held(g)
<1>1. /\ op = Idle /\ op' # Idle /\ op'.h = h /\ before' = Contents(fh[h].file) /\ fh[h] # Closed
      /\ fat' = fat /\ data' = data /\ dirent' = dirent
      /\ fh' = IF n = 0 THEN [fh EXCEPT ![h].start = 0, ![h].cur = 0, ![h].pos = 0] ELSE fh
  BY DEF SetSize, card, Idle
<1>2. fh'[h].file = fh[h].file
  <2>1. fh[h] \in Handled
    BY <1>1, OpenType
  <2>2. CASE n = 0
    <3> DEFINE q == [[[fh[h] EXCEPT !.start = 0] EXCEPT !.cur = 0] EXCEPT !.pos = 0]
    <3>1. fh' = [fh EXCEPT ![h] = q]
      BY <1>1, <2>1, <2>2 DEF TypeOK
    <3>2. q.file = fh[h].file
      BY <2>1 DEF Handled
    <3> HIDE DEF q
    <3> QED
      BY <3>1, <3>2 DEF TypeOK
  <2> QED
    BY <1>1, <2>2
<1>3. ~Resizing(g) /\ (Resizing(g)' <=> g = fh[h].file)
  BY <1>1, <1>2 DEF Resizing
<1>4. Held(g) = ContentsIn(fat, data, dirent[g])
  BY <1>3, ContentsAre DEF Held
<1>5. CASE g = fh[h].file
  BY <1>1, <1>3, <1>4, <1>5, ContentsAre DEF Held
<1>6. CASE g # fh[h].file
  <2>1. Held(g)' = ContentsIn(fat', data', dirent'[g])
    BY <1>3, <1>6, ContentsAreNext DEF Held
  <2> QED
    BY <1>1, <1>4, <2>1
<1> QED
  BY <1>5, <1>6

\* The files that are not resized.
LEMMA OthersKept ==
  ASSUME Orderly, TypeOK, HeadsInv, WalkInv, fat' \in Tables,
         First \/ WalkOn \/ CutChain \/ Grow \/ Link \/ Terminate \/ FreeOne \/ PutEntry \/ SetSizeFails,
         NEW g \in Files, g # fh[op.h].file, op' = Idle \/ fh'[op'.h].file = fh[op.h].file
  PROVE  Held(g)' = Held(g)
<1>1. op # Idle /\ op.pc # "idle"
  BY WalkSteps
<1>2. ~Resizing(g) /\ ~Resizing(g)'
  BY DEF Resizing
<1>3. Held(g) = ContentsIn(fat, data, dirent[g]) /\ Held(g)' = ContentsIn(fat', data', dirent'[g])
  BY <1>2, ContentsAre, ContentsAreNext DEF Held
<1>4. data' = data
  BY ResizeSteps
<1>5. dirent'[g] = dirent[g]
  <2>1. CASE dirent' = dirent
    BY <2>1
  <2>2. CASE PutEntry
    <3> DEFINE e == [start |-> fh[op.h].start, size |-> op.size]
               f == fh[op.h].file
    <3>1. dirent' = [dirent EXCEPT ![f] = e] \/ dirent' = dirent
      BY <2>2, PutCases
    <3> HIDE DEF e, f
    <3>2. g # f
      BY DEF f
    <3> QED
      BY <3>1, <3>2 DEF TypeOK
  <2> QED
    BY <2>1, <2>2, ResizeSteps
<1> DEFINE e == dirent[g]
<1>6. e \in [start : Clusters \cup {0}, size : Nat] /\ fat \in Tables
  BY DEF TypeOK, Tables
<1>7. Foreign(e.start)
  BY DEF Foreign
<1>8. \A n \in Nat : FollowOf(fat', e.start, n) = FollowOf(fat, e.start, n)
  BY <1>7, ForeignKept
<1> DEFINE t == fat
           u == fat'
<1>9. t \in Tables /\ u \in Tables /\ \A n \in Nat : FollowOf(u, e.start, n) = FollowOf(t, e.start, n)
  BY <1>6, <1>8
<1> HIDE DEF e, t, u
<1>10. \A p \in Nat : FollowOf(u, e.start, Index(p)) = FollowOf(t, e.start, Index(p))
  BY <1>9, IndexType
<1>11. ContentsIn(u, data, e) = ContentsIn(t, data, e)
  BY <1>6, <1>9, <1>10, ContentsKept
<1> QED
  BY <1>3, <1>4, <1>5, <1>11 DEF e, t, u

\* When the resize returns, or is cut off, the old contents and the new agree as far as both
\* reach.
LEMMA ReturnKeeps ==
  ASSUME Orderly, TypeOK, HeadsInv, WalkInv, BeforeInv, fat' \in Tables, op # Idle,
         \/ First \/ WalkOn \/ CutChain \/ Grow \/ Link \/ Terminate \/ FreeOne \/ PutEntry
            \/ SetSizeFails
         \/ PowerOff,
         NEW f \in Files, f = fh[op.h].file, dirent'[f] \in [start : Clusters \cup {0}, size : Nat],
         NEW old \in before, NEW new \in ContentsIn(fat', data', dirent'[f])
  PROVE  Volume!Kept(old, new)
<1> DEFINE e == dirent[f]
           d == dirent'[f]
<1>0. op.pc # "idle"
  <2>1. op \in Resizes
    BY DEF TypeOK, Resizes
  <2> QED
    BY <2>1 DEF Resizes
<1>1. /\ e \in [start : Clusters \cup {0}, size : Nat] /\ e.start \in Links /\ e.size \in Nat
      /\ d \in [start : Clusters \cup {0}, size : Nat] /\ d.size \in Nat
      /\ e.size # 0 => e.start \in Clusters
  BY <1>0, OwnEntry
<1>2. /\ DOMAIN old = 1..e.size
      /\ \A p \in Nat : p < e.size =>
           /\ FollowOf(fat, e.start, Index(p)) \in Clusters =>
                old[p + 1] = data[FollowOf(fat, e.start, Index(p))][p % ClusterLen]
           /\ op.pc \in {"first", "walk", "link", "terminate"} =>
                FollowOf(fat, e.start, Index(p)) \in Clusters
  BY DEF BeforeInv
<1>3. data' = data
  BY ResizeSteps DEF PowerOff, card
<1>4. /\ DOMAIN new = 1..d.size
      /\ \A p \in Nat : p < d.size =>
           /\ FollowOf(fat', d.start, Index(p)) \in Clusters
           /\ new[p + 1] = data[FollowOf(fat', d.start, Index(p))][p % ClusterLen]
  <2> DEFINE t == fat'
             w == data'
  <2>1. t \in Tables /\ new \in ContentsIn(t, w, d)
    OBVIOUS
  <2> HIDE DEF t, w, d
  <2>2. /\ DOMAIN new = 1..d.size
        /\ \A p \in Nat : p < d.size =>
             /\ FollowOf(t, d.start, Index(p)) \in Clusters
             /\ new[p + 1] = w[FollowOf(t, d.start, Index(p))][p % ClusterLen]
    BY <1>1, <2>1, ContentsHold
  <2> QED
    BY <1>3, <2>2 DEF t, w
<1>5. ASSUME NEW p \in Nat, p < e.size, p < d.size
      PROVE  FollowOf(fat', d.start, Index(p)) = FollowOf(fat, e.start, Index(p))
  <2>1. Index(p) \in Nat
    BY IndexType
  <2>2. CASE d.start = e.start /\ ~PowerOff
    <3>1. FollowOf(fat', e.start, Index(p)) \in Clusters
      BY <1>4, <1>5, <2>2
    <3>2. op.pc = "link" => FollowOf(fat, e.start, Index(p)) \in Clusters
      BY <1>2, <1>5
    <3> QED
      BY <2>1, <2>2, <3>1, <3>2, OwnKept
  <2>3. CASE PowerOff
    BY <2>3 DEF PowerOff, card
  <2>4. CASE d.start # e.start /\ ~PowerOff
    <3>1. PutEntry
      BY <2>4, ResizeSteps
    <3>2. d = [start |-> fh[op.h].start, size |-> op.size]
      <4> DEFINE v == [start |-> fh[op.h].start, size |-> op.size]
      <4>1. dirent' = [dirent EXCEPT ![f] = v] \/ dirent' = dirent
        BY <3>1, PutCases
      <4> HIDE DEF v
      <4>2. d = v \/ d = e
        BY <4>1 DEF TypeOK
      <4> QED
        BY <2>4, <4>2 DEF v
    <3>3. op.size # 0 /\ e.start \in Clusters
      BY <1>1, <1>5, <3>2
    <3>4. fh[op.h].start = e.start
      BY <1>0, <3>3, OwnEntry
    <3> QED
      BY <2>4, <3>2, <3>4
  <2> QED
    BY <2>2, <2>3, <2>4
<1>6. ASSUME NEW i \in DOMAIN old \cap DOMAIN new PROVE new[i] = old[i]
  <2> DEFINE p == i - 1
  <2> HIDE DEF e, d
  <2>0. i \in 1..e.size /\ i \in 1..d.size
    BY <1>2, <1>4, <1>6
  <2>1. p \in Nat /\ p + 1 = i /\ p < e.size /\ p < d.size
    BY <1>1, <2>0
  <2> HIDE DEF p
  <2>2. new[p + 1] = old[p + 1]
    BY <1>2, <1>4, <1>5, <2>1
  <2> QED
    BY <2>1, <2>2
<1> QED
  BY <1>6 DEF Volume!Kept

\* With all clusters of a chain there are contents.
LEMMA ContentsThere ==
  ASSUME NEW t \in Tables, NEW d, NEW e \in [start : Clusters \cup {0}, size : Nat],
         \A p \in Nat : p < e.size => FollowOf(t, e.start, Index(p)) \in Clusters
  PROVE  ContentsIn(t, d, e) # {}
<1>1. ASSUME NEW p \in 0..(e.size - 1) PROVE FollowOf(t, e.start, Index(p)) >= 2
  <2>1. p \in Nat /\ p < e.size
    BY <1>1
  <2>2. FollowOf(t, e.start, Index(p)) \in Clusters
    BY <2>1
  <2> DEFINE c == FollowOf(t, e.start, Index(p))
  <2> HIDE DEF c
  <2>3. c \in Clusters => c >= 2
    BY FatAssumption DEF Clusters
  <2> QED
    BY <2>2, <2>3 DEF c
<1> QED
  BY <1>1, Zenon DEF ContentsIn

\* How a resize returns without a failure.
LEMMA Returns ==
  ASSUME Orderly, TypeOK, HeadsInv, op # Idle, Return, faults' # faults + 1,
         \/ First \/ WalkOn \/ CutChain \/ Grow \/ Link \/ Terminate \/ FreeOne \/ PutEntry
            \/ SetSizeFails
         \/ PowerOff
  PROVE  /\ faults' = faults
         /\ \/ First /\ full' = TRUE /\ fat' = fat /\ dirent' = dirent
            \/ /\ Terminate /\ full' = full /\ fat' = Changed(fat, op.cluster, Eoc)
               /\ dirent' = dirent
            \/ /\ PutEntry /\ fat' = fat
               /\ dirent' = [dirent EXCEPT ![fh[op.h].file] =
                               [start |-> fh[op.h].start, size |-> op.size]]
<1>0. op \in Resizes /\ op' = Idle /\ op'.pc = "idle"
  <2>1. op \in Resizes
    BY DEF TypeOK, Resizes
  <2> QED
    BY <2>1 DEF Return, Idle
<1>1. ~Failing /\ ~Fault
  BY DEF Failing, Fault
<1>2. CASE First
  <2>1. op' # [op EXCEPT !.pc = "walk", !.cluster = FirstFree, !.fresh = TRUE]
    BY <1>0 DEF Resizes
  <2>2. Allocatable = {} /\ full' = TRUE /\ UNCHANGED <<fat, nextFree, faults>>
    BY <1>1, <1>2, <2>1, Zenon DEF First, Allocate, SetEntry
  <2> QED
    BY <1>2, <2>2 DEF First
<1>3. CASE WalkOn
  BY <1>0, <1>3 DEF WalkOn, Resizes
<1>4. CASE CutChain
  <2>1. op' # AfterCut
    BY <1>0 DEF AfterCut, Resizes
  <2> QED
    BY <1>1, <1>4, <2>1 DEF CutChain, Cut, SetEntry
<1>5. CASE Grow
  <2>1. /\ op' # [op EXCEPT !.pc = "link", !.next = FirstFree, !.fresh = TRUE]
        /\ op' # [op EXCEPT !.pc = "terminate"]
    BY <1>0 DEF Resizes
  <2> QED
    BY <1>1, <1>5, <2>1, Zenon DEF Grow, Allocate, SetEntry
<1>6. CASE Link
  <2>1. op' # [op EXCEPT !.pc = "walk", !.cluster = op.next, !.left = @ - BlocksPerCluster]
    BY <1>0 DEF Resizes
  <2> QED
    BY <1>1, <1>6, <2>1, Zenon DEF Link, SetEntry
<1>7. CASE Terminate
  BY <1>1, <1>7 DEF Terminate, SetEntry, NoFault, Changed
<1>8. CASE FreeOne
  <2>1. op.pc = "free"
    BY <1>8 DEF FreeOne
  <2>2. op' # [op EXCEPT !.pc = "entry"] /\ op' # [op EXCEPT !.cluster = Next0]
    BY <1>0, <2>1 DEF Resizes
  <2> QED
    BY <1>1, <1>8, <2>2, FreeCases
<1>9. CASE PutEntry
  BY <1>1, <1>9, PutCases
<1>10. CASE SetSizeFails
  BY <1>1, <1>10 DEF SetSizeFails
<1>11. CASE PowerOff
  BY <1>1, <1>11 DEF PowerOff
<1> QED
  BY <1>2, <1>3, <1>4, <1>5, <1>6, <1>7, <1>8, <1>9, <1>10, <1>11

\* A resize that is done has given the file its new size, and one that is refused has left it
\* what it had; any other has failed.
LEMMA ReturnEnds ==
  ASSUME Orderly, TypeOK, TypeOK', HeadsInv, WalkInv, BeforeInv, CutInv, op # Idle, Return,
         \/ First \/ WalkOn \/ CutChain \/ Grow \/ Link \/ Terminate \/ FreeOne \/ PutEntry
            \/ SetSizeFails
         \/ PowerOff,
         NEW f \in Files, f = fh[op.h].file, faults' # faults + 1
  PROVE  Ended(f)
<1> DEFINE e == dirent[f]
           d == dirent'[f]
           s == fh[op.h].start
           t == fat'
           w == data'
<1>0. op.pc # "idle" /\ op \in Resizes
  <2>1. op \in Resizes
    BY DEF TypeOK, Resizes
  <2> QED
    BY <2>1 DEF Resizes
<1>1. /\ e \in [start : Clusters \cup {0}, size : Nat] /\ e.start \in Links /\ e.size \in Nat
      /\ d \in [start : Clusters \cup {0}, size : Nat] /\ t \in Tables /\ fat \in Tables
  BY <1>0, OwnEntry DEF TypeOK, Tables
<1>2. Held(f) = before /\ Held(f)' = ContentsIn(t, w, d)
  <2>1. ~Resizing(f)' /\ Resizing(f)
    BY DEF Resizing, Return
  <2> QED
    BY <2>1, ContentsAreNext DEF Held
<1>3. faults' = faults
  BY Returns
<1>4. ASSUME d = e, full' = TRUE \/ faults > 0, op.pc \in {"first", "terminate"},
             \A n \in Nat : FollowOf(fat, e.start, n) \in Clusters => FollowOf(t, e.start, n) \in Clusters
      PROVE  Ended(f)
  <2>1. \A b \in before :
          /\ DOMAIN b = 1..e.size
          /\ \A p \in Nat : p < e.size => FollowOf(fat, e.start, Index(p)) \in Clusters
    BY <1>4 DEF BeforeInv
  <2>2. \A b \in before : \A p \in Nat : p < e.size => FollowOf(t, e.start, Index(p)) \in Clusters
    BY <1>4, <2>1, IndexType
  <2> HIDE DEF e, d, t, w
  <2>3. before # {} => ContentsIn(t, w, e) # {}
    BY <1>1, <2>2, ContentsThere
  <2>4. \A new \in ContentsIn(t, w, e) : DOMAIN new = 1..e.size
    BY <1>1, ContentsHold
  <2>5. \A old \in Held(f), new \in Held(f)' : DOMAIN new = DOMAIN old
    BY <1>2, <1>4, <2>1, <2>4
  <2>6. Held(f) # {} => Held(f)' # {}
    BY <1>2, <1>4, <2>3
  <2> QED
    BY <1>3, <1>4, <2>5, <2>6, Zenon DEF Ended
<1>5. CASE First /\ full' = TRUE /\ fat' = fat /\ dirent' = dirent
  BY <1>4, <1>5 DEF First
<1>6. CASE /\ Terminate /\ full' = full /\ fat' = Changed(fat, op.cluster, Eoc)
           /\ dirent' = dirent
  <2>1. op.pc = "terminate"
    BY <1>6 DEF Terminate
  <2>2. full' = TRUE \/ faults > 0
    BY <1>6, <2>1 DEF CutInv
  <2>3. op.cluster \in Clusters /\ fat[op.cluster] \notin Clusters /\ Eoc \in FatValues
    BY <1>0, <2>1, WorkFacts, ValueTypes
  <2>4. ASSUME NEW n \in Nat, FollowOf(fat, e.start, n) \in Clusters
        PROVE  FollowOf(t, e.start, n) \in Clusters
    <3> DEFINE x == op.cluster
               c == e.start
    <3>1. x \in Clusters /\ fat[x] \notin Clusters /\ Eoc \in FatValues /\ c \in Links
          /\ t = Changed(fat, x, Eoc) /\ FollowOf(fat, c, n) \in Clusters
      BY <1>1, <1>6, <2>3, <2>4
    <3> HIDE DEF x, c, t, e
    <3>2. FollowOf(t, c, n) = FollowOf(fat, c, n)
      BY <1>1, <3>1, AwayFromLast
    <3> QED
      BY <3>1, <3>2 DEF c
  <2>5. d = e
    BY <1>6
  <2> QED
    BY <1>4, <2>1, <2>2, <2>4, <2>5
<1>7. CASE /\ PutEntry /\ fat' = fat
           /\ dirent' = [dirent EXCEPT ![fh[op.h].file] =
                           [start |-> fh[op.h].start, size |-> op.size]]
  <2>1. d.start = s /\ d.size = op.size
    BY <1>7 DEF TypeOK
  <2>2. op.pc = "entry" /\ op.size \in Nat
    BY <1>0, <1>7 DEF PutEntry, Resizes
  <2>3. ASSUME NEW p \in Nat, p < op.size PROVE FollowOf(fat, s, Index(p)) \in Clusters
    <3>1. Index(p) \in Nat /\ Index(p) * BlocksPerCluster < Blocks(op.size)
      BY <2>2, <2>3, IndexType, IndexBlocks
    <3>2. op.size # 0
      BY <2>2, <2>3
    <3> QED
      BY <2>2, <3>1, <3>2 DEF CutInv
  <2>4. \A p \in Nat : p < d.size => FollowOf(t, d.start, Index(p)) \in Clusters
    BY <1>7, <2>1, <2>3
  <2> HIDE DEF d, t, w
  <2>5. ContentsIn(t, w, d) # {}
    BY <1>1, <2>4, ContentsThere
  <2>6. \A new \in ContentsIn(t, w, d) : DOMAIN new = 1..d.size
    BY <1>1, ContentsHold
  <2>7. Held(f)' # {} /\ \A new \in Held(f)' : DOMAIN new = 1..op.size
    BY <1>2, <2>1, <2>5, <2>6
  <2> QED
    BY <1>3, <2>7, Zenon DEF Ended
<1> QED
  BY <1>5, <1>6, <1>7, Returns

\* A step of a resize leaves the abstract volume alone until it returns.
LEMMA ResizeImplements ==
  ASSUME Orderly, TypeOK, TypeOK', HeadsInv, WalkInv, BeforeInv, CutInv, op # Idle, Next,
         \/ First \/ WalkOn \/ CutChain \/ Grow \/ Link \/ Terminate \/ FreeOne \/ PutEntry
            \/ SetSizeFails
         \/ PowerOff
  PROVE  Volume!Next
<1>0. op.pc # "idle" /\ fh[op.h].file \in Files
  <2>1. op \in Resizes
    BY DEF TypeOK, Resizes
  <2>2. op.pc # "idle"
    BY <2>1 DEF Resizes
  <2> QED
    BY <2>2, WorkFacts
<1>1. PICK f \in Files : f = fh[op.h].file
  BY <1>0
<1>2. fat' \in Tables /\ \A g \in Files : dirent'[g] \in [start : Clusters \cup {0}, size : Nat]
  BY DEF TypeOK, Tables
<1>3. \/ Return
      \/ /\ op' # Idle /\ before' = before /\ fh'[op'.h].file = f /\ ~PowerOff
         /\ op'.size = op.size
  BY <1>1, ResizeSteps DEF PowerOff, Return
<1>4. \A g \in Files \ {f} : Held(g)' = Held(g)
  <2>1. CASE PowerOff
    <3>1. \A g \in Files \ {f} : ~Resizing(g) /\ ~Resizing(g)'
      BY <1>1, <2>1 DEF Resizing, PowerOff, Return
    <3>2. fat' = fat /\ data' = data /\ dirent' = dirent
      BY <2>1 DEF PowerOff, card
    <3>3. ASSUME NEW g \in Files \ {f}
          PROVE  Held(g) = ContentsIn(fat, data, dirent[g]) /\ Held(g)' = ContentsIn(fat', data', dirent'[g])
      BY <3>1, ContentsAre, ContentsAreNext DEF Held
    <3> QED
      BY <3>2, <3>3
  <2>2. CASE ~PowerOff
    BY <1>1, <1>2, <1>3, <2>2, OthersKept DEF Return
  <2> QED
    BY <2>1, <2>2
<1>5. Held(f) = before
  BY <1>1 DEF Held, Resizing
<1>c. Counted
  BY StepCounted
<1>6. CASE Return
  <2>1. Held(f)' = ContentsIn(fat', data', dirent'[f])
    <3>1. ~Resizing(f)'
      BY <1>6 DEF Resizing, Return
    <3> QED
      BY <3>1, ContentsAreNext DEF Held
  <2>2. ASSUME NEW old \in Held(f), NEW new \in Held(f)' PROVE Volume!Kept(old, new)
    BY <1>1, <1>2, <1>5, <2>1, <2>2, ReturnKeeps
  <2>3. Ended(f)
    BY <1>1, <1>6, ReturnEnds DEF Ended
  <2> QED
    BY <1>1, <1>4, <1>6, <1>c, <2>2, <2>3, VolumeEnds DEF Return
<1>7. CASE /\ op' # Idle /\ before' = before /\ fh'[op'.h].file = f /\ ~PowerOff
           /\ op'.size = op.size
  <2>1. Held(f)' = before
    BY <1>7 DEF Held, Resizing
  <2>2. Under' = Under
    BY <1>1, <1>7 DEF Under
  <2> QED
    BY <1>4, <1>5, <1>c, <2>1, <2>2, VolumeStays
<1> QED
  BY <1>3, <1>6, <1>7

\* A freshly laid out card is an initial state of the abstract volume.
LEMMA VolumeInit == ASSUME Init PROVE Volume!Init
<1>1. PICK l \in Layouts :
           /\ \A f \in Files : /\ l[f].chain \in Seq(Clusters) /\ l[f].size \in Nat
                               /\ dirent[f].size = l[f].size
           /\ \A f \in Files : \A n \in Nat :
                n < Len(l[f].chain) => FollowOf(fat, dirent[f].start, n) = l[f].chain[n + 1]
           /\ \A c \in Clusters : fat[c] # Free =>
                \E f \in Files : \E n \in Nat : n < Len(l[f].chain) /\ l[f].chain[n + 1] = c
           /\ l \in Layouts
  BY InitFollow
<1>2. ASSUME NEW f \in Files PROVE Held(f) # {}
  <2> DEFINE e == dirent[f]
             q == l[f].chain
  <2>1. q \in Seq(Clusters) /\ Len(q) \in Nat /\ e.size \in Nat /\ e.size <= Len(q) * ClusterLen
    BY <1>1, LayoutAssumption
  <2>2. \A n \in Nat : n < Len(q) => FollowOf(fat, e.start, n) = q[n + 1] /\ q[n + 1] \in Clusters
    BY <1>1, <2>1
  <2> HIDE DEF e, q
  <2>3. ASSUME NEW p \in 0..(e.size - 1) PROVE FollowOf(fat, e.start, Index(p)) >= 2
    <3>1. p \in Nat /\ p < Len(q) * ClusterLen
      BY <2>1, ClusterLenType, Product
    <3> DEFINE i == Index(p)
               a == ClusterLen * i
    <3>2. i \in Nat /\ a \in Nat /\ a <= p
      <4>1. i \in Nat
        BY <3>1, IndexType
      <4>2. PICK b \in 0..(ClusterLen - 1) : p = a + b
        BY <3>1, IndexType
      <4>3. a \in Nat
        BY <4>1, ClusterLenType, Product
      <4> HIDE DEF a, i
      <4> QED
        BY <3>1, <4>1, <4>2, <4>3, ClusterLenType
    <3>3. i < Len(q)
      <4> SUFFICES ASSUME Len(q) <= i PROVE FALSE
        BY <2>1, <3>2
      <4>1. ClusterLen * Len(q) <= ClusterLen * i
        <5>1. CASE Len(q) = i
          BY <3>2, <5>1
        <5>2. CASE Len(q) < i
          <6> DEFINE j == i
                     m == Len(q)
          <6>1. m \in Nat /\ j \in Nat /\ m < j
            BY <2>1, <3>2, <5>2
          <6> HIDE DEF j, m, i
          <6>2. ClusterLen * m + ClusterLen <= ClusterLen * j
            BY <6>1, ClusterLenType, Times
          <6>3. ClusterLen * m \in Nat /\ ClusterLen * j \in Nat
            BY <6>1, ClusterLenType, Product
          <6> QED
            BY <6>2, <6>3, ClusterLenType DEF j, m
        <5> QED
          BY <2>1, <3>2, <5>1, <5>2
      <4> HIDE DEF i
      <4>2. Len(q) * ClusterLen = ClusterLen * Len(q) /\ ClusterLen * Len(q) \in Nat
        BY <2>1, ClusterLenType, Product
      <4> QED
        BY <3>1, <3>2, <4>1, <4>2
    <3> HIDE DEF i
    <3>4. FollowOf(fat, e.start, i) \in Clusters
      BY <2>2, <3>2, <3>3
    <3> QED
      BY <3>4 DEF Clusters, i
  <2>4. ContentsIn(fat, data, e) # {}
    BY <2>3 DEF ContentsIn
  <2>5. ~Resizing(f)
    BY DEF Init, Resizing
  <2> QED
    BY <2>4, <2>5, ContentsAre DEF Held, e
<1> DEFINE file == [f \in Files |-> IF Resizing(f) THEN before ELSE Contents(f)]
<1>3. DOMAIN file = Files /\ \A f \in Files : file[f] # {}
  BY <1>2, Zenon DEF Held
<1>4. (IF op = Idle THEN Idle ELSE [file |-> fh[op.h].file, size |-> op.size]) = Idle
  BY DEF Init
<1>5. faults = 0 /\ full = FALSE
  BY DEF Init
<1> QED
  BY <1>3, <1>4, <1>5, Zenon DEF Volume!Init

\* Every step is one of the abstract volume.
LEMMA VolumeSteps ==
  ASSUME Orderly, TypeOK, TypeOK', HeadsInv, WalkInv, AimInv, BeforeInv, CutInv, Next
  PROVE  Volume!Next
<1>0. Counted
  BY StepCounted
<1>2. ASSUME NEW h \in Handles,
             \/ \E f \in Files : Open(h, f)
             \/ Close(h)
             \/ \E p \in Positions : SetPos(h, p)
             \/ \E n \in Lengths : Read(h, n)
      PROVE  Volume!Next
  <2>1. op = Idle /\ op' = Idle /\ fat' = fat /\ data' = data /\ dirent' = dirent
    BY <1>2 DEF Open, Close, SetPos, Read, card
  <2>2. \A g \in Files : Held(g)' = Held(g)
    BY <2>1, IdleKeeps
  <2> QED
    BY <1>0, <2>1, <2>2, VolumeStays DEF Under
<1>3. ASSUME op = Idle, PowerOff PROVE Volume!Next
  <2>1. op' = Idle
    BY <1>3 DEF PowerOff, Return
  <2>2. \A g \in Files : Held(g)' = Held(g)
    BY <1>3, IdleKeeps DEF PowerOff, Return, card
  <2> QED
    BY <1>0, <1>3, <2>1, <2>2, VolumeStays DEF Under
<1>4. ASSUME NEW h \in Handles, NEW n \in Lengths, Write(h, n) \/ WriteFails(h, n) PROVE Volume!Next
  <2>1. /\ op = Idle /\ op' = Idle /\ fh[h] # Closed /\ h \in Opened /\ fh[h].pos < fh[h].size
        /\ fat' = fat /\ dirent' = dirent
    BY <1>4 DEF Write, WriteFails, Opened
  <2>2. fh[h].pos \in Nat /\ fh[h].pos + Moved(fh[h], n) \in Nat
        /\ fh[h].pos + Moved(fh[h], n) <= fh[h].size /\ fh[h].size \in Nat
    BY <2>1, MoveType, HandleFacts
  <2> DEFINE end == fh[h].pos + Moved(fh[h], n)
  <2>3. \E p \in Nat : /\ p <= end /\ Store(fh[h], p)
                       /\ \A q \in fh[h].pos..(p - 1) : At(fh[h], q) >= 2
    <3>1. CASE Write(h, n)
      <4>1. Store(fh[h], end) /\ \A q \in fh[h].pos..(end - 1) : At(fh[h], q) >= 2
        <5>1. Store(fh[h], end) /\ Reaches(fh[h], n)
          BY <3>1, Zenon DEF Write
        <5>2. \A q \in fh[h].pos..(fh[h].pos + Moved(fh[h], n) - 1) : At(fh[h], q) >= 2
          BY <5>1, Zenon DEF Reaches
        <5>3. Moved(fh[h], n) \in Nat
          BY <2>1, MoveType
        <5>4. end - 1 = fh[h].pos + (Moved(fh[h], n) - 1)
          BY <2>2, <5>3
        <5> QED
          BY <5>1, <5>2, <5>4
      <4> QED
        BY <2>2, <4>1
    <3>2. CASE WriteFails(h, n)
      <4>1. \E p \in fh[h].pos..end :
              Store(fh[h], p) /\ \A q \in fh[h].pos..(p - 1) : At(fh[h], q) >= 2
        BY <3>2, Zenon DEF WriteFails
      <4>2. PICK p \in fh[h].pos..end :
              Store(fh[h], p) /\ \A q \in fh[h].pos..(p - 1) : At(fh[h], q) >= 2
        BY <4>1
      <4>3. p \in Nat /\ p <= end
        BY <2>2
      <4> QED
        BY <4>2, <4>3
    <3> QED
      BY <1>4, <3>1, <3>2
  <2>4. PICK p \in Nat : /\ p <= end /\ Store(fh[h], p)
                         /\ \A q \in fh[h].pos..(p - 1) : At(fh[h], q) >= 2
    BY <2>3
  <2>5. p <= fh[h].size
    BY <2>2, <2>4
  <2> QED
    BY <1>0, <2>1, <2>4, <2>5, WriteKeeps
<1>5. ASSUME NEW h \in Handles, NEW n \in Sizes, SetSize(h, n) PROVE Volume!Next
  <2>1. \A g \in Files : Held(g)' = Held(g)
    BY <1>5, BeginKeeps
  <2>2. op = Idle /\ op' # Idle /\ op'.h = h /\ op'.size = n /\ h \in Handles /\ n \in Nat
    BY <1>5, FatAssumption DEF SetSize, Idle
  <2>3. fh'[h].file \in Files
    <3>1. fh'[h] \in Handled
      <4>1. fh'[h] # Closed
        BY <2>2 DEF TypeOK
      <4> QED
        BY <4>1 DEF TypeOK, Handled
    <3> QED
      BY <3>1 DEF Handled
  <2>4. Under = Idle /\ Under' = [file |-> fh'[h].file, size |-> n]
    BY <2>2 DEF Under
  <2> QED
    BY <1>0, <2>1, <2>2, <2>3, <2>4, VolumeStays
<1>6. ASSUME \/ First \/ WalkOn \/ CutChain \/ Grow \/ Link \/ Terminate \/ FreeOne \/ PutEntry
                \/ SetSizeFails
             \/ PowerOff /\ op # Idle
      PROVE  Volume!Next
  <2>1. op # Idle
    BY <1>6, WalkSteps
  <2> QED
    BY <1>6, <2>1, ResizeImplements
<1> QED
  BY <1>2, <1>3, <1>4, <1>5, <1>6, Zenon DEF Next

\* Files on the volume behave as the abstract store of files: writing changes units where they
\* stand in one file; a resize that is done has given its file the new size and kept what the old
\* and the new size share, one that is refused has changed nothing, and only one that meets a
\* failure may cost the contents of its own file.
THEOREM VolumeImplementsStore ==
  Hazards = {} => (Spec => ImplementsStore)
<1> SUFFICES ASSUME Hazards = {} PROVE Spec => ImplementsStore
  OBVIOUS
<1>0. Orderly /\ "far" \notin Hazards
  BY DEF Orderly
<1> DEFINE IInv == TypeOK /\ HeadsInv /\ WalkInv /\ AimInv /\ BeforeInv /\ CutInv
<1>1. Init => IInv
  <2>1. Init => op = Idle
    BY DEF Init
  <2>2. op = Idle => WalkInv /\ BeforeInv /\ CutInv
    BY DEF WalkInv, Idle, BeforeInv, CutInv
  <2> QED
    BY <2>1, <2>2, InitType, HeadsInit, AimInit
<1>2. IInv /\ [Next]_vars => IInv'
  BY <1>0, TypeStep, HeadsStep, WalkStep, AimStep, BeforeStep, CutStep
<1>3. Init => Volume!Init
  BY VolumeInit
<1>4. IInv /\ IInv' /\ [Next]_vars => [Volume!Next]_(Volume!vars)
  <2>1. IInv /\ IInv' /\ Next => Volume!Next
    BY <1>0, VolumeSteps
  <2>2. UNCHANGED vars => UNCHANGED Volume!vars
    <3> SUFFICES ASSUME UNCHANGED vars PROVE UNCHANGED Volume!vars
      OBVIOUS
    <3>1. UNCHANGED <<fat, data, dirent, fh, op, before, faults, full>>
      BY DEF vars, card
    <3>2. \A g \in Files : Held(g)' = Held(g)
      <4>1. \A g \in Files : Resizing(g)' <=> Resizing(g)
        BY <3>1 DEF Resizing
      <4>2. \A g \in Files : Contents(g)' = Contents(g)
        BY <3>1, ContentsAre, ContentsAreNext
      <4> QED
        BY <3>1, <4>1, <4>2 DEF Held
    <3>3. [f \in Files |-> IF Resizing(f) THEN before ELSE Contents(f)]' =
          [f \in Files |-> IF Resizing(f) THEN before ELSE Contents(f)]
      <4>1. [f \in Files |-> IF Resizing(f) THEN before ELSE Contents(f)] = [f \in Files |-> Held(f)]
        BY Zenon DEF Held
      <4>2. [f \in Files |-> IF Resizing(f) THEN before ELSE Contents(f)]' = [f \in Files |-> Held(f)']
        BY Zenon DEF Held
      <4> QED
        BY <3>2, <4>1, <4>2
    <3>4. Under' = Under
      BY <3>1 DEF Under
    <3> QED
      BY <3>1, <3>3, <3>4, Zenon DEF Volume!vars, Under
  <2> QED
    BY <2>1, <2>2
<1> QED
  BY <1>1, <1>2, <1>3, <1>4, PTL DEF Spec, ImplementsStore, Volume!Spec
=============================================================================
