---------------------------- MODULE MediaProofs ----------------------------
(***************************************************************************)
(* Proofs about the two media that the firmware serves from files of the   *)
(* card: disk images (FdcGeometry) and tapes (Tape), which share nothing.  *)
(*                                                                         *)
(* For every image file, every drive and every address, fdc_task stays     *)
(* inside the file, and finds the sectors of the disk where they are.      *)
(*                                                                         *)
(* For any size of the FIFO and of the recordings, however long the        *)
(* firmware is away, no recording has a gap that nobody was told of, and a *)
(* complete one stays until the next begins. What is played is the reel,   *)
(* in order, for every size of the sample memory.                          *)
(***************************************************************************)
EXTENDS FdcGeometry, Tape, SequenceTheorems, FiniteSetTheorems, FunctionTheorems, TLAPS

----------------------------------------------------------------------------
(* Remainders.                                                              *)

\* A number is its quotient times the divisor, and the remainder.
LEMMA Division ==
  ASSUME NEW x \in Int, NEW k \in Nat \ {0}
  PROVE  \E q \in Int, r \in 0..k-1 : x \div k = q /\ x % k = r /\ x = q * k + r
<1>1. x \div k \in Int
  OBVIOUS
<1>2. x % k \in 0..k-1
  OBVIOUS
<1>3. x % k = x - (x \div k) * k
  OBVIOUS
<1> DEFINE q == x \div k
           r == x % k
<1>4. q \in Int /\ r \in 0..k-1 /\ r = x - q * k /\ x \div k = q /\ x % k = r
  BY <1>1, <1>2, <1>3
<1> HIDE DEF q, r
<1>5. x = q * k + r
  BY <1>4
<1> QED
  BY <1>4, <1>5

\* The factors of a product may be taken in any grouping.
LEMMA Grouped ==
  ASSUME NEW a \in Int, NEW b \in Int, NEW c \in Int
  PROVE  a * (b * c) = (a * b) * c /\ a * b \in Int /\ a * (b * c) \in Int
  OBVIOUS

\* Nothing but the quotient and the remainder does that.
LEMMA Remainder ==
  ASSUME NEW x \in Int, NEW k \in Nat \ {0}, NEW q \in Int, NEW r \in 0..k-1, x = q * k + r
  PROVE  x \div k = q /\ x % k = r
<1>1. PICK p \in Int, s \in 0..k-1 : x \div k = p /\ x % k = s /\ x = p * k + s
  BY Division
<1> DEFINE d == p - q
<1>2. d \in Int /\ d * k = r - s
  <2>1. d * k = p * k - q * k
    BY <1>1
  <2> QED
    BY <1>1, <2>1
<1> HIDE DEF d
<1>3. d < 1
  <2> SUFFICES ASSUME d >= 1 PROVE FALSE
    BY <1>2
  <2>1. d * k >= k
    BY <1>2
  <2> QED
    BY <1>1, <1>2, <2>1
<1>4. d > -1
  <2> SUFFICES ASSUME -d >= 1 PROVE FALSE
    BY <1>2
  <2>1. (-d) * k >= k /\ (-d) * k = -(d * k)
    BY <1>2
  <2> QED
    BY <1>1, <1>2, <2>1
<1>5. p = q
  BY <1>2, <1>3, <1>4 DEF d
<1>6. s = r
  BY <1>1, <1>5
<1> QED
  BY <1>1, <1>5, <1>6

\* Whole turns more or less do not matter.
LEMMA Turns ==
  ASSUME NEW x \in Int, NEW k \in Nat \ {0}, NEW n \in Int
  PROVE  (x + n * k) % k = x % k
<1>1. PICK q \in Int, r \in 0..k-1 : x % k = r /\ x = q * k + r
  BY Division
<1>2. (q + n) * k = q * k + n * k /\ n * k \in Int /\ q * k \in Int
  BY <1>1
<1>3. x + n * k = (q + n) * k + r
  BY <1>1, <1>2
<1>4. (x + n * k) % k = r
  BY <1>1, <1>2, <1>3, Remainder
<1> QED
  BY <1>1, <1>4

\* A position modulo the large wrap says where it is modulo a divisor of it.
LEMMA Inside ==
  ASSUME NEW x \in Int, NEW y \in Int, NEW k \in Nat \ {0}, NEW w \in Nat \ {0}, w % k = 0
  PROVE  ((x % w) + y) % k = (x + y) % k
<1>1. PICK a \in Int, m \in 0..w-1 : x \div w = a /\ x % w = m /\ x = a * w + m
  BY Division, ZenonT(60)
<1>2. PICK b \in Int, z \in 0..k-1 : w \div k = b /\ w % k = z /\ w = b * k + z
  <2>1. w \in Int
    OBVIOUS
  <2> QED
    BY <2>1, Division, ZenonT(60)
<1>3. x + y = m + y + (a * b) * k
  <2>1. a * w = (a * b) * k
    BY <1>1, <1>2, Grouped
  <2>2. a * w \in Int
    BY <1>1
  <2> QED
    BY <1>1, <2>1, <2>2
<1>4. a * b \in Int /\ m + y \in Int
  BY <1>1, <1>2
<1>5. (m + y + (a * b) * k) % k = (m + y) % k
  BY <1>4, Turns, ZenonT(60)
<1> QED
  BY <1>1, <1>3, <1>5

\* The same within one wrap.
LEMMA InsideSame ==
  ASSUME NEW x \in Int, NEW y \in Int, NEW k \in Nat \ {0}
  PROVE  ((x % k) + y) % k = (x + y) % k
<1>1. k % k = 0
  OBVIOUS
<1> QED
  BY <1>1, Inside, ZenonT(60)

\* A divisor of a divisor.
LEMMA DividesThrough ==
  ASSUME NEW a \in Nat \ {0}, NEW b \in Nat \ {0}, NEW c \in Nat \ {0}, b % a = 0, c % b = 0
  PROVE  c % a = 0
<1>1. ASSUME NEW y \in Int PROVE ((c % b) + y) % a = (c + y) % a
  BY Inside, c \in Int
<1>2. 0 % a = 0 /\ c + 0 = c /\ (c % b) + 0 = 0
  OBVIOUS
<1> QED
  BY <1>1, <1>2

\* Two positions in different words, the first at the start of its word: there is a word
\* between them.
LEMMA WordBetween ==
  ASSUME NEW k \in Nat \ {0}, NEW w \in Nat \ {0}, w % k = 0,
         NEW x \in Nat, x % k = 0, NEW y \in Nat, x <= y,
         (x % w) \div k # (y % w) \div k
  PROVE  x + k <= y
<1> SUFFICES ASSUME y < x + k PROVE FALSE
  OBVIOUS
<1>0. x \in Int /\ y \in Int /\ w \in Int /\ k \in Nat \ {0} /\ w \in Nat \ {0}
  OBVIOUS
<1>1. \E q \in Int : x = q * k
  <2>1. PICK q \in Int, z \in 0..k-1 : x \div k = q /\ x % k = z /\ x = q * k + z
    BY <1>0, Division, ZenonT(60)
  <2> QED
    BY <2>1
<1>2. PICK a \in Int, m \in 0..w-1 : x \div w = a /\ x % w = m /\ x = a * w + m
  BY <1>0, Division, ZenonT(60)
<1>3. \E v \in Int : w = v * k
  <2>1. PICK v \in Int, z \in 0..k-1 : w \div k = v /\ w % k = z /\ w = v * k + z
    BY <1>0, Division, ZenonT(60)
  <2> QED
    BY <2>1
<1> PICK q \in Int : x = q * k
  BY <1>1
<1> PICK v \in Int : w = v * k
  BY <1>3
<1> DEFINE e == q - a * v
<1>4. e \in Int /\ m = e * k
  <2>1. a * w = (a * v) * k /\ a * v \in Int /\ a * w \in Int
    BY Grouped
  <2>2. e * k = q * k - (a * v) * k
    BY <2>1
  <2>3. m = q * k - a * w
    BY <1>2, <2>1
  <2> QED
    BY <2>1, <2>2, <2>3
<1> HIDE DEF e
<1>5. m \div k = e
  <2>1. m = e * k + 0 /\ m \in Int
    BY <1>4
  <2> QED
    BY <1>4, <2>1, Remainder
<1>6. m + k <= w
  <2>1. e < v
    <3> SUFFICES ASSUME v <= e PROVE FALSE
      BY <1>4
    <3>1. (e - v) * k >= 0 /\ (e - v) * k = m - w
      BY <1>4
    <3> QED
      BY <3>1
  <2>2. (v - e - 1) * k >= 0 /\ (v - e - 1) * k = w - m - k
    BY <1>4, <2>1
  <2> QED
    BY <2>2
<1> DEFINE n == a * w
           j == y - x
           r == m + j
<1>7. j \in 0..k-1 /\ r \in 0..w-1 /\ n \in Int /\ y = n + r
  BY <1>2, <1>6
<1>8. y % w = r
  <2> HIDE DEF r, j
  <2>1. y = a * w + r /\ r \in 0..w-1
    BY <1>7
  <2> HIDE DEF n
  <2>2. y \div w = a /\ y % w = r
    BY <1>0, <2>1, Remainder, Zenon
  <2> QED
    BY <2>2
<1>9. r \div k = e
  <2> HIDE DEF j
  <2>1. r = e * k + j /\ r \in Int
    BY <1>4, <1>7
  <2> HIDE DEF r
  <2> QED
    BY <1>4, <1>7, <2>1, Remainder
<1> QED
  BY <1>2, <1>5, <1>8, <1>9

----------------------------------------------------------------------------
(* Disk images.                                                             *)

\* Whole tracks: the sectors before the end of track a fit before track b.
LEMMA TrackEnd ==
  ASSUME NEW a \in Nat, NEW b \in Nat, NEW k \in Nat, a < b
  PROVE  a * k + k <= b * k
<1>1. (a + 1) * k <= b * k
  <2>1. PICK m \in Nat : b = a + 1 + m
    <3>1. b - (a + 1) \in Nat
      OBVIOUS
    <3> QED
      BY <3>1
  <2>2. b * k = (a + 1) * k + m * k
    BY <2>1
  <2>3. m * k \in Nat
    OBVIOUS
  <2> QED
    BY <2>2, <2>3
<1> QED
  BY <1>1

\* As many whole tracks as the count of sectors has.
LEMMA WholeTracks ==
  ASSUME NEW n \in Nat, NEW k \in Nat, k > 0
  PROVE  /\ n \div k \in Nat /\ (n \div k) * k <= n
  OBVIOUS

\* The fields of an image file, as far as they matter here.
LEMMA ImageFields ==
  ASSUME NEW h \in Images
  PROVE  /\ h.nsec \in Nat /\ h.sps \in Nat /\ h.tracks \in Nat /\ h.sides \in Nat
         /\ h.density \in Nat /\ h.size \in Nat
<1>1. h \in ImageFiles
  BY ImageAssumption
<1>2. /\ h.nsec \in Word16 /\ h.sps \in Byte /\ h.tracks \in Byte /\ h.sides \in Byte
      /\ h.density \in Byte /\ h.size \in Nat
  BY <1>1 DEF ImageFiles
<1>3. ASSUME NEW n \in Nat, NEW m \in 0..n PROVE m \in Nat
  OBVIOUS
<1>4. Word16 \subseteq Nat /\ Byte \subseteq Nat
  BY <1>3 DEF Word16, Byte
<1> QED
  BY <1>2, <1>3, <1>4

\* The sector register is a byte.
LEMMA RegisterType == SectorRegs \subseteq Nat
<1>1. SectorRegs \subseteq Byte
  BY ImageAssumption
<1> QED
  BY <1>1 DEF Byte

\* The bytes of tracks and shape that fdc_mount derives.
LEMMA GeometryType ==
  ASSUME NEW h \in Images, Recognised(h)
  PROVE  TracksOf(h) \in Byte /\ ShapeOf(h) \in Shapes
<1>1. CASE ValidVib(h)
  <2>1. VibTracks(h) \in Byte
    <3>1. CASE h.tracks = 0
      <4>1. h.nsec \div h.sps \in Nat
        BY <1>1, ImageFields, WholeTracks DEF ValidVib
      <4> QED
        BY <3>1, <4>1 DEF VibTracks, Byte
    <3>2. CASE h.tracks # 0
      <4>1. VibTracks(h) = h.tracks \/ VibTracks(h) = 2 * h.tracks
        BY <3>2 DEF VibTracks
      <4>2. h.tracks \in Nat /\ h.tracks < 64
        BY <1>1, ImageFields DEF ValidVib
      <4> QED
        BY <4>1, <4>2 DEF Byte
    <3> QED
      BY <3>1, <3>2
  <2>2. VibShape(h) \in Shapes
    BY <1>1, ImageFields DEF VibShape, ValidVib, Shapes
  <2> QED
    BY <1>1, <2>1, <2>2 DEF TracksOf, ShapeOf, Shapes
<1>2. CASE ~ValidVib(h)
  <2>1. GuessTracks(h) \in Byte /\ GuessShape(h) \in Shapes
    BY DEF GuessTracks, GuessShape, Byte, Shapes
  <2> QED
    BY <1>2, <2>1 DEF TracksOf, ShapeOf, Shapes
<1> QED
  BY <1>1, <1>2

\* The tracks of a recognised image lie in its file.
LEMMA TracksInFile ==
  ASSUME NEW h \in Images, Recognised(h)
  PROVE  256 * (TracksOf(h) * ShapeOf(h).sps) <= h.size
<1>1. CASE ValidVib(h)
  <2>1. h.sps \in 1..31 /\ h.nsec \in Nat /\ h.tracks \in Nat /\ h.size \in Nat
        /\ 256 * h.nsec <= h.size
    BY <1>1, ImageFields DEF ValidVib
  <2>2. ShapeOf(h).sps = h.sps /\ TracksOf(h) = VibTracks(h)
    BY <1>1 DEF ShapeOf, VibShape, TracksOf
  <2>3. VibTracks(h) * h.sps <= h.nsec
    <3>1. CASE h.tracks = 0
      <4> DEFINE q == h.nsec \div h.sps
      <4>1. q \in Nat /\ q * h.sps <= h.nsec
        BY <2>1, WholeTracks
      <4>2. VibTracks(h) = q % 256
        BY <3>1 DEF VibTracks
      <4> HIDE DEF q
      <4>3. q % 256 \in Nat /\ q % 256 <= q
        BY <4>1
      <4>4. (q % 256) * h.sps <= q * h.sps
        <5>1. CASE q % 256 = q
          BY <5>1, <4>1, <2>1
        <5>2. CASE q % 256 < q
          BY <5>2, <4>1, <4>3, <2>1, TrackEnd
        <5> QED
          BY <4>3, <4>1, <5>1, <5>2
      <4> QED
        BY <2>1, <4>1, <4>2, <4>3, <4>4
    <3>2. CASE h.tracks # 0 /\ h.sides = 2
      BY <1>1, <2>1, <3>2 DEF VibTracks, ValidVib
    <3>3. CASE h.tracks # 0 /\ h.sides # 2
      BY <1>1, <2>1, <3>3 DEF VibTracks, ValidVib
    <3> QED
      BY <3>1, <3>2, <3>3
  <2>4. VibTracks(h) \in Nat
    BY <2>2, GeometryType DEF Byte
  <2> DEFINE p == VibTracks(h) * h.sps
  <2>5. p \in Nat /\ p <= h.nsec
    BY <2>1, <2>3, <2>4
  <2>6. TracksOf(h) * ShapeOf(h).sps = p
    BY <2>2
  <2> HIDE DEF p
  <2> QED
    BY <2>1, <2>5, <2>6
<1>2. CASE ~ValidVib(h)
  BY <1>2 DEF Recognised, Guessed, TracksOf, ShapeOf, GuessTracks, GuessShape
<1> QED
  BY <1>1, <1>2

\* The inductive invariant: what fdc.c keeps of each image fits its file.
Fits == \A d \in Drives :
          /\ size[d] \in Nat /\ tracks[d] \in Byte /\ shape[d] \in Shapes
          /\ 256 * (tracks[d] * shape[d].sps) <= size[d]

FitsInv == /\ size \in [Drives -> Nat] /\ tracks \in [Drives -> Byte]
           /\ shape \in [Drives -> Shapes]
           /\ Fits

\* Nothing is mounted at first.
LEMMA FitsInit == Init => FitsInv
  BY DEF Init, FitsInv, Fits, NoShape, Shapes, Byte

\* Mounting and unmounting keep what fits.
LEMMA FitsStep == FitsInv /\ [Next]_vars => FitsInv'
<1> SUFFICES ASSUME FitsInv, [Next]_vars PROVE FitsInv'
  OBVIOUS
<1>1. ASSUME NEW d \in Drives, NEW h \in Images, Mount(d, h) PROVE FitsInv'
  <2>1. h.size \in Nat /\ TracksOf(h) \in Byte /\ ShapeOf(h) \in Shapes
        /\ 256 * (TracksOf(h) * ShapeOf(h).sps) <= h.size
    BY <1>1, GeometryType, TracksInFile, ImageFields DEF Mount
  <2>2. /\ size' = [size EXCEPT ![d] = h.size]
        /\ shape' = [shape EXCEPT ![d] = ShapeOf(h)]
        /\ tracks' = [tracks EXCEPT ![d] = TracksOf(h)]
    BY <1>1 DEF Mount
  <2> QED
    BY <2>1, <2>2 DEF FitsInv, Fits
<1>2. ASSUME NEW d \in Drives, Unmount(d) PROVE FitsInv'
  BY <1>2 DEF Unmount, FitsInv, Fits, NoShape, Shapes, Byte
<1>3. CASE UNCHANGED vars
  BY <1>3 DEF vars, FitsInv, Fits
<1> QED
  BY <1>1, <1>2, <1>3 DEF Next

\* Whatever file is mounted, fdc_task never reads or writes past its end, at whatever
\* position heads, side line and sector register are (fdc.c:109-120).
THEOREM StaysInImage == Spec => []InImage
<1>1. FitsInv => InImage
  <2> SUFFICES ASSUME FitsInv, NEW d \in Drives, NEW c \in Cylinders, NEW s \in {0, 1},
                      NEW sec \in SectorRegs, Accepted(d, c, s, sec)
               PROVE  256 * (BlockNo(d, c, s, sec) + 1) <= size[d]
    BY DEF InImage
  <2> DEFINE t == TrackNo(d, c, s)
             k == shape[d].sps
  <2>1. k \in Nat /\ tracks[d] \in Nat /\ size[d] \in Nat /\ 256 * (tracks[d] * k) <= size[d]
    <3>1. shape[d] \in Shapes /\ tracks[d] \in Byte /\ size[d] \in Nat
      BY DEF FitsInv
    <3>2. k \in Nat /\ tracks[d] \in Nat
      BY <3>1 DEF Shapes, Byte
    <3>3. 256 * (tracks[d] * k) <= size[d]
      BY DEF FitsInv, Fits
    <3> QED
      BY <3>1, <3>2, <3>3
  <2>2. t \in Nat
    BY <2>1 DEF TrackNo, Cylinders
  <2>3. t < tracks[d] /\ sec \in Nat /\ sec < k
    BY RegisterType DEF Accepted
  <2>4. BlockNo(d, c, s, sec) = t * k + sec
    BY DEF BlockNo
  <2> HIDE DEF t, k
  <2>5. t * k + k <= tracks[d] * k
    BY <2>1, <2>2, <2>3, TrackEnd
  <2>6. t * k \in Nat /\ tracks[d] * k \in Nat
    BY <2>1, <2>2
  <2> QED
    BY <2>1, <2>3, <2>4, <2>5, <2>6
<1> QED
  BY <1>1, FitsInit, FitsStep, PTL DEF Spec

----------------------------------------------------------------------------
(* The place of the sectors.                                                *)

\* The sectors of an image whose tracks fit a byte are its tracks times the sectors of each.
LEMMA SectorsInTracks ==
  ASSUME NEW h \in Images, Recognised(h), SectorCount(h) < 256 * ShapeOf(h).sps
  PROVE  SectorCount(h) = TracksOf(h) * ShapeOf(h).sps /\ ShapeOf(h).sps > 0
<1>1. CASE ValidVib(h)
  <2>1. h.sps \in 1..31 /\ h.nsec \in Nat /\ h.tracks \in Nat /\ h.tracks < 64
    BY <1>1, ImageFields DEF ValidVib
  <2>2. ShapeOf(h).sps = h.sps /\ TracksOf(h) = VibTracks(h) /\ SectorCount(h) = h.nsec
    BY <1>1 DEF ShapeOf, VibShape, TracksOf, SectorCount
  <2>3. CASE h.tracks = 0
    <3>1. PICK q \in Int, r \in 0..h.sps-1 :
            h.nsec \div h.sps = q /\ h.nsec % h.sps = r /\ h.nsec = q * h.sps + r
      <4>1. h.nsec \in Int /\ h.sps \in Nat \ {0}
        BY <2>1
      <4> QED
        BY <4>1, Division, ZenonT(60)
    <3>2. r = 0
      BY <1>1, <3>1 DEF ValidVib
    <3>3. q \in 0..255
      <4>1. q * h.sps < 256 * h.sps /\ q * h.sps >= 0
        BY <2>1, <2>2, <3>1, <3>2
      <4>2. q < 256
        <5> SUFFICES ASSUME q >= 256 PROVE FALSE
          BY <3>1
        <5>1. (q - 256) * h.sps >= 0 /\ (q - 256) * h.sps = q * h.sps - 256 * h.sps
          BY <2>1
        <5> QED
          BY <2>1, <4>1, <5>1
      <4>3. q >= 0
        <5> SUFFICES ASSUME -q >= 1 PROVE FALSE
          BY <3>1
        <5>1. (-q) * h.sps >= h.sps /\ (-q) * h.sps = -(q * h.sps)
          BY <2>1
        <5> QED
          BY <2>1, <4>1, <5>1
      <4> QED
        BY <4>2, <4>3
    <3>4. VibTracks(h) = q
      BY <2>3, <3>1, <3>3 DEF VibTracks
    <3> QED
      BY <2>1, <2>2, <3>1, <3>2, <3>4
  <2>4. CASE h.tracks # 0 /\ h.sides = 2
    <3>1. h.nsec = h.sps * h.tracks * 2 /\ VibTracks(h) = 2 * h.tracks
      BY <1>1, <2>4 DEF ValidVib, VibTracks
    <3> QED
      BY <2>1, <2>2, <3>1
  <2>5. CASE h.tracks # 0 /\ h.sides # 2
    <3>1. h.nsec = h.sps * h.tracks * 1 /\ VibTracks(h) = h.tracks
      BY <1>1, <2>5 DEF ValidVib, VibTracks
    <3> QED
      BY <2>1, <2>2, <3>1
  <2> QED
    BY <2>3, <2>4, <2>5
<1>2. CASE ~ValidVib(h)
  BY <1>2 DEF Recognised, Guessed, TracksOf, ShapeOf, GuessTracks, GuessShape, SectorCount
<1> QED
  BY <1>1, <1>2

\* Every address is accepted, and they are mapped one-to-one onto the sectors.
LEMMA PlacesMatch ==
  ASSUME NEW d \in Drives, NEW t \in 0..255, NEW k \in Nat \ {0}, NEW n \in Nat, t * k = n,
         tracks[d] = t, shape[d].sps = k, shape[d].ds \in BOOLEAN, size[d] # 0,
         shape[d].ds => t % 2 = 0
  PROVE  /\ Cardinality(Addresses(d)) = n
         /\ {BlockNo(d, a[1], a[2], a[3]) :
               a \in {x \in Addresses(d) : Accepted(d, x[1], x[2], x[3])}} = 0..(n - 1)
<1> DEFINE A == Addresses(d)
           No(a) == TrackNo(d, a[1], a[2])
           Bl(a) == BlockNo(d, a[1], a[2], a[3])
<1>0. ASSUME NEW a \in A
      PROVE  /\ No(a) \in 0..t-1 /\ a[1] \in 0..t-1 /\ a[2] \in {0, 1}
             /\ No(a) = IF a[2] = 1 THEN t - 1 - a[1] ELSE a[1]
             /\ ~shape[d].ds => a[2] = 0
             /\ shape[d].ds => 2 * a[1] < t
  <2>1. CASE shape[d].ds
    <3>1. PICK q \in Int : t = 2 * q /\ t \div 2 = q
      BY <2>1
    <3>2. a[1] \in 0..q-1 /\ a[2] \in {0, 1}
      BY <2>1, <3>1 DEF Addresses
    <3>3. CASE a[2] = 1
      BY <2>1, <3>1, <3>2, <3>3 DEF TrackNo
    <3>4. CASE a[2] = 0
      BY <2>1, <3>1, <3>2, <3>4 DEF TrackNo
    <3> QED
      BY <3>2, <3>3, <3>4
  <2>2. CASE ~shape[d].ds
    BY <2>2 DEF Addresses, TrackNo
  <2> QED
    BY <2>1, <2>2
<1>9. ASSUME NEW m \in 0..t-1, NEW s \in 0..k-1 PROVE \E a \in A : No(a) = m /\ a[3] = s
  <2>1. CASE shape[d].ds
    <3>1. PICK q \in Int : t = 2 * q /\ t \div 2 = q
      BY <2>1
    <3>2. CASE m < q
      <4>1. <<m, 0, s>> \in Addresses(d)
        BY <2>1, <3>1, <3>2 DEF Addresses
      <4>2. TrackNo(d, m, 0) = m
        BY DEF TrackNo
      <4> QED
        BY <4>1, <4>2
    <3>3. CASE m >= q
      <4> DEFINE c == t - 1 - m
      <4>1. c \in 0..q-1 /\ m = t - 1 - c
        BY <3>1, <3>3
      <4> HIDE DEF c
      <4>2. <<c, 1, s>> \in Addresses(d)
        BY <2>1, <3>1, <4>1 DEF Addresses
      <4>3. TrackNo(d, c, 1) = m
        BY <2>1, <3>1, <4>1 DEF TrackNo
      <4> QED
        BY <4>2, <4>3
    <3> QED
      BY <3>1, <3>2, <3>3
  <2>2. CASE ~shape[d].ds
    <3>1. <<m, 0, s>> \in Addresses(d)
      BY <2>2 DEF Addresses
    <3>2. TrackNo(d, m, 0) = m
      BY DEF TrackNo
    <3> QED
      BY <3>1, <3>2
  <2> QED
    BY <2>1, <2>2
<1>1. ASSUME NEW a \in A
      PROVE  /\ No(a) \in 0..t-1 /\ a[3] \in 0..k-1 /\ Bl(a) = No(a) * k + a[3]
             /\ a[1] \in Nat /\ a[2] \in {0, 1} /\ a = <<a[1], a[2], a[3]>>
             /\ Accepted(d, a[1], a[2], a[3])
             /\ No(a) = IF a[2] = 1 THEN t - 1 - a[1] ELSE a[1]
             /\ ~shape[d].ds => a[2] = 0
             /\ shape[d].ds => 2 * a[1] < t
  <2>1. /\ No(a) \in 0..t-1 /\ a[1] \in 0..t-1 /\ a[2] \in {0, 1}
        /\ No(a) = IF a[2] = 1 THEN t - 1 - a[1] ELSE a[1]
        /\ ~shape[d].ds => a[2] = 0
        /\ shape[d].ds => 2 * a[1] < t
    BY <1>0
  <2>2. a[3] \in 0..k-1 /\ a = <<a[1], a[2], a[3]>>
    BY DEF Addresses
  <2>3. Accepted(d, a[1], a[2], a[3])
    BY <2>1, <2>2 DEF Accepted
  <2>4. Bl(a) = No(a) * k + a[3]
    BY DEF BlockNo
  <2> QED
    BY <2>1, <2>2, <2>3, <2>4
<1>2. ASSUME NEW a \in A PROVE Bl(a) \in 0..n-1
  <2> DEFINE m == No(a)
             s == a[3]
  <2>1. m \in 0..t-1 /\ s \in 0..k-1 /\ Bl(a) = m * k + s
    BY <1>1
  <2> HIDE DEF m, s, Bl
  <2>2. m * k + k <= t * k
    <3>1. m \in Nat /\ t \in Nat /\ k \in Nat /\ m < t
      BY <2>1
    <3> QED
      BY <3>1, TrackEnd, ZenonT(60)
  <2>3. m * k \in Nat
    BY <2>1
  <2> QED
    BY <2>1, <2>2, <2>3
<1>3. ASSUME NEW a \in A, NEW b \in A, Bl(a) = Bl(b) PROVE a = b
  <2>1. /\ No(a) \in 0..t-1 /\ a[3] \in 0..k-1 /\ Bl(a) = No(a) * k + a[3]
        /\ No(b) \in 0..t-1 /\ b[3] \in 0..k-1 /\ Bl(b) = No(b) * k + b[3]
    BY <1>1
  <2>2. No(a) = No(b) /\ a[3] = b[3]
    <3> DEFINE x == Bl(a)
               m == No(a)
               l == No(b)
               r == a[3]
               s == b[3]
    <3>1. m \in Int /\ r \in 0..k-1 /\ l \in Int /\ s \in 0..k-1
      BY <2>1
    <3>2. x = m * k + r /\ x = l * k + s
      BY <1>3, <2>1
    <3> HIDE DEF x, m, l, r, s
    <3>3. x \in Int
      BY <3>1, <3>2
    <3>4. x \div k = m /\ x % k = r
      <4>1. x \in Int /\ m \in Int /\ r \in 0..k-1 /\ x = m * k + r
        BY <3>1, <3>2, <3>3
      <4> QED
        BY <4>1, Remainder, ZenonT(60)
    <3>5. x \div k = l /\ x % k = s
      <4>1. x \in Int /\ l \in Int /\ s \in 0..k-1 /\ x = l * k + s
        BY <3>1, <3>2, <3>3
      <4> QED
        BY <4>1, Remainder, ZenonT(60)
    <3>6. m = l /\ r = s
      BY <3>4, <3>5, Zenon
    <3> QED
      BY <3>6 DEF m, l, r, s
  <2>3. /\ No(a) \in 0..t-1 /\ a[1] \in Nat /\ a[2] \in {0, 1}
        /\ ~shape[d].ds => a[2] = 0
        /\ No(a) = IF a[2] = 1 THEN t - 1 - a[1] ELSE a[1]
        /\ shape[d].ds => 2 * a[1] < t
    BY <1>1
  <2>4. /\ No(b) \in 0..t-1 /\ b[1] \in Nat /\ b[2] \in {0, 1}
        /\ ~shape[d].ds => b[2] = 0
        /\ No(b) = IF b[2] = 1 THEN t - 1 - b[1] ELSE b[1]
        /\ shape[d].ds => 2 * b[1] < t
    BY <1>1
  <2> HIDE DEF No
  <2>5. a[1] = b[1] /\ a[2] = b[2]
    <3>1. CASE shape[d].ds
      <4>1. PICK q \in Int : t = 2 * q
        BY <3>1
      <4> DEFINE x == a[1]
                 y == b[1]
                 u == a[2]
                 v == b[2]
      <4>2. /\ x \in Nat /\ y \in Nat /\ u \in {0, 1} /\ v \in {0, 1} /\ x < q /\ y < q
        BY <2>3, <2>4, <3>1, <4>1
      <4>3. (IF u = 1 THEN t - 1 - x ELSE x) = (IF v = 1 THEN t - 1 - y ELSE y)
        BY <2>2, <2>3, <2>4
      <4> HIDE DEF x, y, u, v
      <4>4. x = y /\ u = v
        BY <4>1, <4>2, <4>3
      <4> QED
        BY <4>4 DEF x, y, u, v
    <3>2. CASE ~shape[d].ds
      BY <2>2, <2>3, <2>4, <3>2
    <3> QED
      BY <3>1, <3>2
  <2> HIDE DEF A
  <2>6. a = <<a[1], a[2], a[3]>> /\ b = <<b[1], b[2], b[3]>>
    BY <1>1
  <2> QED
    BY <2>2, <2>5, <2>6
<1>4. ASSUME NEW x \in 0..n-1 PROVE \E a \in A : Bl(a) = x
  <2>1. PICK m \in Int, s \in 0..k-1 : x \div k = m /\ x % k = s /\ x = m * k + s
    <3>1. x \in Int
      OBVIOUS
    <3> QED
      BY <3>1, Division, ZenonT(60)
  <2>2. m >= 0
    <3> SUFFICES ASSUME -m >= 1 PROVE FALSE
      OBVIOUS
    <3>1. (-m) * k >= k /\ (-m) * k = -(m * k)
      OBVIOUS
    <3> QED
      BY <2>1, <3>1
  <2>3. m < t
    <3> SUFFICES ASSUME m >= t PROVE FALSE
      OBVIOUS
    <3>1. (m - t) * k >= 0 /\ (m - t) * k = m * k - t * k
      OBVIOUS
    <3> QED
      BY <2>1, <3>1
  <2>4. PICK a \in A : No(a) = m /\ a[3] = s
    <3>1. m \in 0..t-1 /\ s \in 0..k-1
      BY <2>1, <2>2, <2>3
    <3> QED
      BY <1>9, <3>1
  <2>5. Bl(a) = No(a) * k + a[3]
    BY <1>1
  <2> QED
    BY <2>1, <2>4, <2>5
<1> HIDE DEF A, Bl
<1>5. Cardinality(A) = n
  <2> DEFINE F == [a \in A |-> Bl(a)]
             B == 0..(n - 1)
  <2>1. F \in [A -> B]
    BY <1>2
  <2>2. \A a, b \in A : F[a] = F[b] => a = b
    BY <1>3
  <2>3. \A x \in B : \E a \in A : F[a] = x
    BY <1>4
  <2>4. IsFiniteSet(B) /\ Cardinality(B) = n
    <3> DEFINE b == n - 1
    <3>1. b \in Int /\ 0 \in Int
      OBVIOUS
    <3>2. (IF 0 > b THEN 0 ELSE b - 0 + 1) = n
      OBVIOUS
    <3> HIDE DEF b
    <3>3. IsFiniteSet(0..b) /\ Cardinality(0..b) = IF 0 > b THEN 0 ELSE b - 0 + 1
      BY <3>1, FS_Interval, ZenonT(60)
    <3> QED
      BY <3>2, <3>3 DEF b
  <2> HIDE DEF F, B
  <2>5. F \in Bijection(A, B)
    BY <2>1, <2>2, <2>3, Fun_IsBij
  <2>6. ExistsBijection(A, B)
    BY <2>5 DEF ExistsBijection
  <2>7. ExistsBijection(B, A)
    BY <2>6, Fun_ExistsBijSymmetric
  <2> QED
    BY <2>4, <2>7, FS_Bijection
<1>6. {x \in Addresses(d) : Accepted(d, x[1], x[2], x[3])} = A
  BY <1>1 DEF A
<1>7. {Bl(a) : a \in A} = 0..(n - 1)
  BY <1>2, <1>4
<1> QED
  BY <1>5, <1>6, <1>7 DEF A, Bl

\* The inductive invariant behind SameDisk: what fdc.c keeps of a drive is what it has derived
\* from the image that is in it, which it has recognised.
DiskInv ==
  /\ TypeOK
  /\ DrivesAgree
  /\ \A d \in Drives : image[d] # NoImage =>
       /\ image[d] \in Images /\ Recognised(image[d])
       /\ size[d] = image[d].size /\ size[d] > 0
       /\ shape[d] = ShapeOf(image[d]) /\ tracks[d] = TracksOf(image[d])

\* An image that is recognised is not empty.
LEMMA NotEmpty == ASSUME NEW h \in Images, Recognised(h) PROVE h.size \in Nat /\ h.size > 0
<1>1. h.size \in Nat
  BY ImageFields
<1>2. CASE h.vib
  BY <1>1, <1>2, ImageAssumption
<1>3. CASE ~h.vib
  BY <1>3 DEF Recognised, ValidVib, Guessed
<1> QED
  BY <1>1, <1>2, <1>3

\* No drive has an image at first.
LEMMA DiskInit == Init => DiskInv
  BY DEF Init, DiskInv, TypeOK, DrivesAgree, NoShape, Shapes, Byte

\* Whatever a drive had, it gets what is derived from the image, and the others keep theirs.
LEMMA DiskMount == ASSUME DiskInv, NEW d \in Drives, NEW h \in Images, Mount(d, h) PROVE DiskInv'
<1>1. /\ h.size \in Nat /\ h.size > 0 /\ TracksOf(h) \in Byte /\ ShapeOf(h) \in Shapes
      /\ Recognised(h)
  BY GeometryType, NotEmpty DEF Mount
<1>2. /\ size' = [size EXCEPT ![d] = h.size]
      /\ shape' = [shape EXCEPT ![d] = ShapeOf(h)]
      /\ tracks' = [tracks EXCEPT ![d] = TracksOf(h)]
      /\ imgShape' = ShapeOf(h) /\ mounted' = mounted \cup {d}
      /\ wp' = (IF h.readonly THEN wp \cup {d} ELSE wp \ {d})
      /\ image' = [image EXCEPT ![d] = h]
  BY DEF Mount
<1>3. loaded' = Strobe(Strobe(loaded, mounted, mounted \ {d}, imgShape),
                       mounted \ {d}, mounted \cup {d}, ShapeOf(h))
  BY DEF Mount, Cleared
<1>4. /\ loaded' \in [Drives -> [mounted : BOOLEAN, shape : Shapes]]
      /\ loaded'[d] = [mounted |-> TRUE, shape |-> ShapeOf(h)]
      /\ \A e \in Drives \ {d} : loaded'[e] = loaded[e]
  <2> DEFINE l == Strobe(loaded, mounted, mounted \ {d}, imgShape)
  <2>1. /\ l \in [Drives -> [mounted : BOOLEAN, shape : Shapes]]
        /\ \A e \in Drives \ {d} : l[e] = loaded[e]
    BY DEF DiskInv, TypeOK, Strobe
  <2> HIDE DEF l
  <2>2. loaded' = [e \in Drives |->
                     IF (e \in mounted \ {d}) # (e \in mounted \cup {d})
                     THEN [mounted |-> e \in mounted \cup {d}, shape |-> ShapeOf(h)] ELSE l[e]]
    BY <1>3 DEF Strobe, l
  <2>3. loaded'[d] = [mounted |-> TRUE, shape |-> ShapeOf(h)]
    BY <2>2
  <2>4. ASSUME NEW e \in Drives \ {d} PROVE loaded'[e] = loaded[e]
    BY <2>1, <2>2
  <2>5. [mounted |-> TRUE, shape |-> ShapeOf(h)] \in [mounted : BOOLEAN, shape : Shapes]
    BY <1>1
  <2>6. \A e \in Drives : loaded'[e] \in [mounted : BOOLEAN, shape : Shapes]
    BY <2>3, <2>4, <2>5 DEF DiskInv, TypeOK
  <2> HIDE DEF Shapes
  <2>7. loaded' \in [Drives -> [mounted : BOOLEAN, shape : Shapes]]
    BY <2>2, <2>6, Zenon
  <2> QED
    BY <2>3, <2>4, <2>7
<1>5. TypeOK'
  BY <1>1, <1>2, <1>4 DEF DiskInv, TypeOK
<1>6. DrivesAgree'
  BY <1>1, <1>2, <1>4 DEF DiskInv, TypeOK, DrivesAgree
<1> QED
  BY <1>1, <1>2, <1>5, <1>6 DEF DiskInv, TypeOK

\* A drive without an image is not mounted.
LEMMA DiskUnmount == ASSUME DiskInv, NEW d \in Drives, Unmount(d) PROVE DiskInv'
<1>1. /\ size' = [size EXCEPT ![d] = 0] /\ shape' = [shape EXCEPT ![d] = NoShape]
      /\ tracks' = [tracks EXCEPT ![d] = 0] /\ imgShape' = imgShape
      /\ mounted' = mounted \ {d} /\ wp' = wp \ {d}
      /\ image' = [image EXCEPT ![d] = NoImage]
      /\ loaded' = Strobe(loaded, mounted, mounted \ {d}, imgShape)
  BY DEF Unmount, Cleared
<1>2. /\ loaded' \in [Drives -> [mounted : BOOLEAN, shape : Shapes]]
      /\ ~loaded'[d].mounted
      /\ \A e \in Drives \ {d} : loaded'[e] = loaded[e]
  <2>1. loaded' = [e \in Drives |->
                     IF (e \in mounted) # (e \in mounted \ {d})
                     THEN [mounted |-> e \in mounted \ {d}, shape |-> imgShape] ELSE loaded[e]]
    BY <1>1 DEF Strobe
  <2>2. ASSUME NEW e \in Drives \ {d} PROVE loaded'[e] = loaded[e]
    BY <2>1
  <2>3. CASE d \in mounted
    <3>0. d \in mounted /\ d \notin mounted \ {d}
      BY <2>3
    <3>1. loaded'[d] = [mounted |-> d \in mounted \ {d}, shape |-> imgShape]
      BY <2>1, <3>0
    <3>2. loaded'[d] \in [mounted : BOOLEAN, shape : Shapes] /\ ~loaded'[d].mounted
      <4>1. loaded'[d].mounted = (d \in mounted \ {d})
        BY <3>1
      <4>2. ~loaded'[d].mounted
        BY <3>0, <4>1
      <4>3. imgShape \in Shapes /\ (d \in mounted \ {d}) \in BOOLEAN
        BY DEF DiskInv, TypeOK
      <4>4. loaded'[d] \in [mounted : BOOLEAN, shape : Shapes]
        BY <3>1, <4>3
      <4> QED
        BY <4>2, <4>4
    <3>3. \A e \in Drives : loaded'[e] \in [mounted : BOOLEAN, shape : Shapes]
      BY <2>2, <3>2 DEF DiskInv, TypeOK
    <3>4. loaded' \in [Drives -> [mounted : BOOLEAN, shape : Shapes]]
      BY <2>1, <3>3, Zenon
    <3> QED
      BY <2>2, <3>2, <3>4
  <2>4. CASE d \notin mounted
    <3>1. loaded'[d] = loaded[d] /\ ~loaded[d].mounted
      BY <2>1, <2>4 DEF DiskInv, DrivesAgree
    <3>2. \A e \in Drives : loaded'[e] \in [mounted : BOOLEAN, shape : Shapes]
      BY <2>2, <3>1 DEF DiskInv, TypeOK
    <3>3. loaded' \in [Drives -> [mounted : BOOLEAN, shape : Shapes]]
      BY <2>1, <3>2, Zenon
    <3> QED
      BY <2>2, <3>1, <3>3
  <2> QED
    BY <2>3, <2>4
<1>3. NoShape \in Shapes /\ 0 \in Byte
  BY DEF NoShape, Shapes, Byte
<1>4. TypeOK'
  BY <1>1, <1>2, <1>3 DEF DiskInv, TypeOK
<1>5. DrivesAgree'
  BY <1>1, <1>2 DEF DiskInv, TypeOK, DrivesAgree
<1> QED
  BY <1>1, <1>4, <1>5 DEF DiskInv, TypeOK

\* Mounting and unmounting in any order.
LEMMA DiskStep == DiskInv /\ [Next]_vars => DiskInv'
<1> SUFFICES ASSUME DiskInv, [Next]_vars PROVE DiskInv'
  OBVIOUS
<1>1. ASSUME NEW d \in Drives, NEW h \in Images, Mount(d, h) PROVE DiskInv'
  BY <1>1, DiskMount
<1>2. ASSUME NEW d \in Drives, Unmount(d) PROVE DiskInv'
  BY <1>2, DiskUnmount
<1>3. CASE UNCHANGED vars
  BY <1>3 DEF vars, DiskInv, TypeOK, DrivesAgree
<1> QED
  BY <1>1, <1>2, <1>3 DEF Next

\* What is kept of an image puts its sectors where they are.
LEMMA PlacesAgree == DiskInv => SameDisk
<1> SUFFICES ASSUME DiskInv PROVE OneToOne
  BY DEF SameDisk, DiskInv
<1> SUFFICES ASSUME NEW d \in Drives, image[d] # NoImage,
                    SectorCount(image[d]) < 256 * shape[d].sps,
                    shape[d].ds => tracks[d] % 2 = 0
             PROVE  /\ Cardinality(Addresses(d)) = SectorCount(image[d])
                    /\ {BlockNo(d, a[1], a[2], a[3]) :
                          a \in {x \in Addresses(d) : Accepted(d, x[1], x[2], x[3])}}
                         = 0..(SectorCount(image[d]) - 1)
  BY DEF OneToOne
<1>1. PICK h \in Images : h = image[d]
  BY DEF DiskInv
<1>2. Recognised(h) /\ size[d] # 0 /\ shape[d] = ShapeOf(h) /\ tracks[d] = TracksOf(h)
  BY <1>1 DEF DiskInv
<1>3. SectorCount(h) = TracksOf(h) * ShapeOf(h).sps /\ ShapeOf(h).sps > 0
  BY <1>1, <1>2, SectorsInTracks
<1>4. PICK t \in 0..255 : t = tracks[d]
  BY DEF DiskInv, TypeOK, Byte
<1>5. shape[d].ds \in BOOLEAN /\ shape[d].sps \in 0..31
  BY DEF DiskInv, TypeOK, Shapes
<1>6. PICK k \in Nat \ {0} : k = shape[d].sps
  BY <1>2, <1>3, <1>5
<1>7. PICK n \in Nat : n = SectorCount(image[d]) /\ t * k = n
  <2>1. t * k \in Nat
    OBVIOUS
  <2> QED
    BY <1>1, <1>2, <1>3, <1>4, <1>6, <2>1
<1>8. /\ Cardinality(Addresses(d)) = n
      /\ {BlockNo(d, a[1], a[2], a[3]) :
            a \in {x \in Addresses(d) : Accepted(d, x[1], x[2], x[3])}} = 0..(n - 1)
  <2>1. /\ tracks[d] = t /\ shape[d].sps = k /\ shape[d].ds \in BOOLEAN /\ size[d] # 0
        /\ shape[d].ds => t % 2 = 0
    BY <1>2, <1>4, <1>5, <1>6
  <2> QED
    BY <1>7, <2>1, PlacesMatch, ZenonT(60)
<1> QED
  BY <1>7, <1>8

\* For every set of image files and any mounts and unmounts, gateware and firmware have the
\* same idea of each drive's disk, and fdc_task maps the sectors a driver can reach one-to-one
\* onto those of the image (fdc.c:109-120).
THEOREM DisksAreTheSame == Spec => []SameDisk
<1> QED
  BY DiskInit, DiskStep, PlacesAgree, PTL DEF Spec

----------------------------------------------------------------------------
(* Tapes.                                                                   *)

TapeSpec == TapeInit /\ [][TapeNext]_tapeVars

Entries == Nat \X SUBSET Decks

RecordType ==
  /\ fifo \in Seq(Entries) /\ buf \in [Decks -> Seq(Nat)]
  /\ available \in [Decks -> Nat] /\ sent \in Nat
  /\ seen \subseteq Decks /\ stopped \subseteq seen
  /\ \A d \in seen : available[d] = 0

\* What is not the recorder's leaves it alone, but for a byte that is recorded.
LEMMA OtherSteps ==
  ASSUME TapeNext, ~Record, ~TakeByte, ~Task
  PROVE  UNCHANGED <<fifo, lost, recorder, sent>>
<1>1. ASSUME NEW d \in Decks, Turn(d)
      PROVE  UNCHANGED <<fifo, lost, recorder, sent>>
  BY <1>1 DEF Turn
<1>2. CASE Fetch
  BY <1>2 DEF Fetch
<1>3. CASE PlayOut
  BY <1>3 DEF PlayOut
<1>4. CASE ReadDone
  BY <1>4 DEF ReadDone
<1>5. ASSUME NEW f \in Files, Start(f)
      PROVE  UNCHANGED <<fifo, lost, recorder, sent>>
  BY <1>5 DEF Start
<1> QED
  BY <1>1, <1>2, <1>3, <1>4, <1>5 DEF TapeNext, TapeLoop

----------------------------------------------------------------------------
(* Recordings.                                                              *)

\* Nothing is recorded at first.
LEMMA RecordStart == TapeInit => RecordType
<1> SUFFICES ASSUME TapeInit
             PROVE  RecordType
  OBVIOUS
<1>1. /\ fifo = <<>> /\ sent = 0 /\ seen = {} /\ stopped = {}
      /\ buf = [d \in Decks |-> <<>>] /\ available = [d \in Decks |-> 0]
  BY DEF TapeInit
<1> QED
  BY <1>1 DEF RecordType

\* The byte that is taken, and what becomes of the recordings.
LEMMA TakenByte ==
  ASSUME RecordType, TakeByte
  PROVE  LET b == fifo[1][1]
             on == fifo[1][2]
         IN  /\ fifo # <<>> /\ b \in Nat /\ fifo' = Tail(fifo) /\ fifo' \in Seq(Entries)
             /\ seen' = seen \cup Started(on) /\ Started(on) \subseteq Decks
             /\ Started(on) \cap seen = {}
             /\ \A d \in Started(on) : buf'[d] = <<b>> /\ available'[d] = 0
             /\ \A d \in seen :
                  /\ available'[d] = available[d]
                  /\ buf'[d] = IF Len(buf[d]) < BufSize THEN Append(buf[d], b) ELSE buf[d]
             /\ \A d \in Decks \ (seen \cup Started(on)) :
                  buf'[d] = buf[d] /\ available'[d] = available[d]
             /\ buf' \in [Decks -> Seq(Nat)] /\ available' \in [Decks -> Nat]
<1> DEFINE b == fifo[1][1]
           on == fifo[1][2]
<1>1. fifo \in Seq(Entries) /\ fifo # <<>> /\ fifo' = Tail(fifo) /\ fifo[1] \in Entries
  BY DEF RecordType, TakeByte
<1>2. b \in Nat /\ on \subseteq Decks /\ fifo' \in Seq(Entries)
  BY <1>1 DEF Entries
<1>3. /\ buf' = [d \in Decks |-> Kept(d, b, on)]
      /\ available' = [d \in Decks |-> IF d \in Started(on) THEN 0 ELSE available[d]]
      /\ seen' = seen \cup Started(on)
  BY DEF TakeByte
<1>4. Started(on) \subseteq Decks /\ Started(on) \cap seen = {}
  BY <1>2 DEF Started
<1>5. ASSUME NEW d \in Started(on)
      PROVE  Kept(d, b, on) = <<b>>
  <2>1. 0 < BufSize /\ Len(<<>>) = 0 /\ Append(<<>>, b) = <<b>>
    BY TapeAssumption, <1>2
  <2> QED
    BY <1>5, <2>1 DEF Kept
<1>6. ASSUME NEW d \in seen
      PROVE  Kept(d, b, on) = IF Len(buf[d]) < BufSize THEN Append(buf[d], b) ELSE buf[d]
  BY <1>4, <1>6 DEF Kept
<1>7. ASSUME NEW d \in Decks \ (seen \cup Started(on))
      PROVE  Kept(d, b, on) = buf[d]
  BY <1>7 DEF Kept
<1>8. ASSUME NEW d \in Decks
      PROVE  Kept(d, b, on) \in Seq(Nat)
  <2>1. buf[d] \in Seq(Nat)
    BY DEF RecordType
  <2>2. CASE d \in Started(on)
    <3>1. <<b>> \in Seq(Nat)
      BY <1>2
    <3> QED
      BY <1>5, <2>2, <3>1
  <2>3. CASE d \in seen
    <3>1. Append(buf[d], b) \in Seq(Nat)
      BY <1>2, <2>1
    <3> QED
      BY <1>6, <2>1, <2>3, <3>1
  <2>4. CASE d \notin seen \cup Started(on)
    BY <1>7, <2>1, <2>4
  <2> QED
    BY <2>2, <2>3, <2>4
<1>9. buf' \in [Decks -> Seq(Nat)] /\ available' \in [Decks -> Nat]
  BY <1>3, <1>8 DEF RecordType
<1>10. seen \subseteq Decks
  BY DEF RecordType
<1> HIDE DEF b, on
<1>11. /\ \A d \in Started(on) : buf'[d] = <<b>> /\ available'[d] = 0
       /\ \A d \in seen :
            /\ available'[d] = available[d]
            /\ buf'[d] = IF Len(buf[d]) < BufSize THEN Append(buf[d], b) ELSE buf[d]
       /\ \A d \in Decks \ (seen \cup Started(on)) :
            buf'[d] = buf[d] /\ available'[d] = available[d]
  BY <1>3, <1>4, <1>5, <1>6, <1>7, <1>10
<1> QED
  BY <1>1, <1>2, <1>3, <1>4, <1>9, <1>11 DEF b, on

\* The motors end recordings, and a recording that is complete is left alone.
LEMMA TaskRecords ==
  ASSUME RecordType, Task
  PROVE  /\ RecordType' /\ UNCHANGED <<fifo, lost, sent, buf, told>> /\ seen' \subseteq seen
         /\ \A d \in Decks \ seen : available'[d] = available[d]
         /\ \A d \in seen : available[d] = 0
<1>1. UNCHANGED <<fifo, lost, sent, buf, told>>
  BY DEF Task, Motors
<1>2. PICK late \in BOOLEAN : Motors(late)
  BY DEF Task
<1> DEFINE all == stopped \cup (Off \cap seen)
<1>3. /\ available' = [d \in Decks |-> IF late /\ d \in all THEN Len(buf[d]) ELSE available[d]]
      /\ seen' = IF late THEN seen \ all ELSE seen
      /\ stopped' = IF late THEN {} ELSE all
  BY <1>2 DEF Motors
<1>4. all \subseteq seen
  BY DEF RecordType
<1> HIDE DEF all
<1>5. \A d \in Decks : Len(buf[d]) \in Nat
  BY DEF RecordType
<1>6. available' \in [Decks -> Nat]
  BY <1>3, <1>5 DEF RecordType
<1>7. \A d \in Decks \ seen : available'[d] = available[d]
  BY <1>3, <1>4
<1>8. \A d \in seen' : available'[d] = 0
  BY <1>3, <1>4 DEF RecordType
<1>9. seen' \subseteq seen /\ stopped' \subseteq seen'
  BY <1>3, <1>4
<1> QED
  BY <1>1, <1>6, <1>7, <1>8, <1>9 DEF RecordType

\* A byte that is recorded, or lost, goes no further at once.
LEMMA RecordedByte ==
  ASSUME RecordType, Record
  PROVE  /\ RecordType' /\ UNCHANGED recorder /\ sent' = sent + 1
         /\ \/ UNCHANGED lost /\ \E on \in SUBSET Decks : fifo' = Append(fifo, <<sent', on>>)
            \/ lost' = lost \cup {sent'} /\ UNCHANGED fifo
<1>1. UNCHANGED recorder /\ sent' = sent + 1 /\ sent' \in Nat
  BY DEF Record, RecordType
<1>2. \/ UNCHANGED lost /\ \E on \in SUBSET Decks : fifo' = Append(fifo, <<sent', on>>)
      \/ lost' = lost \cup {sent'} /\ UNCHANGED fifo
  <2>1. {d \in Decks : motor[d]} \in SUBSET Decks
    OBVIOUS
  <2> QED
    BY <2>1 DEF Record
<1>3. fifo' \in Seq(Entries)
  <2>1. \A on \in SUBSET Decks : <<sent', on>> \in Entries
    BY <1>1 DEF Entries
  <2>2. ASSUME NEW on \in SUBSET Decks, fifo' = Append(fifo, <<sent', on>>)
        PROVE  fifo' \in Seq(Entries)
    BY <2>1, <2>2 DEF RecordType
  <2>3. CASE UNCHANGED fifo
    BY <2>3 DEF RecordType
  <2> QED
    BY <1>2, <2>2, <2>3
<1> QED
  BY <1>1, <1>2, <1>3 DEF RecordType, recorder

\* Every step keeps the types of the recorder.
LEMMA RecordStep == RecordType /\ [TapeNext]_tapeVars => RecordType'
<1> SUFFICES ASSUME RecordType, [TapeNext]_tapeVars
             PROVE  RecordType'
  OBVIOUS
<1>1. CASE UNCHANGED <<fifo, recorder, sent>>
  BY <1>1 DEF recorder, RecordType
<1>2. CASE TakeByte
  <2>1. UNCHANGED <<stopped, sent>>
    BY <1>2 DEF TakeByte
  <2>2. seen' \subseteq Decks /\ stopped' \subseteq seen' /\ \A d \in seen' : available'[d] = 0
    BY <1>2, <2>1, TakenByte DEF RecordType
  <2> QED
    BY <1>2, <2>1, <2>2, TakenByte DEF RecordType
<1>3. CASE UNCHANGED tapeVars
  BY <1>1, <1>3 DEF tapeVars
<1> QED
  BY <1>1, <1>2, <1>3, TaskRecords, RecordedByte, OtherSteps

\* While a recording is complete its deck is not recording (tape.c:30-80), so it stays
\* until the next one begins.
THEOREM CompleteStays == TapeSpec => RecordingStays
<1>1. RecordType /\ [TapeNext]_tapeVars =>
        [\A d \in Decks : available[d] > 0 =>
           \/ available'[d] = available[d] /\ buf'[d] = buf[d]
           \/ available'[d] = 0 /\ Len(buf'[d]) = 1]_tapeVars
  <2> SUFFICES ASSUME RecordType, TapeNext, NEW d \in Decks, available[d] > 0
               PROVE  \/ available'[d] = available[d] /\ buf'[d] = buf[d]
                      \/ available'[d] = 0 /\ Len(buf'[d]) = 1
    OBVIOUS
  <2>1. d \notin seen
    BY DEF RecordType
  <2>2. CASE TakeByte
    <3>1. Len(<<fifo[1][1]>>) = 1
      OBVIOUS
    <3> QED
      BY <2>1, <2>2, <3>1, TakenByte
  <2>3. CASE Task
    BY <2>1, <2>3, TaskRecords
  <2>4. CASE UNCHANGED recorder
    BY <2>4 DEF recorder
  <2> QED
    BY <2>2, <2>3, <2>4, RecordedByte, OtherSteps
<1> QED
  BY <1>1, RecordStart, RecordStep, PTL DEF TapeSpec, RecordingStays
----------------------------------------------------------------------------
(* Gaps.                                                                    *)

\* The bytes that were reported lost, will be, or are waiting.
Accounted == told \cup lost \cup {fifo[i][1] : i \in DOMAIN fifo}

\* Bytes wait in order, and since each of them, and since the last byte of each
\* recording that goes on, all are accounted for.
GapInv ==
  /\ \A i, j \in DOMAIN fifo : i < j => fifo[i][1] < fifo[j][1]
  /\ \A i \in DOMAIN fifo : fifo[i][1] <= sent /\ (fifo[i][1] + 1)..sent \subseteq Accounted
  /\ \A d \in seen :
       Len(buf[d]) > 0 /\ Len(buf[d]) < BufSize =>
         (buf[d][Len(buf[d])] + 1)..sent \subseteq Accounted
  /\ NoSilentGap

\* A byte recorded goes on from the last, or is marked as lost.
LEMMA GapRecord ==
  ASSUME RecordType, GapInv, Record
  PROVE  GapInv'
<1>1. /\ UNCHANGED recorder /\ sent' = sent + 1 /\ sent \in Nat
      /\ fifo \in Seq(Entries) /\ buf \in [Decks -> Seq(Nat)] /\ seen \subseteq Decks
  BY RecordedByte DEF RecordType
<1>2. DOMAIN fifo = 1..Len(fifo) /\ Len(fifo) \in Nat /\ \A i \in DOMAIN fifo : fifo[i][1] \in Nat
  BY <1>1 DEF Entries
<1>3. UNCHANGED <<buf, seen, told>>
  BY <1>1 DEF recorder
<1>4. NoSilentGap'
  BY <1>3 DEF NoSilentGap, GapInv
<1> DEFINE Longer == \A i \in DOMAIN fifo' :
                       \/ i \in DOMAIN fifo /\ fifo'[i] = fifo[i]
                       \/ i = Len(fifo) + 1 /\ fifo'[i][1] = sent'
           More == Accounted \subseteq Accounted' /\ sent' \in Accounted'
<1>5. Longer /\ More => GapInv'
  <2> SUFFICES ASSUME Longer, More
               PROVE  GapInv'
    OBVIOUS
  <2>1. ASSUME NEW n \in Nat, (n + 1)..sent \subseteq Accounted
        PROVE  (n + 1)..sent' \subseteq Accounted'
    <3> SUFFICES ASSUME NEW m \in (n + 1)..sent'
                 PROVE  m \in Accounted'
      OBVIOUS
    <3>1. m \in (n + 1)..sent \/ m = sent'
      BY <1>1
    <3> QED
      BY <2>1, <3>1
  <2>2. \A i, j \in DOMAIN fifo' : i < j => fifo'[i][1] < fifo'[j][1]
    BY <1>1, <1>2 DEF GapInv
  <2>3. ASSUME NEW i \in DOMAIN fifo'
        PROVE  fifo'[i][1] <= sent' /\ (fifo'[i][1] + 1)..sent' \subseteq Accounted'
    <3>1. CASE i \in DOMAIN fifo /\ fifo'[i] = fifo[i]
      <4>1. /\ fifo[i][1] \in Nat /\ fifo[i][1] <= sent
            /\ (fifo[i][1] + 1)..sent \subseteq Accounted
        BY <1>2, <3>1 DEF GapInv
      <4>2. (fifo[i][1] + 1)..sent' \subseteq Accounted'
        BY <2>1, <4>1
      <4> QED
        BY <1>1, <3>1, <4>1, <4>2
    <3>2. CASE fifo'[i][1] = sent'
      BY <1>1, <3>2
    <3> QED
      BY <3>1, <3>2
  <2>4. ASSUME NEW d \in seen', Len(buf'[d]) > 0, Len(buf'[d]) < BufSize
        PROVE  (buf'[d][Len(buf'[d])] + 1)..sent' \subseteq Accounted'
    <3>1. d \in seen /\ buf'[d] = buf[d] /\ buf[d] \in Seq(Nat)
      BY <1>1, <1>3, <2>4
    <3>2. buf[d][Len(buf[d])] \in Nat
      BY <2>4, <3>1
    <3>3. (buf[d][Len(buf[d])] + 1)..sent \subseteq Accounted
      BY <2>4, <3>1 DEF GapInv
    <3> QED
      BY <2>1, <3>1, <3>2, <3>3
  <2> QED
    BY <1>4, <2>2, <2>3, <2>4 DEF GapInv
<1> HIDE DEF Longer, More
<1>6. CASE UNCHANGED fifo /\ lost' = lost \cup {sent'}
  <2>1. More
    BY <1>3, <1>6 DEF Accounted, More
  <2>2. Longer
    BY <1>6 DEF Longer
  <2> QED
    BY <1>5, <2>1, <2>2
<1>7. ASSUME UNCHANGED lost, NEW on \in SUBSET Decks, fifo' = Append(fifo, <<sent', on>>)
      PROVE  GapInv'
  <2>1. /\ DOMAIN fifo' = 1..Len(fifo) + 1 /\ fifo'[Len(fifo) + 1] = <<sent', on>>
        /\ \A i \in DOMAIN fifo : fifo'[i] = fifo[i]
    BY <1>1, <1>2, <1>7
  <2>2. More
    <3>1. Len(fifo) + 1 \in DOMAIN fifo' /\ fifo'[Len(fifo) + 1][1] = sent'
      BY <1>2, <2>1
    <3>2. \A i \in DOMAIN fifo : i \in DOMAIN fifo' /\ fifo'[i][1] = fifo[i][1]
      BY <1>2, <2>1
    <3> QED
      BY <1>3, <1>7, <3>1, <3>2 DEF Accounted, More
  <2>3. Longer
    BY <1>2, <2>1 DEF Longer
  <2> QED
    BY <1>5, <2>2, <2>3
<1> QED
  BY <1>6, <1>7, RecordedByte

\* What a recording is continued with comes after bytes that are told of by then.
LEMMA GapTake ==
  ASSUME RecordType, GapInv, TakeByte
  PROVE  GapInv'
<1> DEFINE b == fifo[1][1]
           on == fifo[1][2]
<1>1. /\ UNCHANGED sent /\ lost' = {} /\ told' = told \cup lost /\ fifo # <<>> /\ fifo' = Tail(fifo)
  BY DEF TakeByte
<1>2. /\ sent \in Nat /\ fifo \in Seq(Entries) /\ buf \in [Decks -> Seq(Nat)]
      /\ DOMAIN fifo = 1..Len(fifo) /\ Len(fifo) \in Nat /\ Len(fifo) > 0
      /\ \A i \in DOMAIN fifo : fifo[i][1] \in Nat
  BY <1>1 DEF RecordType, Entries
<1>3. /\ DOMAIN fifo' = 1..Len(fifo) - 1
      /\ \A i \in DOMAIN fifo' : i + 1 \in DOMAIN fifo /\ fifo'[i] = fifo[i + 1]
  BY <1>1, <1>2
<1>4. ASSUME NEW n \in Accounted, n # b
      PROVE  n \in Accounted'
  <2>1. CASE n \in told \cup lost
    BY <1>1, <2>1 DEF Accounted
  <2>2. ASSUME NEW i \in DOMAIN fifo, n = fifo[i][1]
        PROVE  n \in Accounted'
    <3>1. i # 1
      BY <1>4, <2>2
    <3>2. i - 1 \in DOMAIN fifo' /\ (i - 1) + 1 = i
      BY <1>2, <1>3, <3>1
    <3> QED
      BY <1>3, <2>2, <3>2 DEF Accounted
  <2> QED
    BY <1>4, <2>1, <2>2 DEF Accounted
<1>5. b \in Nat /\ b <= sent /\ (b + 1)..sent \subseteq Accounted'
  <2>1. 1 \in DOMAIN fifo
    BY <1>2
  <2>2. b \in Nat /\ b <= sent /\ (b + 1)..sent \subseteq Accounted
    BY <1>2, <2>1 DEF GapInv
  <2>3. \A n \in (b + 1)..sent : n # b
    BY <1>2, <2>2
  <2> QED
    BY <1>4, <2>2, <2>3
<1>6. \A i, j \in DOMAIN fifo' : i < j => fifo'[i][1] < fifo'[j][1]
  <2> SUFFICES ASSUME NEW i \in DOMAIN fifo', NEW j \in DOMAIN fifo', i < j
               PROVE  fifo'[i][1] < fifo'[j][1]
    OBVIOUS
  <2>1. i + 1 < j + 1 /\ i + 1 \in DOMAIN fifo /\ j + 1 \in DOMAIN fifo
    BY <1>2, <1>3
  <2> QED
    BY <1>3, <2>1 DEF GapInv
<1>7. ASSUME NEW i \in DOMAIN fifo'
      PROVE  fifo'[i][1] <= sent' /\ (fifo'[i][1] + 1)..sent' \subseteq Accounted'
  <2>1. i + 1 \in DOMAIN fifo /\ 1 \in DOMAIN fifo /\ 1 < i + 1 /\ fifo'[i] = fifo[i + 1]
    BY <1>2, <1>3
  <2>2. b < fifo[i + 1][1] /\ fifo[i + 1][1] <= sent
    BY <2>1 DEF GapInv
  <2>3. \A n \in (fifo[i + 1][1] + 1)..sent : n \in (b + 1)..sent
    BY <1>2, <1>5, <2>1, <2>2
  <2> QED
    BY <1>1, <1>5, <2>1, <2>2, <2>3
<1>8. ASSUME NEW n \in Nat, (n + 1)..sent \subseteq Accounted
      PROVE  (n + 1)..(b - 1) \subseteq told'
  <2> SUFFICES ASSUME NEW m \in (n + 1)..(b - 1)
               PROVE  m \in told'
    OBVIOUS
  <2>1. m \in Accounted /\ m < b
    BY <1>2, <1>5, <1>8
  <2>2. ASSUME NEW i \in DOMAIN fifo
        PROVE  m # fifo[i][1]
    <3>1. i = 1 \/ fifo[1][1] < fifo[i][1]
      BY <1>2 DEF GapInv
    <3>2. fifo[i][1] \in Nat
      BY <1>2
    <3> QED
      BY <1>5, <2>1, <3>1, <3>2
  <2> QED
    BY <1>1, <2>1, <2>2 DEF Accounted
<1>9. told \subseteq told'
  BY <1>1
<1> HIDE DEF b, on
<1>10. /\ seen' = seen \cup Started(on) /\ Started(on) \cap seen = {} /\ Started(on) \subseteq Decks
       /\ \A d \in Started(on) : buf'[d] = <<b>>
       /\ \A d \in seen : buf'[d] = IF Len(buf[d]) < BufSize THEN Append(buf[d], b) ELSE buf[d]
       /\ \A d \in Decks \ (seen \cup Started(on)) : buf'[d] = buf[d]
  BY TakenByte DEF b, on
<1>11. Len(<<b>>) = 1 /\ <<b>>[1] = b
  OBVIOUS
<1>12. seen \subseteq Decks
  BY DEF RecordType
<1>13. ASSUME NEW d \in seen, Len(buf[d]) < BufSize
       PROVE  /\ buf'[d] = Append(buf[d], b) /\ buf[d] \in Seq(Nat) /\ Len(buf[d]) \in Nat
              /\ Len(buf'[d]) = Len(buf[d]) + 1 /\ buf'[d][Len(buf[d]) + 1] = b
              /\ \A i \in 1..Len(buf[d]) : buf'[d][i] = buf[d][i]
  <2>1. buf'[d] = Append(buf[d], b) /\ buf[d] \in Seq(Nat)
    BY <1>2, <1>10, <1>12, <1>13
  <2> QED
    BY <1>5, <2>1
<1>14. ASSUME NEW d \in seen', Len(buf'[d]) > 0, Len(buf'[d]) < BufSize
       PROVE  (buf'[d][Len(buf'[d])] + 1)..sent' \subseteq Accounted'
  <2>1. buf'[d][Len(buf'[d])] = b
    <3>1. CASE d \in Started(on)
      BY <1>10, <1>11, <3>1
    <3>2. CASE d \in seen
      <4>1. Len(buf[d]) < BufSize
        BY <1>10, <1>14, <3>2
      <4> QED
        BY <1>13, <3>2, <4>1
    <3> QED
      BY <1>10, <1>14, <3>1, <3>2
  <2> QED
    BY <1>1, <1>5, <2>1
<1>15. ASSUME NEW d \in Decks, NEW i \in 1..Len(buf'[d])-1
       PROVE  (buf'[d][i] + 1)..(buf'[d][i + 1] - 1) \subseteq told'
  <2>1. CASE buf'[d] = buf[d]
    BY <1>9, <1>15, <2>1 DEF GapInv, NoSilentGap
  <2>2. CASE d \in Started(on)
    <3>1. Len(buf'[d]) = 1
      BY <1>10, <1>11, <2>2
    <3> QED
      BY <1>15, <3>1
  <2>3. CASE d \in seen /\ Len(buf[d]) < BufSize
    <3>1. CASE i = Len(buf[d])
      <4>1. Len(buf[d]) > 0 /\ buf[d][i] \in Nat
        BY <1>13, <1>15, <2>3, <3>1
      <4>2. (buf[d][i] + 1)..sent \subseteq Accounted
        BY <2>3, <3>1, <4>1 DEF GapInv
      <4>3. buf'[d][i] = buf[d][i] /\ buf'[d][i + 1] = b
        BY <1>13, <1>15, <2>3, <3>1
      <4> QED
        BY <1>8, <4>1, <4>2, <4>3
    <3>2. CASE i # Len(buf[d])
      <4>1. Len(buf[d]) \in Nat /\ Len(buf'[d]) = Len(buf[d]) + 1
        BY <1>13, <2>3
      <4>2. i \in 1..Len(buf[d]) /\ i \in 1..Len(buf[d])-1 /\ i + 1 \in 1..Len(buf[d])
        BY <1>15, <3>2, <4>1
      <4>3. buf'[d][i] = buf[d][i] /\ buf'[d][i + 1] = buf[d][i + 1]
        BY <1>13, <2>3, <4>2
      <4> QED
        BY <1>9, <4>2, <4>3 DEF GapInv, NoSilentGap
    <3> QED
      BY <3>1, <3>2
  <2> QED
    BY <1>10, <2>1, <2>2, <2>3
<1>16. NoSilentGap'
  BY <1>15 DEF NoSilentGap
<1> QED
  BY <1>6, <1>7, <1>14, <1>16 DEF GapInv

\* Every step keeps gaps told of.
LEMMA GapStep == RecordType /\ GapInv /\ [TapeNext]_tapeVars => GapInv'
<1> SUFFICES ASSUME RecordType, GapInv, [TapeNext]_tapeVars
             PROVE  GapInv'
  OBVIOUS
<1>1. ASSUME UNCHANGED <<fifo, lost, sent, buf, told>>, seen' \subseteq seen
      PROVE  GapInv'
  BY <1>1 DEF GapInv, Accounted, NoSilentGap
<1>2. CASE Task
  BY <1>1, <1>2, TaskRecords
<1>3. CASE UNCHANGED <<fifo, lost, recorder, sent>>
  BY <1>1, <1>3 DEF recorder
<1>4. CASE UNCHANGED tapeVars
  BY <1>3, <1>4 DEF tapeVars
<1> QED
  BY <1>2, <1>3, <1>4, GapRecord, GapTake, OtherSteps

\* While tape_task waits for the card, bytes are lost at the full FIFO
\* (spmmio_tape.v:200); the mark on the next byte that is read tells of every one.
THEOREM GapsAreTold == TapeSpec => []NoSilentGap
<1>1. TapeInit => GapInv
  BY DEF TapeInit, GapInv, NoSilentGap
<1>2. GapInv => NoSilentGap
  BY DEF GapInv
<1> QED
  BY <1>1, <1>2, RecordStart, RecordStep, GapStep, PTL DEF TapeSpec

----------------------------------------------------------------------------
(* What is played.                                                          *)

\* All that has been put in the sample memory since the start, total bytes, is the reel up to
\* there; the positions are those counts modulo Wrap, and what is ahead of the player fits.
Loaded(total) ==
  /\ played % Word = 0 /\ played <= total /\ total <= played + Mem
  /\ head = played % Wrap /\ tail = total % Wrap
  /\ \A i \in played..total-1 : mem[i % Mem] = OnReel(i)
  /\ tape.size # 0 => filepos = OnReel(total) /\ (reel.sort = "raw" => Lead <= total)
  /\ pc = "read" => tape.size # 0 /\ room + total <= played + Mem

\* The inductive invariant behind PlaysTheReel.
PlayInv ==
  /\ playing \in BOOLEAN /\ cue \in BOOLEAN /\ played \in Nat /\ filepos \in Nat /\ room \in Int
  /\ head \in Int /\ tail \in Int
  /\ mem \in [0..Mem-1 -> Int] /\ pc \in {"loop", "read"}
  /\ tape \in [sort : {"raw", "wav", "unknown"}, size : Nat, data : Nat]
  /\ reel \in [sort : {"raw", "wav", "unknown"}, size : Nat, data : Nat]
  /\ playing \/ cue => \E total \in Nat : Loaded(total)

\* What is assumed of the sizes, and follows at once.
LEMMA Sizes ==
  /\ Word \in Nat \ {0} /\ Sector \in Nat \ {0} /\ Mem \in Nat \ {0} /\ Wrap \in Nat \ {0}
  /\ Lead \in Nat /\ Lead <= Mem /\ Sector <= Mem /\ Mem < Wrap
  /\ Wrap % Mem = 0 /\ Wrap % Word = 0
<1>1. /\ Word \in Nat \ {0} /\ Sector \in Nat \ {0} /\ Mem \in Nat \ {0} /\ Wrap \in Nat \ {0}
      /\ Lead \in Nat /\ Lead <= Mem /\ Mem < Wrap
  BY TapeAssumption
<1>2. Sector % Word = 0 /\ Mem % Sector = 0 /\ Wrap % Mem = 0
  BY TapeAssumption
<1>3. Sector <= Mem
  <2> SUFFICES ASSUME Mem < Sector PROVE FALSE
    BY <1>1
  <2>1. Mem = 0 * Sector + Mem /\ Mem \in 0..Sector-1 /\ Mem \in Int
    BY <1>1
  <2>2. Mem \div Sector = 0 /\ Mem % Sector = Mem
    BY <1>1, <2>1, Remainder
  <2> QED
    BY <1>1, <1>2, <2>2
<1>4. Mem % Word = 0
  BY <1>1, <1>2, DividesThrough, Zenon
<1>5. Wrap % Word = 0
  BY <1>1, <1>2, <1>4, DividesThrough, Zenon
<1> QED
  BY <1>1, <1>2, <1>3, <1>5

\* A number below the divisor is its own remainder.
LEMMA Small == ASSUME NEW k \in Nat \ {0}, NEW x \in 0..k-1 PROVE x % k = x
<1>1. x = 0 * k + x /\ x \in Int
  OBVIOUS
<1>2. x \div k = 0 /\ x % k = x
  BY <1>1, Remainder
<1> QED
  BY <1>2

\* The word that is fetched is in memory, whole.
LEMMA WordLoaded ==
  ASSUME NEW total \in Nat, played \in Nat, Loaded(total), head \div Word # tail \div Word
  PROVE  played + Word <= total
<1>1. played % Word = 0 /\ played <= total /\ head = played % Wrap /\ tail = total % Wrap
  BY DEF Loaded
<1>2. (played % Wrap) \div Word # (total % Wrap) \div Word
  BY <1>1
<1> QED
  BY <1>1, <1>2, Sizes, WordBetween, Zenon

\* What is loaded is played.
LEMMA LoadedPlays == PlayInv => PlaysTheReel
<1> SUFFICES ASSUME PlayInv, playing, head \div Word # tail \div Word, NEW i \in 0..Word-1
             PROVE  mem[(head + i) % Mem] = OnReel(played + i)
  BY DEF PlaysTheReel
<1>1. PICK total \in Nat : Loaded(total)
  BY DEF PlayInv
<1>2. played \in Nat /\ played + Word <= total
  BY <1>1, WordLoaded DEF PlayInv
<1>3. played + i \in played..total-1
  BY <1>2, Sizes
<1>4. mem[(played + i) % Mem] = OnReel(played + i)
  BY <1>1, <1>3 DEF Loaded
<1>5. (head + i) % Mem = (played + i) % Mem
  <2>1. played \in Int /\ i \in Int
    BY <1>2, Sizes
  <2>2. ((played % Wrap) + i) % Mem = (played + i) % Mem
    BY <2>1, Sizes, Inside, ZenonT(60)
  <2>3. head = played % Wrap
    BY <1>1 DEF Loaded
  <2> QED
    BY <2>2, <2>3
<1> QED
  BY <1>4, <1>5

\* What does not move the positions keeps what is loaded, as long as a read fits.
LEMMA StaysLoaded ==
  ASSUME NEW total \in Nat, Loaded(total), UNCHANGED <<head, tail, mem, played, reel>>,
         tape'.size # 0 => tape.size # 0 /\ filepos' = filepos,
         pc' = "read" => tape'.size # 0 /\ room' + total <= played + Mem
  PROVE  Loaded(total)'
  BY DEF Loaded, OnReel

\* A step that leaves the player and its file alone.
LEMMA PlayerAlone ==
  ASSUME PlayInv, UNCHANGED <<cue, playing, head, tail, mem, played, reel, pc, room, tape, filepos>>
  PROVE  PlayInv'
<1>1. ASSUME NEW total \in Nat, Loaded(total) PROVE Loaded(total)'
  BY <1>1, StaysLoaded DEF Loaded
<1> QED
  BY <1>1 DEF PlayInv

\* A fetched word moves the player on by as much.
LEMMA FetchPlays == ASSUME PlayInv, Fetch PROVE PlayInv'
<1>1. /\ playing /\ head \div Word # tail \div Word
      /\ head' = (head + Word) % Wrap /\ played' = played + Word
      /\ UNCHANGED <<playing, tail, mem, reel, pc, room, cue, tape, filepos>>
  BY DEF Fetch
<1>2. PICK total \in Nat : Loaded(total)
  BY <1>1 DEF PlayInv
<1>3. played \in Nat /\ played + Word <= total /\ room \in Int
  BY <1>1, <1>2, WordLoaded DEF PlayInv
<1>4. played' % Word = 0
  <2>1. (played + 1 * Word) % Word = played % Word
    <3>1. played \in Int /\ 1 \in Int
      BY <1>3
    <3> QED
      BY <3>1, Sizes, Turns, ZenonT(60)
  <2>2. played + 1 * Word = played'
    BY <1>1, <1>3, Sizes
  <2> QED
    BY <1>2, <2>1, <2>2 DEF Loaded
<1>5. head' = played' % Wrap
  <2>1. ((played % Wrap) + Word) % Wrap = (played + Word) % Wrap
    <3>1. played \in Int /\ Word \in Int /\ Wrap \in Nat \ {0}
      BY <1>3, Sizes
    <3> QED
      BY <3>1, InsideSame, ZenonT(60)
  <2> QED
    BY <1>1, <1>2, <2>1 DEF Loaded
<1>6. Loaded(total)'
  <2>1. \A i \in played'..total-1 : mem'[i % Mem] = OnReel(i)'
    <3> SUFFICES ASSUME NEW i \in played'..total-1 PROVE mem'[i % Mem] = OnReel(i)'
      OBVIOUS
    <3>1. i \in played..total-1
      BY <1>1, <1>3, Sizes
    <3>2. mem[i % Mem] = OnReel(i)
      BY <1>2, <3>1 DEF Loaded
    <3> QED
      BY <1>1, <3>2 DEF OnReel
  <2>2. played' <= total /\ total <= played' + Mem
    BY <1>1, <1>2, <1>3, Sizes DEF Loaded
  <2>3. tape'.size # 0 => filepos' = OnReel(total)' /\ (reel'.sort = "raw" => Lead <= total)
    BY <1>1, <1>2 DEF Loaded, OnReel
  <2>4. pc' = "read" => tape'.size # 0 /\ room' + total <= played' + Mem
    BY <1>1, <1>2, <1>3, Sizes DEF Loaded
  <2> QED
    BY <1>1, <1>2, <1>4, <1>5, <2>1, <2>2, <2>3, <2>4 DEF Loaded
<1> QED
  BY <1>1, <1>3, <1>5, <1>6, Sizes DEF PlayInv

\* The bytes of the room that is found fit behind those that are ahead of the player.
LEMMA RoomFits ==
  ASSUME NEW total \in Nat, played \in Nat, Loaded(total)
  PROVE  Room \in Nat /\ Room + total <= played + Mem
<1> DEFINE x == Mem + head - tail
           y == Mem + played - total
<1>1. y \in 0..Mem
  BY Sizes DEF Loaded
<1>2. x % Wrap = y
  <2>1. PICK a \in Int, h \in 0..Wrap-1 :
          played \div Wrap = a /\ played % Wrap = h /\ played = a * Wrap + h
    BY Sizes, Division
  <2>2. PICK b \in Int, t \in 0..Wrap-1 :
          total \div Wrap = b /\ total % Wrap = t /\ total = b * Wrap + t
    BY Sizes, Division
  <2>3. head = h /\ tail = t
    BY <2>1, <2>2 DEF Loaded
  <2>4. a * Wrap - b * Wrap = (a - b) * Wrap /\ a * Wrap \in Int /\ b * Wrap \in Int
    BY Sizes
  <2>5. x = (b - a) * Wrap + y
    BY <2>1, <2>2, <2>3, <2>4, Sizes
  <2>6. x \in Int /\ b - a \in Int /\ y \in 0..Wrap-1
    BY <1>1, <2>3, Sizes
  <2> HIDE DEF x, y
  <2>7. x \div Wrap = b - a /\ x % Wrap = y
    BY <2>5, <2>6, Sizes, Remainder, ZenonT(60)
  <2> QED
    BY <2>7
<1>3. PICK q \in Int, r \in 0..Sector-1 : y \div Sector = q /\ y % Sector = r /\ y = q * Sector + r
  <2>1. y \in Int /\ Sector \in Nat \ {0}
    BY <1>1, Sizes
  <2> HIDE DEF y
  <2> QED
    BY <2>1, Division, ZenonT(60)
<1>4. Room = q * Sector
  BY <1>2, <1>3 DEF Room
<1>5. q >= 0
  <2> SUFFICES ASSUME q <= -1 PROVE FALSE
    OBVIOUS
  <2>1. (-1 - q) * Sector >= 0 /\ (-1 - q) * Sector = -Sector - q * Sector /\ q * Sector \in Int
    BY Sizes
  <2> HIDE DEF y
  <2> QED
    BY <1>1, <1>3, <2>1, Sizes
<1>6. q * Sector \in Nat /\ q * Sector <= y
  <2>1. q * Sector \in Nat
    BY <1>5, Sizes
  <2> HIDE DEF y
  <2> QED
    BY <1>1, <1>3, <2>1, Sizes
<1> QED
  BY <1>4, <1>6, Sizes

\* The room is a number whatever the positions are.
LEMMA RoomType == ASSUME head \in Int, tail \in Int PROVE Room \in Int
<1>1. (Mem + head - tail) % Wrap \in Int
  BY Sizes
<1> DEFINE y == (Mem + head - tail) % Wrap
<1> HIDE DEF y
<1>2. y \div Sector \in Int
  BY <1>1, Sizes DEF y
<1> QED
  BY <1>2, Sizes DEF Room, y

\* The task stops or starts the player, or finds room that fits.
LEMMA TaskPlays == ASSUME PlayInv, Task PROVE PlayInv'
<1>1. UNCHANGED <<head, tail, mem, played, reel, tape, filepos>> /\ Refill /\ pc = "loop"
  BY DEF Task
<1>2. /\ playing' \in BOOLEAN /\ cue' \in BOOLEAN
      /\ playing' \/ cue' => playing \/ cue
      /\ \/ UNCHANGED <<pc, room>>
         \/ tape.size # 0 /\ pc' = "read" /\ room' = Room
  <2>1. playing \in BOOLEAN /\ cue \in BOOLEAN
    BY DEF PlayInv
  <2>2. CASE Switch(playing /\ head # tail) /\ UNCHANGED <<pc, room>>
    <3>1. playing' = ((playing /\ head # tail) \/ cue) /\ cue' = FALSE
      BY <2>2, Zenon DEF Switch
    <3> QED
      BY <2>1, <2>2, <3>1, Zenon
  <2>3. CASE Switch(playing) /\ UNCHANGED <<pc, room>>
    <3>1. playing' = (playing \/ cue) /\ cue' = FALSE
      BY <2>3, Zenon DEF Switch
    <3> QED
      BY <2>1, <2>3, <3>1, Zenon
  <2>4. CASE /\ tape.size # 0 /\ Room > 0
             /\ pc' = "read" /\ room' = Room /\ UNCHANGED <<playing, held, cue>>
    BY <2>1, <2>4, Zenon
  <2> QED
    BY <1>1, <2>2, <2>3, <2>4, Zenon DEF Refill
<1>3. CASE playing \/ cue
  <2>1. PICK total \in Nat : Loaded(total)
    BY <1>3 DEF PlayInv
  <2>2. Room \in Nat /\ Room + total <= played + Mem
    BY <2>1, RoomFits DEF PlayInv
  <2>3. Loaded(total)'
    BY <1>1, <1>2, <2>1, <2>2, StaysLoaded
  <2> QED
    BY <1>1, <1>2, <2>2, <2>3 DEF PlayInv
<1> QED
  BY <1>1, <1>2, <1>3, RoomType DEF PlayInv

\* What is read lands behind what is ahead of the player, and only there.
LEMMA FilledRight ==
  ASSUME NEW total \in Nat, played \in Nat, Loaded(total), filepos \in Nat, tape.size # 0,
         reel.data \in Nat,
         NEW n \in Nat, n + total <= played + Mem, NEW i \in played..total+n-1
  PROVE  Filled(mem, tail, n)[i % Mem] = OnReel(i)
<1>1. /\ tail = total % Wrap /\ played <= total /\ total <= played + Mem
      /\ filepos = OnReel(total) /\ (reel.sort = "raw" => Lead <= total)
  BY DEF Loaded
<1>2. i % Mem \in 0..Mem-1
  BY Sizes
<1>3. ((i % Mem) - tail) % Mem = (i - total) % Mem
  <2>1. /\ i \in Int /\ total \in Int /\ -tail \in Int /\ -total \in Int /\ i - total \in Int
        /\ tail \in Int
    BY <1>1, Sizes
  <2>2. ((i % Mem) + (-tail)) % Mem = (i + (-tail)) % Mem
    <3> DEFINE u == -tail
    <3>1. u \in Int /\ i \in Int /\ Mem \in Nat \ {0}
      BY <2>1, Sizes
    <3> HIDE DEF u
    <3>2. ((i % Mem) + u) % Mem = (i + u) % Mem
      BY <3>1, InsideSame
    <3> QED
      BY <3>2 DEF u
  <2>3. \E c \in Int : tail = total + c * Mem
    <3>1. PICK a \in Int, t \in 0..Wrap-1 :
            total \div Wrap = a /\ total % Wrap = t /\ total = a * Wrap + t
      <4>1. total \in Int /\ Wrap \in Nat \ {0}
        BY Sizes
      <4> QED
        BY <4>1, Division, ZenonT(60)
    <3>2. PICK b \in Int, z \in 0..Mem-1 : Wrap \div Mem = b /\ Wrap % Mem = z /\ Wrap = b * Mem + z
      <4>1. Wrap \in Int
        BY Sizes
      <4> QED
        BY <4>1, Sizes, Division, ZenonT(60)
    <3>3. Wrap = b * Mem
      BY <3>2, Sizes
    <3>4. a * Wrap = (a * b) * Mem /\ a * b \in Int
      BY <3>3, Sizes, Grouped
    <3>5. tail = total + (-(a * b)) * Mem
      BY <1>1, <3>1, <3>4, Sizes
    <3> QED
      BY <3>4, <3>5
  <2>4. PICK c \in Int : tail = total + c * Mem
    BY <2>3
  <2>5. ((i - total) + (-c) * Mem) % Mem = (i - total) % Mem
    <3>1. -c \in Int
      BY <2>4
    <3> QED
      BY <2>1, <3>1, Sizes, Turns, ZenonT(60)
  <2>6. (i - total) + (-c) * Mem = i + (-tail) /\ (i % Mem) - tail = (i % Mem) + (-tail)
    BY <1>2, <2>1, <2>4, Sizes
  <2> QED
    BY <2>2, <2>5, <2>6
<1>4. CASE i >= total
  <2>1. i - total \in 0..n-1 /\ i - total \in 0..Mem-1
    BY <1>1, <1>4, Sizes
  <2>2. (i - total) % Mem = i - total
    BY <2>1, Sizes, Small, ZenonT(60)
  <2>3. Filled(mem, tail, n)[i % Mem] = filepos + (i - total)
    BY <1>2, <1>3, <2>1, <2>2 DEF Filled
  <2> QED
    BY <1>1, <2>1, <2>3, Sizes DEF OnReel
<1>5. CASE i < total
  <2>1. i - total + Mem \in n..Mem-1 /\ i \in played..total-1
    BY <1>1, <1>5, Sizes
  <2>2. (i - total) % Mem = i - total + Mem
    <3>1. i - total = (-1) * Mem + (i - total + Mem) /\ i - total + Mem \in 0..Mem-1
      BY <2>1, Sizes
    <3>2. i - total \in Int /\ -1 \in Int
      OBVIOUS
    <3> DEFINE r == i - total + Mem
               x == i - total
    <3> HIDE DEF r, x
    <3>3. x = (-1) * Mem + r /\ r \in 0..Mem-1 /\ x \in Int
      BY <3>1, <3>2 DEF r, x
    <3>4. x \div Mem = -1 /\ x % Mem = r
      BY <3>2, <3>3, Sizes, Remainder, ZenonT(60)
    <3> QED
      BY <3>4 DEF r, x
  <2>3. Filled(mem, tail, n)[i % Mem] = mem[i % Mem]
    BY <1>2, <1>3, <2>1, <2>2 DEF Filled
  <2> QED
    BY <2>1, <2>3 DEF Loaded
<1> QED
  BY <1>1, <1>4, <1>5

\* A read adds to what is loaded, or the file ends.
LEMMA ReadPlays == ASSUME PlayInv, ReadDone PROVE PlayInv'
<1> DEFINE n == Least(room, tape.size - filepos)
<1>1. /\ pc = "read" /\ pc' = "loop" /\ room' = 0 /\ UNCHANGED <<head, played, reel>>
      /\ \/ /\ n > 0
            /\ mem' = Filled(mem, tail, n)
            /\ tail' = (tail + n) % Wrap
            /\ filepos' = filepos + n
            /\ UNCHANGED tape
         \/ tape' = [tape EXCEPT !.size = 0] /\ UNCHANGED <<mem, tail, filepos>>
      /\ Switch(playing)
  BY DEF ReadDone
<1>2. /\ playing \in BOOLEAN /\ cue \in BOOLEAN /\ played \in Nat /\ filepos \in Nat
      /\ room \in Int /\ head \in Int /\ tail \in Int /\ mem \in [0..Mem-1 -> Int]
      /\ tape \in [sort : {"raw", "wav", "unknown"}, size : Nat, data : Nat]
      /\ reel \in [sort : {"raw", "wav", "unknown"}, size : Nat, data : Nat]
  BY DEF PlayInv
<1>3. n \in Int /\ n <= room
  BY <1>2 DEF Least
<1>4. playing' \in BOOLEAN /\ cue' \in BOOLEAN /\ (playing' \/ cue' => playing \/ cue)
  <2>1. playing' = (playing \/ cue) /\ cue' = FALSE
    BY <1>1, Zenon DEF Switch
  <2> QED
    BY <1>2, <2>1, Zenon
<1>5. /\ filepos' \in Nat /\ tail' \in Int /\ mem' \in [0..Mem-1 -> Int]
      /\ tape' \in [sort : {"raw", "wav", "unknown"}, size : Nat, data : Nat]
  <2>1. CASE /\ n > 0 /\ mem' = Filled(mem, tail, n) /\ tail' = (tail + n) % Wrap
             /\ filepos' = filepos + n /\ UNCHANGED tape
    <3> HIDE DEF n
    <3>1. (tail + n) % Wrap \in Int
      BY <1>2, <1>3, Sizes
    <3>2. Filled(mem, tail, n) \in [0..Mem-1 -> Int]
      <4>1. \A i \in 0..Mem-1 : (i - tail) % Mem \in Int
        BY <1>2, Sizes
      <4> QED
        BY <1>2, <4>1 DEF Filled
    <3> QED
      BY <1>2, <1>3, <2>1, <3>1, <3>2
  <2>2. CASE tape' = [tape EXCEPT !.size = 0] /\ UNCHANGED <<mem, tail, filepos>>
    BY <1>2, <2>2
  <2> QED
    BY <1>1, <2>1, <2>2
<1>6. ASSUME playing \/ cue
      PROVE  \E total \in Nat : Loaded(total)'
  <2>1. PICK total \in Nat : Loaded(total)
    BY <1>6 DEF PlayInv
  <2>2. CASE /\ n > 0 /\ mem' = Filled(mem, tail, n) /\ tail' = (tail + n) % Wrap
             /\ filepos' = filepos + n /\ UNCHANGED tape
    <3>0. PICK k \in Int : k = n
      BY <1>3
    <3> HIDE DEF n
    <3>1. tape.size # 0 /\ k + total <= played + Mem /\ k \in Nat /\ reel.data \in Nat
      <4>1. tape.size # 0 /\ room + total <= played + Mem
        BY <1>1, <2>1 DEF Loaded
      <4>2. k \in Nat /\ reel.data \in Nat
        BY <1>2, <1>3, <2>2, <3>0
      <4> QED
        BY <1>2, <1>3, <3>0, <4>1, <4>2, Sizes
    <3>2. \A i \in played..total+k-1 : mem'[i % Mem] = OnReel(i)
      BY <1>2, <2>1, <2>2, <3>0, <3>1, FilledRight
    <3>3. tail' = (total + k) % Wrap
      <4>1. total \in Int /\ k \in Int
        BY <3>1
      <4>2. ((total % Wrap) + k) % Wrap = (total + k) % Wrap
        BY <4>1, Sizes, InsideSame, ZenonT(60)
      <4> QED
        BY <2>1, <2>2, <3>0, <4>2 DEF Loaded
    <3>4. filepos' = OnReel(total + k) /\ (reel.sort = "raw" => Lead <= total + k)
      <4>1. filepos = OnReel(total) /\ (reel.sort = "raw" => Lead <= total)
        BY <2>1, <3>1 DEF Loaded
      <4> QED
        BY <1>2, <2>2, <3>0, <3>1, <4>1, Sizes DEF OnReel
    <3>5. played % Word = 0 /\ played <= total + k /\ head = played % Wrap
      <4>1. played % Word = 0 /\ played <= total /\ head = played % Wrap
        BY <2>1 DEF Loaded
      <4> QED
        BY <1>2, <3>1, <4>1
    <3>6. total + k \in Nat /\ total + k <= played + Mem /\ pc' # "read"
      BY <1>1, <3>1
    <3> DEFINE sum == total + k
    <3> HIDE DEF sum
    <3>7. Loaded(sum)'
      <4>1. \A i \in played'..sum-1 : mem'[i % Mem] = OnReel(i)'
        BY <1>1, <3>2 DEF OnReel, sum
      <4>2. filepos' = OnReel(sum)' /\ (reel'.sort = "raw" => Lead <= sum)
        BY <1>1, <3>4 DEF OnReel, sum
      <4>3. /\ played' % Word = 0 /\ played' <= sum /\ sum <= played' + Mem
            /\ head' = played' % Wrap /\ tail' = sum % Wrap
        BY <1>1, <3>3, <3>5, <3>6 DEF sum
      <4> QED
        BY <3>6, <4>1, <4>2, <4>3, Zenon DEF Loaded
    <3> QED
      BY <3>6, <3>7 DEF sum
  <2>3. CASE tape' = [tape EXCEPT !.size = 0] /\ UNCHANGED <<mem, tail, filepos>>
    <3>1. tape'.size = 0
      BY <1>2, <2>3
    <3>2. Loaded(total)'
      BY <1>1, <2>1, <2>3, <3>1, StaysLoaded
    <3> QED
      BY <3>2
  <2> QED
    BY <1>1, <2>2, <2>3
<1>7. playing' \/ cue' => \E total \in Nat : Loaded(total)'
  BY <1>4, <1>6
<1>8. /\ playing' \in BOOLEAN /\ cue' \in BOOLEAN /\ played' \in Nat /\ filepos' \in Nat
      /\ room' \in Int /\ head' \in Int /\ tail' \in Int /\ pc' \in {"loop", "read"}
      /\ mem' \in [0..Mem-1 -> Int]
      /\ tape' \in [sort : {"raw", "wav", "unknown"}, size : Nat, data : Nat]
      /\ reel' \in [sort : {"raw", "wav", "unknown"}, size : Nat, data : Nat]
  BY <1>1, <1>2, <1>4, <1>5
<1> QED
  BY <1>7, <1>8, Zenon DEF PlayInv

\* A tape that is opened begins with what tape_start has put in the sample memory.
LEMMA BeginsLoaded ==
  ASSUME NEW n \in 0..Mem, played' = 0, head' = 0, tail' = n, pc' = "loop",
         \A i \in 0..n-1 : mem'[i] = OnReel(i)',
         filepos' = OnReel(n)' /\ (reel'.sort = "raw" => Lead <= n)
  PROVE  Loaded(n)'
<1>1. 0 % Word = 0 /\ 0 % Wrap = 0
  BY Sizes
<1>2. n % Wrap = n
  <2>1. n \in 0..Wrap-1
    BY Sizes
  <2> QED
    BY <2>1, Sizes, Small, ZenonT(60)
<1>3. \A i \in 0..n-1 : i % Mem = i
  <2> SUFFICES ASSUME NEW i \in 0..n-1 PROVE i % Mem = i
    OBVIOUS
  <2>1. i \in 0..Mem-1
    BY Sizes
  <2> QED
    BY <2>1, Sizes, Small, ZenonT(60)
<1>4. \A i \in played'..n-1 : mem'[i % Mem] = OnReel(i)'
  BY <1>3
<1>5. played' <= n /\ n <= played' + Mem
  BY Sizes
<1>6. played' % Word = 0 /\ head' = played' % Wrap /\ tail' = n % Wrap
  BY <1>1, <1>2
<1>7. pc' # "read"
  OBVIOUS
<1> QED
  BY <1>4, <1>5, <1>6, <1>7, Zenon DEF Loaded

\* A tape that is opened begins with its lead-in or its first samples, or stays off.
LEMMA StartPlays == ASSUME PlayInv, NEW f \in Files, Start(f) PROVE PlayInv'
<1>1. /\ pc = "loop" /\ ~cue /\ tape' = f /\ pc' = "loop" /\ room' = room
      /\ \/ f.size = 0 /\ filepos' = 0 /\ UNCHANGED <<player, cue>>
         \/ /\ f.size # 0 /\ Rewound /\ tail' = 0 /\ filepos' \in 0..f.size
            /\ UNCHANGED <<mem, reel, cue>>
         \/ /\ f.size # 0 /\ f.sort = "raw" /\ Rewound /\ cue' = TRUE
            /\ mem' = LeadIn /\ tail' = Lead /\ filepos' = 0 /\ reel' = f
         \/ /\ f.size # 0 /\ f.sort = "wav" /\ Rewound /\ cue' = TRUE
            /\ mem' = [i \in 0..Mem-1 |-> IF i < Odd(f) THEN f.data + i ELSE mem[i]]
            /\ tail' = Odd(f) /\ filepos' = f.data + Odd(f) /\ reel' = f
  BY DEF Start
<1>2. /\ f \in [sort : {"raw", "wav", "unknown"}, size : Nat, data : Nat]
      /\ f.data <= f.size
  BY TapeAssumption
<1>3. /\ playing \in BOOLEAN /\ cue \in BOOLEAN /\ played \in Nat /\ room \in Int
      /\ head \in Int /\ tail \in Int /\ mem \in [0..Mem-1 -> Int]
      /\ reel \in [sort : {"raw", "wav", "unknown"}, size : Nat, data : Nat]
  BY DEF PlayInv
<1>4. CASE f.size = 0 /\ filepos' = 0 /\ UNCHANGED <<player, cue>>
  <2>1. UNCHANGED <<playing, cue, head, tail, mem, played, reel>>
    BY <1>4 DEF player
  <2>2. ASSUME NEW total \in Nat, Loaded(total) PROVE Loaded(total)'
    BY <1>1, <1>4, <2>1, <2>2, StaysLoaded
  <2>3. playing' \/ cue' => \E total \in Nat : Loaded(total)'
    BY <2>1, <2>2 DEF PlayInv
  <2> QED
    BY <1>1, <1>2, <1>3, <1>4, <2>1, <2>3 DEF PlayInv
<1>5. CASE /\ f.size # 0 /\ Rewound /\ tail' = 0 /\ filepos' \in 0..f.size
           /\ UNCHANGED <<mem, reel, cue>>
  <2>1. playing' = FALSE /\ cue' = FALSE /\ head' = 0 /\ played' = 0
    BY <1>1, <1>3, <1>5, Zenon DEF Rewound
  <2>2. playing' \in BOOLEAN /\ cue' \in BOOLEAN /\ ~(playing' \/ cue')
    BY <2>1, Zenon
  <2>3. filepos' \in Nat
    BY <1>2, <1>5
  <2> QED
    BY <1>1, <1>2, <1>3, <1>5, <2>1, <2>2, <2>3 DEF PlayInv
<1>6. CASE /\ f.size # 0 /\ f.sort = "raw" /\ Rewound /\ cue' = TRUE
           /\ mem' = LeadIn /\ tail' = Lead /\ filepos' = 0 /\ reel' = f
  <2>1. playing' = FALSE /\ head' = 0 /\ played' = 0
    BY <1>6, Zenon DEF Rewound
  <2>2. mem' \in [0..Mem-1 -> Int]
    BY <1>3, <1>6 DEF LeadIn, Zero
  <2>3. \A i \in 0..Lead-1 : mem'[i] = OnReel(i)'
    BY <1>6, Sizes DEF LeadIn, OnReel
  <2>4. filepos' = OnReel(Lead)'
    BY <1>6, Sizes DEF OnReel
  <2>5. Lead \in 0..Mem
    BY Sizes
  <2>6. Loaded(Lead)'
    BY <1>1, <1>6, <2>1, <2>3, <2>4, <2>5, BeginsLoaded, Sizes
  <2>7. \E total \in Nat : Loaded(total)'
    BY <2>6, Sizes
  <2>8. playing' \in BOOLEAN /\ cue' \in BOOLEAN
    BY <1>6, <2>1, Zenon
  <2> QED
    BY <1>1, <1>2, <1>3, <1>6, <2>1, <2>2, <2>7, <2>8, Sizes DEF PlayInv
<1>7. CASE /\ f.size # 0 /\ f.sort = "wav" /\ Rewound /\ cue' = TRUE
           /\ mem' = [i \in 0..Mem-1 |-> IF i < Odd(f) THEN f.data + i ELSE mem[i]]
           /\ tail' = Odd(f) /\ filepos' = f.data + Odd(f) /\ reel' = f
  <2>1. playing' = FALSE /\ head' = 0 /\ played' = 0
    BY <1>7, Zenon DEF Rewound
  <2>2. Odd(f) \in 0..Mem
    <3>1. (-f.data) % Sector \in 0..Sector-1
      BY <1>2, Sizes
    <3>2. f.size - f.data \in Nat
      BY <1>2
    <3> DEFINE a == (-f.data) % Sector
               b == f.size - f.data
    <3> HIDE DEF a, b
    <3>3. Least(a, b) \in 0..Mem
      BY <3>1, <3>2, Sizes DEF Least, a, b
    <3> QED
      BY <3>3 DEF Odd, a, b
  <2> PICK n \in 0..Mem : n = Odd(f)
    BY <2>2
  <2>3. n = Odd(f)
    OBVIOUS
  <2>4. mem' \in [0..Mem-1 -> Int]
    BY <1>2, <1>3, <1>7
  <2>5. \A i \in 0..n-1 : mem'[i] = OnReel(i)'
    <3> SUFFICES ASSUME NEW i \in 0..n-1 PROVE mem'[i] = OnReel(i)'
      OBVIOUS
    <3>1. i \in 0..Mem-1 /\ i < Odd(f)
      BY <2>3, Sizes
    <3>2. mem'[i] = f.data + i
      BY <1>7, <3>1
    <3> QED
      BY <1>7, <3>2 DEF OnReel
  <2>6. filepos' = OnReel(n)' /\ tail' = n /\ reel'.sort # "raw" /\ filepos' \in Nat
    BY <1>2, <1>7, <2>3, Sizes DEF OnReel
  <2>7. Loaded(n)'
    BY <1>1, <2>1, <2>5, <2>6, BeginsLoaded
  <2>8. \E total \in Nat : Loaded(total)'
    BY <2>7, Sizes
  <2>9. playing' \in BOOLEAN /\ cue' \in BOOLEAN
    BY <1>7, <2>1, Zenon
  <2> QED
    BY <1>1, <1>2, <1>3, <1>7, <2>1, <2>4, <2>6, <2>8, <2>9, Sizes DEF PlayInv
<1> QED
  BY <1>1, <1>4, <1>5, <1>6, <1>7

\* At first nothing plays.
LEMMA PlayStart == TapeInit => PlayInv
<1> SUFFICES ASSUME TapeInit PROVE PlayInv
  OBVIOUS
<1>1. /\ playing = FALSE /\ cue = FALSE /\ played = 0 /\ filepos = 0 /\ room = 0
      /\ head = 0 /\ tail = 0 /\ mem = [i \in 0..Mem-1 |-> None] /\ pc = "loop"
      /\ tape = NoFile /\ reel = NoFile
  BY DEF TapeInit
<1>2. playing \in BOOLEAN /\ cue \in BOOLEAN /\ ~(playing \/ cue)
  BY <1>1, Zenon
<1> QED
  BY <1>1, <1>2, Sizes DEF PlayInv, NoFile, None

\* Every step keeps what is loaded in order.
LEMMA PlayStep == PlayInv /\ [TapeNext]_tapeVars => PlayInv'
<1> SUFFICES ASSUME PlayInv, [TapeNext]_tapeVars PROVE PlayInv'
  OBVIOUS
<1>1. ASSUME NEW d \in Decks, Turn(d) PROVE PlayInv'
  BY <1>1, PlayerAlone DEF Turn, player
<1>2. CASE Fetch
  BY <1>2, FetchPlays
<1>3. CASE PlayOut
  BY <1>3, PlayerAlone DEF PlayOut
<1>4. CASE Record
  BY <1>4, PlayerAlone DEF Record, player
<1>5. CASE TakeByte
  BY <1>5, PlayerAlone DEF TakeByte, player
<1>6. CASE Task
  BY <1>6, TaskPlays
<1>7. CASE ReadDone
  BY <1>7, ReadPlays
<1>8. ASSUME NEW f \in Files, Start(f) PROVE PlayInv'
  BY <1>8, StartPlays
<1>9. CASE UNCHANGED tapeVars
  BY <1>9, PlayerAlone DEF tapeVars, player
<1> QED
  BY <1>1, <1>2, <1>3, <1>4, <1>5, <1>6, <1>7, <1>8, <1>9 DEF TapeNext, TapeLoop

\* The word that is fetched next is the next one of the reel: the lead-in, then the data of the
\* file, in order, for every size of the memory, the sectors and the words, however the
\* refilling of the sample memory falls behind and whatever reads fail.
THEOREM ReelIsPlayed == TapeSpec => []PlaysTheReel
<1> QED
  BY PlayStart, PlayStep, LoadedPlays, PTL DEF TapeSpec
=============================================================================
