---------------------------- MODULE FdcGeometry ----------------------------
(***************************************************************************)
(* How fdc.c derives the geometry of a disk image and where it looks for a *)
(* sector in it. fdc_mount reads the Volume Information Block or guesses   *)
(* from the file's size, keeps tracks and shape in bytes, and programs the *)
(* card; the three mock drives share one shape register and load it when   *)
(* their mounted bit changes. fdc_task maps (cylinder, side, sector) to an *)
(* offset in the file with 8-bit arithmetic.                               *)
(***************************************************************************)
EXTENDS Integers, FiniteSets

CONSTANTS
  Drives,
  Images,     \* image files: the VIB's fields, the file's size, whether it is read only
  SectorRegs  \* values of the chip's sector register

Byte == 0..255
Word16 == 0..65535

ImageFiles ==
  [vib : BOOLEAN,  \* 20 bytes could be read and hold "DSK" at 0x0d
   nsec : Word16, sps : Byte, tracks : Byte, sides : Byte, density : Byte,
   size : Nat, readonly : BOOLEAN]

ASSUME ImageAssumption ==
  /\ Images \subseteq ImageFiles
  /\ \A h \in Images : h.vib => h.size >= 20
  /\ SectorRegs \subseteq Byte

VARIABLES
  size, shape, tracks,    \* fdc.c: dsk[].size, dsk_shape[], dsk_tracks[]
  imgShape, mounted, wp,  \* peb_fdc: img_ds/dd/sps, img_mounted, img_wp
  loaded,                 \* mock drives: what they loaded last
  image                   \* history: the image mounted in each drive

vars == <<size, shape, tracks, imgShape, mounted, wp, loaded, image>>

Shapes == [ds : BOOLEAN, dd : BOOLEAN, sps : 0..31]
NoShape == [ds |-> FALSE, dd |-> FALSE, sps |-> 0]
NoImage == [none |-> TRUE]

----------------------------------------------------------------------------
(* Recognising an image.                                                    *)

ValidVib(h) ==
  /\ h.vib
  /\ h.sps \in 1..31 /\ h.tracks < 64 /\ h.sides <= 2 /\ h.density <= 2
  /\ h.nsec % h.sps = 0
  /\ h.tracks = 0 \/ h.nsec = h.sps * h.tracks * (IF h.sides = 2 THEN 2 ELSE 1)
  /\ h.size >= 256 * h.nsec

\* An 8-bit count: a disk of 256 tracks or more wraps.
VibTracks(h) ==
  IF h.tracks = 0 THEN (h.nsec \div h.sps) % 256
                  ELSE IF h.sides = 2 THEN 2 * h.tracks ELSE h.tracks

VibShape(h) ==
  [ds  |-> h.sides = 2 \/ (h.tracks = 0 /\ h.sides = 0 /\ VibTracks(h) >= 64),
   dd  |-> h.density = 2 \/ (h.density = 0 /\ h.sps >= 16),
   sps |-> h.sps]

\* The three sizes a file without a VIB may have.
Guessed(h) == h.size \in {9 * 40 * 256, 9 * 40 * 2 * 256, 9 * 40 * 4 * 256}
GuessTracks(h) == IF h.size = 9 * 40 * 256 THEN 40 ELSE 80
GuessShape(h) == [ds |-> FALSE, dd |-> FALSE,
                  sps |-> IF h.size = 9 * 40 * 4 * 256 THEN 18 ELSE 9]

Recognised(h) == ValidVib(h) \/ Guessed(h)

TracksOf(h) == IF ValidVib(h) THEN VibTracks(h) ELSE GuessTracks(h)

\* 64 to 127 tracks, or 192 and more, make an image double sided, and 16 sectors a track
\* double density, whatever the VIB says.
ShapeOf(h) ==
  LET s == IF ValidVib(h) THEN VibShape(h) ELSE GuessShape(h)
  IN  [s EXCEPT !.ds = @ \/ (TracksOf(h) \div 64) % 2 = 1,
                !.dd = @ \/ s.sps >= 16]

----------------------------------------------------------------------------
(* Mounting.                                                                *)

\* A write to the mounted register: the drives whose bit changes load it and the shape.
Strobe(l, before, after, shp) ==
  [d \in Drives |-> IF (d \in before) # (d \in after)
                    THEN [mounted |-> d \in after, shape |-> shp] ELSE l[d]]

\* (a defect: the bit of a mounted drive is not cleared first)
NotCleared(d) == mounted

\* The drive's bits are cleared first, so that setting them again strobes the drive.
Cleared(d) == mounted \ {d}

Init ==
  /\ size = [d \in Drives |-> 0]
  /\ shape = [d \in Drives |-> NoShape]
  /\ tracks = [d \in Drives |-> 0]
  /\ imgShape = NoShape /\ mounted = {} /\ wp = {}
  /\ loaded = [d \in Drives |-> [mounted |-> FALSE, shape |-> NoShape]]
  /\ image = [d \in Drives |-> NoImage]

Mount(d, h) ==
  /\ Recognised(h)
  /\ size' = [size EXCEPT ![d] = h.size]
  /\ shape' = [shape EXCEPT ![d] = ShapeOf(h)]
  /\ tracks' = [tracks EXCEPT ![d] = TracksOf(h)]
  /\ imgShape' = ShapeOf(h)
  /\ mounted' = mounted \cup {d}
  /\ wp' = IF h.readonly THEN wp \cup {d} ELSE wp \ {d}
  /\ loaded' = Strobe(Strobe(loaded, mounted, Cleared(d), imgShape),
                      Cleared(d), mounted \cup {d}, ShapeOf(h))
  /\ image' = [image EXCEPT ![d] = h]

\* The drive is emptied, or the file chosen for it is no disk image.
Unmount(d) ==
  /\ size' = [size EXCEPT ![d] = 0]
  /\ shape' = [shape EXCEPT ![d] = NoShape]
  /\ tracks' = [tracks EXCEPT ![d] = 0]
  /\ mounted' = Cleared(d) /\ wp' = wp \ {d}
  /\ loaded' = Strobe(loaded, mounted, Cleared(d), imgShape)
  /\ image' = [image EXCEPT ![d] = NoImage]
  /\ UNCHANGED imgShape

Next == \E d \in Drives : Unmount(d) \/ \E h \in Images : Mount(d, h)

Spec == Init /\ [][Next]_vars

----------------------------------------------------------------------------
(* Finding a sector: c is the head's cylinder, s the side line.             *)

Cylinders == 0..63

\* (a defect: side 1 starts one track too early, ~ taken for unary minus)
TrackNoNegated(d, c, s) ==
  IF shape[d].ds /\ s = 1 THEN (tracks[d] - c) % 256 ELSE c

\* track = dsk_tracks + ~(track >> 1), truncated to a byte.
TrackNo(d, c, s) ==
  IF shape[d].ds /\ s = 1 THEN (tracks[d] + 255 - c) % 256 ELSE c

\* (a defect: the track after the last one is accepted)
AcceptedPast(d, c, s, sec) ==
  size[d] # 0 /\ TrackNo(d, c, s) <= tracks[d] /\ sec < shape[d].sps

Accepted(d, c, s, sec) ==
  size[d] # 0 /\ TrackNo(d, c, s) < tracks[d] /\ sec < shape[d].sps

BlockNo(d, c, s, sec) == TrackNo(d, c, s) * shape[d].sps + sec

----------------------------------------------------------------------------
(* Properties.                                                              *)

\* Every variable has its type.
TypeOK ==
  /\ size \in [Drives -> Nat] /\ shape \in [Drives -> Shapes] /\ tracks \in [Drives -> Byte]
  /\ imgShape \in Shapes /\ mounted \subseteq Drives /\ wp \subseteq mounted
  /\ loaded \in [Drives -> [mounted : BOOLEAN, shape : Shapes]]
  /\ image \in [Drives -> Images \cup {NoImage}]

\* The three drives share one shape register; each turns with the geometry fdc.c uses for
\* its own image, also after images were changed in any order.
DrivesAgree ==
  \A d \in Drives :
    /\ loaded[d].mounted <=> size[d] # 0
    /\ loaded[d].mounted <=> d \in mounted
    /\ loaded[d].mounted => loaded[d].shape = shape[d]

\* fdc_task never reads or writes past the end of the image file, at whatever position
\* heads, side line and sector register are.
InImage ==
  \A d \in Drives, c \in Cylinders, s \in {0, 1}, sec \in SectorRegs :
    Accepted(d, c, s, sec) => 256 * (BlockNo(d, c, s, sec) + 1) <= size[d]

\* The addresses a driver uses on drive d: both sides when there are two.
Addresses(d) == (0..(IF shape[d].ds THEN tracks[d] \div 2 ELSE tracks[d]) - 1)
                \X (IF shape[d].ds THEN {0, 1} ELSE {0}) \X (0..(shape[d].sps - 1))

\* The sectors the image has.
SectorCount(h) == IF ValidVib(h) THEN h.nsec ELSE h.size \div 256

\* fdc_task maps the sectors of the disk one-to-one onto the sectors of the image, if the
\* tracks fit a byte and both sides have equally many.
OneToOne ==
  \A d \in Drives :
    image[d] # NoImage /\ SectorCount(image[d]) < 256 * shape[d].sps
      /\ (shape[d].ds => tracks[d] % 2 = 0) =>
    /\ Cardinality(Addresses(d)) = SectorCount(image[d])
    /\ {BlockNo(d, a[1], a[2], a[3]) : a \in {x \in Addresses(d) : Accepted(d, x[1], x[2], x[3])}}
         = 0..(SectorCount(image[d]) - 1)

\* Gateware and firmware have the same idea of each drive's disk, and of the place of its
\* sectors in the file, after any mounts and unmounts.
SameDisk == TypeOK /\ DrivesAgree /\ OneToOne
=============================================================================
