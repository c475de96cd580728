--------------------------- MODULE MCFdcGeometry ---------------------------
(* Image files for FdcGeometry: valid, damaged, unformatted, and at the limits. *)
EXTENDS FdcGeometry

Vib(n, sps, trk, sides, dens, secs, ro) ==
  [vib |-> TRUE, nsec |-> n, sps |-> sps, tracks |-> trk, sides |-> sides, density |-> dens,
   size |-> 256 * secs, readonly |-> ro]
Raw(bytes) ==
  [vib |-> FALSE, nsec |-> 0, sps |-> 0, tracks |-> 0, sides |-> 0, density |-> 0,
   size |-> bytes, readonly |-> FALSE]

SomeImages ==
  { Vib(360, 9, 40, 1, 1, 360, FALSE), Vib(720, 9, 40, 2, 1, 720, FALSE),
    Vib(1440, 18, 40, 2, 2, 1440, TRUE),
    Vib(720, 9, 0, 0, 0, 721, FALSE),      \* no track count: 80 tracks, taken for two sides
    Vib(630, 9, 0, 1, 0, 630, FALSE),      \* 70 tracks on one side, taken for two
    Vib(2880, 18, 0, 0, 0, 2880, FALSE),   \* 160 tracks
    Vib(2304, 8, 0, 0, 0, 2304, FALSE),    \* 288 tracks: the count wraps
    Vib(41, 1, 0, 2, 0, 41, FALSE),        \* an odd number of tracks on two sides
    Vib(1240, 31, 40, 1, 0, 1240, FALSE),
    Vib(360, 9, 40, 1, 1, 359, FALSE),     \* a file cut short
    Vib(0, 9, 0, 0, 0, 1, FALSE),
    Raw(92160), Raw(184320), Raw(368640), Raw(100000) }

SomeSectors == 0..19 \cup {30, 31, 32, 255}
=============================================================================
