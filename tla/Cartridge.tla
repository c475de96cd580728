----------------------------- MODULE Cartridge -----------------------------
(***************************************************************************)
(* The cartridge port: what an RPK file puts there (rpk.c), the GROMs that *)
(* the console's GROM windows are mapped to (groms.c), and how the console *)
(* sees the ROM through its bank register (cartridge_rom.v).               *)
(*                                                                         *)
(* ROM is counted in units of 4 KB, two to a bank, GROM in chips.  A unit  *)
(* or chip holds what came from a file, as [rpk, name, n].                 *)
(***************************************************************************)
EXTENDS Naturals, Sequences, FiniteSetsExt, SequencesExt

CONSTANTS Rpks,     \* RPK files: [layout, files], the elements of layout.xml
                    \* in order and the units of each file
          Banks,    \* banks of ROM the port has
          NumGroms, \* GROM chips
          MaxRes    \* roms of a layout: 8

Console == 0..2   \* the windows of the console's own GROMs
Port    == 3..7   \* those of the cartridge
Windows == Console \cup Port
Sockets == <<"grom_socket", "rom_socket", "rom2_socket">>

Elements == [el : {"rom"}, id : STRING, file : STRING] \cup [el : {"pcb"}, type : STRING]
            \cup [el : {"socket"}, id : STRING, uses : STRING]

ASSUME CartridgeAssumption ==
  /\ Banks \in 3..256 /\ MaxRes \in Nat \ {0}
  /\ NumGroms \in Nat /\ NumGroms >= 8
  /\ \A r \in Rpks : r.layout \in Seq(Elements) /\ \A f \in DOMAIN r.files : r.files[f] \in Nat

\* pcb types: the width of the bank register, the other bits of the mode.
Standard == [width |-> 0, kind |-> "rom"]
Modes == [standard |-> Standard,
          paged     |-> [width |-> 1, kind |-> "rom"],
          minimem   |-> [width |-> 0, kind |-> "mm"],
          mbx       |-> [width |-> 2, kind |-> "mbx"],
          paged377  |-> [width |-> 8, kind |-> "rom"],
          paged378  |-> [width |-> 6, kind |-> "rom"],
          paged379i |-> [width |-> 4, kind |-> "inv"],
          gromemu   |-> [width |-> 12, kind |-> "rom"]]

VARIABLES
  mode,    \* the control register of the port, [width, kind]
  crom,    \* crom[u]: unit u of its ROM
  window,  \* window[w]: the chip its IOMMU descriptors name, or 0
  chip,    \* chip[i]: [free, base, data] (grom_alloced, grom_base, grom_data)
  rpk,     \* the file being loaded, or the last
  step     \* in low_load_rpk: the socket to load next, with what the layout
           \* says; or it has failed (idle), or the cartridge is in
cartVars == <<mode, crom, window, chip, rpk, step>>

Units  == 0..2*Banks-1
Zero   == [rpk |-> {}, name |-> "zero", n |-> 0]
Ram    == [Zero EXCEPT !.name = "ram"]
From(r, name, n) == [rpk |-> r, name |-> name, n |-> n]
FreeChip == [free |-> TRUE, base |-> 0, data |-> Zero]
Idle == [pc |-> "idle", socket |-> <<>>, mode |-> Standard]
Loading == step.pc \notin {"idle", "in"}

-----------------------------------------------------------------------------
(***************************************************************************)
(* groms_free_grom_range and groms_allocate_grom, for all 16 sets at once: *)
(* the chips with their windows, as [window, chip].                        *)
(***************************************************************************)
FreeRange(g, ws) ==
  [window |-> [w \in Windows |-> IF w \in ws THEN 0 ELSE g.window[w]],
   chip |-> [i \in 1..NumGroms |->
               IF g.chip[i].base \in ws THEN [g.chip[i] EXCEPT !.free = TRUE] ELSE g.chip[i]]]

Allocate(g, w, data) ==
  LET f    == FreeRange(g, {w})
      free == {i \in 1..NumGroms : f.chip[i].free} IN
  IF free = {} THEN [ok |-> FALSE, g |-> f]
  ELSE LET i == Min(free) IN
       [ok |-> TRUE,
        g |-> [window |-> [f.window EXCEPT ![w] = i],
               chip |-> [f.chip EXCEPT ![i] = [free |-> FALSE, base |-> w, data |-> data]]]]

Groms == [window |-> window, chip |-> chip]
SetGroms(g) == window' = g.window /\ chip' = g.chip

-----------------------------------------------------------------------------
(***************************************************************************)
(* parse_layout: roms are noted as long as there is room, the pcb gives    *)
(* the mode, a socket the rom that it uses, which must have come before.   *)
(* What it does not know ends it.                                          *)
(***************************************************************************)
NoLayout == [ok |-> TRUE, mode |-> Standard, roms |-> <<>>, socket |-> <<>>]

Named(roms, i) == SelectInSeq(roms, LAMBDA e : e.id = i)

Element(l, e) ==
  IF ~l.ok THEN l ELSE
  CASE e.el = "rom" ->
         IF Len(l.roms) < MaxRes THEN [l EXCEPT !.roms = Append(@, e)] ELSE l
    [] e.el = "pcb" ->
         IF e.type \in DOMAIN Modes THEN [l EXCEPT !.mode = Modes[e.type]]
         ELSE [l EXCEPT !.ok = FALSE]
    [] e.el = "socket" /\ e.id = "ram_socket" -> l
    [] e.el = "socket" /\ e.id # "ram_socket" ->
         LET n == Named(l.roms, e.uses) IN
         IF n > 0 /\ e.id \in Range(Sockets)
         THEN [l EXCEPT !.socket = [s \in DOMAIN @ \cup {e.id} |->
                                      IF s = e.id THEN l.roms[n].file ELSE @[s]]]
         ELSE [l EXCEPT !.ok = FALSE]

Layout(r) ==
  LET read[n \in 0..Len(r.layout)] ==
        IF n = 0 THEN NoLayout ELSE Element(read[n - 1], r.layout[n])
  IN  read[Len(r.layout)]

\* Two to the power of the width of a register.
Power[w \in 0..12] == IF w = 0 THEN 1 ELSE 2 * Power[w - 1]

\* What the ROM socket is read up to: as much as the register can select.
RomSize(m) == IF m.kind = "mbx" THEN 4 ELSE 2 * Power[m.width]

Smaller(a, b) == IF a < b THEN a ELSE b
Storage == 2 * Banks

\* As Narrow, a step too far.
NarrowMore(width, size) ==
  IF width < 2 THEN width ELSE Min({v \in 1..width : size <= 4 * Power[v]})

(***************************************************************************)
(* The register is made as narrow as the ROM allows, down to one bit.      *)
(***************************************************************************)
Narrow(width, size) ==
  IF width < 2 THEN width ELSE Min({v \in 1..width : size <= 2 * Power[v]})

-----------------------------------------------------------------------------
CartInit ==
  /\ mode = Standard /\ crom = [u \in Units |-> Zero]
  /\ window = [w \in Windows |-> 0] /\ chip = [i \in 1..NumGroms |-> FreeChip]
  /\ rpk = {} /\ step = Idle

\* As Insert, the GROMs of the last cartridge left where they are.
InsertOver(r) ==
  LET l == Layout(r) IN
  /\ ~Loading /\ l.ok
  /\ mode' = l.mode
  /\ crom' = [u \in Units |-> Zero]
  /\ rpk' = {r}
  /\ step' = [pc |-> "grom_socket", socket |-> l.socket, mode |-> l.mode]
  /\ UNCHANGED <<window, chip>>

(***************************************************************************)
(* low_load_rpk: a file that does not open, or whose layout is not as it   *)
(* must be, changes nothing.                                               *)
(***************************************************************************)
Insert(r) ==
  LET l == Layout(r) IN
  /\ ~Loading
  /\ \/ UNCHANGED cartVars
     \/ /\ l.ok
        /\ mode' = l.mode
        /\ SetGroms(FreeRange(Groms, Port))
        /\ crom' = [u \in Units |-> Zero]
        /\ rpk' = {r}
        /\ step' = [pc |-> "grom_socket", socket |-> l.socket, mode |-> l.mode]

Rpk == CHOOSE r \in Rpks : rpk = {r}
Used(s) == s \in DOMAIN step.socket
Size(s) == Rpk.files[step.socket[s]]
There(s) == Used(s) /\ step.socket[s] \in DOMAIN Rpk.files
After(s) == CASE s = "grom_socket" -> "rom_socket"
              [] s = "rom_socket" -> "rom2_socket"
              [] s = "rom2_socket" -> "ram"
Content(s, n) == From(rpk, step.socket[s], n)

\* A file that is missing, or not read to its end, ends the loading.
Broken ==
  /\ step.pc \in Range(Sockets) /\ Used(step.pc)
  /\ step' = Idle
  /\ UNCHANGED <<mode, crom, window, chip, rpk>>

NotUsed ==
  /\ step.pc \in Range(Sockets) /\ ~Used(step.pc)
  /\ step' = [step EXCEPT !.pc = After(@)]
  /\ UNCHANGED <<mode, crom, window, chip, rpk>>

(***************************************************************************)
(* One GROM chip after the other from 6000 on, up to five.                 *)
(***************************************************************************)
Pieces(size) == Smaller((size + 1) \div 2, 5)

LoadGroms ==
  /\ step.pc = "grom_socket" /\ There("grom_socket")
  /\ LET pieces == Pieces(Size("grom_socket"))
         loaded[n \in 0..pieces] ==
           IF n = 0 THEN [ok |-> TRUE, g |-> Groms]
           ELSE IF ~loaded[n - 1].ok THEN loaded[n - 1]
           ELSE Allocate(loaded[n - 1].g, 2 + n, Content("grom_socket", n))
         all == loaded[pieces]
     IN  /\ SetGroms(all.g)
         /\ step' = IF all.ok THEN [step EXCEPT !.pc = "rom_socket"] ELSE Idle
  /\ UNCHANGED <<mode, crom, rpk>>

\* The ROM; one larger than the port's is refused, if its register could
\* select more, but only once it is there.
LoadRom ==
  LET size == RomSize(step.mode)
      got  == Smaller(Size("rom_socket"), Smaller(size, Storage))
      adjust == got < size /\ size > 2 /\ step.mode.kind # "mbx" IN
  /\ step.pc = "rom_socket" /\ There("rom_socket")
  /\ crom' = [u \in Units |-> IF u < got THEN Content("rom_socket", u) ELSE crom[u]]
  /\ IF adjust /\ size > Storage /\ Size("rom_socket") > got
     THEN step' = Idle /\ UNCHANGED mode
     ELSE /\ mode' = IF adjust THEN [mode EXCEPT !.width = Narrow(@, got)] ELSE mode
          /\ step' = [step EXCEPT !.pc = "rom2_socket"]
  /\ UNCHANGED <<window, chip, rpk>>

LoadRom2 ==
  /\ step.pc = "rom2_socket" /\ There("rom2_socket")
  /\ crom' = [u \in Units |-> IF u \in 2..1+Smaller(Size("rom2_socket"), 2)
                              THEN Content("rom2_socket", u - 2) ELSE crom[u]]
  /\ step' = [step EXCEPT !.pc = "ram"]
  /\ UNCHANGED <<mode, window, chip, rpk>>

\* The RAM of an MBX cartridge, in the fifth unit, is cleared at the end.
ClearRam ==
  /\ step.pc = "ram"
  /\ crom' = IF mode.kind = "mbx" THEN [crom EXCEPT ![4] = Zero] ELSE crom
  /\ step' = [step EXCEPT !.pc = "in"]
  /\ UNCHANGED <<mode, window, chip, rpk>>

\* The RAM of Mini Memory and MBX cartridges: the console writes to it, and
\* mm_load, that of Mini Memory.
WriteRam ==
  /\ mode.kind \in {"mm", "mbx"}
  /\ crom' = [crom EXCEPT ![IF mode.kind = "mm" THEN 1 ELSE 4] = Ram]
  /\ UNCHANGED <<mode, window, chip, rpk, step>>

CartNext == NotUsed \/ Broken \/ LoadGroms \/ LoadRom \/ LoadRom2 \/ ClearRam \/ WriteRam

-----------------------------------------------------------------------------
(***************************************************************************)
(* The console's view: half h of the bank selected by b.                   *)
(***************************************************************************)
Selectable == 0..(IF mode.width > 8 THEN 0 ELSE Power[mode.width] - 1)

ReadRom(b, h) ==
  CASE mode.kind = "mbx" /\ h = 0 -> crom[0]
    [] mode.kind = "mbx" /\ h = 1 -> crom[b % 4]
    [] mode.kind # "mbx" -> crom[2 * b + h]

(***************************************************************************)
(* The port holds one cartridge: whatever became of loading it, nothing is *)
(* left there of the one before, the console's own GROMs are where they    *)
(* were, and no chip serves two windows.                                   *)
(***************************************************************************)
OneCartridge ==
  /\ \A u \in Units : crom[u].rpk \in {{}, rpk}
  /\ \A w \in Windows : window[w] # 0 =>
       /\ ~chip[window[w]].free
       /\ chip[window[w]].data.rpk = (IF w \in Console THEN {} ELSE rpk)
       /\ \A v \in Windows \ {w} : window[v] # window[w]
  /\ \A u \in Units : crom[u] = Ram => <<mode.kind, u>> \in {<<"mm", 1>>, <<"mbx", 4>>}

(***************************************************************************)
(* A cartridge that is in is as its layout says: the console can select    *)
(* every unit of its ROM, as far as the register of its pcb goes, the      *)
(* second ROM is the second bank, each window has its piece of the GROM    *)
(* file and the rest of the windows none; and half of the register would   *)
(* not do.                                                                 *)
(***************************************************************************)
Shown == {ReadRom(b, h) : b \in {b \in Selectable : mode.kind = "mbx" \/ b < Banks}, h \in {0, 1}}

Covered(u) == (step.mode.kind = "mm" /\ u = 1) \/ (Used("rom2_socket") /\ u \in {2, 3})

AsLaidOut ==
  step.pc = "in" =>
    /\ Used("rom_socket") =>
         \A u \in 0..Smaller(Size("rom_socket"), RomSize(step.mode))-1 :
           Covered(u) \/ Content("rom_socket", u) \in Shown
    /\ Used("rom2_socket") /\ mode.kind # "mbx" /\ Cardinality(Selectable) > 1 =>
         \A h \in 0..Smaller(Size("rom2_socket"), 2)-1 : ReadRom(1, h) = Content("rom2_socket", h)
    /\ \A w \in Port :
         IF Used("grom_socket") /\ w - 2 <= Pieces(Size("grom_socket"))
         THEN window[w] # 0 /\ chip[window[w]].data = Content("grom_socket", w - 2)
         ELSE window[w] = 0
    /\ Used("rom_socket") /\ mode.width > 1 /\ mode.kind # "mbx" =>
         Size("rom_socket") > 2 * Power[mode.width - 1]
=============================================================================
