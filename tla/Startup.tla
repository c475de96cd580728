------------------------------ MODULE Startup ------------------------------
(***************************************************************************)
(* From power on to the main loop and what is set up there from the card:  *)
(* the configuration file (configfile.c), the ROMs (main.c), the settings  *)
(* and the file selector of the menu (menu.c), with the cartridge that is  *)
(* selected there.  Cards come and go meanwhile.                           *)
(***************************************************************************)
EXTENDS Paths, Cartridge

CONSTANTS Aux,       \* Aux[c]: ROM and zip files on card c: [dir, name, whole],
                     \* whole the ROMs that are whole in it
          Roms,      \* the ROMs in order: [name, zip, board, grom], the last
                     \* the window of a console GROM
          Embedded,  \* ROMs in the flash memory
          Pcode,     \* the P-code card is there
          MaxMoves,  \* bound: cards inserted or removed
          MaxOps     \* bound: things done in the menu, power switched off

Boards == {"console", "tipi", "pcode"}
NoGrom == 9

ASSUME StartupAssumption ==
  /\ Aux \in [Cards -> SUBSET [dir : {<<>>, <<"mega99">>}, name : STRING, whole : SUBSET STRING]]
  /\ Roms \in Seq([name : STRING, zip : STRING, board : Boards, grom : Console \cup {NoGrom}])
  /\ \E i \in 1..Len(Roms) : Roms[i].board = "console"
  /\ Pcode \in BOOLEAN /\ {MaxMoves, MaxOps} \subseteq Nat

VARIABLES
  pc,        \* "config", "roms", "loop", "loaded" (a file just read) or "halted"
  nr,        \* the ROM to load next
  have,      \* boards whose ROMs are there; of a card, all or one (TIPI)
  lost,      \* the P-code card has a ROM missing
  enable,    \* REGS_MISC.enable: boards, and other settings
  cfg,       \* cfg[c]: the configuration file in each directory of card c
  config_dirpath, saved_rpk_dir, fileselector_dir,
  shown,     \* the directories that the selector lists; it is open
  kept,      \* what the last start after a save must find, if anything
  steady,    \* no card has moved since the start
  moves, ops

firmware  == <<pc, nr, have, lost, enable, config_dirpath, saved_rpk_dir, fileselector_dir, shown>>
cardVars  == <<card, id>>
startVars == <<cardVars, sel, firmware, cfg, kept, steady, moves, ops, cartVars>>

\* Settings: boards that can be enabled, and one that is about no board.
AllSettings == {"ram", "tipi", "pcode"}
NoFile    == [there |-> FALSE, full |-> FALSE, enable |-> {}, dir |-> <<>>]
EmptyFile == [NoFile EXCEPT !.there = TRUE]
Closed    == {"closed"}

\* What main enables before the configuration is read.
Default == {"ram", "tipi"}

PowerOn ==
  /\ pc = "config" /\ nr = 1 /\ have = {} /\ lost = FALSE /\ enable = Default
  /\ config_dirpath = NoPath /\ saved_rpk_dir = NoPath /\ fileselector_dir = NoPath
  /\ shown = Closed

StartInit ==
  /\ card \in [Slots -> Cards \cup {NoCard}]
  /\ \A s, t \in Slots : s # t /\ card[s] = card[t] => card[s] = NoCard
  /\ id = [s \in Slots |-> 0] /\ sel = "sd0"
  /\ PowerOn /\ CartInit
  /\ cfg = [c \in Cards |-> [d \in {<<>>, <<"mega99">>} |-> NoFile]]
  /\ kept = {} /\ steady = TRUE /\ moves = 0 /\ ops = 0

-----------------------------------------------------------------------------
Move(s) ==
  /\ moves < MaxMoves /\ moves' = moves + 1
  /\ \E c \in (Cards \ Range(card)) \cup {NoCard} :
       c # card[s] /\ card' = [card EXCEPT ![s] = c]
  /\ id' = [id EXCEPT ![s] = @ + 1]
  /\ kept' = {} /\ steady' = FALSE
  /\ UNCHANGED <<sel, firmware, cfg, ops, cartVars>>

\* The power is switched off and on; the cards keep what they hold.
Restart ==
  /\ ops < MaxOps /\ ops' = ops + 1
  /\ pc \in {"loop", "loaded", "halted"}
  /\ pc' = "config" /\ nr' = 1 /\ have' = {} /\ lost' = FALSE /\ enable' = Default
  /\ config_dirpath' = NoPath /\ saved_rpk_dir' = NoPath /\ fileselector_dir' = NoPath
  /\ shown' = Closed
  /\ id' = [s \in Slots |-> 0] /\ sel' = "sd0"
  /\ mode' = Standard /\ crom' = [u \in Units |-> Zero]
  /\ window' = [w \in Windows |-> 0] /\ chip' = [i \in 1..NumGroms |-> FreeChip]
  /\ rpk' = {} /\ step' = Idle
  /\ steady' = TRUE
  /\ UNCHANGED <<card, cfg, kept, moves>>

-----------------------------------------------------------------------------
\* As ParseDir and LoadFrom: the handle kept; settings only ever added.
ParseDirOnly(dp, path) == [dp EXCEPT !.path = path]

LoadFromOver(f) ==
  /\ enable' = enable \cup f.enable
  /\ saved_rpk_dir' = IF f.full THEN [fh |-> NoHandle, path |-> f.dir] ELSE saved_rpk_dir

(***************************************************************************)
(* configfile_loadfrom sets what the file has lines for, parse_dir forgets *)
(* the handle of a directory that gets another path.                       *)
(***************************************************************************)
ParseDir(dp, path) == IF dp.path = path THEN dp ELSE [fh |-> NoHandle, path |-> path]

LoadFrom(f) ==
  /\ enable' = IF f.full THEN f.enable ELSE enable
  /\ saved_rpk_dir' = IF f.full THEN ParseDir(saved_rpk_dir, f.dir) ELSE saved_rpk_dir

FileAt(fh) == cfg[card[fh.slot]][fh.dir]

(***************************************************************************)
(* configfile_finddir: the first of these that has the file, or else the   *)
(* first mega99 directory.                                                 *)
(***************************************************************************)
Places == <<<<"sd0", "mega99">>, <<"sd0">>, <<"sd1", "mega99">>, <<"sd1">>>>

Found(need_file) ==
  LET fits(p) == LET r == Chdir(NoPath, p) IN
        /\ p[1] \in Slots /\ r.ok
        /\ IF need_file THEN FileAt(r.dp.fh).there ELSE Len(p) = 2
      ks == {k \in DOMAIN Places : fits(Places[k])}
  IN  IF ks = {} THEN NoPath ELSE Chdir(NoPath, Places[Min(ks)]).dp

ConfigInit ==
  /\ pc = "config" /\ pc' = "roms"
  /\ config_dirpath' = IF Found(TRUE) # NoPath THEN Found(TRUE) ELSE Found(FALSE)
  /\ IF Found(TRUE) # NoPath THEN LoadFrom(FileAt(Found(TRUE).fh))
     ELSE UNCHANGED <<enable, saved_rpk_dir>>
  /\ sel' = "sd0"
  /\ UNCHANGED <<cardVars, nr, have, lost, fileselector_dir, shown, cfg, kept, steady, moves, ops,
                 cartVars>>

-----------------------------------------------------------------------------
(***************************************************************************)
(* load_rom: from the flash, from a file of its own, or, only if there is  *)
(* none, from its zip file; open_auxfile looks on the cards one after the  *)
(* other, in mega99 first.                                                 *)
(***************************************************************************)
AuxFile(name) ==
  LET in(p) == {f \in (IF card[p[1]] = NoCard THEN {} ELSE Aux[card[p[1]]]) :
                  f.dir = Tail(p) /\ f.name = name}
      ps == SelectSeq(Places, LAMBDA p : p[1] \in Slots /\ in(p) # {})
  IN  IF ps = <<>> THEN {} ELSE in(ps[1])

Loads(rom) ==
  \/ rom.name \in Embedded
  \/ \E f \in AuxFile(rom.name) : rom.name \in f.whole
  \/ AuxFile(rom.name) = {} /\ \E f \in AuxFile(rom.zip) : rom.name \in f.whole

\* The TIPI's ROM has two names, of which one does; the P-code card's ROMs
\* are only looked for while none was missing.
Wanted(rom) ==
  CASE rom.board = "console" -> TRUE
    [] rom.board = "tipi"    -> "tipi" \notin have
    [] rom.board = "pcode"   -> Pcode /\ ~lost

LoadRomFile ==
  /\ pc = "roms" /\ nr <= Len(Roms)
  /\ LET rom == Roms[nr]
         ok  == Loads(rom) IN
     /\ pc' = IF rom.board = "console" /\ ~ok THEN "halted" ELSE pc
     /\ nr' = nr + 1
     /\ have' = IF ~Wanted(rom) THEN have
                ELSE IF ok THEN have \cup {rom.board}
                ELSE IF rom.board = "pcode" THEN have \ {"pcode"} ELSE have
     /\ lost' = (lost \/ (rom.board = "pcode" /\ Wanted(rom) /\ ~ok))
     /\ IF rom.grom # NoGrom
        THEN SetGroms(Allocate(Groms, rom.grom, From({}, rom.name, 0)).g)
        ELSE UNCHANGED <<window, chip>>
  /\ UNCHANGED <<cardVars, sel, enable, config_dirpath, saved_rpk_dir, fileselector_dir, shown,
                 cfg, kept, steady, moves, ops, mode, crom, rpk, step>>

\* With everything loaded, what has no ROMs is disabled, and the console runs.
Possible == AllSettings \cap (have \cup {"ram"})

StartConsole ==
  /\ pc = "roms" /\ nr > Len(Roms) /\ pc' = "loop"
  /\ enable' = enable \cap Possible
  /\ sel' = "sd0"
  /\ UNCHANGED <<cardVars, nr, have, lost, config_dirpath, saved_rpk_dir, fileselector_dir, shown,
                 cfg, kept, steady, moves, ops, cartVars>>

-----------------------------------------------------------------------------
(***************************************************************************)
(* The settings.  A board without ROMs cannot be chosen.  What is loaded   *)
(* from the file is in the register at once, and corrected after.  A file  *)
(* that cannot be written whole is emptied, if it could be opened or       *)
(* created.                                                                *)
(***************************************************************************)
InMenu == pc = "loop" /\ ~Loading /\ ops < MaxOps /\ ops' = ops + 1
NoSelector == shown = Closed

Toggle(b) ==
  /\ InMenu /\ NoSelector /\ b \in Possible
  /\ enable' = SymDiff(enable, {b})
  /\ UNCHANGED <<cardVars, sel, pc, nr, have, lost, config_dirpath, saved_rpk_dir, fileselector_dir,
                 shown, cfg, kept, steady, moves, cartVars>>

\* Where it was found.  Without such a place the file's own name is taken for
\* a directory, and nothing can be opened.
Place == IF config_dirpath.path # <<>> THEN Restore(config_dirpath)
         ELSE [ok |-> FALSE, sel |-> sel, dp |-> config_dirpath]

Placed ==
  /\ config_dirpath' = IF Place.ok THEN Place.dp ELSE config_dirpath
  /\ sel' = Place.sel

LoadConfig ==
  /\ InMenu /\ NoSelector
  /\ Placed /\ pc' = "loaded"
  /\ IF Place.ok /\ FileAt(Place.dp.fh).there THEN LoadFrom(FileAt(Place.dp.fh))
     ELSE UNCHANGED <<enable, saved_rpk_dir>>
  /\ UNCHANGED <<cardVars, nr, have, lost, fileselector_dir, shown, cfg, kept, steady, moves,
                 cartVars>>

\* As Correct, the P-code card forgotten.
CorrectTipi ==
  /\ pc = "loaded" /\ pc' = "loop"
  /\ enable' = enable \ ({"tipi"} \ have)
  /\ UNCHANGED <<cardVars, sel, nr, have, lost, config_dirpath, saved_rpk_dir, fileselector_dir,
                 shown, cfg, kept, steady, moves, ops, cartVars>>

\* The settings menu, after the load: the console ran on meanwhile.
Correct ==
  /\ pc = "loaded" /\ pc' = "loop"
  /\ enable' = enable \cap Possible
  /\ UNCHANGED <<cardVars, sel, nr, have, lost, config_dirpath, saved_rpk_dir, fileselector_dir,
                 shown, cfg, kept, steady, moves, ops, cartVars>>

\* No file elsewhere that the next start would find before the one saved.
Unhidden == Found(TRUE).path # <<>> => Found(TRUE).fh = Place.dp.fh

SaveConfig ==
  LET new == [there |-> TRUE, full |-> TRUE, enable |-> enable, dir |-> saved_rpk_dir.path] IN
  /\ InMenu /\ NoSelector
  /\ Placed
  /\ \E f \in {new, EmptyFile, NoFile} :
       /\ f = NoFile \/ Place.ok
       /\ cfg' = IF f = NoFile THEN cfg
                 ELSE [cfg EXCEPT ![card[Place.dp.fh.slot]][Place.dp.fh.dir] = f]
       /\ kept' = IF f = NoFile THEN kept
                  ELSE IF f = new /\ (steady \/ Unhidden) THEN {new} ELSE {}
  /\ UNCHANGED <<cardVars, pc, nr, have, lost, enable, saved_rpk_dir, fileselector_dir, shown,
                 steady, moves, cartVars>>

-----------------------------------------------------------------------------
(***************************************************************************)
(* The file selector: fileselector_menu_fill notes the directory, before   *)
(* it is known whether it can be listed.                                   *)
(***************************************************************************)
Listing(fh) ==
  IF ~Valid(fh) \/ fh.dir = Nowhere THEN {}
  ELSE {n \in UNION {Range(d) : d \in Tree[card[fh.slot]]} : Exists(fh, n)}
       \cup (IF fh.dir # <<>> THEN {".."} ELSE {})

Fill(dp) ==
  /\ fileselector_dir' = dp /\ saved_rpk_dir' = dp
  /\ shown' = Listing(dp.fh)

FillRoot(s) ==
  /\ sel' = s
  /\ IF FromRoot(s).ok THEN Fill(FromRoot(s).dp)
     ELSE /\ fileselector_dir' = [fileselector_dir EXCEPT !.path = <<s>>]
          /\ shown' = {} /\ UNCHANGED saved_rpk_dir

Other(s) == IF Slots = {s} THEN s ELSE CHOOSE t \in Slots : t # s

\* The directory used last, or the root of its card, or of the other card.
OpenSelector ==
  LET r == Restore(saved_rpk_dir) IN
  /\ InMenu /\ NoSelector
  /\ IF r.ok THEN Fill(r.dp) /\ sel' = r.sel
     ELSE FillRoot(IF FromRoot(r.sel).ok THEN r.sel ELSE Other(r.sel))
  /\ UNCHANGED <<cardVars, pc, nr, have, lost, enable, config_dirpath, cfg, kept, steady, moves,
                 cartVars>>

\* A directory with the first cluster 0 is taken for the root.
Browse(name) ==
  LET fh == Enter(fileselector_dir.fh, name) IN
  /\ InMenu /\ ~NoSelector /\ name \in shown
  /\ IF fh.dir = Nowhere THEN FillRoot(fh.slot)
     ELSE Fill(Subdir(fileselector_dir, fh, name)) /\ sel' = fh.slot
  /\ UNCHANGED <<cardVars, pc, nr, have, lost, enable, config_dirpath, cfg, kept, steady, moves,
                 cartVars>>

SwitchCard ==
  /\ InMenu /\ ~NoSelector
  /\ FillRoot(Other(sel))
  /\ UNCHANGED <<cardVars, pc, nr, have, lost, enable, config_dirpath, cfg, kept, steady, moves,
                 cartVars>>

CloseSelector ==
  /\ pc = "loop" /\ ~Loading /\ ~NoSelector /\ shown' = Closed
  /\ UNCHANGED <<cardVars, sel, pc, nr, have, lost, enable, config_dirpath, saved_rpk_dir,
                 fileselector_dir, cfg, kept, steady, moves, ops, cartVars>>

Select(r) ==
  /\ InMenu /\ ~NoSelector /\ shown' = Closed
  /\ Insert(r)
  /\ UNCHANGED <<cardVars, sel, pc, nr, have, lost, enable, config_dirpath, saved_rpk_dir,
                 fileselector_dir, cfg, kept, steady, moves>>

CartStep ==
  /\ pc = "loop" /\ CartNext
  /\ UNCHANGED <<cardVars, sel, firmware, cfg, kept, steady, moves, ops>>

StartNext ==
  \/ \E s \in Slots : Move(s)
  \/ Restart \/ ConfigInit \/ LoadRomFile \/ StartConsole
  \/ \E b \in AllSettings : Toggle(b)
  \/ LoadConfig \/ Correct \/ SaveConfig \/ OpenSelector \/ SwitchCard \/ CloseSelector
  \/ \E name \in shown : Browse(name)
  \/ \E r \in Rpks : Select(r)
  \/ CartStep

Spec == StartInit /\ [][StartNext]_startVars

-----------------------------------------------------------------------------
(***************************************************************************)
(* The machine runs with the console's ROMs, and a board without its ROMs  *)
(* is not enabled, be it by the start, a configuration file or the menu;   *)
(* but for the moment in which a file has been read and what it enables is *)
(* not corrected yet.                                                      *)
(***************************************************************************)
BoardHasItsRom ==
  /\ pc \in {"loop", "loaded"} => "console" \in have
  /\ pc = "loop" => enable \subseteq Possible

(***************************************************************************)
(* The paths that are kept lead where their handles do; that of the        *)
(* selector, while there is something to select.                           *)
(***************************************************************************)
PathsAgree ==
  /\ Agrees(config_dirpath) /\ Agrees(saved_rpk_dir)
  /\ ~NoSelector /\ shown # {} => Agrees(fileselector_dir)

(***************************************************************************)
(* Settings that have been saved are those of the next start, whatever is  *)
(* done in the menu between, and also if a later attempt to save them does *)
(* not get to the file.  It is promised where no card is moved between the *)
(* save and the start, and none was before the save since the start that   *)
(* found the place, or else no other file hides the one saved.             *)
(***************************************************************************)
SettingsKept ==
  pc = "roms" => \A f \in kept : enable = f.enable /\ saved_rpk_dir.path = f.dir
=============================================================================
