# Mega99 in TLA+

Mega99 rebuilds a TI-99/4A home computer on an FPGA. Verilog gateware (`gateware/`) holds the
TMS9900 and the chips around it; a second processor in the same FPGA, the *service processor*,
runs C firmware (`spsrc/`) that plays the parts of the outside world: disk drives, tape deck,
TIPI network card, keyboard, menu and cartridges, all backed by files on SD cards. The two sides
meet in small sets of registers, buffers and FIFOs. Neither waits for the other, so much of what
can go wrong is a matter of order; the rest is state that outlives what it was about: a handle
whose card is gone, the file of an exchange that a reset has cut short, a path that no longer
leads where its handle does.

## Inventory

| Component | State | Operations | What makes it correct | Module |
| --- | --- | --- | --- | --- |
| FD1771 (`fdc1771.v`) | command, status, registers, byte counter | register accesses, byte clocks, headers, index pulses | sectors transferred whole, every command ends, RNF only when true | `FdcTransfer` |
| Disk card (`peb_fdc.v`) | CRU latches, motor monoflop, sector buffer, request and acknowledge registers | CRU writes, wait states, service processor accesses | every request answered once, CPU never stuck | `FdcTransfer` |
| Mock drives (`fdc1771_mockdrive.v`) | head, position, loaded geometry | step, rotate, load | same geometry as the firmware | `FdcTransfer`, `FdcGeometry` |
| Disk service (`fdc.c`) | images, shape, tracks | `fdc_mount`, `fdc_task` | right sector, inside the file, protected disks untouched | `FdcTransfer`, `FdcGeometry`, `SectorStore` |
| TIPI link (`peb_tipi.v`, `spmmio_tipi.v`) | byte latches, shifter | byte transfers, parity retry, reset | bytes neither lost nor repeated, a reset returns both sides to the start | `TipiLink`, `RemoteCall` |
| TIPI service (`tipi.c`) | packet, reply, PAB, handler, open file | packets, reset | an exchange touches only what it named | `TipiLink`, `TipiFiles` |
| Tape (`spmmio_tape.v`, `tape.c`) | play ring, record FIFO, tape file, recordings | fill, play, record, stop | nothing skipped or repeated, no silent gap | `Tape` |
| Files (`fatfs.c`) | handles, FAT chains | open, read, write, setpos, setsize | chains disjoint, only a failing resize costs its file | `FatFiles`, `FileStore` |
| Directories (`fatfs.c`) | entries, end mark | search, create | a file is listed once | `FatDirectory`, `NameSet` |
| SD cards (`sdcard.c`, `spmmio_sdcard.v`) | latches, card ids, parameters | status, activate, block transfers | a changed card is noticed before it is touched | `Cards` |
| Keyboard (`keyboard.c`, `spmmio_keyboard.v`, `keymatrix.v`, `keyboard_*.v`) | matrix, FIFO, mode, synthetic key | press, release, repeat, `keyboard_task`, scan | no key stuck, none leaks past the menu | `Keyboard`, `KeyTables` |
| Menu (`menu.c`) | page, lines, cursor, list, text line, settings | keys | the screen is true, Enter does what the line says | `Menu`, `TextInput`, `LineEditor`, `MenuPages` |
| Cartridges (`rpk.c`, `zipfile.c`, `groms.c`, `cartridge_rom.v`) | port, GROM chips, bank register | unload, load element by element | one cartridge, as laid out | `Cartridge` |
| Start (`main.c`), settings (`configfile.c`), paths (`dirpath.c`) | ROMs found, enable bits, paths with handles | power on, load, save, change directory | no board without its ROMs, settings survive | `Startup`, `Paths` |
| Overlay, display, fonts | windows | draw, scroll | layout only | - |
| TMS9900, 9901, 9918, 9919, 5200 | registers | bus cycles | instruction, picture and sound semantics | - |
| `spmem.v`, IOMMU, HyperRAM, RAM and P-code cards | arbiters, address decoding | bus cycles | - | - |
| Boot, tops, clocks, HDMI, scripts | - | - | - | - |

The firmware is one main loop that calls the tasks of the components in turn and is never
preempted (`main.c:220-226`); the gateware runs on between any two of its register accesses. The
hard behaviours are listed with their lines under `hazards` in `PROJECT.json`, each with the
properties that watch it.

## How the modules fit together

    SectorStore <-- FdcTransfer     FdcGeometry          RemoteCall <-- TipiLink    TipiFiles
    FileStore   <-- FatFiles        NameSet <-- FatDirectory            Cards
    LineEditor  <-- TextInput <-EXTENDS- Menu --> MenuPages <-INSTANCE- Keyboard -EXTENDS-> KeyTables
    Paths <-EXTENDS- Startup -EXTENDS-> Cartridge        Tape

`A <-- B` reads: B implements the abstract specification A, checked as a property of B's run.
`Startup` composes the paths with the cartridge and the settings. `Menu` and `Keyboard` meet in
`MenuPages`: the keyboard is checked against a menu that does anything `MenuPages` allows, and
the menu is proved to do no more. `TipiFiles` is checked against any sequence of packets and
resets; `TipiLink` shows that the packets that get there are those the TI has sent.

## Modules

**`FdcTransfer`** is the path of a sector through the disk card. Its variables are grouped as
in the code: `status`, `progress`, `regs` are registers of `fdc1771.v`; `buf`, `imgRd`,
`imgWr`, `ack` the sector buffer and registers of `peb_fdc.v`; `dsel`, `side`, `motor` its
latches; `head`, `rot` the mock drive under the head; `pc` and the locals are `fdc_task`, one
step for each register access, since the gateware runs on between any two of them; `disk`,
`mounted`, `wp`, `open` are the images. `waiting` is the CPU held by the ready line. `history`
records what the current command was issued for and which bytes moved.

 - The CPU's actions are the register accesses: `Command`, `WriteSectorReg`, `SelectDrive`,
   `MotorOn`, `ReadStatus`, `StartAccess`, `TakeByte`, `GiveByte`. The DSR that makes them is a
   ROM file outside the repository: `CpuFree` and `Disciplined` state what it observes (it
   waits for a command to end before it touches anything but data), and the hazards lift that.
 - The chip's are `Rotate` (a header or the index hole passes), the three byte clocks,
   `Request`, `WriteEnds`, `EndTypeI`, `MotorOff`. Clock rates are abstracted: byte clocks and
   headers come in any order, which includes the real one. One exception is named: without the
   hazard `early_header` the header of a sector to be written comes after its data.
 - The firmware's are the steps of `fdc_task`, in order, with its failures (`FailWrite`,
   `EndRead("failed")`) and what it passes over (`SkipDrive`, `NoWrite`).
 - `Menu` mounts and unmounts, between two calls of `fdc_task`; `MenuReset` resets the card
   there too; `Reboot` is the reset button, which restarts the firmware anywhere in `fdc_task`
   while request, acknowledge and mounted registers survive.

`Hazards` chooses which of these a behaviour may contain beyond the disciplined use: `overlap`
(a command while one is in progress), `retarget` (drive, side or sector changed meanwhile),
`reset`, `reboot`, `swap` (a mount under a command), `motor` (the monoflop ends under an
unserved request), `early_header`.

**`SectorStore`** is what a controller promises: an array of sectors and one operation at a
time, which takes effect once or not at all. `FdcTransfer!Store` is the refinement mapping: an
operation is a sector command in progress, and it takes effect when `fdc_task` has done its
work.

**`FdcGeometry`** is the data side: how `fdc_mount` reads a volume information block or guesses
from the file's size, the bytes it keeps, the one shape register that three drives load from,
and `fdc_task`'s 8-bit mapping of cylinder, side and sector to an offset. `Images` are the
files; header fields are free within their widths.

**`TipiLink`** is the way of a message from the TI to `tipi.c` and of the reply back.
`latchTc` to `latchRd` are the four byte latches of `peb_tipi.v`; `rt`, `le`, `dc`, `shift` and
the registers up to `changed` those of `spmmio_tipi.v`; `pc`, `st`, `old` are `tipi_task`, one
step for each register it reads or writes; `accepting`, `packet`, `reply`, `replyTo` abstract
its packet buffer and `reply_state`.

 - The link's actions are one transfer of a byte each, not one bit: `Fetch`, then `FetchedTd`,
   `FetchedTc` or, with bad parity, `FetchFailed`; `Sent` or `SendFailed`, then `Deliver`.
   The byte in the shifter is the one the latch held when it was taken, however long ago.
 - The TI's side is a DSR ROM outside the repository. It loads TD, then TC, waits for RC to
   echo TC, and reads RD. A packet's two length bytes are bytes of the message like others, and
   the low bit of an operation, which tells it from the one before, is chosen freely.
 - A reply is a number that counts its bytes, and names the message it answers. `Heads` are the
   bytes that begin a part (status, payload), each after a synchronisation of its own.
 - `Reset` comes at any moment. `Settled` is an assumption about the TI: it holds the line until
   the firmware has noticed and the bytes on their way have arrived, a few rounds of 24
   microseconds. Without it TLC finds calls that get the old message's echo.

**`RemoteCall`** is what a client may rely on: a message is carried out at most once, whole and
unchanged, and a call does not return before. `TipiLink!Call` maps onto it.

**`FatFiles`** is the part of `fatfs.c` that deals with files once they are found. `fat`, `data`
and `dirent` are the card: the table, the clusters' contents in units of which a block has
`BlockLen`, and of each file the start and size in its directory entry. `fh` are the handles
that callers keep, with `start`, `cur`, `size` and `pos` as in `fatfs_filehandle_t`; `nextFree`
is `fatfs_next_free_cluster`; `op` holds the locals of `fatfs_setsize` and where it stands.

 - `SetPos`, `Read`, `Write` are one step each, as they change no entry of the FAT; `WriteFails`
   leaves any whole number of blocks written. `Advance` keeps the quirk that the next cluster
   is looked up as soon as the last byte of one has been moved, and an error of that lookup
   stays in the handle.
 - `fatfs_setsize` is `SetSize` and then one step for each change of an entry of the FAT:
   `First`, `WalkOn`, `Grow`, `Link`, `CutChain`, `Terminate`, `FreeOne`, and `PutEntry` for
   the directory entry. Each may fail with or without its effect, and `PowerOff` comes between
   any two. Both copies of the FAT are one here, since only the first is ever read.
 - `Hazards`: `alias` (two handles on one file), `far` (a resize while the handle is behind the
   first cluster), `torn` (a failure while a file is truncated to nothing). None is in the run:
   the callers do not do the first two, and the third breaks `ChainsApart`, as `PROJECT.json`
   notes.

**`FileStore`** is what a caller may rely on: a file's contents change where they are written; a
resize that succeeds (`Done`) has given its file the new size and kept what both sizes share; one
that the full volume refuses (`Refused`) has changed nothing; and only one that meets a failure of
the card or a loss of power (`Failed`) may cost contents, those of its own file. `FatFiles!Volume`
maps onto it: a file's contents are read along its chain, and until a resize returns they are what
they were before it.

**`FatDirectory`** is how a name gets into a directory. `slots` is the directory's list of
32-byte entries over all its blocks and clusters, `fixed` tells a FAT16 root, and `op` holds
the locals of `fatfs_search_directory_gap` and `fatfs_create_dir_entry`. `Begin` is the search
for the name and for a gap, which only reads; `Extend`, `Grow`, `Zero` and `Fill` write a block
each, in the code's order, and `Stop` is a failure between them. `Junk` is what a block holds
that was not written as a directory: old contents of a cluster, what lies behind an end mark, a
block of the FAT. Where such an entry begins with a zero it reads as an end mark, so junk
may be either. `Hazards`: `brim` (an entry takes the last slot of the last cluster, the finding
below) and `raw` (a failure while a new cluster is linked and not yet blank).

**`NameSet`** is a set of names that only grows, which is all this firmware does to a
directory.

**`TipiFiles`** is what `tipi.c` does with the packets that `TipiLink` brings. `got_pab`,
`pab_extra`, `handler`, `recno`, `pab` and `save_handle` are the statics of `tipi.c`; `card` is the
files by location, of which the kind (`empty`, `torn`, `foreign`, `program`, `record`, `protected`)
stands for the TIFILES header; `named` and `promised` record what the exchange has named and what
a SAVE has promised. `Packet` is `tipi_got_packet` with all it calls (`tipi_got_pab`,
`tipi_handle_pab`, `tipi_handle_pab_extra`, the load, save, open, close, read, write, status and
delete operations, CONFIG and STATUS); `FilesReset` is `tipi_reset`; `LoadSettings` the configuration
lines. Packets are taken from one set in any order: the name may be a PAB, the data a name.

**`Cards`** is the pair of slots with their latches, `sdcard.c`, and the part of `fatfs.c` that
decides which card a handle means. The driver has one selected slot (`sel`) and one type and count
for each; `fatfs.c` one set of parameters (`geo`) for both. A call is `EnterOpen` or `EnterAccess`
and then a step for each time the driver asks the hardware: `Before`, `Transfer` or `Fails`,
`After`; `FsDone` and `BlockDone` go on with what was read. `Removed` and `Inserted` come between
any two. `Overheard` is the effect of writing the status back (see below).

**`Tape`** is `spmmio_tape.v` and `tape.c`. `Fetch` and `PlayOut` are the player, a word at a time,
with its two positions modulo `Wrap` over `Mem` bytes of sample memory; `Record` the recorder and
its FIFO with the mark of lost bytes; `TakeByte`, `Task` and `ReadDone` one round of `tape_task`,
which waits for the card in `pc = "read"`; `Start` is `tape_start`; `Turn` a motor. A byte of the
file is its offset, so that what is played can be compared with where it came from.

**`Keyboard`** composes the gateware's FIFO and multiplexer with `keyboard_task`, one event at a
time. `Press`, `Release`, `Repeat` and `Rescan` are the keyboards; `Put` is the FIFO with the two
ways it drops an event; `FirstColumn`, `ReadModifiers`, `OtherColumn` are the TI's scan through
`keymatrix.v`, where a synthetic key must come with its modifier; `Task` is `keyboard_task` with
`do_pseudokey`, `toggle_pseudokeys`, `keyboard_block` and `keyboard_unblock`. **`KeyTables`** holds
the tables of `keyboard.c` entry by entry, and from the documentation what is printed on the keys.

**`MenuPages`** is what the keyboard may rely on: how many pages are open, and by how many a key
changes that. **`Menu`** is `menu.c`: `page` and `lines` the window, `cursor_y` the marked line,
`top_entry` and `names` the list of files, `purpose` what a file or name is asked for, `enable`,
`roms`, `marks` the settings and what the page shows of them. `MenuKey` is `menu_key`, `MenuOpen`
`menu_open`; `call` names what the last key had done. It EXTENDS **`TextInput`**, the input of a
name in a window narrower than the line, which implements **`LineEditor`**.

**`Cartridge`** is the cartridge port: `Insert` reads the layout and takes the old cartridge out, in
one step between whose writes nothing can fail; then come the allocation of GROM chips and each
socket's data, of which every file may be the last, and at the end the mode of the bank register;
and how the console sees the ROM through that register. **`Paths`** is `dirpath.c`:
operators for changing a directory by a path, entering a name from the list, and restoring the
handle after a card change. **`Startup`** EXTENDS both: `ConfigInit`, `LoadRomFile` and
`StartConsole` are the start of `main.c`; `Toggle`, `LoadConfig`, `SaveConfig`, `OpenSelector`,
`SwitchCard`, `Browse`, `Select` are what the menu does there; `Move` moves a card, `Restart`
switches the power off and on, and what was saved must be found again. A configuration file is
loaded in two steps, since the console runs meanwhile: `LoadConfig` puts what the file says into
the live `REGS_MISC.enable` (`menu.c:215`), and `Correct` masks what has no ROMs (`menu.c:367-372`);
between them `pc` is "loaded". `Place` is where the file is loaded from and saved to; if the start
found none it always fails, as the code does (see below).

The `MC` modules give values to the constants. Operators marked *(a defect: ...)* are plausible
wrong versions of the operator below them, kept to show that each property notices one.

## Runs

| Run | Question | States |
| --- | --- | --- |
| `FdcDisciplined` | Does a driver that waits for each command read and write the right bytes at the right place, and does the card implement an array of sectors? | 776 thousand |
| `FdcFaults` | Does anybody wait for ever, or a protected disk change, when commands cut each other short, the motor stops, or the box is reset or the firmware restarted in the middle? | 362 thousand |
| `FdcGeometry` | Do gateware and firmware agree on every image's geometry, and do sectors map one-to-one into the file? | 692 |
| `Tipi` | Does a message arrive once and the reply match it, and does every call and reset end, whatever parity and resets do? | 383 thousand |
| `TipiFiles` | Does an exchange touch only what it has named, and is what was saved loaded? | 1.2 million |
| `FatFiles` | Do files keep their clusters and contents, whatever is resized and wherever it fails? | 646 thousand |
| `FatDirectory` | Does a save list its file once, and no other less, wherever it stops? | 5558 |
| `Cards` | Does a transfer reach the card its file is on, and is a card that stays not reported changed? | 4.8 million |
| `Keyboard` | Do keys reach the TI or the menu as they should, with the right character, and let go? | 505 thousand |
| `Menu` | Does the menu show what is so and do what it says? | 172 thousand |
| `Tape` | Is a tape played in order to its end, and recorded with no silent gap? | 1.7 million |
| `Startup` | One cartridge, no board without its ROMs once a load is corrected, paths that lead where their handles do, settings that survive? | 499 thousand |

All properties hold.

Bounds. Two commands in a behaviour of the disk card are enough for every overlap of an old answer
with a new request, as the card has one request register for each direction and the chip one
pending flag. Sectors have two bytes where data matter, so that first, last and wrapped positions
differ, and one where only handshakes do; each byte the CPU writes differs from its neighbour
and from a blank disk. `FdcDisciplined` has two sides, so that the image's track differs from
the cylinder, and a sector number the track lacks. One drive suffices there, since a request
names the drives selected; the three-drive chain is covered by the proofs and by
`FdcGeometry`. `Lead` and `Revs` are one and two: they only delay. `FdcGeometry` has two drives,
as the shape register is shared pairwise, and fifteen files on either side of each test
`fdc_mount` makes. In `Tipi` a message has two bytes, each one of two values, so that a first, a last
and a swapped one differ, and the reply two bytes in two parts; two calls let the second meet what
the first, or a reset in it, has left.

`FatFiles` starts with a file of two clusters, one of which the search for free ones never
reaches, and an empty file; sizes of one and three clusters, positions in the first and second
and behind the end, and five calls, which is enough to grow one file, cut it, and give what it
let go to the other. Four clusters can be allocated, so the volume does become full. One
failure is allowed, before or after which the other calls go on with what it left.
`FatDirectory` has two entries a block and two blocks a cluster, so that an entry of three slots
crosses both, and directories of both kinds with gaps that fit and do not, stale entries behind
the end mark, a mark in the last slot, and none.

`TipiFiles` bounds neither packets nor resets, only the failures of the card, of which one
reaches each error path. Its files differ in device and directory, its contents in length and
bytes. `Cards` has both slots and three cards, of either capacity, one protected and one without a
file system; four moves exchange both cards, or one twice, and each attempt of a transfer is
repeated once before it fails for good. `Keyboard` has all keys of both keyboards but letters
that differ only in their name; three keys, which the tables treat differently, may overlap, and the FIFO holds two
events. `Menu` has lists longer and shorter than the window, with what cannot be chosen at either
end, and a line of text longer than its window. `Tape` has two words to a sector and two sectors
of memory; the positions wrap after two memories. `Startup` has two cards, one move and five
operations: a setting saved, the power off and on, and a cartridge of each kind after another.

Fairness of the disk is weak fairness of the gateware's clocked steps (`Rotate`, byte clocks, chip
steps, the monoflop while the CPU waits), of `fdc_task`, which the main loop calls again and again,
and of the end of a bus access that the ready line has released. Nothing is assumed of the
CPU's decisions, of mounts or of resets; `CommandEnds` assumes that the drive keeps turning, since
without a mounted disk there are no index pulses. For the TIPI, the link and `tipi_task` run weakly
fairly, as does a TI that goes on with its call; strong fairness of `FetchedTd`, `FetchedTc` and
`Sent` says that parity is not wrong for ever, which no retry could mend. For the tape, the player
and the main loop run weakly fairly, and `TapeStops` assumes a motor that stays on.

## What the code does not keep

Where the code breaks a property in a corner, the property is stated, or the run bounded, without
that corner, by name:

 - *Early header.* `fdc1771.v` asks for the transfer of a Write Sector when the header matches
   (320-324) while the data have only begun to arrive, since DRQ follows the command and not the
   header (307-310). If the sector comes round within the byte clocks of the data, the image gets
   what the buffer held before. `Honest` holds where headers come later (hazard `early_header`);
   `AimInv` and the theorem `WritesAimed` do not depend on it.
 - *184320 bytes.* README.md:151 lists such a file as 40 tracks SS/DD; `fdc_mount` takes it for 9
   sectors and 80 tracks, which is DS/SD (`fdc.c:52-55`, `76-77`). `FdcGeometry` has the code's reading.
 - *The last slot.* When the entry of a new file takes the last slot of a directory's last
   cluster, `fatfs_search_directory_gap` has a FAT block in its buffer when it writes the
   directory's last block (`fatfs.c:734-737`, `756-762`); the other entries of that block are
   lost. A FAT16 root is spared, as it is not extended (hazard `brim`).
 - *Truncation.* A file truncated to nothing lets go of its clusters before its entry does
   (`fatfs.c:1323`, hazard `torn`).
 - *Latches of both slots.* `sdcard_status` writes back all the status it has read, and so clears
   the other slot's latch too (`sdcard.c:36`). A card exchanged there in that moment is not noticed
   by its latch; `Overheard` models it; `RightCard` holds all the same, but
   `NoFalseAlarm` speaks of slots where it did not happen.
 - *Ragged tapes.* Samples that end inside a word never let the two positions become equal, and the
   player runs on (`tape.c:87-92`); `TapeStops` is stated without them.
 - *A path that is cut.* A name for which the path buffer has no room is left out or becomes a
   question mark (`dirpath.c:36`), while the handle goes on; `PathsAgree` speaks of the others.
 - *A moment too early.* While a configuration file is loaded from the menu, a board without ROMs
   that the file enables is enabled in the running machine from `menu.c:366` until `367-372` mask
   it. `BoardHasItsRom` leaves that moment out (`pc` is "loaded").
 - *Shadowed settings.* `configfile_save` writes where the start found a place, also when other
   cards have been put in since, but the next start takes the first file it finds in its order of
   places (`configfile.c:115-137`, `170`). `SettingsKept` holds as long as no card has moved since
   the start, and beyond that where no file elsewhere comes first (`Unhidden`).
 - *No place.* README.md:243-244 has the settings saved to MEGA99.CFG, "in the subdirectory MEGA99
   if it exists". If the start finds neither such a file nor such a directory, `config_dirpath` is
   empty, `configfile_load` and `configfile_save` pass no directory (`configfile.c:150-157`,
   `171-177`), and `dirpath_prepare_openat` then takes the file's own name for a directory to change
   to (`dirpath.c:142-162`): that fails whether or not the file is there (a directory of that
   name is left out), so a first save into the root of a card never succeeds. `Place` has it so; `SettingsKept` speaks of saves that succeed.
 - *A save that breaks off* leaves an empty or cut file (`configfile.c:110`), and nothing is
   promised of the settings then; one that fails before leaves those saved earlier, which
   `SettingsKept` includes.
 - *A short ROM file* hides a whole one of the same name in a zip file, which is only looked into
   when there is no file of its own (`main.c:82-99`); `Startup` has it so.
 - *A broken cartridge.* When a file of an RPK cannot be read, what was loaded of it before stays;
   `AsLaidOut` speaks of loads that end well, `OneCartridge` of all.

## Proofs

The modules named `...Proofs` hold for every value of the constants that meets the assumption of
the module they extend: any number of drives, any geometry, messages of any length, any keys,
cards, files, FIFO depths and numbers of steps.

| Theorem | Property | Inductive invariant |
| --- | --- | --- |
| `FdcTransferProofs!TypeCorrect` | `TypeOK` | itself: it has the byte counter within the buffer and `fdc_task` on blocks the image has |
| `...!ProtectedNeverWritten` | `ProtectedUntouched` | `OpenInv`: a drive in service is open and thus mounted; only `CommitWrite` changes a disk |
| `...!WritesAimed` | `NoMisdirectedWrite` | `AimInv`, below |
| `...!RnfOnlyWhenMissing` | `RnfHonest` | `RevolutionInv`: the headers since the first index pulse were of other sectors |
| `...!ReadsDeliver` | `ReadDelivers` | `ServiceInv`, `ReadBufInv`, `ReadInv`, below |
| `...!WritesLand` | `WriteLands` | `ServiceInv`, `WriteInv`, `StageInv`, below |
| `...!CardHonest` | `Honest` | the three theorems above |
| `...!CardImplementsStore` | `ImplementsStore` | `AimInv`, `ServiceInv`, `ReadBufInv` |
| `FatFilesProofs!FilesTypeCorrect` | `TypeOK` | itself: it has that a step of a resize finds a cluster where the code takes one for granted |
| `...!ChainsStayApart` | `ChainsApart` | `HeadsInv`, below |
| `...!VolumeIsSound` | `Sound` | `HeadsInv`, `WalkInv`, `AimInv` |
| `...!NoClusterLost` | `NoLeak` | `HeadsInv`, `WalkInv`, `OwnedInv` |
| `...!VolumeImplementsStore` | `ImplementsStore` | `HeadsInv`, `WalkInv`, `AimInv`, `BeforeInv`, `CutInv`, below |
| `MediaProofs!StaysInImage` | `InImage` | `FitsInv`: tracks times sectors of a mounted image fit its file, even when the count of tracks has been truncated |
| `...!DisksAreTheSame` | `SameDisk` | `DiskInv`: what fdc.c keeps of a drive is derived from a recognised image in it; the sectors are then counted by a bijection |
| `TipiProofs!TypeCorrect` | `TypeOK` | itself: it has what kind of byte (TD, RD, an operation) is in the shifter, which follows from where the link stands |
| `...!Replies` | `ReplyMatches` | `CallInv`, below |
| `...!LinkImplementsCall` | `ImplementsCall` | `CallInv` |
| `...!ExchangesApart` | `Apart` | `ExchangeInv`: before its name a PAB has no handler |
| `...!ChangesOnlyNamed` | `OnlyNamed` | `CardInv`, and a lemma for each operation that writes |
| `...!LoadsWhatWasSaved` | `SavedIsLoaded` | `KeptInv`: a file with a promise is a program and holds what is promised |
| `CardsProofs!TransfersHitTheirCard` | `RightCard` | `CardsInv`, below |
| `...!OnlyTrueAlarms` | `NoFalseAlarm` | `CalmInv`, below |
| `...!DirectoryListsRight` | `ListsRight` | `DirInv`, below |
| `...!DirectoryImplementsNames` | `ImplementsNames` | `DirInv` |
| `KeyboardProofs!ShutOffWhenNeeded` | `BlockedWhenNeeded` | `ModeInv` |
| `...!KeysStayInMenu` | `MenuKeepsKeys` | `ModeInv` |
| `...!SeenWithModifier` | `WithItsModifier` | `MuxInv`: whatever column is selected, a key shown has the modifier that was read |
| `...!SyntheticLetsGo` | `LetsGo` | `KeyInv`: every press in the FIFO is followed by its release, there or still to come, unless that was dropped; and so is the one that made the synthetic key |
| `...!CompleteStays` | `RecordingStays` | `RecordType`: a deck that records has nothing complete |
| `...!GapsAreTold` | `NoSilentGap` | `GapInv`: the bytes since the last of each recording, and since each one in the FIFO, are told of, marked as lost, or waiting there |
| `...!ReelIsPlayed` | `PlaysTheReel` | `PlayInv`, below |
| `MenuProofs!MenuImplementsPages` | `ImplementsPages` | `PagesInv`: a name is asked for only on the main page |
| `...!ScreenTellsTheTruth` | `ScreenTrue` | `EditorInv`, `LinesInv`, below |
| `...!InputImplementsEditor` | `ImplementsEditor` | `EditorInv` |
| `...!KeysDoWhatTheySay` | `DoesWhatItSays` | `LinesInv` |
| `StartupProofs!BoardsHaveTheirRoms` | `BoardHasItsRom` | `RomInv`: the ROMs of the console that have been passed are there |
| `...!PortHoldsOneCartridge` | `OneCartridge` | `CartInv`, below |
| `...!CartridgeIsAsLaidOut` | `AsLaidOut` | `CartInv`, `StageInv`, below |
| `...!PathsLead` | `PathsAgree` | `PathInv`, below |
| `...!SettingsComeBack` | `SettingsKept` | `PathInv`, `KeptInv`, below |

`WritesAimed`, with no hazard of `Disruptive`: a write uses track, side and sector read at
three different times after the request, so `NoMisdirectedWrite` is not inductive. `AimInv`
adds that a request in the card's registers or in `fdc_task`'s hands belongs to the command
in progress, that command, drives, side, head and sector register are still as issued, and
that what `fdc_task` has read of them is current. Each actor keeps it for its own reason:
the CPU because it waits, the chip because it asks once, `fdc_task` because it lets go of the
request before it answers, the menu because it touches none of it.

`CardHonest` puts together what the chip may claim about a sector command. `ServiceInv`: a request is
served for the one drive the command selected, and has at most one outcome. `ReadBufInv`: after it the
sector buffer holds the addressed sector, or 0xff throughout. `ReadInv`: the chip shows the buffer
byte by byte, and without lost data the CPU has taken all but the byte that is waiting. `WriteInv`:
without lost data the buffer holds what the CPU gave, and the header of the sector counts as found
only when the buffer is full. `StageInv`: `fdc_task` copies a buffer that rests. Each part is proved
under only those hazards it needs excluded, so `ReadsDeliver` holds with disks swapped and
`RnfOnlyWhenMissing` with motor stops and resets; `Honest` as a whole is claimed without hazards. For
`CardImplementsStore` the operation of `SectorStore` begins with the command and takes effect in
`CommitWrite` or when the read of the block has succeeded.

About files, `Sound` speaks of whole chains, and no step of a resize can be seen to keep whole
chains apart. What a step keeps is local: no two entries of the table name the same cluster and none
names a free one (`Linked`), and the first cluster of a chain is named by no entry and held by one
file, one handle or the resize under way (`HeadsInv`, in four parts: the table, the directory entries, the
handles and the resize). Two chains that met would then be one chain from the first cluster on, and a
chain that met itself would have a cluster named twice (`ChainsMeet`), which gives
`ChainsApart`; that a chain ends follows from there being finitely many clusters. `WalkInv` says that a resize
is in the chain of its own file, so that the one entry it changes is in nobody else's; `AimInv`
that a handle's current cluster is the one of its position, or an error after a failure. `NoLeak` needs to know who owns a cluster when
no file does: `OwnedInv` has every cluster in use on a chain from a directory entry, from the handle
being resized, or from the cluster the resize is about to link or to free, until a failure.
`BeforeInv` remembers that up to the end of a resize the units the file had are where its entry finds
them, and that none of their clusters is missing before the chain is cut. `WalkInv` counts the blocks that the
walk along the chain has left behind, and `CutInv` concludes that a chain that has been cut is as long as the new size needs: so
a resize that succeeds has kept what both sizes share (`ResizeImplements`), while one that gives up has met a full volume or a
failure. That makes the return of a resize one of the three ends that `FileStore` knows, and every other step of it a stutter.
Two preconditions are the discipline of the callers, as in the run: a file is open once (`alias`) and is
resized only while its handle stands in the first cluster (`far`); the third is the emptying of a file that does not fail in the
middle (`torn`), for which the code gives no guarantee. `ChainsStayApart` and `NoClusterLost` need
no `far`.

Chains are recursive functions over the table. The library's induction theorems take an operator and cannot be used
here, but well-foundedness of the numbers (`NatLessThanWellFounded`, `WFMin`) gives
`Induction`: a set with 0 and with n + 1 for each n in it has every number. All facts about
`Follow` are proved from it, as sets of lengths for which they hold. `MenuProofs!Turns` is the same for a loop with
a last turn.

`TransfersHitTheirCard` needs to know why a stale handle is always noticed. `CardsInv` says: a slot
whose card is activated has that card's type (`Identified`); the count of a slot, which grows
whenever a card is found new, tells the cards apart that handles were opened on (`HandlesTell`); the
parameters are those of the card in the slot used last, unless they are just being read
(`GeoKnown`); and the call under way is aimed with them (`Shape`, `Aimed`). A card that goes and
comes back in the middle of a transfer breaks none of these, since it must be activated again,
and `Answers` guards what a card that has not been would do.
`OnlyTrueAlarms` is the other side, that a card is not given up without need. `CalmInv` says: in a slot
where nothing has failed or moved since its card was noticed, a usable card is awake and a good one
is not marked invalid (`SlotCalm`); a handle whose card has stayed has the slot's count, unless the slot
has failed (`HandleKept`); and in a call, a card that comes in after the latches were looked at is not calm,
while one looked at in block 0 and still there is awake (`CallCalm`).

A directory (the second half of `CardsProofs`, without `brim` and `raw`) is read up to its first end mark, and a save moves
that mark over several blocks. `DirInv` says where it is while it moves. `ExtendInv`: an extension leaves behind it free
slots up to the mark and empty ones from there on, so that the old mark counts until the new one is written; and if the
entries fill up the last cluster they do not end with it, or the lookup of the next cluster would overwrite the block that is
still to be written. `RawInv`: a directory without a mark gets a cluster with slots of which anything may be read, but
nothing of it is an entry, and it is blanked before the save can end. `FillInv`: the gap holds the first of the new
entries, then free slots, then a mark, and the entry that a search starts from comes last. That no name
is listed twice is not inductive either: a search finds a name by its last entry and compares the ones in front of it, so
`Tidy` adds that every last entry has all its others, and a save left half way shows only parts in front of a last entry
that is not there. Two lemmas (`NamesKept`, `NameAdded`) say when two directories list the same, or one name more; the rest is
which slots a step writes, and that a block ends within the directory. Assumed of the directories at first is `Tidy`, and that
nothing but entries is in front of the mark.

`ReelIsPlayed` is arithmetic modulo the memory. `PlayInv` counts what `head` and `tail` are remainders
of: while the player is on, or about to be, there is a total of bytes put in the memory so far such
that `head` is the bytes played and `tail` the total, modulo 2^16; the total is at most a memory ahead; what lies
between is the reel; the position in the file is the one of the total; and a read under way fits in the
room, which can only grow. Nothing is claimed while the player is off: a failed start leaves positions and memory
that belong to no reel. The proof assumes of a WAV file that its data begin inside it, which holds
as their header was read (a chunk length that overflows 32 bits is not modelled).

`Replies` and `LinkImplementsCall` cannot be inductive either: eight latches and registers lie
between the TI's operation and the firmware's echo of it, and a reset leaves any of them with
something old. `CallInv` says what orders them. On its way up an operation follows only the one
before it, and its echo comes back behind both (`ChainInv`), so that an echo seen by the TI has
flushed everything older; a byte of data arrives before its operation (`DataInv`), and RD is in its
latch before the echo that makes it valid (`AnswerInv`, `HeldInv`: this is what holding RC back is
for). The firmware has nothing under way until it has echoed something (`BlankInv`), and does nothing
after a reset before it has noticed its end (`RunInv`, `ResetInv`). With these, what the firmware has
of the message and its reply is at each moment determined by what the TI has (`ClientInv`,
`ServiceInv`, `SyncInv`), and of a message that a reset cuts short while a byte is on its way,
it has exactly the bytes before that one (`LateInv`). `TypeOK` is assumed along the way; the refinement maps the last
byte of a message to `Exec`, each byte the TI puts to `Give`, and the link's steps to stutters.

The menu keeps the place of the cursor in a name as an offset and a column, and chooses lines by their
numbers. `EditorInv` says that offset and column make a place of the text and that the cells of the window
are the text from the offset on; the offset has to be a whole number of steps of 8, or going left from the
first column would take the window past the start, and the cell of a character put at the end is
the only one drawn without the rest of the line and its borders, so it must not reach them. `LinesInv` says that the lines in the
window are those of the open page: the main page's, the settings' with the marks of the settings in force, or,
for a list, the names from `top_entry` on, with the highlight on one that can be chosen if there is one in the
window (`View`), and that what the list or the name is for is what the line said that opened it. `DoesWhatItSays` follows by
comparing the fixed lines with the numbers that `main_menu_select` and `settings_menu_select` test.
That every file of a list can be highlighted is a property of many key presses, proved by a distance: from a view
with the file below the highlight, Down makes lines plus turns of the window between them fewer or arrives (`DownNearer`), and Up
does so from below it (`UpNearer`); the distance is at most twice the length of the list, which is how many
presses `Reached` follows. Two things are assumed of the constants beyond types: the
window has room for a file, and no settings have the bit of >1200 without a TIPI. The second holds of the
defaults (main.c:144) and of all that the menu saves, which is part of `LinesInv`; a configuration file edited by
hand could break it, and the page would then mark >1200 for a TIPI that is disabled.

The cartridge port is proved for any cartridge, whatever its layout says. A load takes the old cartridge out, then
fills GROM chips, units of the ROM memory and the RAM, and may end at every file. `CartInv`: each unit and each
chip in a window of the port is empty or of the cartridge named last, and a window that is mapped has a chip with
its own base, so two windows cannot share one. `StageInv` says of each stage what has been loaded up to it: with GROMs in
their windows before the ROM, the ROM up to what its register selects, and the second ROM over the second bank alone. That the
register can be made narrower without losing a unit is arithmetic of powers of two (`Power`, at most twelve bits). Assumed of
the constants: 3 to 256 banks, which `cartridge_rom.v:39` requires, eight GROM chips or more, and that files have a size.

A path and a handle part in a later step than the one that is to blame, so `PathInv` says it of the two and of the
counts of the cards together: a handle is of a card that is or was in its slot (`Past`), hence one that is of the past
stays so until the power is off, when all handles go; and one whose card is there has the names of its directory behind
the slot (`Leads`). The selector enters a directory by a name it has listed before, of a card that may have been
exchanged since: then the path is marked, and the handle is of the past. `ShownInv` has that the list is of the directory
whose path is kept, and leads up only from below a root. `HomeInv` has that the configuration file stays in one of the
places that `finddir` looks at, by its handle and by its path. `KeptInv` is about `finddir`: with no card moved, or with no other file found first (`SavedFirst`), the settings
are in a place that no other one with a file comes before, so that the next start takes the same file (`OneFirst`), and saving changes no place but that one, because a card is
in one slot and its places are two directories (`PlacesApart`). The start at a place where
there was no file needs the same: no place had one. The loops over names, layouts and GROMs are recursive functions; that
there is one for any number of turns is `LoopRuns`. Assumed of the constants are trees of directories with names other than those of the
slots and of `..`, and that some ROM of the list is the console's.

Only model-checked: the liveness properties (`CpuReleased`, `CommandEnds`, `CallEnds`, `ResetEnds`,
`TapeStops`), which need fairness, and `TypesItsLegend`, which is about the tables
themselves and is checked for every key.

## Not modelled

Instruction execution, picture and sound generation, the GROM address counters and prefetch, the
memory arbiters, overlay layout and fonts, boot and build, vendor primitives and HDMI: pure
functions of their inputs, wiring, or third-party code. XML parsing and inflation are libraries;
their results are members of small sets.

Of what is modelled in part: the DSR ROMs of disk card and TIPI are files outside the repository,
and what a DSR does is an assumption of the modules about them. In the disk path the stepping
states of Type I commands are one action, and head load timing, the CRC bits and several drives
selected at once, which a driver does not do, are left out. `fatfs_read_directory` and the formats
of FAT16 and FAT32 are left out; that the number of a next cluster cannot be read is modelled in
`FatFiles` but not in `FatDirectory`, where the code takes it for the end of the directory. Of the
SD card the SPI bytes are a transfer that works or fails. Of the keyboard the PS/2 frames, CAPS
LOCK and the joysticks are left out, of the tape how a byte becomes sound and `tape_save`, of the
cartridge `mm_save` and the variant of `groms.c` without DMA, of the configuration file the text of
its lines.
