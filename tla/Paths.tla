------------------------------- MODULE Paths -------------------------------
(***************************************************************************)
(* Directories with the path that leads to them (dirpath.c): the file      *)
(* selector, the configuration file and the TIPI keep both, the handle for *)
(* as long as the card stays and the path for the time after.              *)
(*                                                                         *)
(* A path is <<>>, the empty string, or the slot of a card and the names   *)
(* of directories.  A name is one value, whatever its length, and Deep     *)
(* stands for the length of a path buffer.                                 *)
(***************************************************************************)
EXTENDS Naturals, Sequences, SequencesExt

CONSTANTS Slots,   \* card slots: sd0, the external one, and sd1
          Deep,    \* names in a path
          Cards,   \* the cards at hand
          NoCard,  \* an empty slot
          Tree     \* Tree[c]: the directories of card c, as sequences of names

Nowhere == "nowhere"  \* where a handle leads whose first cluster is 0

ASSUME PathsAssumption ==
  /\ Deep \in Nat /\ NoCard \notin Cards /\ "sd0" \in Slots /\ Slots \cap {"..", "/", "?"} = {}
  /\ Tree \in [Cards -> SUBSET Seq(STRING)]
  /\ \A c \in Cards : <<>> \in Tree[c] /\ \A d \in Tree[c] : Len(d) > 0 => Front(d) \in Tree[c]
  /\ \A c \in Cards : \A d \in Tree[c] : Range(d) \cap (Slots \cup {"..", "/", "?", "closed"}) = {}
  /\ \A c \in Cards : Nowhere \notin Tree[c]

VARIABLES
  card,  \* card[s]: the card in slot s
  id,    \* id[s]: the cards slot s has seen
  sel    \* sd_select, the slot of the last access

(***************************************************************************)
(* A handle of a directory: the slot and the count of its card id, and     *)
(* where the directory is.                                                 *)
(***************************************************************************)
NoHandle == [slot |-> "sd0", id |-> 0, dir |-> Nowhere]
NoPath == [fh |-> NoHandle, path |-> <<>>]

Valid(fh) == card[fh.slot] # NoCard /\ id[fh.slot] = fh.id
Root(s) == [slot |-> s, id |-> id[s], dir |-> <<>>]
Handles == [slot : Slots, id : Nat, dir : UNION {Tree[c] : c \in Cards} \cup {Nowhere}]

\* The entry .. of a directory in the root has 0 for a first cluster.
Enter(fh, name) ==
  [fh EXCEPT !.dir = IF name # ".." THEN Append(@, name)
                     ELSE IF Len(@) = 1 THEN Nowhere ELSE Front(@)]

Exists(fh, name) ==
  /\ Valid(fh) /\ fh.dir # Nowhere
  /\ IF name = ".." THEN fh.dir # <<>> ELSE Append(fh.dir, name) \in Tree[card[fh.slot]]

\* A name that could not be read, or found no room.
Lost(path) == IF Len(path) > Deep THEN path ELSE Append(path, "?")

\* The path without its last name; the slot stays.
Shorter(path) == IF Len(path) > 1 THEN Front(path) ELSE path

\* Names beyond the end of the buffer are left out.
Longer(path, name) == IF Len(path) > Deep THEN path ELSE Append(path, name)

(***************************************************************************)
(* dirpath_chdir: the names of the path one by one.  Who calls it has the  *)
(* result: whether it succeeded, the directory reached, and the slot.      *)
(***************************************************************************)
Down(step, name) ==
  IF ~step.ok \/ ~Exists(step.dp.fh, name) THEN [step EXCEPT !.ok = FALSE]
  ELSE [step EXCEPT !.dp =
          [fh |-> Enter(@.fh, name),
           path |-> IF name = ".." THEN Shorter(@.path) ELSE Longer(@.path, name)]]

FromRoot(s) == [ok |-> card[s] # NoCard, sel |-> s, dp |-> [fh |-> Root(s), path |-> <<s>>]]

Chdir(dp, path) ==
  LET s == IF path # <<>> /\ path[1] \in Slots THEN path[1]
           ELSE IF dp.path # <<>> THEN dp.path[1] ELSE sel
      absolute == path # <<>> /\ path[1] \in Slots \cup {"/"}
      first == IF absolute \/ dp.path = <<>> THEN FromRoot(s)
               ELSE [ok |-> TRUE, sel |-> s, dp |-> dp]
      names == IF absolute THEN Tail(path) ELSE path
      down[n \in 0..Len(names)] == IF n = 0 THEN first ELSE Down(down[n - 1], names[n])
  IN  down[Len(names)]

(***************************************************************************)
(* dirpath_restore: the handle, if it still is one, or the path again.     *)
(***************************************************************************)
Restore(old) ==
  IF old.fh.dir # Nowhere /\ Valid(old.fh)
  THEN [ok |-> TRUE, sel |-> old.fh.slot, dp |-> old]
  ELSE Chdir(NoPath, old.path)

(***************************************************************************)
(* dirpath_subdir: into a directory that the selector shows, a name which  *)
(* is read from the card once more, for the path.                          *)
(***************************************************************************)
Subdir(dp, fh, name) ==
  [fh |-> fh,
   path |-> IF ~Valid(fh) \/ Len(dp.path) > Deep THEN Lost(dp.path)
            ELSE IF name = ".." THEN Shorter(dp.path) ELSE Append(dp.path, name)]

(***************************************************************************)
(* The path of a directory leads to it, as long as its card is there and   *)
(* every name was read and found room.                                     *)
(***************************************************************************)
Agrees(dp) ==
  Valid(dp.fh) /\ dp.fh.dir # Nowhere /\ Len(dp.path) <= Deep /\ "?" \notin Range(dp.path) =>
    dp.path = <<dp.fh.slot>> \o dp.fh.dir
=============================================================================
