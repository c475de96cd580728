----------------------------- MODULE FileStore -----------------------------
(***************************************************************************)
(* What the file system promises its callers: each file holds a sequence   *)
(* of units. Writing changes units of one file where they stand. A resize  *)
(* that is done has given its file the new size and kept what both sizes   *)
(* share; one that is refused, the volume being full, has changed nothing; *)
(* only one that meets a failure of the card, or is cut off, may cost the  *)
(* contents of its file. No other file ever changes. FatFiles implements   *)
(* this specification.                                                     *)
(***************************************************************************)
EXTENDS Naturals, Sequences

CONSTANTS Files,
          Unit(_, _),  \* what is written at a position of a file
          None         \* no resize is under way

VARIABLES
  file,    \* of each file, the set of its contents, which is empty if they are lost
  resize,  \* the resize under way: [file, size], or None
  faults,  \* failures so far
  full     \* whether the volume has been found full

vars == <<file, resize, faults, full>>

Init ==
  /\ DOMAIN file = Files /\ \A f \in Files : file[f] # {}
  /\ resize = None /\ faults = 0 /\ full = FALSE

Only(f) == \A g \in Files \ {f} : file'[g] = file[g]

Put(f, old, new) ==
  /\ Len(new) = Len(old)
  /\ \A i \in DOMAIN old : new[i] \in {old[i], Unit(f, i - 1)}

Write(f) ==
  /\ resize = None /\ UNCHANGED resize
  /\ Only(f) /\ \E old \in file[f], new \in file'[f] : Put(f, old, new)

Begin ==
  resize = None /\ resize' \in [file : Files, size : Nat] /\ UNCHANGED file

\* What both sizes share.
Kept(old, new) == \A i \in DOMAIN old \cap DOMAIN new : new[i] = old[i]

End(f) ==
  /\ resize # None /\ f = resize.file /\ resize' = None
  /\ Only(f) /\ \A old \in file[f], new \in file'[f] : Kept(old, new)

Done(f) ==
  /\ End(f) /\ UNCHANGED faults
  /\ file'[f] # {} /\ \A new \in file'[f] : DOMAIN new = 1..resize.size

\* Contents that are lost already may turn into any others.
Refused(f) ==
  /\ End(f) /\ UNCHANGED faults /\ (full' \/ faults > 0)
  /\ file[f] # {} => file'[f] # {}
  /\ \A old \in file[f], new \in file'[f] : DOMAIN new = DOMAIN old

Failed(f) == End(f) /\ faults' = faults + 1

\* The card fails, or the volume is full, at any other moment.
Meanwhile == UNCHANGED <<file, resize>>

Next ==
  /\ faults' \in {faults, faults + 1} /\ (full => full')
  /\ \/ Begin \/ Meanwhile
     \/ \E f \in Files : Write(f) \/ Done(f) \/ Refused(f) \/ Failed(f)

Spec == Init /\ [][Next]_vars
=============================================================================
