---------------------------- MODULE MCLocalsKept ----------------------------
(***************************************************************************)
(* Memory with the history of a scavenge: what it has tenured and what its *)
(* shared arrays, the remembered set and the queue, have grown by.  An     *)
(* array that grows is one of these or a local one.                        *)
(***************************************************************************)
EXTENDS MCMemory

VARIABLE kept

Grown == gc'[running]["old"].nextFree - gc[running]["old"].nextFree

HistoryInit == Init /\ kept = 0

HistoryNext ==
  /\ Next
  /\ kept' \in IF pc # "scavenge" THEN {0}
               ELSE IF remaining' # remaining THEN {kept + Grown} ELSE {kept, kept + Grown}

HistorySpec == HistoryInit /\ [][HistoryNext]_<<vars, kept>>

(* "temporary growable arrays, they are discarded when GC finishes": a      *)
(* scavenge leaves in old space what it tenured and the shared arrays.      *)
LocalsDiscarded ==
  pc = "done" /\ running = "flipper" =>
    gc[running]["old"].nextFree = host["old"].nextFree + kept
=============================================================================
