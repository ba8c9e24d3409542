------------------------- MODULE MCMarkAndCompactGC -------------------------
(***************************************************************************)
(* MarkAndCompactGC on small heaps, and what the program notices of it in  *)
(* the terms of ObjectMemory.                                              *)
(***************************************************************************)
EXTENDS MarkAndCompactGC

(* Shapes, for the configurations. *)
Plain(size) == [size |-> size, extended |-> FALSE, weak |-> FALSE, ephemeron |-> FALSE]
Large == [Plain(1) EXCEPT !.extended = TRUE]
Weak(size) == [Plain(size) EXCEPT !.weak = TRUE]
LargeWeak == [Weak(1) EXCEPT !.extended = TRUE]
Ephemeron(size) == [LargeWeak EXCEPT !.size = size, !.ephemeron = TRUE]

PlainAndLarge == 2 :> Plain(1) @@ 6 :> Large
OnePlain == 2 :> Plain(1)
OneEmpty == 2 :> Plain(0)
EphemeronAndWeakKey == 3 :> Ephemeron(1) @@ 6 :> Weak(2)
OneLargeWeak == 3 :> LargeWeak
TwoEphemerons == 3 :> Ephemeron(2) @@ 8 :> Ephemeron(1)

Program == INSTANCE ObjectMemory WITH
  Identities <- 1 .. Cardinality(PlacedObjects),
  SlotNames  <- -1 .. NumSlots - 1,
  Roots      <- RootLocations \cup {Association},
  Offsets    <- {},
  graph      <- seen.graph,
  roots      <- seen.roots,
  code       <- << >>,
  rescued    <- seen.rescued

(* What the program notices of a compaction: what it reaches strongly is    *)
(* there with its slots, weak references to what died are tombstones,       *)
(* ephemerons whose key died are queued and become ordinary objects.        *)
StepsOfObjectMemory == [][Program!Next]_(Program!vars)

(* A compaction leaves no garbage: a weak slot, an ephemeron whose key died *)
(* or a dead object does not keep anything alive, whatever the order in     *)
(* which the traversal met them.                                            *)
NothingFloats ==
  pc = "mutator" /\ collections > ops =>
    \A id \in DOMAIN seen.graph : ~Program!Dying(id)

(* Every compaction ends: the scans with their stack, the passes over       *)
(* ephemerons and the walks over the lists.                                 *)
CompactionEnds == pc = "unmarkRememberedSet" ~> pc = "mutator"
=============================================================================
