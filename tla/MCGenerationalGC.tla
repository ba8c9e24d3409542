-------------------------- MODULE MCGenerationalGC --------------------------
(***************************************************************************)
(* Models of the scavenger.  The program sees its objects as ObjectMemory  *)
(* says: while a collection runs, as they were when it began.              *)
(***************************************************************************)
EXTENDS GenerationalGC

Program == INSTANCE ObjectMemory WITH
  Identities <- 1 .. SemiSize + OldSize,
  SlotNames  <- -1 .. NumSlots - 1,
  Roots      <- 0 .. NumRoots - 1,
  Offsets    <- 0 .. NumOffsets - 1,
  graph      <- seen.graph,
  roots      <- seen.roots,
  code       <- seen.code,
  rescued    <- seen.rescued

(* A whole scavenge, from collect() to its return, is one step the program  *)
(* can hardly notice: what it reaches strongly survives with its slots,     *)
(* weak references to what died are tombstones, ephemerons whose key died   *)
(* are queued and become ordinary objects.                                  *)
ImplementsObjectMemory == Program!Spec
=============================================================================
