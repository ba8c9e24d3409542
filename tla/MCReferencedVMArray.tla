------------------------ MODULE MCReferencedVMArray -------------------------
(***************************************************************************)
(* Model of VMArray and ReferencedVMArray: one array shared with the host, *)
(* reserved with 1 or 2 slots, so that add and addAll exceed it.           *)
(***************************************************************************)
EXTENDS ReferencedVMArray

CONSTANTS a, b

MCElements == {a, b}
MCAdditions == {<<a>>, <<b, a, a>>}
=============================================================================
