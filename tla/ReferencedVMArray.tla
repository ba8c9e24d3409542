-------------------------- MODULE ReferencedVMArray -------------------------
(***************************************************************************)
(* ReferencedVMArray: a VMArray that the host VM reaches through a cell of *)
(* its own, the referer.  The remembered set, literalsReferences,          *)
(* nativizedMethods, codeCacheObjectReferences and rescuedEphemerons are   *)
(* of this class.  A collection starts by taking the contents from the     *)
(* referer (setUpNonLocals); between collections the host adds to the      *)
(* array it finds there.                                                   *)
(*                                                                         *)
(* ReferencedVMArray::grow also stores the new contents in the referer,    *)
(* but VMArray::grow is not virtual and VMArray::add is inherited: add     *)
(* always calls VMArray::grow, which knows no referer.  The actions below  *)
(* are what the code does.                                                 *)
(***************************************************************************)
EXTENDS VMArray

VARIABLE referer   \* the array the host's cell points to

vars == <<memory, contents, referer>>

(* The host owns an array and the collector has not looked at it yet. *)
Init ==
  /\ VMArrayInit
  /\ referer = contents

(* Mutant: the cell keeps the array it had. *)
EmptyReservingUnshared(n) == EmptyReserving(n) /\ UNCHANGED referer

(* updateReference: the cell follows the contents. *)
ReferencedEmptyReserving(n) ==
  /\ EmptyReserving(n)
  /\ referer' = contents'

(* updateFromReferer, at the start of every collection. *)
UpdateFromReferer ==
  /\ contents' = referer
  /\ UNCHANGED <<memory, referer>>

(* Mutant: the array the host has is overwritten, instead of its cell. *)
UpdateHostArray ==
  /\ memory' = [memory EXCEPT ![referer] = Contents]
  /\ UNCHANGED <<contents, referer>>

(* updateReference, called for rescuedEphemerons after a compaction. *)
UpdateReference ==
  /\ referer' = contents
  /\ UNCHANGED <<memory, contents>>

(* Everything inherited from VMArray leaves the cell alone. *)
Inherited ==
  /\ \/ \E v \in Elements : Add(v)
     \/ \E v \in Elements : AddGrowing(v)
     \/ \E s \in Additions : AddAll(s)
     \/ \E s \in Additions : AddAllGrowing(s)
     \/ Pop
     \/ Reset
     \/ \E i \in 1 .. Size, v \in Elements : AtPut(i, v)
  /\ UNCHANGED referer

Next ==
  \/ \E n \in Reservations : ReferencedEmptyReserving(n)
  \/ UpdateFromReferer
  \/ UpdateReference
  \/ Inherited

Spec == Init /\ [][Next]_vars

-----------------------------------------------------------------------------
(* The array in use, the one the host sees and the ones abandoned by growth *)
(* are arrays of the space.                                                 *)
TypeOK ==
  /\ VMArrayTypeOK
  /\ referer \in 1 .. Len(memory)

(* The host and the collector part company only when the array grows: as    *)
(* long as they use different arrays, the collector's is the larger one.    *)
DetachedOnlyByGrowth ==
  referer # contents => ArraySize(Contents) > ArraySize(memory[referer])

(* An array that the host holds and the collector has left behind is never  *)
(* written again: whatever the collector does to the elements afterwards,   *)
(* the host keeps seeing the state at the moment of growth.                 *)
DetachedIsFrozen ==
  [][referer # contents => memory'[referer] = memory[referer]]_vars

(* A shared array is a sequence too, except when a collection starts: only  *)
(* reading the cell of the host can take elements back that were added, and *)
(* then the array is the one the host has.                                  *)
StepsOfSequence ==
  [][UpdateFromReferer \/ [Sequence!Next]_elements]_vars

(* "their referers need to be updated when the internal content is moved":  *)
(* the host's cell holds the array in use.                                  *)
RefererFollowsContents == referer = contents
=============================================================================
