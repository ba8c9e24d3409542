------------------------------ MODULE VMArray -------------------------------
(***************************************************************************)
(* VMArray: the growable arrays of the collectors (traversal stack,        *)
(* ephemerons, unknowns, weakContainers and, through ReferencedVMArray,    *)
(* the remembered set and the other arrays shared with the host VM).       *)
(*                                                                         *)
(* The contents of a VMArray is an ordinary Smalltalk array of the heap.   *)
(* Its slot 0 holds a small integer from which the number of elements is   *)
(* computed, the elements are in the slots from 1 on.  An array never      *)
(* shrinks in place: growing copies it to a larger one and leaves the old  *)
(* one behind in the space it was allocated from.                          *)
(***************************************************************************)
EXTENDS Integers, Sequences

CONSTANTS
  Elements,      \* values stored in the arrays
  Nil,           \* KnownObjects::nil, what fresh slots hold
  Reservations,  \* sizes passed to emptyReserving
  Additions,     \* arrays passed to addAll
  MaxArrays,     \* bound: arrays allocated in the space
  MaxSize        \* bound: elements in the array

ASSUME NilAssumption == Nil \notin Elements
ASSUME ReservationsAssumption == Reservations \subseteq Nat \ {0}
ASSUME AdditionsAssumption == Additions \subseteq Seq(Elements)

VARIABLES
  memory,    \* the arrays allocated so far in the space, in allocation order
  contents   \* position in memory of the array in use

vmArrayVars == <<memory, contents>>

(* An array object: slot(0) and the slots from 1 on. *)
Array == [slot0 : Int, slots : Seq(Elements \cup {Nil})]

(* oop_t::_size() of an array. *)
ArraySize(array) == Len(array.slots) + 1

(* VMArray::size() of an array: nextFree() is slot(0) - 1, size() one less. *)
NumberOfElements(array) == array.slot0 - 2

Contents == memory[contents]
Size == NumberOfElements(Contents)

(* Mutant: the last slot is not copied. *)
CopyButLast(array, newSize) ==
  [slot0 |-> array.slot0,
   slots |-> [i \in 1 .. newSize - 1 |->
                IF i < ArraySize(array) - 1 THEN array.slots[i] ELSE Nil]]

(* GCSpace::shallowCopyGrowingTo: the copy has the slots of the array and   *)
(* is filled with nil up to its new size.                                   *)
ShallowCopyGrowingTo(array, newSize) ==
  [slot0 |-> array.slot0,
   slots |-> [i \in 1 .. newSize - 1 |->
                IF i < ArraySize(array) THEN array.slots[i] ELSE Nil]]

(* A fresh array of n slots holding no element: emptyReserving copies       *)
(* KnownObjects::emptyArray and emptyWith sets the size to 0.               *)
EmptyArray(n) == [slot0 |-> 2, slots |-> [i \in 1 .. n - 1 |-> Nil]]

(* The array with v written after its last element. *)
WithAdded(array, v) ==
  [slot0 |-> array.slot0 + 1,
   slots |-> [array.slots EXCEPT ![NumberOfElements(array) + 1] = v]]

(* Mutant: the first addition lands on the last element. *)
WithAllAddedTooLow(array, s) ==
  [slot0 |-> array.slot0 + Len(s) - 1,
   slots |-> [i \in 1 .. Len(array.slots) |->
                IF i \in NumberOfElements(array) .. NumberOfElements(array) + Len(s) - 1
                THEN s[i - NumberOfElements(array) + 1]
                ELSE array.slots[i]]]

(* The slots written when the elements of s are added one by one. *)
WithAllAdded(array, s) ==
  [slot0 |-> array.slot0 + Len(s),
   slots |-> [i \in 1 .. Len(array.slots) |->
                IF i \in NumberOfElements(array) + 1 .. NumberOfElements(array) + Len(s)
                THEN s[i - NumberOfElements(array)]
                ELSE array.slots[i]]]

(* Mutant: one element too many fits. *)
GrowTooLate == Size + 1 > ArraySize(Contents)

(* The guards of add() and addAll(). *)
MustGrow == Size + 1 >= ArraySize(Contents)
MustGrowFor(s) == Size + Len(s) >= ArraySize(Contents)

(* Bound of the model, not of the code: the space is not exhausted. *)
CanAllocate == Len(memory) < MaxArrays

(* The array in use becomes a newly allocated one. *)
Replace(array) ==
  /\ CanAllocate
  /\ memory' = Append(memory, array)
  /\ contents' = Len(memory) + 1

(* The array in use is written in place. *)
Update(array) ==
  /\ memory' = [memory EXCEPT ![contents] = array]
  /\ UNCHANGED contents

-----------------------------------------------------------------------------
(* An array owner starts with emptyReserving. *)
VMArrayInit ==
  /\ \E n \in Reservations : memory = <<EmptyArray(n)>>
  /\ contents = 1

EmptyReserving(n) == Replace(EmptyArray(n))

Add(v) ==
  /\ Size < MaxSize
  /\ ~MustGrow
  /\ Update(WithAdded(Contents, v))

(* add() when the array is full: grow() doubles it, then v is written. *)
AddGrowing(v) ==
  /\ Size < MaxSize
  /\ MustGrow
  /\ Replace(WithAdded(ShallowCopyGrowingTo(Contents, 2 * ArraySize(Contents)), v))

AddAll(s) ==
  /\ Size + Len(s) <= MaxSize
  /\ ~MustGrowFor(s)
  /\ Update(WithAllAdded(Contents, s))

(* addAll() when the array is too small: grow(needed) adds needed slots. *)
AddAllGrowing(s) ==
  /\ Size + Len(s) <= MaxSize
  /\ MustGrowFor(s)
  /\ Replace(WithAllAdded(ShallowCopyGrowingTo(Contents, ArraySize(Contents) + Len(s)), s))

(* Mutant: an empty array is popped. *)
PopUntested == Update([Contents EXCEPT !.slot0 = @ - 1])

(* pop() does not clear the slot it reads.  Every caller tests isEmpty()    *)
(* before it pops.                                                          *)
Pop ==
  /\ Size # 0
  /\ Update([Contents EXCEPT !.slot0 = @ - 1])

Reset == Update([Contents EXCEPT !.slot0 = 2])

(* An element is overwritten through operator[]. *)
AtPut(i, v) == Update([Contents EXCEPT !.slots[i] = v])

VMArrayNext ==
  \/ \E n \in Reservations : EmptyReserving(n)
  \/ \E v \in Elements : Add(v)
  \/ \E v \in Elements : AddGrowing(v)
  \/ \E s \in Additions : AddAll(s)
  \/ \E s \in Additions : AddAllGrowing(s)
  \/ Pop
  \/ Reset
  \/ \E i \in 1 .. Size, v \in Elements : AtPut(i, v)

VMArraySpec == VMArrayInit /\ [][VMArrayNext]_vmArrayVars

-----------------------------------------------------------------------------
(* Types.  The smi in slot 0 of an array in use encodes a size that is      *)
(* never negative: pop() is only called on an array that is not empty.      *)
VMArrayTypeOK ==
  /\ memory \in Seq([slot0 : Nat \ {0, 1}, slots : Seq(Elements \cup {Nil})])
  /\ contents \in 1 .. Len(memory)

(* No element is ever outside the array object that holds it: add() grows   *)
(* before slot(size + 1) would fall behind the last slot, where it would    *)
(* overwrite the header of the next object of the space.                    *)
ElementsWithinContents == Size < ArraySize(Contents)

(* The elements are never slots that nobody wrote: slots 1 .. size hold     *)
(* values that were added, not the nil padding of a copy.                   *)
ElementsWereAdded == \A i \in 1 .. Size : Contents.slots[i] # Nil

(* The sequence a VMArray stands for. *)
elements == [i \in 1 .. Size |-> Contents.slots[i]]

Sequence == INSTANCE VMSequence

(* A VMArray is a sequence: growing, copying and the size kept in slot 0    *)
(* are invisible to whoever pushes, pops and indexes.                       *)
ImplementsSequence == Sequence!Spec
=============================================================================
