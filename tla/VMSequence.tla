----------------------------- MODULE VMSequence -----------------------------
(***************************************************************************)
(* What the collectors rely on when they use a VMArray: a growable         *)
(* sequence.  No capacity, no growth, no storage: only the elements.       *)
(***************************************************************************)
EXTENDS Integers, Sequences

CONSTANTS
  Elements,   \* the values that can be stored
  Additions   \* the arrays that can be appended

VARIABLE elements    \* the sequence, oldest element first

Init == elements = << >>

(* push and add append at the end. *)
Push(v) == elements' = Append(elements, v)

(* addAll appends a whole array. *)
PushAll(s) == elements' = elements \o s

(* pop takes the newest element away. *)
Pop ==
  /\ elements # << >>
  /\ elements' = SubSeq(elements, 1, Len(elements) - 1)

(* reset and emptyReserving leave nothing. *)
Clear == elements' = << >>

(* An assignment through operator[]. *)
Put(i, v) == elements' = [elements EXCEPT ![i] = v]

Next ==
  \/ \E v \in Elements : Push(v)
  \/ \E s \in Additions : PushAll(s)
  \/ Pop
  \/ Clear
  \/ \E i \in 1 .. Len(elements), v \in Elements : Put(i, v)

Spec == Init /\ [][Next]_elements
=============================================================================
