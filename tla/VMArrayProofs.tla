--------------------------- MODULE VMArrayProofs ----------------------------
(***************************************************************************)
(* Theorems about VMArray: types, elements never outside the array object, *)
(* and the refinement of VMSequence; and about ReferencedVMArray, the array*)
(* shared with the host VM.                                                *)
(***************************************************************************)
EXTENDS ReferencedVMArray, SequenceTheorems, TLAPS

(* An array whose slot 0 encodes a size that its slots can hold. *)
ProperArray(array) ==
  /\ array \in [slot0 : Nat \ {0, 1}, slots : Seq(Elements \cup {Nil})]
  /\ NumberOfElements(array) <= Len(array.slots)
  /\ \A i \in 1 .. NumberOfElements(array) : array.slots[i] \in Elements

(* The inductive invariant: every array ever used is proper, the abandoned  *)
(* ones too.                                                                *)
Inv ==
  /\ memory \in Seq([slot0 : Nat \ {0, 1}, slots : Seq(Elements \cup {Nil})])
  /\ contents \in 1 .. Len(memory)
  /\ \A k \in 1 .. Len(memory) : ProperArray(memory[k])

(* A function on 1 .. n is a sequence of length n. *)
LEMMA FunctionIsSeq ==
  ASSUME NEW S, NEW n \in Nat, NEW f \in [1 .. n -> S]
  PROVE  f \in Seq(S) /\ Len(f) = n
<1>1. f \in Seq(S)
  BY SeqDef
<1>2. 1 .. Len(f) = 1 .. n /\ Len(f) \in Nat
  BY <1>1, LenProperties
<1>3. QED
  BY <1>1, <1>2

(* emptyReserving: a fresh array is proper and has no elements. *)
LEMMA EmptyArrayProper ==
  ASSUME NEW n \in Reservations
  PROVE  ProperArray(EmptyArray(n))
<1>1. n - 1 \in Nat
  BY ReservationsAssumption
<1>2. /\ [i \in 1 .. n - 1 |-> Nil] \in Seq(Elements \cup {Nil})
      /\ Len([i \in 1 .. n - 1 |-> Nil]) = n - 1
  BY <1>1, FunctionIsSeq
<1>3. QED
  BY <1>1, <1>2 DEF ProperArray, EmptyArray, NumberOfElements

(* Copying to a larger array keeps it proper and keeps its elements. *)
LEMMA GrowingProper ==
  ASSUME NEW array, ProperArray(array),
         NEW n \in Nat, n >= ArraySize(array)
  PROVE  /\ ProperArray(ShallowCopyGrowingTo(array, n))
         /\ ArraySize(ShallowCopyGrowingTo(array, n)) = n
         /\ ShallowCopyGrowingTo(array, n).slot0 = array.slot0
         /\ \A i \in 1 .. NumberOfElements(array) :
              ShallowCopyGrowingTo(array, n).slots[i] = array.slots[i]
<1> DEFINE grown == [i \in 1 .. n - 1 |->
                       IF i < ArraySize(array) THEN array.slots[i] ELSE Nil]
<1>1. Len(array.slots) \in Nat /\ n - 1 \in Nat /\ n - 1 >= Len(array.slots)
  BY DEF ProperArray, ArraySize
<1>2. \A i \in 1 .. n - 1 : i < ArraySize(array) => i \in 1 .. Len(array.slots)
  BY <1>1 DEF ArraySize
<1>3. \A i \in 1 .. n - 1 : grown[i] \in Elements \cup {Nil}
  BY <1>1, <1>2 DEF ProperArray
<1>4. grown \in Seq(Elements \cup {Nil}) /\ Len(grown) = n - 1
  BY <1>1, <1>3, FunctionIsSeq
<1>5. ShallowCopyGrowingTo(array, n) = [slot0 |-> array.slot0, slots |-> grown]
  BY DEF ShallowCopyGrowingTo
<1>6. \A i \in 1 .. NumberOfElements(array) : grown[i] = array.slots[i]
  BY <1>1 DEF ProperArray, NumberOfElements, ArraySize
<1> HIDE DEF grown
<1>7. QED
  BY <1>1, <1>4, <1>5, <1>6 DEF ProperArray, NumberOfElements, ArraySize

(* add() into an array with room for one more element. *)
LEMMA WithAddedProper ==
  ASSUME NEW array, ProperArray(array), NEW v \in Elements,
         NumberOfElements(array) < Len(array.slots)
  PROVE  /\ ProperArray(WithAdded(array, v))
         /\ ArraySize(WithAdded(array, v)) = ArraySize(array)
         /\ NumberOfElements(WithAdded(array, v)) = NumberOfElements(array) + 1
         /\ \A i \in 1 .. NumberOfElements(array) + 1 :
              WithAdded(array, v).slots[i] =
                IF i = NumberOfElements(array) + 1 THEN v ELSE array.slots[i]
<1> DEFINE n == NumberOfElements(array) + 1
           new == [array.slots EXCEPT ![n] = v]
<1>1. /\ array.slot0 \in Nat /\ array.slot0 >= 2
      /\ array.slots \in Seq(Elements \cup {Nil})
  BY DEF ProperArray
<1>2. n \in 1 .. Len(array.slots)
  BY <1>1 DEF NumberOfElements
<1>3. /\ new \in Seq(Elements \cup {Nil}) /\ Len(new) = Len(array.slots)
      /\ \A i \in 1 .. Len(array.slots) : new[i] = IF i = n THEN v ELSE array.slots[i]
  BY <1>1, <1>2, ExceptSeq
<1>4. WithAdded(array, v) = [slot0 |-> array.slot0 + 1, slots |-> new]
  BY DEF WithAdded
<1>5. \A i \in 1 .. n : i \in 1 .. Len(array.slots)
  BY <1>1, <1>2
<1> HIDE DEF new
<1>6. QED
  BY <1>1, <1>2, <1>3, <1>4, <1>5 DEF ProperArray, NumberOfElements, ArraySize

(* addAll() into an array with room for all of them. *)
LEMMA WithAllAddedProper ==
  ASSUME NEW array, ProperArray(array), NEW s \in Additions,
         NumberOfElements(array) + Len(s) <= Len(array.slots)
  PROVE  /\ ProperArray(WithAllAdded(array, s))
         /\ ArraySize(WithAllAdded(array, s)) = ArraySize(array)
         /\ NumberOfElements(WithAllAdded(array, s)) = NumberOfElements(array) + Len(s)
         /\ \A i \in 1 .. NumberOfElements(array) + Len(s) :
              WithAllAdded(array, s).slots[i] =
                IF i <= NumberOfElements(array) THEN array.slots[i]
                                                ELSE s[i - NumberOfElements(array)]
<1> DEFINE n == NumberOfElements(array)
           new == [i \in 1 .. Len(array.slots) |->
                     IF i \in n + 1 .. n + Len(s) THEN s[i - n] ELSE array.slots[i]]
<1>1. /\ array.slot0 \in Nat /\ array.slot0 >= 2
      /\ array.slots \in Seq(Elements \cup {Nil})
      /\ Len(array.slots) \in Nat
  BY DEF ProperArray
<1>2. s \in Seq(Elements) /\ Len(s) \in Nat /\ n \in Nat
  BY <1>1, AdditionsAssumption DEF NumberOfElements
<1>3. \A i \in n + 1 .. n + Len(s) : i - n \in 1 .. Len(s)
  BY <1>2
<1>4. new \in [1 .. Len(array.slots) -> Elements \cup {Nil}]
  BY <1>1, <1>2, <1>3
<1>5. new \in Seq(Elements \cup {Nil}) /\ Len(new) = Len(array.slots)
  BY <1>1, <1>4, FunctionIsSeq
<1>6. WithAllAdded(array, s) = [slot0 |-> array.slot0 + Len(s), slots |-> new]
  BY DEF WithAllAdded
<1>7. \A i \in 1 .. n + Len(s) : new[i] = IF i <= n THEN array.slots[i] ELSE s[i - n]
  BY <1>1, <1>2
<1>8. \A i \in 1 .. n + Len(s) : new[i] \in Elements
  BY <1>2, <1>3, <1>7 DEF ProperArray
<1> HIDE DEF new
<1>9. QED
  BY <1>1, <1>2, <1>5, <1>6, <1>7, <1>8 DEF ProperArray, NumberOfElements, ArraySize

-----------------------------------------------------------------------------
(* The two ways the state changes keep the invariant when the array that is *)
(* stored is proper.                                                        *)
LEMMA ReplacePreservesInv ==
  ASSUME Inv, NEW array, ProperArray(array), Replace(array)
  PROVE  Inv' /\ Contents' = array
<1>1. /\ memory' \in Seq([slot0 : Nat \ {0, 1}, slots : Seq(Elements \cup {Nil})])
      /\ Len(memory') = Len(memory) + 1
      /\ memory'[Len(memory) + 1] = array
      /\ \A k \in 1 .. Len(memory) : memory'[k] = memory[k]
  BY AppendProperties DEF Inv, Replace, ProperArray
<1>2. \A k \in 1 .. Len(memory') : k = Len(memory) + 1 \/ k \in 1 .. Len(memory)
  <2>1. Len(memory) \in Nat
    BY LenProperties DEF Inv
  <2>2. QED
    BY <1>1, <2>1
<1>3. \A k \in 1 .. Len(memory') : ProperArray(memory'[k])
  BY <1>1, <1>2 DEF Inv
<1>4. contents' \in 1 .. Len(memory') /\ contents' = Len(memory) + 1
  BY <1>1, LenProperties DEF Inv, Replace
<1>5. QED
  BY <1>1, <1>3, <1>4 DEF Inv, Contents

LEMMA UpdatePreservesInv ==
  ASSUME Inv, NEW array, ProperArray(array), Update(array)
  PROVE  Inv' /\ Contents' = array
<1>1. /\ memory' \in Seq([slot0 : Nat \ {0, 1}, slots : Seq(Elements \cup {Nil})])
      /\ Len(memory') = Len(memory)
      /\ \A k \in 1 .. Len(memory) :
           memory'[k] = IF k = contents THEN array ELSE memory[k]
  BY ExceptSeq DEF Inv, Update, ProperArray
<1>2. \A k \in 1 .. Len(memory') : ProperArray(memory'[k])
  BY <1>1 DEF Inv
<1>3. QED
  BY <1>1, <1>2 DEF Inv, Update, Contents

(* The array in use, spelled out. *)
LEMMA ContentsProper ==
  ASSUME Inv
  PROVE  /\ ProperArray(Contents)
         /\ Size \in Nat
         /\ Len(Contents.slots) \in Nat
         /\ ArraySize(Contents) = Len(Contents.slots) + 1
         /\ Size <= Len(Contents.slots)
<1>1. contents \in 1 .. Len(memory) /\ ProperArray(memory[contents])
  BY DEF Inv
<1>2. ProperArray(Contents)
  BY <1>1 DEF Contents
<1>3. /\ Contents.slot0 \in Nat \ {0, 1}
      /\ Contents.slots \in Seq(Elements \cup {Nil})
      /\ Size <= Len(Contents.slots)
  BY <1>2 DEF ProperArray, Size
<1>4. Size \in Nat
  BY <1>3 DEF Size, NumberOfElements
<1>5. Len(Contents.slots) \in Nat
  BY <1>3, LenProperties
<1>6. QED
  BY <1>2, <1>3, <1>4, <1>5 DEF ArraySize

(* What each operation stores in the array in use. *)
EffectOf(array) == Inv' /\ Contents' = array

LEMMA AddEffect ==
  ASSUME Inv, NEW v \in Elements, Add(v)
  PROVE  EffectOf(WithAdded(Contents, v)) /\ Size < Len(Contents.slots)
<1>1. Size < Len(Contents.slots)
  BY ContentsProper DEF Add, MustGrow
<1>2. ProperArray(WithAdded(Contents, v))
  BY <1>1, ContentsProper, WithAddedProper DEF Size
<1>3. QED
  BY <1>1, <1>2, UpdatePreservesInv DEF Add, EffectOf

LEMMA AddGrowingEffect ==
  ASSUME Inv, NEW v \in Elements, AddGrowing(v)
  PROVE  LET grown == ShallowCopyGrowingTo(Contents, 2 * ArraySize(Contents))
         IN  EffectOf(WithAdded(grown, v)) /\ Size < Len(grown.slots)
<1> DEFINE grown == ShallowCopyGrowingTo(Contents, 2 * ArraySize(Contents))
<1>1. 2 * ArraySize(Contents) \in Nat /\ 2 * ArraySize(Contents) >= ArraySize(Contents)
  BY ContentsProper
<1>2. /\ ProperArray(grown) /\ ArraySize(grown) = 2 * ArraySize(Contents)
      /\ grown.slot0 = Contents.slot0
  BY <1>1, ContentsProper, GrowingProper
<1>3. Size = NumberOfElements(grown)
  BY <1>2 DEF Size, NumberOfElements
<1>4. Size < Len(grown.slots)
  BY <1>2, ContentsProper DEF ArraySize, ProperArray
<1> HIDE DEF grown
<1>5. ProperArray(WithAdded(grown, v))
  BY <1>2, <1>3, <1>4, WithAddedProper
<1>6. QED
  BY <1>4, <1>5, ReplacePreservesInv DEF AddGrowing, EffectOf, grown

LEMMA AddAllEffect ==
  ASSUME Inv, NEW s \in Additions, AddAll(s)
  PROVE  EffectOf(WithAllAdded(Contents, s)) /\ Size + Len(s) <= Len(Contents.slots)
<1>1. Len(s) \in Nat
  BY AdditionsAssumption
<1>2. Size + Len(s) <= Len(Contents.slots)
  BY <1>1, ContentsProper DEF AddAll, MustGrowFor
<1>3. ProperArray(WithAllAdded(Contents, s))
  BY <1>2, ContentsProper, WithAllAddedProper DEF Size
<1>4. QED
  BY <1>2, <1>3, UpdatePreservesInv DEF AddAll, EffectOf

LEMMA AddAllGrowingEffect ==
  ASSUME Inv, NEW s \in Additions, AddAllGrowing(s)
  PROVE  LET grown == ShallowCopyGrowingTo(Contents, ArraySize(Contents) + Len(s))
         IN  EffectOf(WithAllAdded(grown, s)) /\ Size + Len(s) <= Len(grown.slots)
<1> DEFINE grown == ShallowCopyGrowingTo(Contents, ArraySize(Contents) + Len(s))
<1>1. /\ Len(s) \in Nat /\ ArraySize(Contents) + Len(s) \in Nat
      /\ ArraySize(Contents) + Len(s) >= ArraySize(Contents)
  BY AdditionsAssumption, ContentsProper
<1>2. /\ ProperArray(grown) /\ ArraySize(grown) = ArraySize(Contents) + Len(s)
      /\ grown.slot0 = Contents.slot0
  BY <1>1, ContentsProper, GrowingProper
<1>3. Size = NumberOfElements(grown)
  BY <1>2 DEF Size, NumberOfElements
<1>4. Size + Len(s) <= Len(grown.slots)
  BY <1>1, <1>2, ContentsProper DEF ArraySize, ProperArray
<1> HIDE DEF grown
<1>5. ProperArray(WithAllAdded(grown, s))
  BY <1>2, <1>3, <1>4, WithAllAddedProper
<1>6. QED
  BY <1>4, <1>5, ReplacePreservesInv DEF AddAllGrowing, EffectOf, grown

LEMMA EmptyReservingEffect ==
  ASSUME Inv, NEW n \in Reservations, EmptyReserving(n)
  PROVE  EffectOf(EmptyArray(n))
BY EmptyArrayProper, ReplacePreservesInv DEF EmptyReserving, EffectOf

LEMMA PopEffect ==
  ASSUME Inv, Pop
  PROVE  EffectOf([slot0 |-> Contents.slot0 - 1, slots |-> Contents.slots])
<1> DEFINE new == [slot0 |-> Contents.slot0 - 1, slots |-> Contents.slots]
<1>1. new = [Contents EXCEPT !.slot0 = @ - 1]
  BY ContentsProper DEF ProperArray
<1>2. ProperArray(new)
  BY ContentsProper DEF ProperArray, Pop, Size, NumberOfElements
<1> HIDE DEF new
<1>3. QED
  BY <1>1, <1>2, UpdatePreservesInv DEF Pop, EffectOf, new

LEMMA ResetEffect ==
  ASSUME Inv, Reset
  PROVE  EffectOf([slot0 |-> 2, slots |-> Contents.slots])
<1> DEFINE new == [slot0 |-> 2, slots |-> Contents.slots]
<1>1. new = [Contents EXCEPT !.slot0 = 2]
  BY ContentsProper DEF ProperArray
<1>2. ProperArray(new)
  BY ContentsProper DEF ProperArray, NumberOfElements
<1> HIDE DEF new
<1>3. QED
  BY <1>1, <1>2, UpdatePreservesInv DEF Reset, EffectOf, new

LEMMA AtPutEffect ==
  ASSUME Inv, NEW i \in 1 .. Size, NEW v \in Elements, AtPut(i, v)
  PROVE  EffectOf([slot0 |-> Contents.slot0, slots |-> [Contents.slots EXCEPT ![i] = v]])
<1> DEFINE slots == [Contents.slots EXCEPT ![i] = v]
           new == [slot0 |-> Contents.slot0, slots |-> slots]
<1>1. new = [Contents EXCEPT !.slots[i] = v]
  BY ContentsProper DEF ProperArray
<1>2. i \in 1 .. Len(Contents.slots)
  BY ContentsProper
<1>3. /\ slots \in Seq(Elements \cup {Nil}) /\ Len(slots) = Len(Contents.slots)
      /\ \A j \in 1 .. Len(Contents.slots) :
           slots[j] = IF j = i THEN v ELSE Contents.slots[j]
  BY <1>2, ContentsProper, ExceptSeq DEF ProperArray
<1> HIDE DEF slots
<1>4. ProperArray(new)
  BY <1>3, ContentsProper DEF ProperArray, Size, NumberOfElements
<1> HIDE DEF new
<1>5. QED
  BY <1>1, <1>4, UpdatePreservesInv DEF AtPut, EffectOf, new, slots

-----------------------------------------------------------------------------
LEMMA InvInit == VMArrayInit => Inv
<1> SUFFICES ASSUME VMArrayInit PROVE Inv
  OBVIOUS
<1>1. PICK n \in Reservations : memory = <<EmptyArray(n)>>
  BY DEF VMArrayInit
<1>2. ProperArray(EmptyArray(n))
  BY EmptyArrayProper
<1>3. EmptyArray(n) \in [slot0 : Nat \ {0, 1}, slots : Seq(Elements \cup {Nil})]
  BY <1>2 DEF ProperArray
<1>4. Len(memory) = 1 /\ memory[1] = EmptyArray(n)
  BY <1>1
<1>5. QED
  BY <1>1, <1>2, <1>3, <1>4 DEF VMArrayInit, Inv

LEMMA InvNext == Inv /\ [VMArrayNext]_vmArrayVars => Inv'
<1> SUFFICES ASSUME Inv, [VMArrayNext]_vmArrayVars PROVE Inv'
  OBVIOUS
<1>1. CASE \E n \in Reservations : EmptyReserving(n)
  BY <1>1, EmptyReservingEffect DEF EffectOf
<1>2. CASE \E v \in Elements : Add(v)
  BY <1>2, AddEffect DEF EffectOf
<1>3. CASE \E v \in Elements : AddGrowing(v)
  BY <1>3, AddGrowingEffect DEF EffectOf
<1>4. CASE \E s \in Additions : AddAll(s)
  BY <1>4, AddAllEffect DEF EffectOf
<1>5. CASE \E s \in Additions : AddAllGrowing(s)
  BY <1>5, AddAllGrowingEffect DEF EffectOf
<1>6. CASE Pop
  BY <1>6, PopEffect DEF EffectOf
<1>7. CASE Reset
  BY <1>7, ResetEffect DEF EffectOf
<1>8. CASE \E i \in 1 .. Size, v \in Elements : AtPut(i, v)
  BY <1>8, AtPutEffect DEF EffectOf
<1>9. CASE UNCHANGED vmArrayVars
  BY <1>9 DEF Inv, vmArrayVars
<1>10. QED
  BY <1>1, <1>2, <1>3, <1>4, <1>5, <1>6, <1>7, <1>8, <1>9 DEF VMArrayNext

(* The inductive invariant: every array that a VMArray ever used holds the  *)
(* elements its slot 0 announces.                                           *)
THEOREM AlwaysInv == VMArraySpec => []Inv
BY InvInit, InvNext, PTL DEF VMArraySpec

(* The smi in slot 0 always encodes a natural number of elements, however   *)
(* often the array grew.                                                    *)
THEOREM TypeCorrect == VMArraySpec => []VMArrayTypeOK
<1>1. Inv => VMArrayTypeOK
  BY DEF Inv, VMArrayTypeOK
<1>2. QED
  BY <1>1, AlwaysInv, PTL

(* No add() ever writes behind the array object.                            *)
THEOREM ElementsStayInside == VMArraySpec => []ElementsWithinContents
<1>1. Inv => ElementsWithinContents
  BY ContentsProper DEF ElementsWithinContents
<1>2. QED
  BY <1>1, AlwaysInv, PTL

(* An index in 1 .. size() always reads a value that was added.             *)
THEOREM ElementsAreAdded == VMArraySpec => []ElementsWereAdded
<1>1. Inv => ElementsWereAdded
  BY ContentsProper, NilAssumption DEF ElementsWereAdded, ProperArray, Size
<1>2. QED
  BY <1>1, AlwaysInv, PTL

-----------------------------------------------------------------------------
(* The elements of a proper array, as the sequence that VMSequence sees.    *)
LEMMA ElementsAreSequence ==
  ASSUME Inv
  PROVE  /\ elements \in Seq(Elements) /\ Len(elements) = Size
         /\ \A i \in 1 .. Size : elements[i] = Contents.slots[i]
<1>1. elements \in [1 .. Size -> Elements]
  BY ContentsProper DEF elements, ProperArray, Size
<1>2. QED
  BY <1>1, ContentsProper, FunctionIsSeq DEF elements

(* The abstract effect follows from the size and the slots of the new array. *)
LEMMA SameElements ==
  ASSUME Inv', NEW s \in Seq(Elements), Size' = Len(s),
         \A i \in 1 .. Len(s) : Contents'.slots[i] = s[i]
  PROVE  elements' = s
<1>1. s = [i \in 1 .. Len(s) |-> s[i]]
  BY LenProperties
<1>2. elements' = [i \in 1 .. Size' |-> Contents'.slots[i]]
  BY DEF elements
<1>3. QED
  BY <1>1, <1>2

LEMMA PushRefined ==
  ASSUME Inv, NEW array, ProperArray(array), NEW v \in Elements,
         NumberOfElements(array) = Size, Size < Len(array.slots),
         \A i \in 1 .. Size : array.slots[i] = Contents.slots[i],
         EffectOf(WithAdded(array, v))
  PROVE  Sequence!Push(v)
<1>1. /\ Append(elements, v) \in Seq(Elements)
      /\ Len(Append(elements, v)) = Size + 1
      /\ \A i \in 1 .. Size : Append(elements, v)[i] = Contents.slots[i]
      /\ Append(elements, v)[Size + 1] = v
  BY ElementsAreSequence, AppendProperties
<1>2. /\ Size' = Size + 1
      /\ \A i \in 1 .. Size + 1 :
           Contents'.slots[i] = IF i = Size + 1 THEN v ELSE array.slots[i]
  BY WithAddedProper DEF EffectOf, Size
<1>3. \A i \in 1 .. Size + 1 : Contents'.slots[i] = Append(elements, v)[i]
  BY <1>1, <1>2, ContentsProper
<1>4. elements' = Append(elements, v)
  BY <1>1, <1>2, <1>3, SameElements DEF EffectOf
<1>5. QED
  BY <1>4 DEF Sequence!Push

LEMMA PushAllRefined ==
  ASSUME Inv, NEW array, ProperArray(array), NEW s \in Additions,
         NumberOfElements(array) = Size, Size + Len(s) <= Len(array.slots),
         \A i \in 1 .. Size : array.slots[i] = Contents.slots[i],
         EffectOf(WithAllAdded(array, s))
  PROVE  Sequence!PushAll(s)
<1>1. s \in Seq(Elements) /\ Len(s) \in Nat
  BY AdditionsAssumption
<1>2. /\ elements \o s \in Seq(Elements)
      /\ Len(elements \o s) = Size + Len(s)
      /\ \A i \in 1 .. Size + Len(s) :
           (elements \o s)[i] = IF i <= Size THEN Contents.slots[i] ELSE s[i - Size]
  <2>1. /\ elements \in Seq(Elements) /\ Len(elements) = Size /\ Size \in Nat
        /\ \A i \in 1 .. Size : elements[i] = Contents.slots[i]
    BY ElementsAreSequence, ContentsProper
  <2>2. /\ elements \o s \in Seq(Elements)
        /\ Len(elements \o s) = Size + Len(s)
        /\ \A i \in 1 .. Size + Len(s) :
             (elements \o s)[i] = IF i <= Size THEN elements[i] ELSE s[i - Size]
    <3>1. /\ elements \o s \in Seq(Elements)
          /\ Len(elements \o s) = Len(elements) + Len(s)
          /\ \A i \in 1 .. Len(elements) + Len(s) :
               (elements \o s)[i] = IF i <= Len(elements) THEN elements[i]
                                    ELSE s[i - Len(elements)]
      BY <1>1, <2>1, ConcatProperties, Zenon
    <3>2. QED
      BY <2>1, <3>1
  <2>3. \A i \in 1 .. Size + Len(s) : i <= Size => i \in 1 .. Size
    BY <1>1, <2>1
  <2>4. QED
    BY <2>1, <2>2, <2>3
<1>3. /\ Size' = Size + Len(s)
      /\ \A i \in 1 .. Size + Len(s) :
           Contents'.slots[i] = IF i <= Size THEN array.slots[i] ELSE s[i - Size]
  BY WithAllAddedProper DEF EffectOf, Size
<1>4. \A i \in 1 .. Size + Len(s) : Contents'.slots[i] = (elements \o s)[i]
  BY <1>1, <1>2, <1>3, ContentsProper
<1>5. elements' = elements \o s
  BY <1>2, <1>3, <1>4, SameElements DEF EffectOf
<1>6. QED
  BY <1>5 DEF Sequence!PushAll

LEMMA ClearRefined ==
  ASSUME Inv', Size' = 0
  PROVE  Sequence!Clear
<1>1. << >> \in Seq(Elements) /\ Len(<< >>) = 0
  OBVIOUS
<1>2. \A i \in 1 .. Len(<< >>) : Contents'.slots[i] = << >>[i]
  BY <1>1
<1>3. elements' = << >>
  BY <1>1, <1>2, SameElements
<1>4. QED
  BY <1>3 DEF Sequence!Clear

LEMMA PopRefined ==
  ASSUME Inv, Pop
  PROVE  Sequence!Pop
<1> DEFINE shorter == SubSeq(elements, 1, Len(elements) - 1)
<1>1. Inv' /\ Size' = Size - 1 /\ Contents'.slots = Contents.slots
  BY PopEffect, ContentsProper DEF EffectOf, Size, NumberOfElements, ProperArray
<1>2. Size \in Nat /\ Size # 0
  BY ContentsProper DEF Pop
<1>3. /\ shorter \in Seq(Elements) /\ Len(shorter) = Size - 1
      /\ \A i \in 1 .. Size - 1 : shorter[i] = Contents.slots[i]
  BY <1>2, ElementsAreSequence, SubSeqProperties
<1>4. elements' = shorter
  BY <1>1, <1>3, SameElements
<1>5. elements # << >>
  BY <1>2, ElementsAreSequence
<1>6. QED
  BY <1>4, <1>5 DEF Sequence!Pop

LEMMA AtPutRefined ==
  ASSUME Inv, NEW i \in 1 .. Size, NEW v \in Elements, AtPut(i, v)
  PROVE  i \in 1 .. Len(elements) /\ Sequence!Put(i, v)
<1> DEFINE written == [elements EXCEPT ![i] = v]
<1>1. /\ Inv' /\ Size' = Size
      /\ Contents'.slots = [Contents.slots EXCEPT ![i] = v]
  BY AtPutEffect DEF EffectOf, Size, NumberOfElements
<1>2. /\ Contents.slots \in Seq(Elements \cup {Nil}) /\ Size <= Len(Contents.slots)
      /\ Size \in Nat
  BY ContentsProper DEF ProperArray
<1>3. /\ elements \in Seq(Elements) /\ Len(elements) = Size
      /\ \A j \in 1 .. Size : elements[j] = Contents.slots[j]
  BY ElementsAreSequence
<1>4. i \in 1 .. Len(elements) /\ i \in 1 .. Len(Contents.slots)
  BY <1>2, <1>3
<1>5. \A j \in 1 .. Len(Contents.slots) :
        Contents'.slots[j] = IF j = i THEN v ELSE Contents.slots[j]
  BY <1>1, <1>2, <1>4, ExceptSeq
<1>6. /\ written \in Seq(Elements) /\ Len(written) = Size
      /\ \A j \in 1 .. Len(elements) : written[j] = IF j = i THEN v ELSE elements[j]
  BY <1>3, <1>4, ExceptSeq
<1>7. ASSUME NEW j \in 1 .. Size
      PROVE  Contents'.slots[j] = written[j]
  <2>1. j \in 1 .. Len(Contents.slots) /\ j \in 1 .. Len(elements)
    BY <1>2, <1>3
  <2>2. QED
    BY <2>1, <1>3, <1>5, <1>6
<1> HIDE DEF written
<1>8. elements' = written
  BY <1>1, <1>6, <1>7, SameElements
<1>9. QED
  BY <1>4, <1>8 DEF written, Sequence!Put

-----------------------------------------------------------------------------
LEMMA InitRefined == VMArrayInit => Sequence!Init
<1> SUFFICES ASSUME VMArrayInit PROVE elements = << >>
  BY DEF Sequence!Init
<1>1. Size = 0
  BY DEF VMArrayInit, Size, Contents, NumberOfElements, EmptyArray
<1>2. elements \in Seq(Elements) /\ Len(elements) = 0
  BY <1>1, InvInit, ElementsAreSequence
<1>3. QED
  BY <1>2, EmptySeq

LEMMA NextRefined == Inv /\ [VMArrayNext]_vmArrayVars => [Sequence!Next]_elements
<1> SUFFICES ASSUME Inv, [VMArrayNext]_vmArrayVars PROVE [Sequence!Next]_elements
  OBVIOUS
<1>1. CASE \E n \in Reservations : EmptyReserving(n)
  <2>1. PICK n \in Reservations : EffectOf(EmptyArray(n))
    BY <1>1, EmptyReservingEffect
  <2>2. Inv' /\ Size' = 0
    BY <2>1 DEF EffectOf, Size, NumberOfElements, EmptyArray
  <2>3. QED
    BY <2>2, ClearRefined DEF Sequence!Next
<1>2. CASE \E v \in Elements : Add(v)
  <2>1. PICK v \in Elements : Add(v)
    BY <1>2
  <2>2. EffectOf(WithAdded(Contents, v)) /\ Size < Len(Contents.slots)
    BY <2>1, AddEffect
  <2>3. Sequence!Push(v)
    BY <2>2, ContentsProper, PushRefined DEF Size
  <2>4. QED
    BY <2>3 DEF Sequence!Next
<1>3. CASE \E v \in Elements : AddGrowing(v)
  <2>1. PICK v \in Elements : AddGrowing(v)
    BY <1>3
  <2> DEFINE grown == ShallowCopyGrowingTo(Contents, 2 * ArraySize(Contents))
  <2>2. EffectOf(WithAdded(grown, v)) /\ Size < Len(grown.slots)
    BY <2>1, AddGrowingEffect
  <2>3. 2 * ArraySize(Contents) \in Nat /\ 2 * ArraySize(Contents) >= ArraySize(Contents)
    BY ContentsProper
  <2>4. /\ ProperArray(grown) /\ NumberOfElements(grown) = Size
        /\ \A i \in 1 .. Size : grown.slots[i] = Contents.slots[i]
    BY <2>3, ContentsProper, GrowingProper DEF Size, NumberOfElements
  <2> HIDE DEF grown
  <2>5. Sequence!Push(v)
    BY <2>2, <2>4, PushRefined
  <2>6. QED
    BY <2>5 DEF Sequence!Next
<1>4. CASE \E s \in Additions : AddAll(s)
  <2>1. PICK s \in Additions : AddAll(s)
    BY <1>4
  <2>2. EffectOf(WithAllAdded(Contents, s)) /\ Size + Len(s) <= Len(Contents.slots)
    BY <2>1, AddAllEffect
  <2>3. Sequence!PushAll(s)
    BY <2>2, ContentsProper, PushAllRefined DEF Size
  <2>4. QED
    BY <2>3 DEF Sequence!Next
<1>5. CASE \E s \in Additions : AddAllGrowing(s)
  <2>1. PICK s \in Additions : AddAllGrowing(s)
    BY <1>5
  <2> DEFINE grown == ShallowCopyGrowingTo(Contents, ArraySize(Contents) + Len(s))
  <2>2. EffectOf(WithAllAdded(grown, s)) /\ Size + Len(s) <= Len(grown.slots)
    BY <2>1, AddAllGrowingEffect
  <2>3. /\ ArraySize(Contents) + Len(s) \in Nat
        /\ ArraySize(Contents) + Len(s) >= ArraySize(Contents)
    BY ContentsProper, AdditionsAssumption
  <2>4. /\ ProperArray(grown) /\ NumberOfElements(grown) = Size
        /\ \A i \in 1 .. Size : grown.slots[i] = Contents.slots[i]
    BY <2>3, ContentsProper, GrowingProper DEF Size, NumberOfElements
  <2> HIDE DEF grown
  <2>5. Sequence!PushAll(s)
    BY <2>2, <2>4, PushAllRefined
  <2>6. QED
    BY <2>5 DEF Sequence!Next
<1>6. CASE Pop
  BY <1>6, PopRefined DEF Sequence!Next
<1>7. CASE Reset
  <2>1. Inv' /\ Size' = 0
    BY <1>7, ResetEffect DEF EffectOf, Size, NumberOfElements
  <2>2. QED
    BY <2>1, ClearRefined DEF Sequence!Next
<1>8. CASE \E i \in 1 .. Size, v \in Elements : AtPut(i, v)
  BY <1>8, AtPutRefined DEF Sequence!Next
<1>9. CASE UNCHANGED vmArrayVars
  BY <1>9 DEF vmArrayVars, elements, Size, Contents
<1>10. QED
  BY <1>1, <1>2, <1>3, <1>4, <1>5, <1>6, <1>7, <1>8, <1>9 DEF VMArrayNext

(* A VMArray implements the sequence its users believe it is, whatever the  *)
(* reserved sizes and the arrays appended.                                  *)
THEOREM Refinement == VMArraySpec => ImplementsSequence
<1>1. VMArraySpec => Sequence!Init /\ [][Sequence!Next]_elements
  BY InitRefined, NextRefined, AlwaysInv, PTL DEF VMArraySpec
<1>2. QED
  BY <1>1 DEF ImplementsSequence, Sequence!Spec


-----------------------------------------------------------------------------
(* The array shared with the host VM.                                      *)

(* The invariant of the inherited array, and the one of the host's cell.    *)
ReferencedInv ==
  /\ Inv
  /\ referer \in 1 .. Len(memory)
  /\ DetachedOnlyByGrowth

LEMMA ReferencedInvInit == Init => ReferencedInv
BY InvInit DEF Init, ReferencedInv, DetachedOnlyByGrowth, Inv

(* A write in place leaves the host's array alone unless it is the one in   *)
(* use.                                                                     *)
LEMMA UpdateKeeps ==
  ASSUME ReferencedInv, UNCHANGED referer, NEW array, ProperArray(array),
         Update(array), ArraySize(array) = ArraySize(Contents)
  PROVE  ReferencedInv'
<1>1. Inv' /\ Contents' = array
  BY UpdatePreservesInv DEF ReferencedInv
<1>2. /\ Len(memory') = Len(memory) /\ contents' = contents
      /\ referer # contents => memory'[referer] = memory[referer]
  BY ExceptSeq DEF Update, ReferencedInv, Inv
<1>3. QED
  BY <1>1, <1>2 DEF ReferencedInv, DetachedOnlyByGrowth

(* Moving to a larger array keeps the host's one the smaller of the two.    *)
LEMMA ReplaceKeeps ==
  ASSUME ReferencedInv, UNCHANGED referer, NEW array, ProperArray(array),
         Replace(array), ArraySize(array) > ArraySize(Contents)
  PROVE  ReferencedInv'
<1>1. Inv' /\ Contents' = array
  BY ReplacePreservesInv DEF ReferencedInv
<1>2. Len(memory) \in Nat
  BY LenProperties DEF ReferencedInv, Inv
<1>3. /\ Len(memory') = Len(memory) + 1 /\ contents' = Len(memory) + 1
      /\ memory'[referer] = memory[referer]
  BY AppendProperties DEF Replace, ReferencedInv, Inv, ProperArray
<1>4. /\ ArraySize(memory[referer]) \in Nat /\ ArraySize(Contents) \in Nat
      /\ ArraySize(array) \in Nat
  <2>1. ProperArray(memory[referer]) /\ ProperArray(Contents)
    BY DEF ReferencedInv, Inv, Contents
  <2>2. \A any : ProperArray(any) => ArraySize(any) \in Nat
    BY LenProperties DEF ProperArray, ArraySize
  <2>3. QED
    BY <2>1, <2>2
<1>5. ArraySize(memory[referer]) <= ArraySize(Contents)
  BY <1>4 DEF ReferencedInv, DetachedOnlyByGrowth, Contents
<1>6. QED
  BY <1>1, <1>2, <1>3, <1>4, <1>5 DEF ReferencedInv, DetachedOnlyByGrowth

LEMMA InheritedKeeps ==
  ASSUME ReferencedInv, Inherited
  PROVE  ReferencedInv'
<1> USE DEF ReferencedInv
<1>1. UNCHANGED referer
  BY DEF Inherited
<1>2. ArraySize(Contents) \in Nat \ {0}
  BY ContentsProper
<1>3. CASE \E v \in Elements : Add(v)
  <2>1. PICK v \in Elements : Add(v)
    BY <1>3
  <2>2. Size < Len(Contents.slots)
    BY <2>1, AddEffect
  <2>3. /\ ProperArray(WithAdded(Contents, v))
        /\ ArraySize(WithAdded(Contents, v)) = ArraySize(Contents)
    BY <2>2, ContentsProper, WithAddedProper DEF Size
  <2>4. QED
    BY <1>1, <2>1, <2>3, UpdateKeeps DEF Add
<1>4. CASE \E v \in Elements : AddGrowing(v)
  <2>1. PICK v \in Elements : AddGrowing(v)
    BY <1>4
  <2> DEFINE grown == ShallowCopyGrowingTo(Contents, 2 * ArraySize(Contents))
  <2>2. Size < Len(grown.slots)
    BY <2>1, AddGrowingEffect
  <2>3. /\ ProperArray(grown) /\ NumberOfElements(grown) = Size
        /\ ArraySize(grown) = 2 * ArraySize(Contents)
    BY <1>2, ContentsProper, GrowingProper DEF Size, NumberOfElements
  <2>4. Replace(WithAdded(grown, v))
    BY <2>1 DEF AddGrowing
  <2> HIDE DEF grown
  <2>5. /\ ProperArray(WithAdded(grown, v))
        /\ ArraySize(WithAdded(grown, v)) = ArraySize(grown)
    BY <2>2, <2>3, WithAddedProper
  <2>6. ArraySize(WithAdded(grown, v)) > ArraySize(Contents)
    BY <1>2, <2>3, <2>5
  <2>7. QED
    BY <1>1, <2>4, <2>5, <2>6, ReplaceKeeps
<1>5. CASE \E s \in Additions : AddAll(s)
  <2>1. PICK s \in Additions : AddAll(s)
    BY <1>5
  <2>2. Size + Len(s) <= Len(Contents.slots)
    BY <2>1, AddAllEffect
  <2>3. /\ ProperArray(WithAllAdded(Contents, s))
        /\ ArraySize(WithAllAdded(Contents, s)) = ArraySize(Contents)
    BY <2>2, ContentsProper, WithAllAddedProper DEF Size
  <2>4. QED
    BY <1>1, <2>1, <2>3, UpdateKeeps DEF AddAll
<1>6. CASE \E s \in Additions : AddAllGrowing(s)
  <2>1. PICK s \in Additions : AddAllGrowing(s)
    BY <1>6
  <2> DEFINE grown == ShallowCopyGrowingTo(Contents, ArraySize(Contents) + Len(s))
  <2>2. Size + Len(s) <= Len(grown.slots)
    BY <2>1, AddAllGrowingEffect
  <2>3. Len(s) \in Nat /\ Size \in Nat /\ Size + Len(s) >= ArraySize(Contents)
    BY <2>1, AdditionsAssumption, ContentsProper DEF AddAllGrowing, MustGrowFor
  <2>4. Len(s) > 0
    BY <1>2, <2>3, ContentsProper
  <2>5. /\ ProperArray(grown) /\ NumberOfElements(grown) = Size
        /\ ArraySize(grown) = ArraySize(Contents) + Len(s)
    BY <1>2, <2>3, ContentsProper, GrowingProper DEF Size, NumberOfElements
  <2>6. Replace(WithAllAdded(grown, s))
    BY <2>1 DEF AddAllGrowing
  <2> HIDE DEF grown
  <2>7. /\ ProperArray(WithAllAdded(grown, s))
        /\ ArraySize(WithAllAdded(grown, s)) = ArraySize(grown)
    BY <2>2, <2>5, WithAllAddedProper
  <2>8. ArraySize(WithAllAdded(grown, s)) > ArraySize(Contents)
    BY <1>2, <2>3, <2>4, <2>5, <2>7
  <2>9. QED
    BY <1>1, <2>6, <2>7, <2>8, ReplaceKeeps
<1>7. CASE Pop
  <2> DEFINE new == [Contents EXCEPT !.slot0 = @ - 1]
  <2>1. ProperArray(new) /\ ArraySize(new) = ArraySize(Contents)
    BY <1>7, ContentsProper DEF ProperArray, Pop, Size, NumberOfElements, ArraySize
  <2>2. QED
    BY <1>1, <1>7, <2>1, UpdateKeeps DEF Pop
<1>8. CASE Reset
  <2> DEFINE new == [Contents EXCEPT !.slot0 = 2]
  <2>1. ProperArray(new) /\ ArraySize(new) = ArraySize(Contents)
    BY ContentsProper DEF ProperArray, NumberOfElements, ArraySize
  <2>2. QED
    BY <1>1, <1>8, <2>1, UpdateKeeps DEF Reset
<1>9. CASE \E i \in 1 .. Size, v \in Elements : AtPut(i, v)
  <2>1. PICK i \in 1 .. Size, v \in Elements : AtPut(i, v)
    BY <1>9
  <2> DEFINE new == [Contents EXCEPT !.slots[i] = v]
  <2>2. /\ new = [slot0 |-> Contents.slot0, slots |-> [Contents.slots EXCEPT ![i] = v]]
        /\ Contents.slots \in Seq(Elements \cup {Nil}) /\ i \in 1 .. Len(Contents.slots)
    BY ContentsProper DEF ProperArray
  <2>3. Len([Contents.slots EXCEPT ![i] = v]) = Len(Contents.slots)
    BY <2>2, ExceptSeq
  <2>4. ProperArray(new)
    <3>1. Inv' /\ Contents' = [slot0 |-> Contents.slot0,
                               slots |-> [Contents.slots EXCEPT ![i] = v]]
      BY <2>1, AtPutEffect DEF EffectOf
    <3>2. ProperArray(Contents')
      BY <3>1 DEF Inv, Contents
    <3>3. QED
      BY <2>2, <3>1, <3>2
  <2>5. ArraySize(new) = ArraySize(Contents)
    BY <2>2, <2>3 DEF ArraySize
  <2>6. QED
    BY <1>1, <2>1, <2>4, <2>5, UpdateKeeps DEF AtPut
<1>10. QED
  BY <1>3, <1>4, <1>5, <1>6, <1>7, <1>8, <1>9 DEF Inherited

LEMMA ReferencedInvNext == ReferencedInv /\ [Next]_vars => ReferencedInv'
<1> SUFFICES ASSUME ReferencedInv, [Next]_vars PROVE ReferencedInv'
  OBVIOUS
<1>1. CASE \E n \in Reservations : ReferencedEmptyReserving(n)
  <2>1. PICK n \in Reservations : EmptyReserving(n) /\ referer' = contents'
    BY <1>1 DEF ReferencedEmptyReserving
  <2>2. Inv'
    BY <2>1, EmptyReservingEffect DEF ReferencedInv, EffectOf
  <2>3. QED
    BY <2>1, <2>2 DEF ReferencedInv, DetachedOnlyByGrowth, Inv
<1>2. CASE UpdateFromReferer
  BY <1>2 DEF UpdateFromReferer, ReferencedInv, DetachedOnlyByGrowth, Inv
<1>3. CASE UpdateReference
  BY <1>3 DEF UpdateReference, ReferencedInv, DetachedOnlyByGrowth, Inv
<1>4. CASE Inherited
  BY <1>4, InheritedKeeps
<1>5. CASE UNCHANGED vars
  BY <1>5 DEF vars, ReferencedInv, DetachedOnlyByGrowth, Inv, Contents
<1>6. QED
  BY <1>1, <1>2, <1>3, <1>4, <1>5 DEF Next

THEOREM AlwaysReferencedInv == Spec => []ReferencedInv
BY ReferencedInvInit, ReferencedInvNext, PTL DEF Spec

(* The host's cell always holds an array of the space.                      *)
THEOREM ReferencedTypeCorrect == Spec => []TypeOK
<1>1. ReferencedInv => TypeOK
  BY DEF ReferencedInv, TypeOK, Inv, VMArrayTypeOK
<1>2. QED
  BY <1>1, AlwaysReferencedInv, PTL

(* Whenever the host and the collector use different arrays, it is because  *)
(* the collector's one grew.                                                *)
THEOREM OnlyGrowthDetaches == Spec => []DetachedOnlyByGrowth
<1>1. ReferencedInv => DetachedOnlyByGrowth
  BY DEF ReferencedInv
<1>2. QED
  BY <1>1, AlwaysReferencedInv, PTL

(* Every step but the reading of the cell is a step of the inherited array, *)
(* or leaves the elements alone.                                            *)
LEMMA StepRefined ==
  ASSUME ReferencedInv, [Next]_vars PROVE UpdateFromReferer \/ [Sequence!Next]_elements
<1>1. Inv
  BY DEF ReferencedInv
<1>2. CASE \E n \in Reservations : ReferencedEmptyReserving(n)
  <2>1. VMArrayNext
    BY <1>2 DEF ReferencedEmptyReserving, VMArrayNext
  <2>2. QED
    BY <1>1, <2>1, NextRefined
<1>3. CASE UpdateFromReferer
  BY <1>3
<1>4. CASE UpdateReference \/ UNCHANGED vars
  <2>1. UNCHANGED vmArrayVars
    BY <1>4 DEF UpdateReference, vars, vmArrayVars
  <2>2. QED
    BY <1>1, <2>1, NextRefined
<1>5. CASE Inherited
  <2>1. VMArrayNext
    BY <1>5 DEF Inherited, VMArrayNext
  <2>2. QED
    BY <1>1, <2>1, NextRefined
<1>6. QED
  BY <1>2, <1>3, <1>4, <1>5 DEF Next

(* Growing, copying and the cell of the host are invisible to the collector *)
(* between two readings of the cell.                                        *)
THEOREM SharedArrayIsSequence == Spec => StepsOfSequence
<1>1. ReferencedInv /\ [Next]_vars => [UpdateFromReferer \/ [Sequence!Next]_elements]_vars
  BY StepRefined
<1>2. QED
  BY <1>1, AlwaysReferencedInv, PTL DEF Spec, StepsOfSequence
(* Whatever array a step writes, one the host holds alone is not it.        *)
LEMMA OthersUntouched ==
  ASSUME ReferencedInv, NEW array, Update(array) \/ Replace(array), referer # contents
  PROVE  memory'[referer] = memory[referer]
<1>1. referer \in 1 .. Len(memory) /\ \E any : memory \in Seq(any)
  BY DEF ReferencedInv, Inv
<1>2. CASE Update(array)
  BY <1>1, <1>2 DEF Update
<1>3. CASE Replace(array)
  BY <1>1, <1>3 DEF Replace
<1>4. QED
  BY <1>2, <1>3

(* The host goes on seeing the state at the moment of growth: the array it  *)
(* holds is not written any more once the collector uses another.           *)
THEOREM HostsArrayIsFrozen == Spec => DetachedIsFrozen
<1>1. ASSUME ReferencedInv, [Next]_vars, referer # contents
      PROVE  memory'[referer] = memory[referer]
  <2>1. CASE UpdateFromReferer \/ UpdateReference \/ UNCHANGED vars
    BY <2>1 DEF UpdateFromReferer, UpdateReference, vars
  <2>2. CASE Inherited \/ \E n \in Reservations : ReferencedEmptyReserving(n)
    <3>1. \E array : Update(array) \/ Replace(array)
      BY <2>2 DEF Inherited, Add, AddGrowing, AddAll, AddAllGrowing, Pop, Reset, AtPut,
                  ReferencedEmptyReserving, EmptyReserving
    <3>2. QED
      BY <1>1, <3>1, OthersUntouched
  <2>3. QED
    BY <1>1, <2>1, <2>2 DEF Next
<1>2. ReferencedInv /\ [Next]_vars =>
        [referer # contents => memory'[referer] = memory[referer]]_vars
  BY <1>1
<1>3. QED
  BY <1>2, AlwaysReferencedInv, PTL DEF Spec, DetachedIsFrozen

=============================================================================
