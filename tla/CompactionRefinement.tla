------------------------ MODULE CompactionRefinement ------------------------
(***************************************************************************)
(* A compaction, in the terms of ObjectMemory: what the program sees of    *)
(* the heap it leaves is one step of Collect from what it saw before.      *)
(***************************************************************************)
EXTENDS CompactionProofs, MCMarkAndCompactGC

-----------------------------------------------------------------------------
(* What the program sees of a memory m whose spaces are used up to on and   *)
(* fn: View, for any memory.                                                *)
BelowIn(m, base, nextFree) ==
  {a \in base + 2 .. nextFree : Is("bits", m[a - 2])} \ {Value(m[RescuedEphemerons])}
ObjectsIn(m, on, fn) == BelowIn(m, OldBase, on) \cup BelowIn(m, FromBase, fn)

HashAt(m, a) == Value(m[a - 2]).hash
IdentityIn(m, on, fn, word) ==
  CASE Is("oop", word) /\ Value(word) \in ObjectsIn(m, on, fn) -> HashAt(m, Value(word))
    [] Is("oop", word) /\ Value(word) = ResidueObject          -> -1
    [] Is("oop", word) /\ Value(word) = Nil                    -> 0
    [] OTHER                                                   -> -2
WithHash(m, on, fn, h) == CHOOSE a \in ObjectsIn(m, on, fn) : HashAt(m, a) = h
KindAt(m, a) ==
  CASE ~Value(m[a - 2]).hasWeaks -> "plain"
    [] Value(m[a - 2]).hasWeaks /\ Value(m[a - 2]).extended /\ Value(m[a - 3]).isEphemeron -> "ephemeron"
    [] OTHER -> "weak"
SizeOf(m, a) == IF Value(m[a - 2]).extended THEN Value(m[a - 3]).size ELSE Value(m[a - 2]).size
ShownAt(m, on, fn, a) ==
  [kind  |-> KindAt(m, a),
   slots |-> [k \in -1 .. NumSlots - 1 |->
                IF k < SizeOf(m, a) THEN IdentityIn(m, on, fn, m[a + k]) ELSE 0]]
ViewOf(m, on, fn) ==
  [graph |-> [h \in {HashAt(m, a) : a \in ObjectsIn(m, on, fn)} |->
                ShownAt(m, on, fn, WithHash(m, on, fn, h))],
   roots |-> [l \in RootLocations \cup {Association} |-> IdentityIn(m, on, fn, m[l])],
   rescued |-> [j \in 1 .. Value(m[Value(m[RescuedEphemerons])]) - 2 |->
                  IdentityIn(m, on, fn, m[Value(m[RescuedEphemerons]) + j])]]

LEMMA ViewIsViewOf ==
  View = ViewOf(memory, oldNextFree, fromNextFree)
BY DEF View, ViewOf, ShownAt, SizeOf, KindAt, WithHash, IdentityIn, HashAt, ObjectsIn, BelowIn,
       ProgramObjects, ObjectsBelow, Queue, RescuedCount, Identity, KindOf, ObjectWith, BitsOf, HeaderOf,
       ExtensionOf, IsActiveEphemeron, Size, SizeIn
LEMMA ViewIsViewOfNext ==
  View' = ViewOf(memory', oldNextFree', fromNextFree')
BY DEF View, ViewOf, ShownAt, SizeOf, KindAt, WithHash, IdentityIn, HashAt, ObjectsIn, BelowIn,
       ProgramObjects, ObjectsBelow, Queue, RescuedCount, Identity, KindOf, ObjectWith, BitsOf, HeaderOf,
       ExtensionOf, IsActiveEphemeron, Size, SizeIn

-----------------------------------------------------------------------------
(* The same in terms of the objects of a heap.                              *)
Name(m, g, word) ==
  CASE Is("oop", word) /\ Value(word) \in Objs(g)   -> HashAt(m, Value(word))
    [] Is("oop", word) /\ Value(word) = ResidueObject -> -1
    [] Is("oop", word) /\ Value(word) = Nil         -> 0
    [] OTHER                                        -> -2
KindIn(g, a) ==
  CASE ~g[a].weak                  -> "plain"
    [] g[a].weak /\ g[a].ephemeron -> "ephemeron"
    [] OTHER                       -> "weak"
SlotName(m, g, a, k) == IF k < g[a].size THEN Name(m, g, m[a + k]) ELSE 0
Shown(m, g, a) ==
  [kind |-> KindIn(g, a), slots |-> [k \in -1 .. NumSlots - 1 |-> SlotName(m, g, a, k)]]

Entries(m) == Value(m[QueueArray]) - 2
Says(v, m, g) ==
  /\ \A h : h \in DOMAIN v.graph <=> \E a \in Objs(g) : h = HashAt(m, a)
  /\ \A a \in Objs(g) : v.graph[HashAt(m, a)] = Shown(m, g, a)
  /\ v.roots = [l \in RootLocations \cup {Association} |-> Name(m, g, m[l])]
  /\ v.rescued = [j \in 1 .. Entries(m) |-> Name(m, g, m[QueueArray + j])]

(* Hashes tell objects apart.                                               *)
Hashed(m, S) ==
  /\ \A a \in S : HashAt(m, a) \in 1 .. Cardinality(PlacedObjects)
  /\ \A a, b \in S : HashAt(m, a) = HashAt(m, b) => a = b

LEMMA HeapObjects ==
  ASSUME NEW m, NEW g, NEW on, NEW fn, Heap(m, g, on, fn)
  PROVE  ObjectsIn(m, on, fn) = Objs(g)
<1>1. Placement(g, on, fn) /\ Fits(m, g, on, fn) /\ m[RescuedEphemerons] = Oop(QueueArray)
  BY DEF Heap, CellsHold
<1>2. Value(m[RescuedEphemerons]) = QueueArray
  BY <1>1, Tags
<1>3. ASSUME NEW a, a \in ObjectsIn(m, on, fn) PROVE a \in Objs(g)
  <2>1. a \in (OldBase + 2 .. on) \cup (FromBase + 2 .. fn) /\ Is("bits", m[a - 2]) /\ a # QueueArray
    BY <1>2, <1>3 DEF ObjectsIn, BelowIn
  <2>2. QED BY <1>1, <2>1 DEF Fits, Objs
<1>4. ASSUME NEW a \in Objs(g) PROVE a \in ObjectsIn(m, on, fn)
  <2>1. a \in DOMAIN g /\ a # QueueArray
    BY DEF Objs
  <2>2. /\ a \in Nat /\ End(g, a) = a + g[a].size /\ g[a].size \in Nat /\ OldBase + 2 <= a
        /\ Start(g, a) = a - (IF g[a].extended THEN 3 ELSE 2)
        /\ End(g, a) <= on \/ (FromBase <= Start(g, a) /\ End(g, a) <= fn)
        /\ on \in Nat /\ fn \in Nat
    BY <1>1, <2>1, Extents
  <2>3. a \in (OldBase + 2 .. on) \cup (FromBase + 2 .. fn)
    BY <2>2, Bounds
  <2>4. Is("bits", m[a - 2])
    BY <2>1, HeaderWord
  <2>5. QED BY <1>2, <2>1, <2>3, <2>4 DEF ObjectsIn, BelowIn
<1>5. QED BY <1>3, <1>4

LEMMA HeapShown ==
  ASSUME NEW m, NEW g, NEW on, NEW fn, Heap(m, g, on, fn), NEW a \in DOMAIN g
  PROVE  ShownAt(m, on, fn, a) = Shown(m, g, a)
<1>1. \A w : IdentityIn(m, on, fn, w) = Name(m, g, w)
  BY HeapObjects DEF IdentityIn, Name
<1>2. /\ Value(m[a - 2]).extended = g[a].extended /\ Value(m[a - 2]).hasWeaks = g[a].weak
      /\ IF g[a].extended
         THEN m[a - 3] = Extension([size |-> g[a].size, isEphemeron |-> g[a].ephemeron])
         ELSE Value(m[a - 2]).size = g[a].size
  BY HeaderWord
<1>3. g[a].extended => Value(m[a - 3]).size = g[a].size /\ Value(m[a - 3]).isEphemeron = g[a].ephemeron
  BY <1>2, Tags
<1>4. g[a] \in Shape /\ (g[a].ephemeron => g[a].extended)
  BY DEF Heap, Placement
<1>5. KindAt(m, a) = KindIn(g, a)
  BY <1>2, <1>3, <1>4 DEF KindAt, KindIn, Shape
<1>6. SizeOf(m, a) = g[a].size
  BY <1>2, <1>3 DEF SizeOf
<1>7. QED BY <1>1, <1>5, <1>6 DEF ShownAt, Shown, SlotName

LEMMA HeapSays ==
  ASSUME NEW m, NEW g, NEW on, NEW fn, Heap(m, g, on, fn), Hashed(m, Objs(g)),
         NEW v, v = ViewOf(m, on, fn)
  PROVE  Says(v, m, g)
<1>1. ObjectsIn(m, on, fn) = Objs(g)
  BY HeapObjects
<1>2. \A w : IdentityIn(m, on, fn, w) = Name(m, g, w)
  BY <1>1 DEF IdentityIn, Name
<1>3. v.graph = [h \in {HashAt(m, a) : a \in Objs(g)} |-> ShownAt(m, on, fn, WithHash(m, on, fn, h))]
  BY <1>1 DEF ViewOf
<1>4. \A h : h \in DOMAIN v.graph <=> \E a \in Objs(g) : h = HashAt(m, a)
  BY <1>3
<1>5. ASSUME NEW a \in Objs(g) PROVE v.graph[HashAt(m, a)] = Shown(m, g, a)
  <2>1. PICK h : h = HashAt(m, a)
    OBVIOUS
  <2>2. WithHash(m, on, fn, h) \in Objs(g) /\ HashAt(m, WithHash(m, on, fn, h)) = h
    BY <1>1, <2>1 DEF WithHash
  <2>3. WithHash(m, on, fn, h) = a
    BY <2>1, <2>2 DEF Hashed
  <2>4. v.graph[h] = ShownAt(m, on, fn, a)
    BY <1>3, <2>1, <2>3
  <2>5. a \in DOMAIN g
    BY DEF Objs
  <2>6. QED BY <2>1, <2>4, <2>5, HeapShown
<1>6. v.roots = [l \in RootLocations \cup {Association} |-> Name(m, g, m[l])]
  BY <1>2 DEF ViewOf
<1>7. Value(m[RescuedEphemerons]) = QueueArray
  BY Tags DEF Heap, CellsHold
<1>8. v.rescued = [j \in 1 .. Entries(m) |-> Name(m, g, m[QueueArray + j])]
  BY <1>2, <1>7 DEF ViewOf, Entries
<1>9. QED BY <1>4, <1>5, <1>6, <1>8 DEF Says


-----------------------------------------------------------------------------
(* The end of a collection without ephemerons: c is the memory before it,   *)
(* u what the marking has made of it, M are the objects reached, and m2     *)
(* with the objects g2 is what is left.  Weak slots whose referents were    *)
(* not reached are tombstones.                                              *)
LEMMA SlotsCounted ==
  ASSUME PlacedObjects # {}
  PROVE  NumSlots \in Nat
<1>1. PICK S : S = {s.size : s \in Range(OldShapes) \cup Range(YoungShapes)}
  OBVIOUS
<1>2. PICK n \in Nat : n = WordsOf(OldShapes) + WordsOf(YoungShapes)
  BY ShapesAssumption, WordsOfLayout
<1>3. ASSUME NEW k \in DOMAIN OldShapes
      PROVE  OldShapes[k].size \in Nat /\ OldShapes[k].size <= n
  <2>1. /\ WordsOf(OldShapes) \in Nat /\ WordsOf(YoungShapes) \in Nat
        /\ k \in Nat /\ OldShapes[k].size \in Nat /\ End(OldShapes, k) <= WordsOf(OldShapes)
    BY ShapesAssumption, WordsOfLayout
  <2>2. QED BY <1>2, <2>1 DEF End
<1>4. ASSUME NEW k \in DOMAIN YoungShapes
      PROVE  YoungShapes[k].size \in Nat /\ YoungShapes[k].size <= n
  <2>1. /\ WordsOf(OldShapes) \in Nat /\ WordsOf(YoungShapes) \in Nat
        /\ k \in Nat /\ YoungShapes[k].size \in Nat /\ End(YoungShapes, k) <= WordsOf(YoungShapes)
    BY ShapesAssumption, WordsOfLayout
  <2>2. QED BY <1>2, <2>1 DEF End
<1>5. \A x \in S : x \in Nat /\ x <= n
  BY <1>1, <1>3, <1>4 DEF Range
<1>6. S # {}
  <2>1. PICK a : a \in PlacedOld \/ a \in PlacedYoung
    BY DEF PlacedObjects
  <2>2. CASE a \in PlacedOld
    <3>1. PICK k \in DOMAIN OldShapes : a = QueueEnd + k
      BY <2>2 DEF PlacedOld
    <3>2. OldShapes[k].size \in S
      BY <1>1, <3>1 DEF Range
    <3>3. QED BY <3>2
  <2>3. CASE a \in PlacedYoung
    <3>1. PICK k \in DOMAIN YoungShapes : a = FromBase + k
      BY <2>3 DEF PlacedYoung
    <3>2. YoungShapes[k].size \in S
      BY <1>1, <3>1 DEF Range
    <3>3. QED BY <3>2
  <2>4. QED BY <2>1, <2>2, <2>3
<1>7. PICK D : D = {n - x : x \in S}
  OBVIOUS
<1>8. D \in SUBSET Nat /\ D # {}
  BY <1>2, <1>5, <1>6, <1>7
<1>9. PICK d \in D : \A e \in D : d <= e
  BY <1>8, LeastElement
<1>10. PICK x \in S : d = n - x
  BY <1>7
<1>11. \A y \in S : y <= x
  <2>1. ASSUME NEW y \in S PROVE y <= x
    <3>1. d <= n - y
      BY <1>7, <1>9
    <3>2. QED BY <1>2, <1>5, <1>10, <3>1
  <2>2. QED BY <2>1
<1>12. \E z \in S : \A s \in Range(OldShapes) \cup Range(YoungShapes) : s.size <= z
  BY <1>1, <1>11
<1>13. NumSlots \in S
  BY <1>1, <1>12 DEF NumSlots
<1>14. QED BY <1>5, <1>13

LEMMA SlotsNumbered ==
  ASSUME NEW m, NEW g, Hashed(m, Objs(g)), NEW a \in Objs(g)
  PROVE  NumSlots \in Nat
<1>1. HashAt(m, a) \in 1 .. Cardinality(PlacedObjects)
  BY DEF Hashed
<1>2. PlacedObjects # {}
  <2>1. SUFFICES ASSUME PlacedObjects = {} PROVE FALSE
    OBVIOUS
  <2>2. Cardinality(PlacedObjects) = 0
    BY <2>1, FS_EmptySet
  <2>3. QED BY <1>1, <2>2
<1>3. QED BY <1>2, SlotsCounted

(* The program's objects after it are those of before that were reached.    *)
LEMMA EndedObjs ==
  ASSUME NEW g, NEW on, NEW fn, Placement(g, on, fn), NEW M, NEW R, NEW g2, MovedShapes(g2, g, M, R),
         QueueArray \in M
  PROVE  /\ \A x \in Objs(g2) : \E a \in Objs(g) : a \in M /\ x = New(g, M, a)
         /\ \A a \in Objs(g) : a \in M => New(g, M, a) \in Objs(g2)
<1>1. New(g, M, QueueArray) = QueueArray /\ QueueArray \in DOMAIN g
  BY QueueStays DEF Placement
<1>2. ASSUME NEW x \in Objs(g2) PROVE \E a \in Objs(g) : a \in M /\ x = New(g, M, a)
  <2>1. PICK a \in DOMAIN g : a \in M /\ x = New(g, M, a)
    BY DEF MovedShapes, Objs
  <2>2. a # QueueArray
    BY <1>1, <2>1 DEF Objs
  <2>3. QED BY <2>1, <2>2 DEF Objs
<1>3. ASSUME NEW a \in Objs(g), a \in M PROVE New(g, M, a) \in Objs(g2)
  <2>1. a \in DOMAIN g /\ a # QueueArray
    BY DEF Objs
  <2>2. New(g, M, a) # New(g, M, QueueArray)
    BY <1>1, <1>3, <2>1, NewDiffers
  <2>3. New(g, M, a) \in DOMAIN g2
    BY <1>3, <2>1 DEF MovedShapes
  <2>4. QED BY <1>1, <2>2, <2>3 DEF Objs
<1>4. QED BY <1>2, <1>3

LEMMA EndedHash ==
  ASSUME NEW u, NEW g, NEW on, NEW fn, Heap(u, g, on, fn), NEW M, MarksOf(g, M),
         NEW s, Settled(s, u, g, M), NEW m, Compacted(m, s, g, M, fn),
         NEW R, Rescuing(g, M, R), NEW m2, Ended(m2, m, R),
         NEW c, Heap(c, g, on, fn), AllKept(c, g, u),
         NEW a \in DOMAIN g, a \in M, NEW x, x = New(g, M, a)
  PROVE  HashAt(m2, x) = HashAt(c, a)
<1>1. /\ x \in R => m2[x - 2] = Bits([MovedBits(u, a) EXCEPT !.hasWeaks = FALSE])
      /\ x \notin R => m2[x - 2] = Bits(MovedBits(u, a))
  BY EndedObject
<1>2. /\ a - 2 \in Location /\ Is("bits", u[a - 2]) /\ Value(u[a - 2]) \in HeaderBits
      /\ Is("bits", c[a - 2]) /\ Value(c[a - 2]) \in HeaderBits
  BY HeaderWord
<1>3. Kept(c, g, a - 2, u[a - 2])
  BY <1>2 DEF AllKept
<1>4. SameButFlags(Value(u[a - 2]), Value(c[a - 2]))
  BY <1>2, <1>3 DEF Kept, SameButFlags
<1>5. Value(u[a - 2]).hash = Value(c[a - 2]).hash
  BY <1>2, <1>4 DEF SameButFlags, HeaderBits
<1>6. PICK h \in HeaderBits : h = Value(u[a - 2])
  BY <1>2
<1>7. PICK b : b = MovedBits(u, a)
  OBVIOUS
<1>8. b \in HeaderBits /\ b.hash = h.hash
  BY <1>6, <1>7 DEF HeaderBits, MovedBits
<1>9. [b EXCEPT !.hasWeaks = FALSE].hash = b.hash
  BY <1>8 DEF HeaderBits
<1>10. Value(m2[x - 2]).hash = h.hash
  <2>1. CASE x \in R
    <3>1. Value(m2[x - 2]) = [b EXCEPT !.hasWeaks = FALSE]
      BY <1>1, <1>7, <2>1, Tags
    <3>2. QED BY <1>8, <1>9, <3>1
  <2>2. CASE x \notin R
    <3>1. Value(m2[x - 2]) = b
      BY <1>1, <1>7, <2>2, Tags
    <3>2. QED BY <1>8, <3>1
  <2>3. QED BY <2>1, <2>2
<1>11. QED BY <1>5, <1>6, <1>10 DEF HashAt


Over(c, u, g, on, fn, M, s, m, R, m2, g2) ==
  /\ Heap(c, g, on, fn) /\ Heap(u, g, on, fn) /\ AllKept(c, g, u)
  /\ MarksOf(g, M) /\ QueueArray \in M /\ Association \in M
  /\ Settled(s, u, g, M) /\ Compacted(m, s, g, M, fn)
  /\ Rescuing(g, M, R) /\ Ended(m2, m, R) /\ MovedShapes(g2, g, M, R)

LEMMA NamesApart ==
  ASSUME NEW g, NEW on, NEW fn, Placement(g, on, fn), NEW a \in DOMAIN g
  PROVE  /\ OldBase + 2 <= a /\ a \in Nat /\ a # Nil /\ a # ResidueObject /\ a # Association
         /\ a \notin LibraryObjects
BY Extents, Numbers, Bounds

LEMMA Named ==
  ASSUME NEW m, NEW g, NEW b
  PROVE  /\ b \in Objs(g) /\ b \notin LibraryObjects => Name(m, g, Oop(b)) = HashAt(m, b)
         /\ b \notin Objs(g) => Name(m, g, Oop(b)) = IF b = ResidueObject THEN -1
                                                     ELSE IF b = Nil THEN 0 ELSE -2
<1>1. Is("oop", Oop(b)) /\ Value(Oop(b)) = b
  BY Tags
<1>2. Nil # ResidueObject /\ Nil \in LibraryObjects /\ ResidueObject \in LibraryObjects
  BY Numbers
<1>3. QED BY <1>1, <1>2 DEF Name

LEMMA MovedApart ==
  ASSUME NEW g, NEW on, NEW fn, Placement(g, on, fn), NEW M, NEW R, NEW g2, MovedShapes(g2, g, M, R),
         NEW x \in DOMAIN g2
  PROVE  x \notin LibraryObjects
<1>1. PICK a \in DOMAIN g : a \in M /\ x = New(g, M, a)
  BY DEF MovedShapes
<1>2. OldBase + 2 <= x /\ x \in Nat
  BY <1>1, NewPlace
<1>3. QED BY <1>2, Numbers, Bounds

(* A word that was kept and renamed names what it named before.             *)
LEMMA OverName ==
  ASSUME NEW c, NEW u, NEW g, NEW on, NEW fn, NEW M, NEW s, NEW m, NEW R, NEW m2, NEW g2,
         Over(c, u, g, on, fn, M, s, m, R, m2, g2),
         NEW l \in Location, IsCell(g, l), l # QueueArray, u[l] = c[l],
         NEW v, Renaming(g, M, u[l], v)
  PROVE  /\ Name(m2, g2, v) = Name(c, g, c[l])
         /\ \A b \in DOMAIN g : c[l] = Oop(b) => b \in M
<1>1. /\ Heap(c, g, on, fn) /\ Heap(u, g, on, fn) /\ AllKept(c, g, u) /\ MarksOf(g, M) /\ QueueArray \in M
      /\ Settled(s, u, g, M) /\ Compacted(m, s, g, M, fn)
      /\ Rescuing(g, M, R) /\ Ended(m2, m, R) /\ MovedShapes(g2, g, M, R) /\ Placement(g, on, fn)
  BY DEF Over, Heap
<1>2. /\ \A b \in DOMAIN g : u[l] = Oop(b) => b \in M /\ v = Oop(New(g, M, b))
      /\ \A b : b \notin DOMAIN g /\ u[l] = Oop(b) => v = Oop(b)
  BY <1>1, RenamedWord
<1>3. PICK b \in Known(g) : c[l] = Oop(b)
  BY <1>1 DEF Heap, CellsHold
<1>4. Is("oop", c[l]) /\ Value(c[l]) = b
  BY <1>3, Tags
<1>5. CASE b \in DOMAIN g /\ b # QueueArray
  <2>1. b \in M /\ v = Oop(New(g, M, b)) /\ b \in Objs(g)
    BY <1>2, <1>3, <1>5 DEF Objs
  <2>2. New(g, M, b) \in Objs(g2)
    BY <1>1, <2>1, EndedObjs
  <2>3. HashAt(m2, New(g, M, b)) = HashAt(c, b)
    BY <1>1, <1>5, <2>1, EndedHash
  <2>4. Name(c, g, c[l]) = HashAt(c, b)
    BY <1>1, <1>3, <1>5, <2>1, Named, NamesApart
  <2>5. Name(m2, g2, v) = HashAt(m2, New(g, M, b))
    <3>1. New(g, M, b) \in DOMAIN g2
      BY <2>2 DEF Objs
    <3>2. New(g, M, b) \notin LibraryObjects
      BY <1>1, <3>1, MovedApart
    <3>3. QED BY <2>1, <2>2, <3>2, Named
  <2>6. QED BY <1>2, <2>3, <2>4, <2>5
<1>6. CASE b = QueueArray
  <2>1. New(g, M, QueueArray) = QueueArray /\ QueueArray \in DOMAIN g
    BY <1>1, QueueStays DEF Placement
  <2>2. v = Oop(QueueArray)
    BY <1>2, <1>3, <1>6, <2>1
  <2>3. QueueArray # Nil /\ QueueArray # ResidueObject
    BY <1>1, <2>1, NamesApart
  <2>4. QueueArray \notin Objs(g) /\ QueueArray \notin Objs(g2)
    BY DEF Objs
  <2>5. QED BY <1>1, <1>2, <1>3, <1>6, <2>1, <2>2, <2>3, <2>4, Named
<1>7. CASE b \in LibraryObjects
  <2>1. b \notin DOMAIN g /\ \A x \in DOMAIN g : x # b
    BY <1>1, <1>7, NamesApart
  <2>2. v = Oop(b)
    BY <1>2, <1>3, <2>1
  <2>3. b \notin Objs(g)
    BY <2>1 DEF Objs
  <2>4. b \notin Objs(g2)
    BY <1>1, <1>7, MovedApart DEF Objs
  <2>5. QED BY <1>2, <1>3, <2>1, <2>2, <2>3, <2>4, Named
<1>8. QED BY <1>3, <1>5, <1>6, <1>7 DEF Known

(* What becomes of a slot.                                                  *)
SlotSurvives(c, g, M, m2, g2, a, x, k) ==
  \/ /\ SlotName(m2, g2, x, k) = SlotName(c, g, a, k)
     /\ k < g[a].size => \A b \in DOMAIN g : c[a + k] = Oop(b) => b \in M
  \/ /\ k < g[a].size /\ 0 <= k /\ g[a].weak /\ ~g[a].ephemeron
     /\ SlotName(m2, g2, x, k) = -1
     /\ \E b \in Objs(g) : c[a + k] = Oop(b) /\ b \notin M

LEMMA OverSlot ==
  ASSUME NEW c, NEW u, NEW g, NEW on, NEW fn, NEW M, NEW s, NEW m, NEW R, NEW m2, NEW g2,
         Over(c, u, g, on, fn, M, s, m, R, m2, g2), Buried(c, g, u, M),
         NEW a \in Objs(g), a \in M, NEW x, x = New(g, M, a), NEW k \in Int, -1 <= k
  PROVE  SlotSurvives(c, g, M, m2, g2, a, x, k)
<1>1. /\ Heap(c, g, on, fn) /\ Heap(u, g, on, fn) /\ AllKept(c, g, u) /\ MarksOf(g, M) /\ QueueArray \in M
      /\ Settled(s, u, g, M) /\ Compacted(m, s, g, M, fn)
      /\ Rescuing(g, M, R) /\ Ended(m2, m, R) /\ MovedShapes(g2, g, M, R) /\ Placement(g, on, fn)
  BY DEF Over, Heap
<1>2. a \in DOMAIN g /\ a # QueueArray /\ a \in Known(g)
  BY DEF Objs, Known
<1>3. g2[x].size = g[a].size /\ g[a].size \in Nat /\ a \in Nat
  BY <1>1, <1>2, MovedExtent, Extents
<1>4. CASE ~(k < g[a].size)
  BY <1>3, <1>4 DEF SlotSurvives, SlotName
<1>5. CASE k < g[a].size
  <2>1. PICK l : l = a + k
    OBVIOUS
  <2>2. PICK v : v = m2[x + k]
    OBVIOUS
  <2>3. /\ l \in Location /\ l \in SlotsAt(g, a) /\ IsCell(g, l)
        /\ Renaming(g, M, u[l], v)
    BY <1>1, <1>2, <1>5, <2>1, <2>2, EndedSlot
  <2>4. SlotName(m2, g2, x, k) = Name(m2, g2, v) /\ SlotName(c, g, a, k) = Name(c, g, c[l])
    BY <1>3, <1>5, <2>1, <2>2 DEF SlotName
  <2>5. ~(QueueArray <= l /\ l <= QueueArray + QueueSize)
    <3>1. SUFFICES ASSUME QueueArray <= l, l <= QueueArray + QueueSize PROVE FALSE
      OBVIOUS
    <3>2. PICK j : j = l - QueueArray
      OBVIOUS
    <3>3. j \in 0 .. QueueSize /\ l = QueueArray + j
      BY <1>3, <2>1, <3>1, <3>2, Numbers
    <3>4. l \in SlotsAt(g, QueueArray) /\ QueueArray \in Known(g)
      BY <1>1, <3>3, KnownCells DEF Known
    <3>5. QED BY <1>1, <1>2, <2>3, <3>4, SlotIsCell
  <2>6. l # QueueArray
    BY <2>5, Numbers
  <2>7. PICK b \in Known(g) : c[l] = Oop(b)
    BY <1>1, <2>3, <2>6 DEF Heap, CellsHold
  <2>8. u[l] = c[l] \/ (InWeak(g, l) /\ u[l] = Oop(ResidueObject))
    BY <1>1, <2>3, <2>5, <2>7, Tags DEF AllKept, Kept
  <2>9. CASE u[l] = c[l]
    <3>1. /\ Name(m2, g2, v) = Name(c, g, c[l])
          /\ \A d \in DOMAIN g : c[l] = Oop(d) => d \in M
      BY <2>3, <2>6, <2>9, OverName
    <3>2. QED BY <2>1, <2>4, <3>1 DEF SlotSurvives
  <2>10. CASE u[l] # c[l]
    <3>1. InWeak(g, l) /\ u[l] = Oop(ResidueObject)
      BY <2>8, <2>10
    <3>2. PICK d \in Objs(g) : c[l] = Oop(d) /\ d \notin M
      BY <2>3, <2>10, <3>1 DEF Buried
    <3>3. PICK e \in DOMAIN g : g[e].weak /\ ~g[e].ephemeron /\ e <= l /\ l < e + g[e].size
      BY <3>1 DEF InWeak
    <3>4. e = a
      <4>1. e \in Nat /\ g[e].size \in Nat /\ SizeAt(g, e) = g[e].size /\ e \in Known(g) /\ l \in Int
        BY <1>3, <2>1, <3>3, <1>1, Extents DEF SizeAt, Known
      <4>2. l \in SlotsAt(g, e)
        BY <3>3, <4>1 DEF SlotsAt
      <4>3. QED BY <1>1, <1>2, <2>3, <4>1, <4>2, SlotIsCell
    <3>5. ResidueObject \notin DOMAIN g
      BY <1>1, NamesApart
    <3>6. v = Oop(ResidueObject)
      BY <1>1, <2>3, <3>1, <3>5, RenamedWord
    <3>7. ResidueObject \notin Objs(g2)
      BY <1>1, MovedApart, Numbers DEF Objs
    <3>8. Name(m2, g2, v) = -1
      BY <3>6, <3>7, Named
    <3>9. 0 <= k
      BY <1>3, <2>1, <3>3, <3>4
    <3>10. QED BY <1>5, <2>1, <2>4, <3>2, <3>3, <3>4, <3>8, <3>9 DEF SlotSurvives
  <2>11. QED BY <2>9, <2>10
<1>6. QED BY <1>4, <1>5


LEMMA OverRoot ==
  ASSUME NEW c, NEW u, NEW g, NEW on, NEW fn, NEW M, NEW s, NEW m, NEW R, NEW m2, NEW g2,
         Over(c, u, g, on, fn, M, s, m, R, m2, g2),
         NEW l \in RootLocations \cup {Association}
  PROVE  /\ Name(m2, g2, m2[l]) = Name(c, g, c[l])
         /\ \A b \in DOMAIN g : c[l] = Oop(b) => b \in M
<1>1. /\ Heap(c, g, on, fn) /\ Heap(u, g, on, fn) /\ AllKept(c, g, u) /\ MarksOf(g, M) /\ QueueArray \in M
      /\ Settled(s, u, g, M) /\ Compacted(m, s, g, M, fn) /\ Association \in M
      /\ Rescuing(g, M, R) /\ Ended(m2, m, R) /\ MovedShapes(g2, g, M, R) /\ Placement(g, on, fn)
  BY DEF Over, Heap
<1>2. /\ l \in Location /\ IsCell(g, l) /\ l < OldBase /\ Everywhere(g, M, l) /\ l \in Nat
  <2>1. CASE l \in RootLocations
    <3>1. l \in Roots
      BY <2>1, Numbers DEF RootLocations, Roots
    <3>2. WellKnownRoots <= l /\ l < RescuedEphemerons + 1 /\ l < OldBase /\ l \in Nat
      BY <2>1, Numbers DEF RootLocations
    <3>3. l \in Location
      BY <1>1, <3>1, RootIsCell
    <3>4. QED BY <3>1, <3>2, <3>3 DEF IsCell, Everywhere, Reached
  <2>2. CASE l = Association
    <3>1. Association \in Known(g) /\ Association \in Nat /\ Association \notin DOMAIN g
      BY <1>1, NamesApart, Numbers DEF Known
    <3>2. Association \in SlotsAt(g, Association)
      BY <3>1, Numbers DEF SlotsAt, SizeAt
    <3>3. Association \in Location /\ Association < OldBase
      BY Numbers, Bounds
    <3>4. IsCell(g, Association) /\ Everywhere(g, M, Association)
      BY <1>1, <3>1, <3>2 DEF IsCell, Everywhere, Reached
    <3>5. QED BY <2>2, <3>1, <3>3, <3>4
  <2>3. QED BY <2>1, <2>2
<1>3. l # QueueArray /\ ~(QueueArray <= l /\ l <= QueueArray + QueueSize)
  BY <1>2, Numbers, Bounds
<1>4. PICK b \in Known(g) : c[l] = Oop(b)
  BY <1>1, <1>2, <1>3 DEF Heap, CellsHold
<1>5. ~InWeak(g, l)
  <2>1. SUFFICES ASSUME NEW e \in DOMAIN g, e <= l PROVE FALSE
    BY DEF InWeak
  <2>2. OldBase + 2 <= e /\ e \in Nat
    BY <1>1, <2>1, NamesApart
  <2>3. QED BY <1>2, <2>1, <2>2, Bounds
<1>6. u[l] = c[l]
  BY <1>1, <1>2, <1>3, <1>4, <1>5, Tags DEF AllKept, Kept
<1>7. Renaming(g, M, u[l], m2[l])
  BY <1>1, <1>2, EndedRoot
<1>8. QED BY <1>2, <1>3, <1>6, <1>7, OverName

LEMMA OverHashed ==
  ASSUME NEW c, NEW u, NEW g, NEW on, NEW fn, NEW M, NEW s, NEW m, NEW R, NEW m2, NEW g2,
         Over(c, u, g, on, fn, M, s, m, R, m2, g2), Hashed(c, Objs(g))
  PROVE  /\ Hashed(m2, Objs(g2))
         /\ \A a \in Objs(g) : a \in M => /\ New(g, M, a) \in Objs(g2)
                                          /\ HashAt(m2, New(g, M, a)) = HashAt(c, a)
         /\ \A x \in Objs(g2) : \E a \in Objs(g) : a \in M /\ x = New(g, M, a) /\ HashAt(m2, x) = HashAt(c, a)
<1>1. /\ Heap(c, g, on, fn) /\ Heap(u, g, on, fn) /\ AllKept(c, g, u) /\ MarksOf(g, M) /\ QueueArray \in M
      /\ Settled(s, u, g, M) /\ Compacted(m, s, g, M, fn)
      /\ Rescuing(g, M, R) /\ Ended(m2, m, R) /\ MovedShapes(g2, g, M, R) /\ Placement(g, on, fn)
  BY DEF Over, Heap
<1>2. ASSUME NEW a \in Objs(g), a \in M
      PROVE  New(g, M, a) \in Objs(g2) /\ HashAt(m2, New(g, M, a)) = HashAt(c, a)
  <2>1. a \in DOMAIN g
    BY DEF Objs
  <2>2. New(g, M, a) \in Objs(g2)
    BY <1>1, <1>2, EndedObjs
  <2>3. HashAt(m2, New(g, M, a)) = HashAt(c, a)
    BY <1>1, <1>2, <2>1, EndedHash
  <2>4. QED BY <2>2, <2>3
<1>3. ASSUME NEW x \in Objs(g2)
      PROVE  \E a \in Objs(g) : a \in M /\ x = New(g, M, a) /\ HashAt(m2, x) = HashAt(c, a)
  <2>1. PICK a \in Objs(g) : a \in M /\ x = New(g, M, a)
    BY <1>1, EndedObjs
  <2>2. QED BY <1>2, <2>1
<1>4. Hashed(m2, Objs(g2))
  <2>1. ASSUME NEW x \in Objs(g2) PROVE HashAt(m2, x) \in 1 .. Cardinality(PlacedObjects)
    BY <1>3 DEF Hashed
  <2>2. ASSUME NEW x \in Objs(g2), NEW y \in Objs(g2), HashAt(m2, x) = HashAt(m2, y) PROVE x = y
    <3>1. PICK a \in Objs(g) : a \in M /\ x = New(g, M, a) /\ HashAt(m2, x) = HashAt(c, a)
      BY <1>3
    <3>2. PICK b \in Objs(g) : b \in M /\ y = New(g, M, b) /\ HashAt(m2, y) = HashAt(c, b)
      BY <1>3
    <3>3. a = b
      BY <2>2, <3>1, <3>2 DEF Hashed
    <3>4. QED BY <3>1, <3>2, <3>3
  <2>3. QED BY <2>1, <2>2 DEF Hashed
<1>5. QED BY <1>2, <1>3, <1>4

(* The objects that a heap's words name are there.                          *)
Hashes == 1 .. Cardinality(PlacedObjects)
LEMMA NamesObject ==
  ASSUME NEW m, NEW g, NEW on, NEW fn, Heap(m, g, on, fn), NEW l \in Location, IsCell(g, l), l # QueueArray,
         Name(m, g, m[l]) \in Hashes
  PROVE  \E b \in Objs(g) : m[l] = Oop(b) /\ Name(m, g, m[l]) = HashAt(m, b)
<1>1. PICK b \in Known(g) : m[l] = Oop(b)
  BY DEF Heap, CellsHold
<1>2. b \in Objs(g)
  <2>1. SUFFICES ASSUME b \notin Objs(g) PROVE FALSE
    OBVIOUS
  <2>2. Name(m, g, m[l]) \in {-1, 0, -2}
    BY <1>1, <2>1, Named
  <2>3. QED BY <2>2 DEF Hashes
<1>3. b \notin LibraryObjects
  BY <1>2, NamesApart DEF Objs, Heap
<1>4. QED BY <1>1, <1>2, <1>3, Named


LEMMA SlotOfObject ==
  ASSUME NEW g, NEW on, NEW fn, Placement(g, on, fn), NEW a \in Objs(g),
         NEW k \in Int, -1 <= k, k < g[a].size
  PROVE  /\ a + k \in Location /\ a + k \in SlotsAt(g, a) /\ IsCell(g, a + k)
         /\ a + k # QueueArray /\ a \in Known(g)
<1>1. a \in DOMAIN g /\ a # QueueArray /\ a \in Known(g)
  BY DEF Objs, Known
<1>2. a \in Nat /\ g[a].size \in Nat /\ SizeAt(g, a) = g[a].size
  BY <1>1, Extents DEF SizeAt
<1>3. a + k \in SlotsAt(g, a)
  BY <1>2 DEF SlotsAt
<1>4. a + k \in Location
  BY <1>1, <1>3, SlotIsCell
<1>5. a + k # QueueArray
  <2>1. QueueArray \in SlotsAt(g, QueueArray) /\ QueueArray \in Known(g)
    <3>1. QueueArray + 0 \in SlotsAt(g, QueueArray) /\ QueueArray \in DOMAIN g /\ QueueArray \in Nat
      BY KnownCells, Numbers
    <3>2. QED BY <3>1 DEF Known
  <2>2. QED BY <1>1, <1>3, <2>1, SlotIsCell
<1>6. QED BY <1>1, <1>3, <1>4, <1>5 DEF IsCell

LEMMA SlotNamesObject ==
  ASSUME NEW m, NEW g, NEW on, NEW fn, Heap(m, g, on, fn), NEW a \in Objs(g),
         NEW k \in Int, -1 <= k, SlotName(m, g, a, k) \in Hashes
  PROVE  /\ k < g[a].size
         /\ \E b \in Objs(g) : m[a + k] = Oop(b) /\ SlotName(m, g, a, k) = HashAt(m, b)
<1>1. k < g[a].size /\ SlotName(m, g, a, k) = Name(m, g, m[a + k])
  BY DEF SlotName, Hashes
<1>2. Placement(g, on, fn)
  BY DEF Heap
<1>3. a + k \in Location /\ IsCell(g, a + k) /\ a + k # QueueArray
  BY <1>1, <1>2, SlotOfObject
<1>4. QED BY <1>1, <1>3, NamesObject

(* What the program sees afterwards, in terms of what it saw.               *)
SlotKept(o, kept, k) ==
  IF o.kind = "weak" /\ k # -1 /\ o.slots[k] \in Hashes /\ o.slots[k] \notin kept
  THEN -1 ELSE o.slots[k]
ObjectKept(o, kept) ==
  [kind |-> o.kind, slots |-> [k \in -1 .. NumSlots - 1 |-> SlotKept(o, kept, k)]]

LEMMA OverGraph ==
  ASSUME NEW c, NEW u, NEW g, NEW on, NEW fn, NEW M, NEW s, NEW m, NEW R, NEW m2, NEW g2,
         Over(c, u, g, on, fn, M, s, m, R, m2, g2), Hashed(c, Objs(g)),
         NEW v, Says(v, c, g), NEW v2, Says(v2, m2, g2)
  PROVE  /\ \A h \in DOMAIN v2.graph : h \in DOMAIN v.graph /\ h \in Hashes
         /\ \A a \in Objs(g) : HashAt(c, a) \in DOMAIN v2.graph <=> a \in M
<1>1. ASSUME NEW h \in DOMAIN v2.graph PROVE h \in DOMAIN v.graph /\ h \in Hashes
  <2>1. PICK x \in Objs(g2) : h = HashAt(m2, x)
    BY DEF Says
  <2>2. PICK a \in Objs(g) : a \in M /\ x = New(g, M, a) /\ HashAt(m2, x) = HashAt(c, a)
    BY OverHashed
  <2>3. QED BY <2>1, <2>2 DEF Says, Hashed, Hashes
<1>2. ASSUME NEW a \in Objs(g), a \in M PROVE HashAt(c, a) \in DOMAIN v2.graph
  <2>1. New(g, M, a) \in Objs(g2) /\ HashAt(m2, New(g, M, a)) = HashAt(c, a)
    BY <1>2, OverHashed
  <2>2. QED BY <2>1 DEF Says
<1>3. ASSUME NEW a \in Objs(g), HashAt(c, a) \in DOMAIN v2.graph PROVE a \in M
  <2>1. PICK x \in Objs(g2) : HashAt(c, a) = HashAt(m2, x)
    BY <1>3 DEF Says
  <2>2. PICK b \in Objs(g) : b \in M /\ x = New(g, M, b) /\ HashAt(m2, x) = HashAt(c, b)
    BY OverHashed
  <2>3. a = b
    BY <2>1, <2>2 DEF Hashed
  <2>4. QED BY <2>2, <2>3
<1>4. QED BY <1>1, <1>2, <1>3

LEMMA OverSlotKept ==
  ASSUME NEW c, NEW u, NEW g, NEW on, NEW fn, NEW M, NEW s, NEW m, NEW R, NEW m2, NEW g2,
         Over(c, u, g, on, fn, M, s, m, R, m2, g2), Buried(c, g, u, M), Hashed(c, Objs(g)),
         NEW v, Says(v, c, g), NEW v2, Says(v2, m2, g2),
         NEW a \in Objs(g), a \in M, NEW x, x = New(g, M, a),
         NEW k \in -1 .. NumSlots - 1, NEW o, o = Shown(c, g, a)
  PROVE  SlotName(m2, g2, x, k) = SlotKept(o, DOMAIN v2.graph, k)
<1>1. Heap(c, g, on, fn) /\ Placement(g, on, fn)
  BY DEF Over, Heap
<1>2. NumSlots \in Nat /\ k \in Int /\ -1 <= k
  <2>1. NumSlots \in Nat
    BY SlotsNumbered
  <2>2. QED BY <2>1
<1>3. o.kind = KindIn(g, a) /\ o.slots[k] = SlotName(c, g, a, k)
  BY DEF Shown
<1>4. SlotSurvives(c, g, M, m2, g2, a, x, k)
  BY <1>2, OverSlot
<1>5. CASE /\ SlotName(m2, g2, x, k) = SlotName(c, g, a, k)
           /\ k < g[a].size => \A b \in DOMAIN g : c[a + k] = Oop(b) => b \in M
  <2>1. ASSUME SlotName(c, g, a, k) \in Hashes PROVE SlotName(c, g, a, k) \in DOMAIN v2.graph
    <3>1. /\ k < g[a].size
          /\ \E b \in Objs(g) : c[a + k] = Oop(b) /\ SlotName(c, g, a, k) = HashAt(c, b)
      BY <1>1, <1>2, <2>1, SlotNamesObject
    <3>2. PICK b \in Objs(g) : c[a + k] = Oop(b) /\ SlotName(c, g, a, k) = HashAt(c, b)
      BY <3>1
    <3>3. b \in M
      BY <1>5, <3>1, <3>2 DEF Objs
    <3>4. QED BY <3>2, <3>3, OverGraph
  <2>2. QED BY <1>3, <1>5, <2>1 DEF SlotKept
<1>6. CASE /\ k < g[a].size /\ 0 <= k /\ g[a].weak /\ ~g[a].ephemeron
           /\ SlotName(m2, g2, x, k) = -1
           /\ \E b \in Objs(g) : c[a + k] = Oop(b) /\ b \notin M
  <2>1. PICK b \in Objs(g) : c[a + k] = Oop(b) /\ b \notin M
    BY <1>6
  <2>2. HashAt(c, b) \notin DOMAIN v2.graph /\ HashAt(c, b) \in Hashes
    BY <2>1, OverGraph DEF Hashed, Hashes
  <2>3. SlotName(c, g, a, k) = HashAt(c, b)
    <3>1. b \notin LibraryObjects
      BY <1>1, NamesApart DEF Objs
    <3>2. SlotName(c, g, a, k) = Name(c, g, Oop(b))
      BY <1>6, <2>1 DEF SlotName
    <3>3. QED BY <3>1, <3>2, Named
  <2>4. KindIn(g, a) = "weak"
    BY <1>6 DEF KindIn
  <2>5. k # -1
    BY <1>6
  <2>6. QED BY <1>3, <1>6, <2>2, <2>3, <2>4, <2>5 DEF SlotKept
<1>7. QED BY <1>4, <1>5, <1>6 DEF SlotSurvives

LEMMA OverObjectKept ==
  ASSUME NEW c, NEW u, NEW g, NEW on, NEW fn, NEW M, NEW s, NEW m, NEW R, NEW m2, NEW g2,
         Over(c, u, g, on, fn, M, s, m, R, m2, g2), Buried(c, g, u, M), Hashed(c, Objs(g)), NoEphemeron(g),
         NEW v, Says(v, c, g), NEW v2, Says(v2, m2, g2), NEW h \in DOMAIN v2.graph
  PROVE  v2.graph[h] = ObjectKept(v.graph[h], DOMAIN v2.graph)
<1>1. MovedShapes(g2, g, M, R) /\ Placement(g, on, fn) /\ Rescuing(g, M, R)
  BY DEF Over, Heap
<1>2. PICK x \in Objs(g2) : h = HashAt(m2, x)
  BY DEF Says
<1>3. PICK a \in Objs(g) : a \in M /\ x = New(g, M, a) /\ HashAt(m2, x) = HashAt(c, a)
  BY OverHashed
<1>4. v2.graph[h] = Shown(m2, g2, x) /\ v.graph[h] = Shown(c, g, a)
  BY <1>2, <1>3 DEF Says
<1>5. a \in DOMAIN g
  BY DEF Objs
<1>6. x \notin R
  BY <1>1 DEF Rescuing, NoEphemeron
<1>7. g2[x].weak = g[a].weak /\ g2[x].ephemeron = g[a].ephemeron
  <2>1. WeakUnlessRescued(g2, g, R, x, a)
    BY <1>1, <1>3, <1>5, MovedWeakness
  <2>2. g2[x].ephemeron = g[a].ephemeron
    BY <1>1, <1>3, <1>5, MovedExtent
  <2>3. QED BY <1>6, <2>1, <2>2 DEF WeakUnlessRescued
<1>8. KindIn(g2, x) = KindIn(g, a)
  BY <1>7 DEF KindIn
<1>9. PICK o : o = Shown(c, g, a)
  OBVIOUS
<1>10. \A k \in -1 .. NumSlots - 1 : SlotName(m2, g2, x, k) = SlotKept(o, DOMAIN v2.graph, k)
  BY <1>3, <1>9, OverSlotKept
<1>11. o.kind = KindIn(g, a)
  BY <1>9 DEF Shown
<1>12. Shown(m2, g2, x) = ObjectKept(o, DOMAIN v2.graph)
  BY <1>8, <1>10, <1>11 DEF Shown, ObjectKept
<1>13. QED BY <1>4, <1>9, <1>12


LEMMA NoEntries ==
  ASSUME NEW m, NEW g, NEW on, NEW fn, Heap(m, g, on, fn), NoEphemeron(g), NEW v, Says(v, m, g)
  PROVE  Entries(m) = 0 /\ v.rescued = << >>
<1>1. PICK n \in 2 .. QueueSize + 2 :
        /\ m[QueueArray] = Smi(n)
        /\ \A j \in 1 .. n - 2 : \E e \in DOMAIN g : m[QueueArray + j] = Oop(e) /\ g[e].ephemeron
  BY DEF Heap, CellsHold
<1>2. n = 2
  <2>1. SUFFICES ASSUME n # 2 PROVE FALSE
    OBVIOUS
  <2>2. 1 \in 1 .. n - 2
    BY <1>1, <2>1, Numbers
  <2>3. QED BY <1>1, <2>2 DEF NoEphemeron
<1>3. Entries(m) = 0
  BY <1>1, <1>2, Tags DEF Entries
<1>4. v.rescued = [j \in 1 .. 0 |-> Name(m, g, m[QueueArray + j])]
  BY <1>3 DEF Says
<1>5. QED BY <1>3, <1>4

(* What a collection may do to what the program sees, of which Collect says *)
(* that nothing else happens.                                               *)
Left(v, v2) ==
  /\ \A h \in DOMAIN v2.graph : h \in DOMAIN v.graph
  /\ \A h \in DOMAIN v2.graph : v2.graph[h] = ObjectKept(v.graph[h], DOMAIN v2.graph)
  /\ \A h \in DOMAIN v2.graph : \A k \in -1 .. NumSlots - 1 :
       v2.graph[h].slots[k] \in Hashes => v2.graph[h].slots[k] \in DOMAIN v2.graph
  /\ v2.roots = v.roots /\ \A l \in DOMAIN v.roots : v.roots[l] \in Hashes => v.roots[l] \in DOMAIN v2.graph
  /\ v.rescued = << >> /\ v2.rescued = << >>

LEMMA OverLeft ==
  ASSUME NEW c, NEW u, NEW g, NEW on, NEW fn, NEW M, NEW s, NEW m, NEW R, NEW m2, NEW g2,
         Over(c, u, g, on, fn, M, s, m, R, m2, g2), Buried(c, g, u, M), Hashed(c, Objs(g)),
         NoEphemeron(g), NoEphemeron(g2), NEW on2, NEW fn2, Heap(m2, g2, on2, fn2),
         NEW v, Says(v, c, g), NEW v2, Says(v2, m2, g2)
  PROVE  Left(v, v2)
<1>1. Heap(c, g, on, fn)
  BY DEF Over
<1>2. v.rescued = << >> /\ v2.rescued = << >>
  BY <1>1, NoEntries
<1>3. \A h \in DOMAIN v2.graph : h \in DOMAIN v.graph
  BY OverGraph
<1>4. \A h \in DOMAIN v2.graph : v2.graph[h] = ObjectKept(v.graph[h], DOMAIN v2.graph)
  BY OverObjectKept
<1>5. ASSUME NEW h \in DOMAIN v2.graph, NEW k \in -1 .. NumSlots - 1, v2.graph[h].slots[k] \in Hashes
      PROVE  v2.graph[h].slots[k] \in DOMAIN v2.graph
  <2>1. PICK x \in Objs(g2) : h = HashAt(m2, x)
    BY DEF Says
  <2>2. v2.graph[h].slots[k] = SlotName(m2, g2, x, k)
    <3>1. v2.graph[h] = Shown(m2, g2, x)
      BY <2>1 DEF Says
    <3>2. Shown(m2, g2, x).slots[k] = SlotName(m2, g2, x, k)
      BY DEF Shown
    <3>3. QED BY <3>1, <3>2
  <2>3. k \in Int /\ -1 <= k
    <3>1. Hashed(m2, Objs(g2))
      BY OverHashed
    <3>2. NumSlots \in Nat
      BY <3>1, SlotsNumbered
    <3>3. QED BY <3>2
  <2>4. \E b \in Objs(g2) : m2[x + k] = Oop(b) /\ SlotName(m2, g2, x, k) = HashAt(m2, b)
    BY <1>5, <2>2, <2>3, SlotNamesObject
  <2>5. QED BY <2>2, <2>4 DEF Says
<1>6. v2.roots = v.roots
  BY OverRoot DEF Says
<1>7. ASSUME NEW l \in DOMAIN v.roots, v.roots[l] \in Hashes PROVE v.roots[l] \in DOMAIN v2.graph
  <2>1. l \in RootLocations \cup {Association} /\ v.roots[l] = Name(c, g, c[l])
    BY DEF Says
  <2>2. l \in Location /\ IsCell(g, l) /\ l # QueueArray
    <3>1. CASE l \in RootLocations
      <4>1. l \in Location /\ IsCell(g, l) /\ \A j \in 0 .. QueueSize : l # QueueArray + j
        BY <1>1, <3>1, RootCell DEF Heap
      <4>2. 0 \in 0 .. QueueSize /\ QueueArray + 0 = QueueArray
        BY Numbers
      <4>3. QED BY <4>1, <4>2
    <3>2. CASE l = Association
      <4>1. Association \in Known(g) /\ Association \notin DOMAIN g
        BY <1>1, NamesApart, Numbers DEF Known, Heap
      <4>2. Association \in SlotsAt(g, Association)
        BY <4>1, Numbers DEF SlotsAt, SizeAt
      <4>3. Association # QueueArray /\ Association \in Location
        BY Numbers, Bounds
      <4>4. QED BY <3>2, <4>1, <4>2, <4>3 DEF IsCell
    <3>3. QED BY <2>1, <3>1, <3>2
  <2>3. PICK b \in Objs(g) : c[l] = Oop(b) /\ Name(c, g, c[l]) = HashAt(c, b)
    BY <1>1, <1>7, <2>1, <2>2, NamesObject
  <2>4. b \in M
    BY <2>1, <2>3, OverRoot DEF Objs
  <2>5. QED BY <2>1, <2>3, <2>4, OverGraph
<1>8. QED BY <1>2, <1>3, <1>4, <1>5, <1>6, <1>7 DEF Left

LEMMA LeftIsCollect ==
  ASSUME Left(seen, seen')
  PROVE  Program!Collect
<1>1. PICK K : K = DOMAIN seen'.graph
  OBVIOUS
<1>2. /\ seen.rescued = << >> /\ seen'.rescued = << >> /\ seen'.roots = seen.roots
      /\ \A h \in K : h \in DOMAIN seen.graph /\ seen'.graph[h] = ObjectKept(seen.graph[h], K)
      /\ \A h \in K : \A k \in -1 .. NumSlots - 1 :
           seen'.graph[h].slots[k] \in Hashes => seen'.graph[h].slots[k] \in K
      /\ \A l \in DOMAIN seen.roots : seen.roots[l] \in Hashes => seen.roots[l] \in K
  BY <1>1 DEF Left
<1>3. SubSeq(seen'.rescued, Len(seen.rescued) + 1, Len(seen'.rescued)) = << >>
  BY <1>2
<1>4. Program!ToSet(<< >>) = {}
  BY DEF Program!ToSet
<1>5. Program!RootObjects \subseteq K
  BY <1>2, <1>4 DEF Program!RootObjects, Program!Range, Hashes
<1>6. \A id \in K : \A k \in -1 .. NumSlots - 1 : Program!Target(seen'.graph[id].slots[k]) \subseteq K
  BY <1>2 DEF Program!Target, Hashes
<1>7. Program!IsPrefix(seen.rescued, seen'.rescued)
  BY <1>2 DEF Program!IsPrefix
<1>8. ASSUME NEW id \in K PROVE seen'.graph[id] = Program!Survivor(id, K, seen'.rescued)
  <2>1. \A k \in -1 .. NumSlots - 1 :
          SlotKept(seen.graph[id], K, k)
            = IF seen.graph[id].kind = "weak" /\ k # -1 /\ Program!IsObject(seen.graph[id].slots[k])
                 /\ seen.graph[id].slots[k] \notin K
              THEN Program!Tombstone ELSE seen.graph[id].slots[k]
    BY DEF SlotKept, Hashes, Program!IsObject, Program!Tombstone
  <2>2. id \notin Program!ToSet(seen'.rescued)
    BY <1>2, <1>4
  <2>3. QED BY <1>2, <2>1, <2>2 DEF Program!Survivor, ObjectKept
<1>9. QED BY <1>1, <1>2, <1>3, <1>4, <1>5, <1>6, <1>7, <1>8 DEF Program!Collect


-----------------------------------------------------------------------------
(* What the program sees is what it was given when it was last on: it is    *)
(* the view of the memory, or of the copy while a collection runs.          *)
Viewed(v, m, on, fn) == v = ViewOf(m, on, fn) /\ Hashed(m, ObjectsIn(m, on, fn))
SeenInv ==
  IF pc = "mutator" THEN Viewed(seen, memory, oldNextFree, fromNextFree)
                    ELSE Viewed(seen, copy, oldNextFree, fromNextFree)

LEMMA NamedSays ==
  ASSUME NEW v, NEW m, NEW g, NEW on, NEW fn, Heap(m, g, on, fn), Viewed(v, m, on, fn)
  PROVE  Says(v, m, g) /\ Hashed(m, Objs(g))
<1>1. Hashed(m, Objs(g)) /\ v = ViewOf(m, on, fn)
  BY HeapObjects DEF Viewed
<1>2. QED BY <1>1, HeapSays

LEMMA HashedNamed ==
  ASSUME NEW m, NEW g, NEW on, NEW fn, Heap(m, g, on, fn), Hashed(m, Objs(g)),
         NEW v, v = ViewOf(m, on, fn)
  PROVE  Viewed(v, m, on, fn) /\ Says(v, m, g)
BY HeapObjects, HeapSays DEF Viewed

(* The end of a collection.                                                 *)
LEMMA CompactOver ==
  ASSUME NEW g, NEW u, NEW M, NEW s, CompactInv(g, u, M, s), EndCollection
  PROVE  \E R, g2, on2 : /\ Over(copy, u, g, oldNextFree, fromNextFree, M, s, memory, R, memory', g2)
                         /\ Heap(memory', g2, on2, FromBase)
                         /\ oldNextFree' = on2 /\ fromNextFree' = FromBase
                         /\ NoEphemeron(g) => NoEphemeron(g2)
<1>1. PICK fn : fn = fromNextFree
  OBVIOUS
<1>2. PICK on : on = oldNextFree
  OBVIOUS
<1>3. /\ Heap(u, g, on, fn) /\ Heap(copy, g, on, fn) /\ AllKept(copy, g, u)
      /\ Settled(s, u, g, M) /\ MarksOf(g, M) /\ Association \in M
      /\ Renamed(g, M, newToOld, fn, None)
  BY <1>1, <1>2 DEF CompactInv, MarksOf
<1>4. /\ pc = "compactFrom" /\ ~IsBelowNextFree(NextObject)
      /\ oldNextFree' = auxNextFree /\ fromNextFree' = FromBase
  BY DEF EndCollection
<1>5. buffer = fn
  BY <1>1, <1>4, CompactAtEnd DEF NextFree
<1>6. Compacted(memory, s, g, M, fn) /\ auxNextFree = Pos(g, M, fn)
  BY <1>5, CompactFacts
<1>7. PICK R : R = Rescued
  OBVIOUS
<1>8. Rescuing(g, M, R)
  BY <1>3, <1>6, <1>7, QueueMoved
<1>9. PICK m2 : m2 = memory'
  OBVIOUS
<1>10. Ended(m2, memory, R)
  BY <1>7, <1>9 DEF EndCollection, Ended
<1>11. Placement(g, on, fn)
  BY <1>3 DEF Heap
<1>12. PICK names : names = newToOld
  OBVIOUS
<1>13. Renamed(g, M, names, fn, None)
  BY <1>3, <1>12
<1>14. PICK g2 : g2 = [x \in DOMAIN names |-> IF x \in R THEN [g[names[x]] EXCEPT !.weak = FALSE]
                                             ELSE g[names[x]]]
  OBVIOUS
<1>15. MovedShapes(g2, g, M, R)
  BY <1>11, <1>13, <1>14, ShapesMoved
<1>16. PICK on2 : on2 = Pos(g, M, fn)
  OBVIOUS
<1>17. QueueArray \in M
  BY <1>3, QueueMarked
<1>18. Heap(m2, g2, on2, FromBase)
  BY <1>3, <1>6, <1>8, <1>10, <1>15, <1>16, <1>17, EndedHeap
<1>19. Over(copy, u, g, on, fn, M, s, memory, R, m2, g2)
  BY <1>3, <1>6, <1>8, <1>10, <1>15, <1>17 DEF Over
<1>20. NoEphemeron(g) => NoEphemeron(g2)
  BY <1>11, <1>15, MovedNoEphemeron
<1>21. QED BY <1>1, <1>2, <1>4, <1>6, <1>9, <1>16, <1>18, <1>19, <1>20

LEMMA CollectionSeen ==
  ASSUME NEW g, NEW u, NEW M, NEW s, CompactInv(g, u, M, s), EndCollection, SeenInv,
         NoEphemeron(g), Buried(copy, g, u, M)
  PROVE  Program!Collect /\ SeenInv'
<1>1. PICK R, g2, on2 :
        /\ Over(copy, u, g, oldNextFree, fromNextFree, M, s, memory, R, memory', g2)
        /\ Heap(memory', g2, on2, FromBase)
        /\ oldNextFree' = on2 /\ fromNextFree' = FromBase
        /\ NoEphemeron(g) => NoEphemeron(g2)
  BY CompactOver
<1>2. pc = "compactFrom" /\ pc' = "mutator" /\ seen' = View'
  BY DEF EndCollection
<1>3. Viewed(seen, copy, oldNextFree, fromNextFree)
  BY <1>2 DEF SeenInv
<1>4. Heap(copy, g, oldNextFree, fromNextFree)
  BY <1>1 DEF Over
<1>5. Says(seen, copy, g) /\ Hashed(copy, Objs(g))
  BY <1>3, <1>4, NamedSays
<1>6. PICK m2 : m2 = memory'
  OBVIOUS
<1>7. Over(copy, u, g, oldNextFree, fromNextFree, M, s, memory, R, m2, g2) /\ Heap(m2, g2, on2, FromBase)
  BY <1>1, <1>6
<1>8. Hashed(m2, Objs(g2))
  BY <1>5, <1>7, OverHashed
<1>9. seen' = ViewOf(m2, on2, FromBase)
  BY <1>1, <1>2, <1>6, ViewIsViewOfNext
<1>10. PICK v2 : v2 = seen'
  OBVIOUS
<1>11. Viewed(v2, m2, on2, FromBase) /\ Says(v2, m2, g2)
  BY <1>7, <1>8, <1>9, <1>10, HashedNamed
<1>12. NoEphemeron(g2)
  BY <1>1
<1>13. PICK v : v = seen
  OBVIOUS
<1>14. Says(v, copy, g)
  BY <1>5, <1>13
<1>15. Left(v, v2)
  BY <1>5, <1>7, <1>11, <1>12, <1>14, OverLeft
<1>16. Left(seen, seen')
  BY <1>10, <1>13, <1>15
<1>17. SeenInv'
  <2>1. Viewed(seen', memory', oldNextFree', fromNextFree')
    BY <1>1, <1>6, <1>10, <1>11
  <2>2. QED BY <1>2, <2>1 DEF SeenInv
<1>18. QED BY <1>16, <1>17, LeftIsCollect


-----------------------------------------------------------------------------
(* The steps in between.                                                    *)
LEMMA SameFunctions ==
  ASSUME NEW f, NEW e, f = [h \in DOMAIN f |-> f[h]], e = [h \in DOMAIN e |-> e[h]],
         \A h : h \in DOMAIN f <=> h \in DOMAIN e, \A h \in DOMAIN e : f[h] = e[h]
  PROVE  f = e
<1>1. DOMAIN f = DOMAIN e
  OBVIOUS
<1>2. QED BY <1>1

Dropped(m2, m, l) == m2 = [m EXCEPT ![l] = Oop(Nil)]

LEMMA DropUnnoticed ==
  ASSUME NEW g, NEW on, NEW fn, NEW m, Heap(m, g, on, fn), NEW m2, Heap(m2, g, on, fn),
         NEW l \in RootLocations, Dropped(m2, m, l)
  PROVE  /\ \A a \in Objs(g) : HashAt(m2, a) = HashAt(m, a) /\ Shown(m2, g, a) = Shown(m, g, a)
         /\ \A w : Name(m2, g, w) = Name(m, g, w)
         /\ \A x \in Location : x # l => m2[x] = m[x]
         /\ m2[l] = Oop(Nil) /\ l < OldBase
<1>1. Placement(g, on, fn) /\ DOMAIN m = Location
  BY DEF Heap
<1>2. l \in Location /\ l < OldBase /\ l \in Int
  BY Numbers, Bounds DEF RootLocations
<1>3. m2[l] = Oop(Nil) /\ \A x \in Location : x # l => m2[x] = m[x]
  BY <1>1, <1>2 DEF Dropped
<1>4. ASSUME NEW a \in Objs(g)
      PROVE  /\ HashAt(m2, a) = HashAt(m, a) /\ a \in Nat /\ g[a].size \in Nat /\ OldBase + 2 <= a
             /\ \A k \in Int : -1 <= k /\ k < g[a].size => m2[a + k] = m[a + k]
  <2>1. a \in DOMAIN g
    BY DEF Objs
  <2>2. a \in Nat /\ g[a].size \in Nat /\ OldBase + 2 <= a /\ a + g[a].size <= FromEnd
    BY <1>1, <2>1, Extents
  <2>3. a - 2 \in Location /\ a - 2 # l
    BY <1>2, <2>2, Bounds
  <2>4. HashAt(m2, a) = HashAt(m, a)
    BY <1>3, <2>3 DEF HashAt
  <2>5. \A k \in Int : -1 <= k /\ k < g[a].size => a + k \in Location /\ a + k # l
    BY <1>2, <2>2, Bounds
  <2>6. \A k \in Int : -1 <= k /\ k < g[a].size => m2[a + k] = m[a + k]
    BY <1>3, <2>5
  <2>7. QED BY <2>2, <2>4, <2>6
<1>5. \A w : Name(m2, g, w) = Name(m, g, w)
  BY <1>4 DEF Name
<1>6. ASSUME NEW a \in Objs(g) PROVE Shown(m2, g, a) = Shown(m, g, a)
  <2>1. -1 .. NumSlots - 1 \subseteq Int /\ \A k \in -1 .. NumSlots - 1 : k \in Int /\ -1 <= k
    <3>1. \A k \in -1 .. NumSlots - 1 : k \in Int /\ -1 <= k
      OBVIOUS
    <3>2. QED BY <3>1
  <2>2. \A k \in -1 .. NumSlots - 1 : SlotName(m2, g, a, k) = SlotName(m, g, a, k)
    BY <1>4, <1>5, <2>1 DEF SlotName
  <2>3. QED BY <2>2 DEF Shown
<1>7. QED BY <1>2, <1>3, <1>4, <1>5, <1>6

LEMMA ViewsAreFunctions ==
  ASSUME NEW m, NEW on, NEW fn, NEW v, v = ViewOf(m, on, fn)
  PROVE  v.graph = [h \in DOMAIN v.graph |-> v.graph[h]]
BY DEF ViewOf

LEMMA DropSeen ==
  ASSUME NEW g, QuietInv(g), NEW l \in RootLocations, Drop(l), SeenInv
  PROVE  Program!Drop(l) /\ SeenInv'
<1>1. /\ pc = "mutator" /\ pc' = "mutator" /\ seen' = View'
      /\ memory' = [memory EXCEPT ![l] = Oop(Nil)]
      /\ oldNextFree' = oldNextFree /\ fromNextFree' = fromNextFree
  BY DEF Drop, MayOperate, Operated, spaceVars
<1>2. QuietInv(g)'
  BY QuietDrop
<1>3. PICK m2 : m2 = memory'
  OBVIOUS
<1>4. PICK on : on = oldNextFree
  OBVIOUS
<1>5. PICK fn : fn = fromNextFree
  OBVIOUS
<1>6. PICK m : m = memory
  OBVIOUS
<1>7. Heap(m, g, on, fn) /\ Heap(m2, g, on, fn) /\ Dropped(m2, m, l)
  BY <1>1, <1>2, <1>3, <1>4, <1>5, <1>6 DEF QuietInv, Dropped
<1>8. /\ \A a \in Objs(g) : HashAt(m2, a) = HashAt(m, a) /\ Shown(m2, g, a) = Shown(m, g, a)
      /\ \A w : Name(m2, g, w) = Name(m, g, w)
      /\ \A x \in Location : x # l => m2[x] = m[x]
      /\ m2[l] = Oop(Nil) /\ l < OldBase
  BY <1>7, DropUnnoticed
<1>9. PICK v : v = seen
  OBVIOUS
<1>10. Viewed(v, m, on, fn)
  BY <1>1, <1>4, <1>5, <1>6, <1>9 DEF SeenInv
<1>11. Says(v, m, g) /\ Hashed(m, Objs(g))
  BY <1>7, <1>10, NamedSays
<1>12. Hashed(m2, Objs(g))
  BY <1>8, <1>11 DEF Hashed
<1>13. PICK v2 : v2 = seen'
  OBVIOUS
<1>14. v2 = ViewOf(m2, on, fn)
  BY <1>1, <1>3, <1>4, <1>5, <1>13, ViewIsViewOfNext
<1>15. Viewed(v2, m2, on, fn) /\ Says(v2, m2, g)
  BY <1>7, <1>12, <1>14, HashedNamed
<1>16. SeenInv'
  BY <1>1, <1>3, <1>4, <1>5, <1>13, <1>15 DEF SeenInv
<1>17. v2.graph = v.graph
  <2>1. \A h : h \in DOMAIN v2.graph <=> h \in DOMAIN v.graph
    BY <1>8, <1>11, <1>15 DEF Says
  <2>2. \A h \in DOMAIN v.graph : v2.graph[h] = v.graph[h]
    BY <1>8, <1>11, <1>15 DEF Says
  <2>3. v.graph = [h \in DOMAIN v.graph |-> v.graph[h]]
    BY <1>10, ViewsAreFunctions DEF Viewed
  <2>4. v2.graph = [h \in DOMAIN v2.graph |-> v2.graph[h]]
    BY <1>14, ViewsAreFunctions
  <2>5. PICK f : f = v2.graph
    OBVIOUS
  <2>6. PICK e : e = v.graph
    OBVIOUS
  <2>7. f = e
    BY <2>1, <2>2, <2>3, <2>4, <2>5, <2>6, SameFunctions
  <2>8. QED BY <2>5, <2>6, <2>7
<1>18. v2.roots = [v.roots EXCEPT ![l] = 0]
  <2>1. v.roots = [r \in RootLocations \cup {Association} |-> Name(m, g, m[r])]
    BY <1>11 DEF Says
  <2>2. v2.roots = [r \in RootLocations \cup {Association} |-> Name(m2, g, m2[r])]
    BY <1>15 DEF Says
  <2>3. Name(m2, g, m2[l]) = 0
    <3>1. Nil \notin Objs(g) /\ Nil # ResidueObject
      BY <1>7, NamesApart, Numbers DEF Objs, Heap
    <3>2. QED BY <1>8, <3>1, Named
  <2>4. \A r \in RootLocations \cup {Association} : r # l => Name(m2, g, m2[r]) = Name(m, g, m[r])
    <3>1. \A r \in RootLocations \cup {Association} : r \in Location
      BY Numbers, Bounds DEF RootLocations
    <3>2. QED BY <1>8, <3>1
  <2>5. QED BY <2>1, <2>2, <2>3, <2>4
<1>19. v2.rescued = v.rescued
  <2>1. v.rescued = [j \in 1 .. Entries(m) |-> Name(m, g, m[QueueArray + j])]
    BY <1>11 DEF Says
  <2>2. v2.rescued = [j \in 1 .. Entries(m2) |-> Name(m2, g, m2[QueueArray + j])]
    BY <1>15 DEF Says
  <2>3. QueueArray \in Location /\ QueueArray # l
    BY <1>8, Numbers, Bounds
  <2>4. Entries(m2) = Entries(m)
    BY <1>8, <2>3 DEF Entries
  <2>5. PICK n \in 2 .. QueueSize + 2 : m[QueueArray] = Smi(n)
    BY <1>7 DEF Heap, CellsHold
  <2>6. Entries(m) = n - 2
    BY <2>5, Tags DEF Entries
  <2>7. \A j \in 1 .. n - 2 : QueueArray + j \in Location /\ QueueArray + j # l
    <3>1. \A j \in 0 .. QueueSize : QueueArray + j \in Location
      BY <1>7, KnownCells DEF Heap
    <3>2. \A j \in 1 .. n - 2 : j \in 0 .. QueueSize
      BY Numbers
    <3>3. l \in Int
      BY Numbers DEF RootLocations
    <3>4. QED BY <1>8, <3>1, <3>2, <3>3, Numbers
  <2>8. \A j \in 1 .. n - 2 : Name(m2, g, m2[QueueArray + j]) = Name(m, g, m[QueueArray + j])
    BY <1>8, <2>7
  <2>9. QED BY <2>1, <2>2, <2>4, <2>6, <2>8
<1>20. QED BY <1>9, <1>13, <1>16, <1>17, <1>18, <1>19 DEF Program!Drop, Program!Nil

LEMMA TakesNothing ==
  ASSUME NEW g, QuietInv(g), NoEphemeron(g), NEW l, Take(l)
  PROVE  FALSE
<1>1. Heap(memory, g, oldNextFree, fromNextFree) /\ RescuedCount > 0
  BY DEF QuietInv, Take
<1>2. PICK n \in 2 .. QueueSize + 2 :
        /\ memory[QueueArray] = Smi(n) /\ RescuedCount = n - 2
        /\ \A j \in 1 .. n - 2 : \E e \in DOMAIN g : memory[QueueArray + j] = Oop(e) /\ g[e].ephemeron
  BY <1>1, QueueNow
<1>3. 1 \in 1 .. n - 2
  BY <1>1, <1>2, Numbers
<1>4. QED BY <1>2, <1>3 DEF NoEphemeron


LEMMA CollectorQuiet ==
  ASSUME NEW g, Phase(g), Collector
  PROVE  pc # "mutator"
<1>1. SUFFICES ASSUME pc = "mutator" PROVE FALSE
  OBVIOUS
<1>2. "mutator" \notin MarkLabels /\ "mutator" \notin PlanLabels
  BY DEF MarkLabels, PlanLabels
<1>3. QuietInv(g)
  <2>1. ASSUME NEW u, NEW L, NEW M, NEW T, MarkInv(g, u, L, M, T) PROVE FALSE
    BY <1>1, <1>2, <2>1 DEF MarkInv
  <2>2. ASSUME NEW u, NEW L, NEW M, NEW n, WalkInv(g, u, L, M, n) PROVE FALSE
    BY <1>1, <1>2, <2>2 DEF WalkInv
  <2>3. ASSUME NEW u, NEW M, NEW s, CompactInv(g, u, M, s) PROVE FALSE
    BY <1>1, <2>3 DEF CompactInv
  <2>4. QED BY <2>1, <2>2, <2>3 DEF Phase
<1>4. ~FollowCountStartingAt
  BY <1>3, NotScanning DEF QuietInv
<1>5. ~UnmarkRememberedSet /\ ~EndCollection
  BY <1>1, StepsAt
<1>6. ~SetNewPositionsAndCompact
  <2>1. "setNewPositionsInFrom" \in PlanLabels
    BY DEF PlanLabels
  <2>2. QED BY <1>1, <1>2, <2>1, StepsAt DEF SetNewPositionsAndCompact
<1>7. QED BY <1>1, <1>2, <1>4, <1>5, <1>6, StepsAt DEF Collector

LEMMA CollectorUnseen ==
  ASSUME Collector
  PROVE  EndCollection \/ (UNCHANGED <<copy, seen, oldNextFree, fromNextFree>> /\ (pc' = pc \/ pc' # "mutator"))
<1>1. CASE UnmarkRememberedSet
  BY <1>1 DEF UnmarkRememberedSet, GoTo, historyVars
<1>2. CASE FollowWellKnownObjects \/ FollowStack \/ FollowExtraRoots \/ FollowRescuedEphemerons
  BY <1>2 DEF FollowWellKnownObjects, FollowStack, FollowExtraRoots, FollowRescuedEphemerons,
              FollowRoots, GoTo, historyVars, spaceVars
<1>3. CASE FollowCountStartingAt
  BY <1>3 DEF FollowCountStartingAt, IgnoreSmallInteger, IgnoreSeenInLibrary, FollowInLibrary,
              ThreadSeen, ThreadAndFollow, ResumeScan, FollowStep, historyVars, spaceVars
<1>4. CASE RescueEphemerons
  <2>1. UNCHANGED <<copy, seen, oldNextFree, fromNextFree>>
    BY <1>4 DEF RescueEphemerons, LookForEphemerons, FollowEphemeron, CollectUnknown, Rescan,
                RescueUnknowns, RescueEphemeron, AddRescued, UnknownsRescued, EphemeronsDecided,
                RescueStep, historyVars, spaceVars
  <2>2. pc' # "mutator"
    BY <1>4 DEF RescueEphemerons, LookForEphemerons, FollowEphemeron, CollectUnknown, Rescan,
                RescueUnknowns, RescueEphemeron, AddRescued, UnknownsRescued, EphemeronsDecided,
                GoTo, At
  <2>3. QED BY <2>1, <2>2
<1>5. CASE FixWeakContainer \/ WeakContainersFixed
  BY <1>5 DEF FixWeakContainer, WeakContainersFixed, GoTo, At, historyVars, spaceVars
<1>6. CASE SetNewPositionsAndCompact
  <2>1. WalkStep
    BY <1>6 DEF SetNewPositionsAndCompact, StartUnthreading, UpdateReference, EndUnthreading, SkipUnseen,
                OldPositionsSet, PrepareForCompact, CompactObject, OldCompacted, WalkFrom
  <2>2. pc' # "mutator"
    BY <1>6 DEF SetNewPositionsAndCompact, StartUnthreading, UpdateReference, EndUnthreading, SkipUnseen,
                OldPositionsSet, PrepareForCompact, CompactObject, OldCompacted, WalkFrom,
                Positioning, Compacting
  <2>3. QED BY <2>1, <2>2 DEF WalkStep, historyVars
<1>7. QED BY <1>1, <1>2, <1>3, <1>4, <1>5, <1>6 DEF Collector

-----------------------------------------------------------------------------
(* At the beginning, hashes number the objects.                             *)
LEMMA PlacedFinite ==
  /\ \A a \in PlacedObjects : a \in Nat
  /\ IsFiniteSet(PlacedObjects)
<1>1. ASSUME NEW a \in PlacedObjects PROVE a \in Nat /\ a \in 0 .. FromEnd
  <2>1. a \in DOMAIN PlacedShapes
    BY FirstObjects
  <2>2. Placement(PlacedShapes, OldEnd, FromEnd)
    BY FirstPlacement
  <2>3. a \in Nat /\ a <= End(PlacedShapes, a) /\ End(PlacedShapes, a) <= FromEnd
        /\ End(PlacedShapes, a) = a + PlacedShapes[a].size /\ PlacedShapes[a].size \in Nat
    BY <2>1, <2>2, Extents
  <2>4. FromEnd \in Nat
    BY Bounds
  <2>5. QED BY <2>3, <2>4
<1>2. PlacedObjects \subseteq 0 .. FromEnd
  BY <1>1
<1>3. IsFiniteSet(0 .. FromEnd)
  BY Bounds, FS_Interval
<1>4. QED BY <1>1, <1>2, <1>3, FS_Subset

LEMMA SameCount ==
  ASSUME NEW X, IsFiniteSet(X), NEW Y \in SUBSET X, Cardinality(X) = Cardinality(Y)
  PROVE  \A x \in X : x \in Y
<1>1. X = Y
  BY FS_Subset
<1>2. QED BY <1>1

LEMMA HashesNumber ==
  /\ \A a \in PlacedObjects : HashOf(a) \in 1 .. Cardinality(PlacedObjects)
  /\ \A a, b \in PlacedObjects : HashOf(a) = HashOf(b) => a = b
<1>1. ASSUME NEW a \in PlacedObjects
      PROVE  /\ HashOf(a) = Cardinality({b \in PlacedObjects : b <= a})
             /\ IsFiniteSet({b \in PlacedObjects : b <= a})
             /\ HashOf(a) \in 1 .. Cardinality(PlacedObjects)
  <2>1. PICK S : S = {b \in PlacedObjects : b <= a}
    OBVIOUS
  <2>2. S \in SUBSET PlacedObjects /\ S # {}
    BY <2>1, PlacedFinite
  <2>3. IsFiniteSet(S) /\ Cardinality(S) <= Cardinality(PlacedObjects)
    BY <2>2, PlacedFinite, FS_Subset
  <2>4. Cardinality(S) \in Nat /\ Cardinality(PlacedObjects) \in Nat
    BY <2>3, PlacedFinite, FS_CardinalityType
  <2>5. Cardinality(S) # 0
    BY <2>2, <2>3, FS_EmptySet
  <2>6. HashOf(a) = Cardinality(S)
    BY <2>1 DEF HashOf
  <2>7. Cardinality(S) \in 1 .. Cardinality(PlacedObjects)
    BY <2>3, <2>4, <2>5
  <2>8. QED BY <2>1, <2>3, <2>6, <2>7
<1>2. ASSUME NEW a \in PlacedObjects, NEW b \in PlacedObjects, HashOf(a) = HashOf(b), a < b
      PROVE  FALSE
  <2>1. PICK S : S = {x \in PlacedObjects : x <= a}
    OBVIOUS
  <2>2. PICK T : T = {x \in PlacedObjects : x <= b}
    OBVIOUS
  <2>3. S \in SUBSET T /\ b \in T /\ b \notin S
    BY <1>2, <2>1, <2>2, PlacedFinite
  <2>4. IsFiniteSet(T) /\ Cardinality(T) = Cardinality(S)
    BY <1>1, <1>2, <2>1, <2>2
  <2>5. \A x \in T : x \in S
    BY <2>3, <2>4, SameCount
  <2>6. QED BY <2>3, <2>5
<1>3. ASSUME NEW a \in PlacedObjects, NEW b \in PlacedObjects, HashOf(a) = HashOf(b) PROVE a = b
  <2>1. a \in Nat /\ b \in Nat
    BY PlacedFinite
  <2>2. ~(a < b) /\ ~(b < a)
    BY <1>2, <1>3
  <2>3. QED BY <2>1, <2>2
<1>4. QED BY <1>1, <1>3

LEMMA FirstSeen ==
  ASSUME Init
  PROVE  SeenInv
<1>1. PICK contents \in [PlacedObjects -> [StoredSlots -> PlacedObjects \cup {Nil}]],
           roots \in [RootLocations \cup {Association} -> PlacedObjects \cup {Nil}] :
        LET remembered ==
              {a \in PlacedOld : RefersToYoung(contents, a)}
                \cup IF roots[Association] \in PlacedYoung THEN {Association} ELSE {}
        IN  memory = MemoryOf(contents, roots, remembered)
  BY DEF Init
<1>2. PICK remembered : /\ remembered \subseteq PlacedOld \cup {Association}
                        /\ memory = MemoryOf(contents, roots, remembered)
  BY <1>1
<1>3. FirstContents(contents, roots, remembered)
  BY <1>2 DEF FirstContents
<1>4. fromNextFree = FromEnd /\ oldNextFree = OldEnd
  <2>1. WordsOf(YoungShapes) \in Nat
    BY ShapesAssumption, WordsOfLayout
  <2>2. QED BY <2>1, SpaceSizes DEF Init
<1>5. PICK m : m = memory
  OBVIOUS
<1>6. m = MemoryOf(contents, roots, remembered) /\ Heap(m, PlacedShapes, OldEnd, FromEnd)
  BY <1>2, <1>3, <1>5, FirstHeap
<1>7. ASSUME NEW a \in Objs(PlacedShapes) PROVE a \in PlacedObjects /\ HashAt(m, a) = HashOf(a)
  <2>1. a \in PlacedObjects
    BY FirstObjects DEF Objs
  <2>2. a \in InitialObjects
    BY <2>1 DEF InitialObjects
  <2>3. m[a - 2] = Bits(InitialBits(a, remembered))
    BY <1>3, <1>6, <2>2, FirstHeader
  <2>4. Value(m[a - 2]) = InitialBits(a, remembered)
    BY <2>3, Tags
  <2>5. InitialBits(a, remembered).hash = HashOf(a)
    BY DEF InitialBits
  <2>6. QED BY <2>1, <2>4, <2>5 DEF HashAt
<1>8. Hashed(m, Objs(PlacedShapes))
  BY <1>7, HashesNumber DEF Hashed
<1>9. seen = View /\ pc = "mutator"
  BY DEF Init
<1>10. seen = ViewOf(m, OldEnd, FromEnd)
  BY <1>4, <1>5, <1>9, ViewIsViewOf
<1>11. PICK v : v = seen
  OBVIOUS
<1>12. Viewed(v, m, OldEnd, FromEnd)
  BY <1>6, <1>8, <1>10, <1>11, HashedNamed
<1>13. QED BY <1>4, <1>5, <1>9, <1>11, <1>12 DEF SeenInv

-----------------------------------------------------------------------------
(* Without ephemerons, each step of the collector is one of ObjectMemory.   *)
LEMMA StartSeen ==
  ASSUME StartCollection, SeenInv
  PROVE  SeenInv' /\ UNCHANGED seen
<1>1. /\ pc = "mutator" /\ pc' = "unmarkRememberedSet" /\ copy' = memory
      /\ UNCHANGED <<oldNextFree, fromNextFree, seen>>
  BY DEF StartCollection, GoTo, spaceVars
<1>2. QED BY <1>1 DEF SeenInv

LEMMA CycleSeen ==
  ASSUME CycleInv, NoEphemeronPlaced, SeenInv, [Next]_vars
  PROVE  SeenInv' /\ (Program!Next \/ UNCHANGED seen)
<1>2. PICK g : Phase(g)
  BY DEF CycleInv
<1>4. CASE UNCHANGED vars
  <2>1. UNCHANGED <<seen, memory, copy, oldNextFree, fromNextFree, pc>>
    BY <1>4 DEF vars, spaceVars, historyVars
  <2>2. QED BY <2>1 DEF SeenInv
<1>5. CASE StartCollection
  BY <1>5, StartSeen
<1>6. ASSUME NEW l \in RootLocations, Drop(l) \/ Take(l) PROVE SeenInv' /\ Program!Next
  <2>1. pc = "mutator"
    BY <1>6, StepsAt
  <2>2. QuietInv(g)
    <3>1. "mutator" \notin MarkLabels /\ "mutator" \notin PlanLabels
      BY DEF MarkLabels, PlanLabels
    <3>2. ASSUME NEW u, NEW L, NEW M, NEW T, MarkInv(g, u, L, M, T) PROVE FALSE
      BY <2>1, <3>1, <3>2 DEF MarkInv
    <3>3. ASSUME NEW u, NEW L, NEW M, NEW n, WalkInv(g, u, L, M, n) PROVE FALSE
      BY <2>1, <3>1, <3>3 DEF WalkInv
    <3>4. ASSUME NEW u, NEW M, NEW s, CompactInv(g, u, M, s) PROVE FALSE
      BY <2>1, <3>4 DEF CompactInv
    <3>5. QED BY <1>2, <3>2, <3>3, <3>4 DEF Phase
  <2>3. ~Take(l)
    <3>1. NoEphemeron(g)
      BY <2>2 DEF QuietInv, Undisturbed
    <3>2. QED BY <2>2, <3>1, TakesNothing
  <2>4. Program!Drop(l) /\ SeenInv'
    BY <1>6, <2>2, <2>3, DropSeen
  <2>5. QED BY <2>4 DEF Program!Next
<1>7. CASE EndCollection
  <2>1. pc = "compactFrom"
    BY <1>7 DEF EndCollection
  <2>2. PICK u, M, s : CompactInv(g, u, M, s)
    <3>1. "compactFrom" \notin MarkLabels /\ "compactFrom" \notin PlanLabels /\ "compactFrom" \notin QuietLabels
      BY DEF MarkLabels, PlanLabels, QuietLabels
    <3>2. ASSUME NEW u, NEW L, NEW M, NEW T, MarkInv(g, u, L, M, T) PROVE FALSE
      BY <2>1, <3>1, <3>2 DEF MarkInv
    <3>3. ASSUME NEW u, NEW L, NEW M, NEW n, WalkInv(g, u, L, M, n) PROVE FALSE
      BY <2>1, <3>1, <3>3 DEF WalkInv
    <3>4. ~QuietInv(g)
      BY <2>1, <3>1 DEF QuietInv
    <3>5. QED BY <1>2, <3>2, <3>3, <3>4 DEF Phase
  <2>3. NoEphemeron(g) /\ Buried(copy, g, u, M)
    BY <2>2 DEF CompactInv, WeakTold
  <2>4. Program!Collect /\ SeenInv'
    BY <1>7, <2>2, <2>3, CollectionSeen
  <2>5. QED BY <2>4 DEF Program!Next
<1>8. CASE Collector /\ ~EndCollection
  <2>1. pc # "mutator"
    BY <1>2, <1>8, CollectorQuiet
  <2>2. UNCHANGED <<copy, seen, oldNextFree, fromNextFree>> /\ pc' # "mutator"
    BY <1>8, <2>1, CollectorUnseen
  <2>3. QED BY <2>1, <2>2 DEF SeenInv
<1>9. QED BY <1>4, <1>5, <1>6, <1>7, <1>8 DEF Next


(* In a heap without ephemerons the compactor implements ObjectMemory:      *)
(* whatever it threads, unthreads and moves in a collection, and however    *)
(* many steps that takes, the program sees one step, Collect.  What it      *)
(* reaches is there with its hash, its kind and the objects its slots       *)
(* referred to; a weak slot whose referent nothing reached is a tombstone,  *)
(* and only such a slot; nothing else changes, in any number of collections.*)
THEOREM CompactorImplementsObjectMemory ==
  ASSUME NoEphemeronPlaced
  PROVE  Spec => StepsOfObjectMemory
<1>1. Init => CycleInv /\ SeenInv
  BY CycleInit, FirstSeen
<1>2. CycleInv /\ SeenInv /\ [Next]_vars => CycleInv' /\ SeenInv' /\ [Program!Next]_(Program!vars)
  <2>1. SUFFICES ASSUME CycleInv, SeenInv, [Next]_vars
                 PROVE  CycleInv' /\ SeenInv' /\ [Program!Next]_(Program!vars)
    OBVIOUS
  <2>2. CycleInv'
    <3>1. NothingFoundLate
      BY <2>1, NoneLate
    <3>2. QED BY <2>1, <3>1, CycleNext
  <2>3. SeenInv' /\ (Program!Next \/ UNCHANGED seen)
    BY <2>1, CycleSeen
  <2>4. UNCHANGED seen => UNCHANGED Program!vars
    BY DEF Program!vars
  <2>5. QED BY <2>2, <2>3, <2>4
<1>3. QED BY <1>1, <1>2, PTL DEF Spec, StepsOfObjectMemory

=============================================================================
