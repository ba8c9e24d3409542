--------------------------- MODULE MarkingProofs ----------------------------
(***************************************************************************)
(* What threading does to a heap: the layout of the heap the compactor     *)
(* works on, the lists of slots it makes of it, the steps with which it    *)
(* marks, each as a fact about memories and lists, and the invariant of    *)
(* marking that follows.                                                   *)
(***************************************************************************)
EXTENDS MarkAndCompactGC, SequenceTheorems, WellFoundedInduction, TLAPS

(* Every nonempty set of natural numbers has a least element: inductions    *)
(* over the position in a list are by a least counterexample.               *)
LEMMA LeastElement ==
  ASSUME NEW S \in SUBSET Nat, S # {}
  PROVE  \E n \in S : \A m \in S : n <= m
<1>1. IsWellFoundedOn({ss \in Nat \X Nat : ss[1] < ss[2]}, Nat)
  BY NatLessThanWellFounded, Zenon DEF OpToRel
<1>2. PICK n \in S : \A m \in S : ~ (<<m, n>> \in {ss \in Nat \X Nat : ss[1] < ss[2]})
  BY <1>1, WFMin, Zenon
<1>3. ASSUME NEW m \in S, m < n PROVE FALSE
  <2>1. <<m, n>> \in {ss \in Nat \X Nat : ss[1] < ss[2]}
    BY <1>3, SMT
  <2>2. QED BY <1>2, <2>1, Zenon
<1>4. \A m \in S : n <= m
  BY <1>3
<1>5. QED
  BY <1>4

-----------------------------------------------------------------------------
(* Words. *)
IsWord(w) == w = <<w[1], w[2]>> /\ WordOK(w)

(* A word as there is one outside a collection. *)
Proper(w) == IsWord(w) /\ ~Is("link", w)

(* What a word is can be told from its tag. *)
LEMMA Tags ==
  \A x :
    /\ Is("oop", Oop(x)) /\ Is("smi", Smi(x)) /\ Is("link", Link(x)) /\ Is("bits", Bits(x))
    /\ Is("extension", Extension(x))
    /\ Value(Oop(x)) = x /\ Value(Smi(x)) = x /\ Value(Link(x)) = x /\ Value(Bits(x)) = x
    /\ Value(Extension(x)) = x
    /\ ~Is("smi", Oop(x)) /\ ~Is("link", Oop(x)) /\ ~Is("bits", Oop(x)) /\ ~Is("extension", Oop(x))
    /\ ~Is("oop", Smi(x)) /\ ~Is("link", Smi(x)) /\ ~Is("bits", Smi(x)) /\ ~Is("extension", Smi(x))
    /\ ~Is("oop", Link(x)) /\ ~Is("smi", Link(x)) /\ ~Is("bits", Link(x)) /\ ~Is("extension", Link(x))
    /\ ~Is("oop", Bits(x)) /\ ~Is("smi", Bits(x)) /\ ~Is("link", Bits(x)) /\ ~Is("extension", Bits(x))
    /\ ~Is("oop", Extension(x)) /\ ~Is("smi", Extension(x)) /\ ~Is("link", Extension(x))
    /\ ~Is("bits", Extension(x))
BY DEF Is, Value, Oop, Smi, Link, Bits, Extension

LEMMA Tagged ==
  ASSUME NEW w, IsWord(w)
  PROVE  /\ Is("oop", w) => w = Oop(Value(w)) /\ Value(w) \in Location
         /\ Is("bits", w) => w = Bits(Value(w)) /\ Value(w) \in HeaderBits
         /\ Is("link", w) => w = Link(Value(w)) /\ Value(w) \in Location
         /\ Is("smi", w) => w = Smi(Value(w)) /\ Value(w) \in 2 .. QueueSize + 2
         /\ Is("extension", w) => w = Extension(Value(w))
BY DEF IsWord, WordOK, Is, Value, Oop, Smi, Link, Bits, Extension

LEMMA OopsDiffer ==
  \A a, b : Oop(a) = Oop(b) => a = b
BY DEF Oop

LEMMA WordsMade ==
  /\ \A l \in Location : IsWord(Oop(l)) /\ IsWord(Link(l)) /\ Proper(Oop(l))
  /\ \A n \in 2 .. QueueSize + 2 : Proper(Smi(n))
  /\ \A h \in HeaderBits : Proper(Bits(h))
  /\ \A e \in [size : Nat, isEphemeron : BOOLEAN] : Proper(Extension(e))
BY DEF IsWord, Proper, WordOK, Is, Value, Oop, Smi, Link, Bits, Extension

-----------------------------------------------------------------------------
(* The layout of a heap: object |-> shape, and where the spaces end. *)
Placement(g, on, fn) ==
  /\ on \in OldBase .. FromBase /\ fn \in FromBase .. FromEnd /\ on + fn <= 2 * FromBase
  /\ \A a \in DOMAIN g :
       /\ a \in Int /\ g[a] \in Shape
       /\ \/ OldBase <= Start(g, a) /\ End(g, a) <= on
          \/ FromBase <= Start(g, a) /\ End(g, a) <= fn
       /\ g[a].ephemeron => g[a].extended /\ g[a].size > 0
  /\ \A a, b \in DOMAIN g : a < b => End(g, a) <= Start(g, b)
  /\ fn = FromBase \/ \E a \in DOMAIN g : Start(g, a) = FromBase
  /\ \A a \in DOMAIN g :
       \/ End(g, a) = IF End(g, a) <= on THEN on ELSE fn
       \/ \E b \in DOMAIN g : Start(g, b) = End(g, a)
  /\ QueueArray \in DOMAIN g /\ g[QueueArray] = QueueShape


LEMMA Numbers ==
  /\ NumTemporaries \in Nat /\ QueueSize \in Nat
  /\ Frame = 8 /\ ExtraRoots = 8 + NumTemporaries /\ RescuedEphemerons = 9 + NumTemporaries
  /\ OldBase = 10 + NumTemporaries /\ QueueArray = OldBase + 2 /\ WellKnownRoots = 7
  /\ QueueEnd = QueueArray + QueueSize + 1
  /\ Nil = 2 /\ ResidueObject = 4 /\ Association = 6
  /\ LibraryObjects = {2, 4, 6}
BY NumbersAssumption
   DEF Frame, ExtraRoots, RescuedEphemerons, OldBase, QueueArray, WellKnownRoots, QueueEnd, Nil,
       ResidueObject, Association, LibraryObjects

LEMMA WordsOfLayout ==
  ASSUME NEW shapes, IsLayout(shapes)
  PROVE  /\ WordsOf(shapes) \in Nat
         /\ \A k \in DOMAIN shapes :
              /\ k \in Nat /\ shapes[k].size \in Nat
              /\ HeaderSize(shapes[k]) \in {2, 3} /\ 0 <= Start(shapes, k)
              /\ End(shapes, k) <= WordsOf(shapes)
<1>1. \A k \in DOMAIN shapes :
        k \in Nat /\ shapes[k].size \in Nat /\ HeaderSize(shapes[k]) \in {2, 3} /\ 0 <= Start(shapes, k)
  BY DEF IsLayout, Shape, HeaderSize
<1>2. \A end \in Ends(shapes) : end \in Nat
  BY <1>1 DEF Ends, End
<1>3. WordsOf(shapes) \in Nat
  BY <1>2 DEF IsLayout
<1>4. ASSUME NEW k \in DOMAIN shapes PROVE End(shapes, k) <= WordsOf(shapes)
  <2>1. End(shapes, k) \in Ends(shapes)
    BY DEF Ends
  <2>2. End(shapes, k) = WordsOf(shapes) \/ End(shapes, k) < WordsOf(shapes)
    BY <2>1 DEF IsLayout
  <2>3. QED BY <2>1, <2>2, <1>2, <1>3
<1>5. QED BY <1>1, <1>3, <1>4

(* The bounds of the spaces. *)
LEMMA SpaceSizes ==
  /\ OldBase \in Nat /\ 10 <= OldBase /\ OldEnd \in Nat /\ QueueEnd <= OldEnd
  /\ FromBase \in Nat /\ OldEnd <= FromBase /\ FromEnd \in Nat
  /\ FromBase - OldEnd = WordsOf(YoungShapes) /\ FromEnd - FromBase = WordsOf(YoungShapes)
  /\ OldEnd - QueueEnd = WordsOf(OldShapes)
  /\ OldBase + QueueSize + 3 <= FromBase /\ FromBase <= FromEnd
  /\ Location = 0 .. FromEnd + 2
<1>1. PICK v \in Nat : v = WordsOf(OldShapes)
  BY ShapesAssumption, WordsOfLayout
<1>2. PICK w \in Nat : w = WordsOf(YoungShapes)
  BY ShapesAssumption, WordsOfLayout
<1>3. OldBase \in Nat /\ 10 <= OldBase /\ QueueEnd = OldBase + QueueSize + 3 /\ QueueSize \in Nat
  BY Numbers
<1>4. OldEnd = QueueEnd + v /\ FromBase = OldEnd + w /\ FromEnd = FromBase + w
  BY <1>1, <1>2 DEF OldEnd, FromBase, FromEnd
<1>5. /\ OldEnd \in Nat /\ QueueEnd <= OldEnd
      /\ FromBase \in Nat /\ OldEnd <= FromBase /\ FromEnd \in Nat
      /\ FromBase - OldEnd = w /\ FromEnd - FromBase = w /\ OldEnd - QueueEnd = v
      /\ OldBase + QueueSize + 3 <= FromBase /\ FromBase <= FromEnd
  BY <1>3, <1>4
<1>6. QED
  BY <1>1, <1>2, <1>3, <1>5 DEF Location

LEMMA Bounds ==
  /\ OldBase \in Nat /\ 10 <= OldBase /\ FromBase \in Nat /\ FromEnd \in Nat
  /\ OldBase + 3 <= FromBase /\ FromBase <= FromEnd /\ Location = 0 .. FromEnd + 2
<1>1. QueueSize \in Nat
  BY Numbers
<1>2. QED BY <1>1, SpaceSizes

LEMMA LibraryObject ==
  ASSUME NEW a \in LibraryObjects
  PROVE  /\ a \in Nat /\ a - 2 \in Nat /\ a <= 6 /\ a - 2 < OldBase
         /\ a \in Location /\ a - 2 \in Location /\ a - 2 + 2 = a
         /\ \A b \in LibraryObjects : a - 2 = b - 2 => a = b
<1>1. \A b \in LibraryObjects : b \in {2, 4, 6}
  BY Numbers
<1>2. a \in {2, 4, 6}
  BY Numbers
<1>3. QED BY <1>1, <1>2, Bounds

(* Where an object of a heap is. *)
LEMMA Extents ==
  ASSUME NEW g, NEW on, NEW fn, Placement(g, on, fn), NEW a \in DOMAIN g
  PROVE  /\ a \in Nat /\ g[a].size \in Nat
         /\ Start(g, a) = a - (IF g[a].extended THEN 3 ELSE 2)
         /\ HeaderSize(g[a]) = (IF g[a].extended THEN 3 ELSE 2)
         /\ End(g, a) = a + g[a].size
         /\ OldBase <= Start(g, a) /\ a <= End(g, a) /\ End(g, a) <= FromEnd
         /\ OldBase + 2 <= a
         /\ \/ End(g, a) <= on
            \/ FromBase <= Start(g, a) /\ End(g, a) <= fn
         /\ on \in Nat /\ fn \in Nat /\ on <= FromBase /\ FromBase <= fn /\ fn <= FromEnd
<1>1. a \in Int /\ g[a] \in Shape
  BY DEF Placement
<1>2. g[a].size \in Nat /\ g[a].extended \in BOOLEAN
  BY <1>1 DEF Shape
<1>3. Start(g, a) = a - (IF g[a].extended THEN 3 ELSE 2) /\ End(g, a) = a + g[a].size
      /\ HeaderSize(g[a]) = (IF g[a].extended THEN 3 ELSE 2)
  BY DEF Start, End, HeaderSize
<1>4. on \in OldBase .. FromBase /\ fn \in FromBase .. FromEnd
      /\ (\/ OldBase <= Start(g, a) /\ End(g, a) <= on
          \/ FromBase <= Start(g, a) /\ End(g, a) <= fn)
  BY DEF Placement
<1>5. OldBase \in Nat /\ 10 <= OldBase /\ FromBase \in Nat /\ FromEnd \in Nat
      /\ OldBase <= FromBase /\ FromBase <= FromEnd
  BY Bounds, Numbers
<1>6. QED
  BY <1>1, <1>2, <1>3, <1>4, <1>5

LEMMA Apart ==
  ASSUME NEW g, NEW on, NEW fn, Placement(g, on, fn), NEW a \in DOMAIN g, NEW b \in DOMAIN g,
         NEW l \in Int, Start(g, a) <= l, l <= End(g, a), Start(g, b) <= l, l < End(g, b)
  PROVE  a = b \/ l = End(g, a)
<1>1. a \in Nat /\ b \in Nat /\ End(g, a) \in Nat /\ End(g, b) \in Nat /\ Start(g, a) \in Int /\ Start(g, b) \in Int
  BY Extents
<1>2. a < b => End(g, a) <= Start(g, b)
  BY DEF Placement
<1>3. b < a => End(g, b) <= Start(g, a)
  BY DEF Placement
<1>4. QED
  BY <1>1, <1>2, <1>3


(* The objects of a heap, and the slots with references, from the behavior  *)
(* of an object on.                                                         *)
Known(g) == DOMAIN g \cup LibraryObjects
SizeAt(g, a) ==
  IF a \in DOMAIN g THEN g[a].size ELSE IF a = Association THEN 1 ELSE 0
SlotsAt(g, a) == a - 1 .. a + SizeAt(g, a) - 1
Roots == WellKnownRoots .. RescuedEphemerons

LEMMA KnownObject ==
  ASSUME NEW g, NEW on, NEW fn, Placement(g, on, fn), NEW a \in Known(g)
  PROVE  /\ a \in Nat /\ SizeAt(g, a) \in Nat /\ a \in Location
         /\ a \in DOMAIN g =>
              /\ OldBase + 2 <= a /\ OldBase <= Start(g, a) /\ Start(g, a) < a - 1
              /\ a - 3 \in Location /\ a - 2 \in Location
              /\ SizeAt(g, a) = g[a].size /\ End(g, a) = a + SizeAt(g, a) /\ End(g, a) <= FromEnd
              /\ ArenaIncludes(a)
         /\ a \notin DOMAIN g => a \in {2, 4, 6} /\ SizeAt(g, a) = (IF a = 6 THEN 1 ELSE 0)
         /\ a \in DOMAIN g <=> ArenaIncludes(a)
<1>0. OldBase \in Nat /\ 10 <= OldBase /\ OldBase <= FromEnd /\ FromEnd \in Nat /\ Location = 0 .. FromEnd + 2
      /\ (ArenaIncludes(a) <=> OldBase <= a /\ a <= FromEnd)
  BY Bounds DEF ArenaIncludes
<1>1. CASE a \in DOMAIN g
  <2>1. SizeAt(g, a) = g[a].size
    BY <1>1 DEF SizeAt
  <2>2. a \in Nat /\ g[a].size \in Nat /\ Start(g, a) = a - (IF g[a].extended THEN 3 ELSE 2)
        /\ End(g, a) = a + g[a].size /\ OldBase <= Start(g, a) /\ End(g, a) <= FromEnd
    BY <1>1, Extents
  <2>3. QED BY <1>0, <1>1, <2>1, <2>2
<1>2. CASE a \notin DOMAIN g
  <2>1. a \in {2, 4, 6} /\ SizeAt(g, a) = (IF a = 6 THEN 1 ELSE 0)
    BY <1>2, Numbers DEF Known, SizeAt
  <2>2. QED BY <1>0, <1>2, <2>1
<1>3. QED BY <1>1, <1>2

(* A slot is a slot of one object, and not a word of a header or a root. *)
LEMMA SlotIsCell ==
  ASSUME NEW g, NEW on, NEW fn, Placement(g, on, fn), NEW a \in Known(g), NEW l \in SlotsAt(g, a)
  PROVE  /\ l \in Nat /\ l \in Location /\ l \notin Roots
         /\ \A b \in Known(g) : l \in SlotsAt(g, b) => a = b
         /\ l + 2 \notin DOMAIN g /\ l + 2 \notin LibraryObjects
         /\ \A b \in DOMAIN g : g[b].extended => l # b - 3
<1>1. /\ a \in Nat /\ SizeAt(g, a) \in Nat
      /\ a \in DOMAIN g => /\ OldBase + 2 <= a /\ OldBase <= Start(g, a) /\ Start(g, a) < a - 1
                           /\ SizeAt(g, a) = g[a].size /\ End(g, a) = a + SizeAt(g, a) /\ End(g, a) <= FromEnd
      /\ a \notin DOMAIN g => a \in {2, 4, 6} /\ SizeAt(g, a) = (IF a = 6 THEN 1 ELSE 0)
  BY KnownObject
<1>2. l \in Int /\ a - 1 <= l /\ l <= a + SizeAt(g, a) - 1
  BY <1>1 DEF SlotsAt
<1>3. CASE a \in DOMAIN g
  <2>1. Start(g, a) <= l /\ l < End(g, a) /\ Start(g, a) \in Int /\ End(g, a) \in Int
    BY <1>1, <1>2, <1>3, Extents
  <2>2. OldBase < l /\ l < FromEnd /\ l \in Nat
    <3>1. OldBase \in Nat /\ FromEnd \in Nat
      BY Bounds
    <3>2. QED BY <1>1, <1>2, <1>3, <3>1
  <2>3. ASSUME NEW b \in DOMAIN g, Start(g, b) <= l, l < End(g, b) PROVE a = b
    BY <2>1, <2>3, <1>2, <1>3, Apart
  <2>4. ASSUME NEW b \in Known(g), l \in SlotsAt(g, b) PROVE a = b
    <3>1. CASE b \in DOMAIN g
      <4>1. Start(g, b) < b - 1 /\ End(g, b) = b + SizeAt(g, b) /\ b \in Nat /\ SizeAt(g, b) \in Nat
            /\ Start(g, b) \in Int
        BY <3>1, KnownObject, Extents
      <4>2. Start(g, b) <= l /\ l < End(g, b)
        BY <2>4, <4>1 DEF SlotsAt
      <4>3. QED BY <4>2, <2>3, <3>1
    <3>2. CASE b \notin DOMAIN g
      <4>1. b \in {2, 4, 6} /\ SizeAt(g, b) = (IF b = 6 THEN 1 ELSE 0)
        BY <3>2, KnownObject
      <4>2. l <= 6
        BY <2>4, <4>1 DEF SlotsAt
      <4>3. QED BY <4>2, <2>2, Bounds
    <3>3. QED BY <3>1, <3>2
  <2>5. ASSUME NEW b \in DOMAIN g PROVE l + 2 # b /\ (g[b].extended => l # b - 3)
    <3>1. SUFFICES ASSUME l = b - 2 \/ (g[b].extended /\ l = b - 3) PROVE FALSE
      BY <1>2, Extents
    <3>2. Start(g, b) = b - (IF g[b].extended THEN 3 ELSE 2) /\ b \in Nat /\ b <= End(g, b) /\ End(g, b) \in Int
      BY Extents
    <3>3. Start(g, b) <= l /\ l < End(g, b)
      BY <3>1, <3>2
    <3>4. a = b
      BY <3>3, <2>3
    <3>5. QED BY <3>4, <3>1, <1>2, <1>1
  <2>6. QED
    BY <2>2, <2>4, <2>5, Bounds, Numbers DEF Roots
<1>4. CASE a \notin DOMAIN g
  <2>1. l \in {1, 3, 5, 6}
    BY <1>1, <1>2, <1>4
  <2>2. a = 2 => l = 1
    BY <1>1, <1>2, <1>4
  <2>3. a = 4 => l = 3
    BY <1>1, <1>2, <1>4
  <2>4. a = 6 => l \in {5, 6}
    BY <1>1, <1>2, <1>4
  <2>5. ASSUME NEW b \in DOMAIN g PROVE l < b - 3
    BY <2>1, Extents, Bounds
  <2>6. ASSUME NEW b \in Known(g), l \in SlotsAt(g, b) PROVE a = b
    <3>1. CASE b \in DOMAIN g
      <4>1. l >= b - 1 /\ b \in Nat
        BY <2>6, Extents, <3>1 DEF SlotsAt, SizeAt
      <4>2. QED BY <4>1, <2>5, <3>1, <2>1
    <3>2. CASE b \notin DOMAIN g
      <4>1. b \in {2, 4, 6} /\ SizeAt(g, b) = (IF b = 6 THEN 1 ELSE 0)
        BY <3>2, KnownObject
      <4>2. b - 1 <= l /\ l <= b + SizeAt(g, b) - 1
        BY <4>1, <2>6 DEF SlotsAt
      <4>3. QED BY <4>1, <4>2, <2>1, <2>2, <2>3, <2>4, <1>1, <1>4
    <3>3. QED BY <3>1, <3>2
  <2>7. l \notin Roots
    BY <2>1, Numbers DEF Roots
  <2>8. l + 2 \notin LibraryObjects /\ l \in Location
    BY <2>1, Numbers, Bounds
  <2>9. l + 2 \notin DOMAIN g /\ \A b \in DOMAIN g : l # b - 3
    <3>1. \A b \in DOMAIN g : l < b - 3 /\ b \in Nat
      BY <2>5, Extents
    <3>2. QED BY <3>1, <2>1
  <2>10. QED BY <2>1, <2>6, <2>7, <2>8, <2>9
<1>5. QED BY <1>3, <1>4

LEMMA RootIsCell ==
  ASSUME NEW g, NEW on, NEW fn, Placement(g, on, fn), NEW l \in Roots
  PROVE  /\ l \in Nat /\ l \in Location /\ l < OldBase
         /\ l + 2 \notin DOMAIN g /\ l + 2 \notin LibraryObjects
         /\ \A b \in DOMAIN g : g[b].extended => l # b - 3
<1>1. l \in Nat /\ 7 <= l /\ l < OldBase /\ l \in Location /\ l + 2 \notin LibraryObjects
  BY Numbers, Bounds DEF Roots
<1>2. \A b \in DOMAIN g : b \in Nat /\ OldBase + 2 <= b /\ (g[b].extended => OldBase <= b - 3)
  BY Extents
<1>3. OldBase \in Nat
  BY Bounds
<1>4. QED BY <1>1, <1>2, <1>3


-----------------------------------------------------------------------------
(* A heap outside a collection: headers that tell the layout, references to *)
(* objects, and a queue of ephemerons.                                      *)
Fits(m, g, on, fn) ==
  /\ \A a \in DOMAIN g :
       /\ Is("bits", m[a - 2])
       /\ Value(m[a - 2]).unseenInSpace
       /\ Value(m[a - 2]).extended = g[a].extended
       /\ Value(m[a - 2]).hasWeaks = g[a].weak
       /\ IF g[a].extended
          THEN m[a - 3] = Extension([size |-> g[a].size, isEphemeron |-> g[a].ephemeron])
          ELSE Value(m[a - 2]).size = g[a].size
  /\ \A a \in (OldBase + 2 .. on) \cup (FromBase + 2 .. fn) : Is("bits", m[a - 2]) => a \in DOMAIN g

LibraryFits(m) ==
  \A a \in LibraryObjects :
    /\ Is("bits", m[a - 2])
    /\ ~Value(m[a - 2]).extended /\ ~Value(m[a - 2]).hasWeaks
    /\ Value(m[a - 2]).size = IF a = Association THEN 1 ELSE 0

IsCell(g, l) == l \in Roots \/ \E a \in Known(g) : l \in SlotsAt(g, a)

CellsHold(m, g) ==
  /\ m[WellKnownRoots] = Oop(Association) /\ m[RescuedEphemerons] = Oop(QueueArray)
  /\ \A a \in {Nil, ResidueObject} : \E b \in LibraryObjects : m[a - 1] = Oop(b)
  /\ \E n \in 2 .. QueueSize + 2 :
       /\ m[QueueArray] = Smi(n)
       /\ \A j \in 1 .. n - 2 : \E e \in DOMAIN g : m[QueueArray + j] = Oop(e) /\ g[e].ephemeron
  /\ \A l \in Location : IsCell(g, l) /\ l # QueueArray =>
       \E a \in Known(g) : m[l] = Oop(a) /\ (a = QueueArray => l = RescuedEphemerons)

Heap(m, g, on, fn) ==
  /\ DOMAIN m = Location /\ \A l \in Location : Proper(m[l])
  /\ Placement(g, on, fn) /\ Fits(m, g, on, fn) /\ LibraryFits(m) /\ CellsHold(m, g)

-----------------------------------------------------------------------------
(* The lists.  L gives for every object the slots threaded with it, in the  *)
(* order of threading: the header refers to the last one, each slot to the  *)
(* one before, and the first holds the header bits.  u is the memory as it  *)
(* would be without the lists.                                              *)
InList(L, a, l) == \E j \in 1 .. Len(L[a]) : L[a][j] = l
OnList(L, l) == \E a \in DOMAIN L : InList(L, a, l)
HeadsList(L, l) == l + 2 \in DOMAIN L /\ L[l + 2] # << >>

Chained(m, u, L, a) ==
  /\ m[a - 2] = Link(L[a][Len(L[a])])
  /\ m[L[a][1]] = u[a - 2]
  /\ \A j \in 2 .. Len(L[a]) : m[L[a][j]] = Link(L[a][j - 1])

Lists(u, g, L) ==
  /\ L \in [DOMAIN g -> Seq(Location)]
  /\ \A a \in DOMAIN g : \A j \in 1 .. Len(L[a]) : u[L[a][j]] = Oop(a)
  /\ \A a \in DOMAIN g : \A j, k \in 1 .. Len(L[a]) : L[a][j] = L[a][k] => j = k

Threads(m, u, g, L) ==
  /\ DOMAIN m = Location
  /\ Lists(u, g, L)
  /\ \A a \in DOMAIN g : L[a] # << >> => Chained(m, u, L, a)
  /\ \A l \in Location : ~OnList(L, l) /\ ~HeadsList(L, l) => m[l] = u[l]

(* What marking has reached: M are the objects marked, R the roots still to *)
(* be followed, T the slots of marked objects and the followed roots still  *)
(* to be looked at.                                                         *)
Reached(g, M, R, l) == (\E a \in M : l \in SlotsAt(g, a)) \/ (WellKnownRoots <= l /\ l < R)

Explored(u, g, L, M, R, T) ==
  /\ M \subseteq Known(g) /\ R \in WellKnownRoots .. RescuedEphemerons + 1
  /\ \A a \in DOMAIN g : a \in M <=> L[a] # << >>
  /\ \A a \in LibraryObjects : a \in M <=> Value(u[a - 2]).unseenInSpace
  /\ \A l \in Location : OnList(L, l) => Reached(g, M, R, l) /\ l \notin T
  /\ \A l \in T : l \in Location /\ Reached(g, M, R, l)
  /\ \A l \in Location : Reached(g, M, R, l) /\ l \notin T =>
       \A a \in Known(g) : u[l] = Oop(a) => a \in M /\ (a \in DOMAIN g => InList(L, a, l))


-----------------------------------------------------------------------------
(* Lists of slots. *)
LEMMA Listed ==
  ASSUME NEW u, NEW g, NEW L, Lists(u, g, L), NEW a \in DOMAIN g
  PROVE  /\ DOMAIN L = DOMAIN g /\ L[a] \in Seq(Location) /\ Len(L[a]) \in Nat
         /\ L[a] # << >> <=> 1 <= Len(L[a])
         /\ \A j \in 1 .. Len(L[a]) : L[a][j] \in Location /\ InList(L, a, L[a][j]) /\ OnList(L, L[a][j])
<1>1. DOMAIN L = DOMAIN g /\ L[a] \in Seq(Location)
  BY DEF Lists
<1>2. Len(L[a]) \in Nat /\ (L[a] # << >> <=> 1 <= Len(L[a]))
      /\ \A j \in 1 .. Len(L[a]) : L[a][j] \in Location
  BY <1>1
<1>3. \A j \in 1 .. Len(L[a]) : InList(L, a, L[a][j])
  BY DEF InList
<1>4. QED
  BY <1>1, <1>2, <1>3 DEF OnList

LEMMA Appended ==
  ASSUME NEW g, NEW L \in [DOMAIN g -> Seq(Location)], NEW a \in DOMAIN g, NEW l \in Location, NEW L2,
         L2 = [L EXCEPT ![a] = Append(L[a], l)]
  PROVE  /\ L2 \in [DOMAIN g -> Seq(Location)]
         /\ \A b \in DOMAIN g : b # a => L2[b] = L[b]
         /\ Len(L2[a]) = Len(L[a]) + 1 /\ Len(L[a]) \in Nat /\ L2[a] # << >>
         /\ \A j \in 1 .. Len(L[a]) : L2[a][j] = L[a][j]
         /\ L2[a][Len(L[a]) + 1] = l
         /\ \A b \in DOMAIN g : \A x : InList(L2, b, x) <=> InList(L, b, x) \/ (b = a /\ x = l)
         /\ \A x : OnList(L2, x) <=> OnList(L, x) \/ x = l
         /\ \A x : HeadsList(L2, x) <=> HeadsList(L, x) \/ x + 2 = a
<1>1. L[a] \in Seq(Location) /\ L2[a] = Append(L[a], l) /\ DOMAIN L2 = DOMAIN g /\ DOMAIN L = DOMAIN g
      /\ \A b \in DOMAIN g : b # a => L2[b] = L[b]
  OBVIOUS
<1>2. /\ Append(L[a], l) \in Seq(Location) /\ Len(Append(L[a], l)) = Len(L[a]) + 1 /\ Len(L[a]) \in Nat
      /\ \A j \in 1 .. Len(L[a]) : Append(L[a], l)[j] = L[a][j]
      /\ Append(L[a], l)[Len(L[a]) + 1] = l
  BY <1>1, AppendProperties
<1>3. L2 \in [DOMAIN g -> Seq(Location)]
  BY <1>1, <1>2
<1>4. L2[a] # << >>
  BY <1>1, <1>2
<1>5. ASSUME NEW b \in DOMAIN g, NEW x
      PROVE  InList(L2, b, x) <=> InList(L, b, x) \/ (b = a /\ x = l)
  <2>1. CASE b # a
    BY <2>1, <1>1 DEF InList
  <2>2. CASE b = a
    <3>1. 1 .. Len(L2[a]) = 1 .. Len(L[a]) \cup {Len(L[a]) + 1}
      BY <1>1, <1>2
    <3>2. QED BY <2>2, <3>1, <1>1, <1>2 DEF InList
  <2>3. QED BY <2>1, <2>2
<1>6. \A x : OnList(L2, x) <=> OnList(L, x) \/ x = l
  BY <1>1, <1>5 DEF OnList
<1>7. \A x : HeadsList(L2, x) <=> HeadsList(L, x) \/ x + 2 = a
  BY <1>1, <1>4 DEF HeadsList
<1>8. QED
  BY <1>1, <1>2, <1>3, <1>4, <1>5, <1>6, <1>7

(* What the parts of a heap and its lists say of one word. *)
LEMMA HeaderWord ==
  ASSUME NEW u, NEW g, NEW on, NEW fn, Heap(u, g, on, fn), NEW a \in DOMAIN g
  PROVE  /\ a \in Nat /\ a - 2 \in Location /\ a - 3 \in Location /\ a - 2 + 2 = a
         /\ Is("bits", u[a - 2]) /\ ~Is("oop", u[a - 2]) /\ ~Is("link", u[a - 2])
         /\ ~Is("extension", u[a - 2])
         /\ Value(u[a - 2]) \in HeaderBits /\ u[a - 2] = Bits(Value(u[a - 2]))
         /\ Value(u[a - 2]).unseenInSpace
         /\ Value(u[a - 2]).extended = g[a].extended /\ Value(u[a - 2]).hasWeaks = g[a].weak
         /\ IF g[a].extended
            THEN u[a - 3] = Extension([size |-> g[a].size, isEphemeron |-> g[a].ephemeron])
            ELSE Value(u[a - 2]).size = g[a].size
<1>1. Placement(g, on, fn) /\ a \in Known(g)
  BY DEF Heap, Known
<1>2. a \in Nat /\ a - 2 \in Location /\ a - 3 \in Location
  BY <1>1, KnownObject
<1>3. IsWord(u[a - 2]) /\ ~Is("link", u[a - 2])
  BY <1>2 DEF Heap, Proper
<1>4. Is("bits", u[a - 2])
  BY DEF Heap, Fits
<1>5. u[a - 2] = Bits(Value(u[a - 2])) /\ Value(u[a - 2]) \in HeaderBits
  BY <1>3, <1>4, Tagged
<1>6. ~Is("oop", u[a - 2]) /\ ~Is("extension", u[a - 2])
  BY <1>5, Tags
<1>7. QED
  BY <1>2, <1>3, <1>4, <1>5, <1>6 DEF Heap, Fits

LEMMA ListedWord ==
  ASSUME NEW u, NEW g, NEW on, NEW fn, Heap(u, g, on, fn), NEW L, Lists(u, g, L),
         NEW l, OnList(L, l)
  PROVE  /\ \E a \in DOMAIN g : InList(L, a, l) /\ u[l] = Oop(a)
         /\ l \in Location /\ l + 2 \notin DOMAIN g /\ ~HeadsList(L, l)
         /\ \A a \in DOMAIN g : l # a - 2 /\ (InList(L, a, l) <=> u[l] = Oop(a))
<1>1. DOMAIN L = DOMAIN g
  BY DEF Lists
<1>2. PICK a \in DOMAIN g : InList(L, a, l)
  BY <1>1 DEF OnList
<1>3. PICK j \in 1 .. Len(L[a]) : L[a][j] = l
  BY <1>2 DEF InList
<1>4. u[l] = Oop(a) /\ l \in Location
  BY <1>3, Listed DEF Lists
<1>5. Is("oop", u[l]) /\ l \in Int
  BY <1>4, Tags, Bounds
<1>6. \A b \in DOMAIN g : l # b - 2
  BY <1>5, HeaderWord
<1>7. l + 2 \notin DOMAIN g
  <2>1. (l + 2) - 2 = l
    BY <1>5
  <2>2. QED BY <2>1, <1>6
<1>8. ASSUME NEW b \in DOMAIN g PROVE InList(L, b, l) <=> u[l] = Oop(b)
  <2>1. ASSUME InList(L, b, l) PROVE u[l] = Oop(b)
    BY <2>1 DEF InList, Lists
  <2>2. ASSUME u[l] = Oop(b) PROVE InList(L, b, l)
    <3>1. Value(u[l]) = a /\ Value(u[l]) = b
      BY <1>4, <2>2, Tags
    <3>2. QED BY <3>1, <1>2
  <2>3. QED BY <2>1, <2>2
<1>9. QED
  BY <1>1, <1>2, <1>4, <1>6, <1>7, <1>8 DEF HeadsList


(* _threadWithAt: the slot takes the place of the head of the list, which   *)
(* is kept in it.                                                           *)
LEMMA ThreadOne ==
  ASSUME NEW u, NEW g, NEW on, NEW fn, Heap(u, g, on, fn), NEW m, NEW L, Threads(m, u, g, L),
         NEW l \in Location, ~OnList(L, l), NEW a \in DOMAIN g, u[l] = Oop(a),
         NEW m2, m2 = [m EXCEPT ![l] = m[a - 2], ![a - 2] = Link(l)],
         NEW L2, L2 = [L EXCEPT ![a] = Append(L[a], l)]
  PROVE  Threads(m2, u, g, L2)
<1>1. /\ L \in [DOMAIN g -> Seq(Location)] /\ DOMAIN m = Location /\ Lists(u, g, L)
      /\ DOMAIN L = DOMAIN g
  BY DEF Threads, Lists
<1>2. /\ L2 \in [DOMAIN g -> Seq(Location)]
      /\ \A b \in DOMAIN g : b # a => L2[b] = L[b]
      /\ Len(L2[a]) = Len(L[a]) + 1 /\ Len(L[a]) \in Nat /\ L2[a] # << >>
      /\ \A j \in 1 .. Len(L[a]) : L2[a][j] = L[a][j]
      /\ L2[a][Len(L[a]) + 1] = l
      /\ \A b \in DOMAIN g : \A x : InList(L2, b, x) <=> InList(L, b, x) \/ (b = a /\ x = l)
      /\ \A x : OnList(L2, x) <=> OnList(L, x) \/ x = l
      /\ \A x : HeadsList(L2, x) <=> HeadsList(L, x) \/ x + 2 = a
  BY <1>1, Appended DEF InList, OnList, HeadsList
<1>4. \A b \in DOMAIN g : b - 2 \in Location /\ b \in Nat /\ b - 2 # l
  <2>1. ASSUME NEW b \in DOMAIN g PROVE b - 2 # l /\ b - 2 \in Location /\ b \in Nat
    <3>1. ~Is("oop", u[b - 2]) /\ b - 2 \in Location /\ b \in Nat
      BY HeaderWord
    <3>2. Is("oop", u[l])
      BY Tags
    <3>3. QED BY <3>1, <3>2
  <2>2. QED BY <2>1
<1>5. /\ m2[l] = m[a - 2] /\ m2[a - 2] = Link(l) /\ DOMAIN m2 = Location
      /\ \A x \in Location : x # l /\ x # a - 2 => m2[x] = m[x]
  BY <1>1, <1>4
<1>6. \A b \in DOMAIN g : \A j \in 1 .. Len(L[b]) :
        L[b][j] # l /\ L[b][j] # a - 2 /\ L[b][j] \in Location /\ m2[L[b][j]] = m[L[b][j]]
  <2>1. SUFFICES ASSUME NEW b \in DOMAIN g, NEW j \in 1 .. Len(L[b])
                 PROVE  L[b][j] # l /\ L[b][j] # a - 2 /\ L[b][j] \in Location
    BY <1>5
  <2>2. OnList(L, L[b][j]) /\ L[b][j] \in Location
    BY <1>1, Listed
  <2>3. QED BY <2>2, <1>1, ListedWord
<1>7. Lists(u, g, L2)
  <2>1. ASSUME NEW b \in DOMAIN g, NEW j \in 1 .. Len(L2[b]) PROVE u[L2[b][j]] = Oop(b)
    <3>1. CASE b # a
      BY <3>1, <1>1, <1>2 DEF Lists
    <3>2. CASE b = a /\ j = Len(L[a]) + 1
      BY <3>2, <1>2
    <3>3. CASE b = a /\ j # Len(L[a]) + 1
      BY <3>3, <1>1, <1>2 DEF Lists
    <3>4. QED BY <3>1, <3>2, <3>3
  <2>2. ASSUME NEW b \in DOMAIN g, NEW j \in 1 .. Len(L2[b]), NEW k \in 1 .. Len(L2[b]),
               L2[b][j] = L2[b][k]
        PROVE  j = k
    <3>1. CASE b # a
      BY <3>1, <2>2, <1>1, <1>2 DEF Lists
    <3>2. CASE b = a
      <4>1. \A x \in 1 .. Len(L2[a]) : x = Len(L[a]) + 1 \/ (x \in 1 .. Len(L[a]) /\ L2[a][x] # l)
        BY <1>2, <1>6
      <4>2. QED BY <3>2, <2>2, <4>1, <1>1, <1>2 DEF Lists
    <3>3. QED BY <3>1, <3>2
  <2>3. QED BY <2>1, <2>2, <1>2 DEF Lists
<1>8. ASSUME NEW b \in DOMAIN g, L2[b] # << >> PROVE Chained(m2, u, L2, b)
  <2>1. CASE b # a
    <3>1. L2[b] = L[b] /\ Len(L[b]) \in Nat /\ 1 <= Len(L[b])
      BY <2>1, <1>8, <1>1, <1>2, Listed
    <3>2. Chained(m, u, L, b)
      BY <3>1, <1>8 DEF Threads
    <3>3. m2[b - 2] = m[b - 2]
      BY <2>1, <1>4, <1>5
    <3>4. \A j \in 1 .. Len(L[b]) : m2[L[b][j]] = m[L[b][j]]
      BY <1>6
    <3>5. 1 \in 1 .. Len(L[b]) /\ \A j \in 2 .. Len(L[b]) : j \in 1 .. Len(L[b])
      BY <3>1
    <3>6. QED BY <3>1, <3>2, <3>3, <3>4, <3>5 DEF Chained
  <2>2. CASE b = a
    <3>1. m2[a - 2] = Link(L2[a][Len(L2[a])])
      BY <1>2, <1>5
    <3>2. CASE L[a] = << >>
      <4>1. m[a - 2] = u[a - 2]
        <5>1. ~HeadsList(L, a - 2)
          BY <3>2, <1>4 DEF HeadsList
        <5>2. ~OnList(L, a - 2)
          BY <1>1, ListedWord
        <5>3. QED BY <5>1, <5>2, <1>4 DEF Threads
      <4>2. Len(L2[a]) = 1 /\ L2[a][1] = l
        BY <3>2, <1>2
      <4>3. QED BY <2>2, <3>1, <4>1, <4>2, <1>5 DEF Chained
    <3>3. CASE L[a] # << >>
      <4>1. Chained(m, u, L, a) /\ 1 <= Len(L[a])
        BY <3>3, <1>1, Listed DEF Threads
      <4>2. m2[L2[a][1]] = u[a - 2]
        <5>1. 1 \in 1 .. Len(L[a]) /\ L2[a][1] = L[a][1]
          BY <4>1, <1>2
        <5>2. m2[L[a][1]] = m[L[a][1]]
          BY <5>1, <1>6
        <5>3. QED BY <4>1, <5>1, <5>2 DEF Chained
      <4>3. ASSUME NEW j \in 2 .. Len(L2[a]) PROVE m2[L2[a][j]] = Link(L2[a][j - 1])
        <5>1. CASE j = Len(L[a]) + 1
          BY <5>1, <4>1, <1>2, <1>5 DEF Chained
        <5>2. CASE j # Len(L[a]) + 1
          <6>1. j \in 2 .. Len(L[a]) /\ j \in 1 .. Len(L[a]) /\ j - 1 \in 1 .. Len(L[a])
            BY <5>2, <1>2
          <6>2. m2[L[a][j]] = m[L[a][j]] /\ L2[a][j] = L[a][j] /\ L2[a][j - 1] = L[a][j - 1]
            BY <6>1, <1>2, <1>6
          <6>3. QED BY <6>1, <6>2, <4>1 DEF Chained
        <5>3. QED BY <5>1, <5>2
      <4>4. QED BY <2>2, <3>1, <4>2, <4>3 DEF Chained
    <3>4. QED BY <3>2, <3>3
  <2>3. QED BY <2>1, <2>2
<1>9. ASSUME NEW x \in Location, ~OnList(L2, x), ~HeadsList(L2, x) PROVE m2[x] = u[x]
  <2>1. ~OnList(L, x) /\ ~HeadsList(L, x) /\ x # l /\ x + 2 # a
    BY <1>9, <1>2
  <2>2. x # a - 2
    BY <2>1, <1>4, Bounds
  <2>3. QED BY <2>1, <2>2, <1>5 DEF Threads
<1>10. QED
  BY <1>5, <1>7, <1>8, <1>9 DEF Threads


-----------------------------------------------------------------------------
(* Marking.  What is reached are slots and roots. *)
LEMMA ReachedIsCell ==
  ASSUME NEW g, NEW on, NEW fn, Placement(g, on, fn), NEW M, M \subseteq Known(g),
         NEW R \in WellKnownRoots .. RescuedEphemerons + 1, NEW l \in Int, Reached(g, M, R, l)
  PROVE  /\ l \in Nat /\ l \in Location /\ IsCell(g, l)
         /\ l + 2 \notin DOMAIN g /\ l + 2 \notin LibraryObjects
         /\ \A b \in DOMAIN g : g[b].extended => l # b - 3
<1>1. CASE \E a \in M : l \in SlotsAt(g, a)
  BY <1>1, SlotIsCell DEF IsCell
<1>2. CASE WellKnownRoots <= l /\ l < R
  <2>1. l \in Roots
    BY <1>2, Numbers DEF Roots
  <2>2. QED BY <2>1, RootIsCell DEF IsCell
<1>3. QED BY <1>1, <1>2 DEF Reached

(* The slots of an object that is not marked are not reached. *)
LEMMA Unreached ==
  ASSUME NEW g, NEW on, NEW fn, Placement(g, on, fn), NEW M, M \subseteq Known(g),
         NEW R \in WellKnownRoots .. RescuedEphemerons + 1,
         NEW a \in Known(g), a \notin M, NEW l \in SlotsAt(g, a)
  PROVE  ~Reached(g, M, R, l)
<1>1. l \notin Roots /\ l \in Nat /\ \A b \in Known(g) : l \in SlotsAt(g, b) => a = b
  BY SlotIsCell
<1>2. ~(WellKnownRoots <= l /\ l < R)
  BY <1>1, Numbers DEF Roots
<1>3. QED BY <1>1, <1>2 DEF Reached

LEMMA ReachedMore ==
  ASSUME NEW g, NEW M, NEW R, NEW a, NEW l
  PROVE  Reached(g, M \cup {a}, R, l) <=> Reached(g, M, R, l) \/ l \in SlotsAt(g, a)
BY DEF Reached

(* A slot still to be looked at holds what it always held. *)
LEMMA Untouched ==
  ASSUME NEW u, NEW g, NEW on, NEW fn, Heap(u, g, on, fn), NEW m, NEW L, Threads(m, u, g, L),
         NEW M, NEW R, NEW T, Explored(u, g, L, M, R, T), NEW l \in T
  PROVE  /\ m[l] = u[l] /\ l \in Location /\ l \in Nat /\ ~OnList(L, l) /\ l + 2 \notin DOMAIN g
         /\ Reached(g, M, R, l) /\ IsCell(g, l) /\ l + 2 \notin LibraryObjects
         /\ \A b \in DOMAIN g : g[b].extended => l # b - 3
<1>1. l \in Location /\ Reached(g, M, R, l)
  BY DEF Explored
<1>2. ~OnList(L, l)
  BY <1>1 DEF Explored
<1>3. l \in Nat
  BY <1>1, Bounds
<1>4. /\ IsCell(g, l) /\ l + 2 \notin DOMAIN g /\ l + 2 \notin LibraryObjects
      /\ \A b \in DOMAIN g : g[b].extended => l # b - 3
  <2>1. Placement(g, on, fn)
    BY DEF Heap
  <2>2. M \subseteq Known(g) /\ R \in WellKnownRoots .. RescuedEphemerons + 1
    BY DEF Explored
  <2>3. QED BY <1>1, <1>3, <2>1, <2>2, ReachedIsCell
<1>5. ~HeadsList(L, l)
  BY <1>4 DEF HeadsList, Threads, Lists
<1>6. QED
  BY <1>1, <1>2, <1>3, <1>4, <1>5 DEF Threads

(* A slot whose object needs nothing more. *)
LEMMA ExploreIgnore ==
  ASSUME NEW u, NEW g, NEW L, NEW M, NEW R, NEW T, Explored(u, g, L, M, R, T),
         NEW l \in T, \A a \in Known(g) : u[l] = Oop(a) => a \in M /\ a \notin DOMAIN g
  PROVE  Explored(u, g, L, M, R, T \ {l})
BY DEF Explored

LEMMA ExploreThread ==
  ASSUME NEW u, NEW g, NEW L, Lists(u, g, L), NEW M, NEW R, NEW T, Explored(u, g, L, M, R, T),
         NEW l \in T, NEW a \in DOMAIN g, a \in M, u[l] = Oop(a),
         NEW L2, L2 = [L EXCEPT ![a] = Append(L[a], l)]
  PROVE  Explored(u, g, L2, M, R, T \ {l})
<1>1. L \in [DOMAIN g -> Seq(Location)] /\ l \in Location /\ Reached(g, M, R, l)
  BY DEF Lists, Explored
<1>2. /\ \A b \in DOMAIN g : b # a => L2[b] = L[b]
      /\ L2[a] # << >>
      /\ \A b \in DOMAIN g : \A x : InList(L2, b, x) <=> InList(L, b, x) \/ (b = a /\ x = l)
      /\ \A x : OnList(L2, x) <=> OnList(L, x) \/ x = l
  BY <1>1, Appended DEF InList, OnList
<1>3. \A b \in DOMAIN g : b \in M <=> L2[b] # << >>
  BY <1>2 DEF Explored
<1>4. ASSUME NEW x \in Location, OnList(L2, x) PROVE Reached(g, M, R, x) /\ x \notin T \ {l}
  BY <1>1, <1>2, <1>4 DEF Explored
<1>5. ASSUME NEW x \in Location, Reached(g, M, R, x), x \notin T \ {l}, NEW b \in Known(g), u[x] = Oop(b)
      PROVE  b \in M /\ (b \in DOMAIN g => InList(L2, b, x))
  <2>1. CASE x = l
    <3>1. a = b
      BY <2>1, <1>5, OopsDiffer
    <3>2. QED BY <3>1, <2>1, <1>2
  <2>2. CASE x # l
    BY <2>2, <1>5, <1>2 DEF Explored
  <2>3. QED BY <2>1, <2>2
<1>6. QED
  BY <1>3, <1>4, <1>5 DEF Explored


(* An object of the arena found for the first time: its slots are to be     *)
(* looked at.                                                               *)
LEMMA ExploreFollow ==
  ASSUME NEW u, NEW g, NEW on, NEW fn, Placement(g, on, fn), NEW L, Lists(u, g, L),
         NEW M, NEW R, NEW T, Explored(u, g, L, M, R, T),
         NEW l \in T, NEW a \in DOMAIN g, a \notin M, u[l] = Oop(a),
         NEW L2, L2 = [L EXCEPT ![a] = Append(L[a], l)]
  PROVE  Explored(u, g, L2, M \cup {a}, R, (T \ {l}) \cup SlotsAt(g, a))
<1>1. /\ L \in [DOMAIN g -> Seq(Location)] /\ l \in Location /\ Reached(g, M, R, l)
      /\ M \subseteq Known(g) /\ R \in WellKnownRoots .. RescuedEphemerons + 1 /\ a \in Known(g)
  BY DEF Lists, Explored, Known
<1>2. /\ \A b \in DOMAIN g : b # a => L2[b] = L[b]
      /\ L2[a] # << >>
      /\ \A b \in DOMAIN g : \A x : InList(L2, b, x) <=> InList(L, b, x) \/ (b = a /\ x = l)
      /\ \A x : OnList(L2, x) <=> OnList(L, x) \/ x = l
  BY <1>1, Appended DEF InList, OnList
<1>3. \A x \in SlotsAt(g, a) : ~Reached(g, M, R, x) /\ x \in Location
  BY <1>1, Unreached, SlotIsCell
<1>4. \A x \in Location : Reached(g, M \cup {a}, R, x) <=> Reached(g, M, R, x) \/ x \in SlotsAt(g, a)
  BY ReachedMore
<1>5. \A b \in DOMAIN g : b \in M \cup {a} <=> L2[b] # << >>
  BY <1>2 DEF Explored
<1>6. \A b \in LibraryObjects : b \in M \cup {a} <=> Value(u[b - 2]).unseenInSpace
  <2>1. a \notin LibraryObjects
    <3>1. OldBase + 2 <= a /\ a \in Nat
      BY Extents
    <3>2. QED BY <3>1, Numbers, Bounds
  <2>2. QED BY <2>1 DEF Explored
<1>7. ASSUME NEW x \in Location, OnList(L2, x)
      PROVE  Reached(g, M \cup {a}, R, x) /\ x \notin (T \ {l}) \cup SlotsAt(g, a)
  <2>1. CASE x = l
    BY <2>1, <1>1, <1>3, <1>4
  <2>2. CASE x # l
    <3>1. Reached(g, M, R, x) /\ x \notin T
      BY <2>2, <1>2, <1>7 DEF Explored
    <3>2. QED BY <3>1, <1>3, <1>4
  <2>3. QED BY <2>1, <2>2
<1>8. ASSUME NEW x \in (T \ {l}) \cup SlotsAt(g, a)
      PROVE  x \in Location /\ Reached(g, M \cup {a}, R, x)
  <2>1. CASE x \in T
    BY <2>1, <1>4 DEF Explored
  <2>2. CASE x \in SlotsAt(g, a)
    BY <2>2, <1>3, <1>4
  <2>3. QED BY <2>1, <2>2, <1>8
<1>9. ASSUME NEW x \in Location, Reached(g, M \cup {a}, R, x), x \notin (T \ {l}) \cup SlotsAt(g, a),
             NEW b \in Known(g), u[x] = Oop(b)
      PROVE  b \in M \cup {a} /\ (b \in DOMAIN g => InList(L2, b, x))
  <2>1. CASE x = l
    <3>1. a = b
      BY <2>1, <1>9, OopsDiffer
    <3>2. QED BY <3>1, <2>1, <1>2
  <2>2. CASE x # l
    <3>1. Reached(g, M, R, x) /\ x \notin T
      BY <2>2, <1>4, <1>9
    <3>2. b \in M /\ (b \in DOMAIN g => InList(L, b, x))
      BY <3>1, <1>9 DEF Explored
    <3>3. QED BY <3>2, <1>2
  <2>3. QED BY <2>1, <2>2
<1>10. M \cup {a} \subseteq Known(g)
  BY <1>1
<1>11. QED
  BY <1>1, <1>10, <1>5, <1>6, <1>7, <1>8, <1>9 DEF Explored


-----------------------------------------------------------------------------
(* Other writes. *)
LEMMA OneTag ==
  \A w : /\ Is("oop", w) => ~Is("bits", w) /\ ~Is("link", w) /\ ~Is("smi", w) /\ ~Is("extension", w)
         /\ Is("smi", w) => ~Is("bits", w) /\ ~Is("link", w) /\ ~Is("extension", w)
         /\ Is("bits", w) => ~Is("link", w) /\ ~Is("extension", w)
         /\ Is("link", w) => ~Is("extension", w)
BY DEF Is

LEMMA CellApart ==
  ASSUME NEW g, NEW on, NEW fn, Placement(g, on, fn), NEW l, IsCell(g, l)
  PROVE  /\ l \in Nat /\ l \in Location
         /\ l + 2 \notin DOMAIN g /\ l + 2 \notin LibraryObjects
         /\ \A b \in DOMAIN g : l # b - 2 /\ (g[b].extended => l # b - 3)
         /\ \A b \in LibraryObjects : l # b - 2
<1>1. /\ l \in Nat /\ l \in Location
      /\ l + 2 \notin DOMAIN g /\ l + 2 \notin LibraryObjects
      /\ \A b \in DOMAIN g : g[b].extended => l # b - 3
  <2>1. CASE l \in Roots
    BY <2>1, RootIsCell
  <2>2. CASE \E a \in Known(g) : l \in SlotsAt(g, a)
    BY <2>2, SlotIsCell
  <2>3. QED BY <2>1, <2>2 DEF IsCell
<1>2. ASSUME NEW b \in Known(g) PROVE l # b - 2
  <2>1. b \in Nat
    BY KnownObject
  <2>2. SUFFICES ASSUME l = b - 2 PROVE FALSE
    OBVIOUS
  <2>3. l + 2 = b
    BY <2>1, <2>2
  <2>4. QED BY <2>3, <1>1 DEF Known
<1>3. QED
  BY <1>1, <1>2 DEF Known

(* The roots and the queue are cells. *)
LEMMA KnownCells ==
  ASSUME NEW g, NEW on, NEW fn, Placement(g, on, fn)
  PROVE  /\ IsCell(g, WellKnownRoots) /\ IsCell(g, RescuedEphemerons)
         /\ WellKnownRoots \in Location /\ RescuedEphemerons \in Location
         /\ QueueArray \in Nat /\ QueueArray \in Location /\ QueueArray \in DOMAIN g
         /\ QueueSize \in Nat /\ ~g[QueueArray].weak /\ ~g[QueueArray].ephemeron
         /\ \A j \in 0 .. QueueSize :
              /\ QueueArray + j \in SlotsAt(g, QueueArray)
              /\ IsCell(g, QueueArray + j) /\ QueueArray + j \in Location
<1>1. WellKnownRoots \in Roots /\ RescuedEphemerons \in Roots
  BY Numbers DEF Roots
<1>2. IsCell(g, WellKnownRoots) /\ IsCell(g, RescuedEphemerons)
  BY <1>1 DEF IsCell
<1>3. QueueArray \in Known(g) /\ SizeAt(g, QueueArray) = QueueSize + 1 /\ QueueArray \in DOMAIN g
      /\ ~g[QueueArray].weak /\ ~g[QueueArray].ephemeron
  BY DEF Placement, Known, SizeAt, QueueShape
<1>4. QueueArray \in Nat /\ QueueSize \in Nat
  BY Numbers
<1>5. \A j \in 0 .. QueueSize : QueueArray + j \in SlotsAt(g, QueueArray)
  BY <1>3, <1>4 DEF SlotsAt
<1>6. \A j \in 0 .. QueueSize : IsCell(g, QueueArray + j)
  BY <1>3, <1>5 DEF IsCell
<1>7. WellKnownRoots \in Location /\ RescuedEphemerons \in Location
      /\ \A j \in 0 .. QueueSize : QueueArray + j \in Location
  BY <1>2, <1>6, CellApart
<1>8. QueueArray \in Location
  <2>1. QueueArray + 0 = QueueArray /\ 0 \in 0 .. QueueSize
    BY <1>4
  <2>2. QED BY <2>1, <1>7
<1>9. QED
  BY <1>2, <1>3, <1>4, <1>5, <1>6, <1>7, <1>8

(* The behaviors of nil and of the residue object are slots of no object of *)
(* the arena.                                                               *)
LEMMA LibraryBehaviors ==
  ASSUME NEW g, NEW on, NEW fn, Placement(g, on, fn), NEW a \in {Nil, ResidueObject}
  PROVE  /\ a \in LibraryObjects /\ a - 1 \in SlotsAt(g, a) /\ a - 1 \in Location
         /\ IsCell(g, a - 1) /\ a - 1 \notin Roots
         /\ \A b \in DOMAIN g : a - 1 \notin SlotsAt(g, b)
<1>1. a \in LibraryObjects /\ a \in Known(g)
  BY DEF LibraryObjects, Known
<1>2. a \in Nat /\ SizeAt(g, a) \in Nat /\ a <= 6
  BY <1>1, KnownObject, LibraryObject
<1>3. a - 1 \in SlotsAt(g, a)
  BY <1>2 DEF SlotsAt
<1>4. a - 1 \in Location /\ a - 1 \notin Roots /\ \A b \in Known(g) : a - 1 \in SlotsAt(g, b) => a = b
  BY <1>1, <1>3, SlotIsCell
<1>5. a \notin DOMAIN g
  BY <1>1, <1>2, KnownObject, Bounds
<1>6. QED BY <1>1, <1>3, <1>4, <1>5 DEF IsCell, Known

LEMMA CellsKept ==
  ASSUME NEW u, NEW g, NEW on, NEW fn, Placement(g, on, fn), CellsHold(u, g), NEW u2,
         \A l \in Location : IsCell(g, l) => u2[l] = u[l]
  PROVE  CellsHold(u2, g)
<1>1. PICK n \in 2 .. QueueSize + 2 :
        /\ u[QueueArray] = Smi(n)
        /\ \A j \in 1 .. n - 2 : \E e \in DOMAIN g : u[QueueArray + j] = Oop(e) /\ g[e].ephemeron
  BY DEF CellsHold
<1>2. u2[QueueArray] = Smi(n)
  <2>1. QueueArray + 0 = QueueArray /\ 0 \in 0 .. QueueSize
    BY KnownCells
  <2>2. QED BY <2>1, <1>1, KnownCells
<1>3. \A j \in 1 .. n - 2 : \E e \in DOMAIN g : u2[QueueArray + j] = Oop(e) /\ g[e].ephemeron
  <2>1. \A j \in 1 .. n - 2 : j \in 0 .. QueueSize
    BY KnownCells
  <2>2. QED BY <2>1, <1>1, KnownCells
<1>4. u2[WellKnownRoots] = Oop(Association) /\ u2[RescuedEphemerons] = Oop(QueueArray)
  BY KnownCells DEF CellsHold
<1>5. \A l \in Location : IsCell(g, l) /\ l # QueueArray =>
        \E b \in Known(g) : u2[l] = Oop(b) /\ (b = QueueArray => l = RescuedEphemerons)
  BY DEF CellsHold
<1>6. \A a \in {Nil, ResidueObject} : \E b \in LibraryObjects : u2[a - 1] = Oop(b)
  BY LibraryBehaviors DEF CellsHold
<1>7. QED BY <1>2, <1>3, <1>4, <1>5, <1>6 DEF CellsHold

(* References and small integers are written to slots and roots only. *)
LEMMA HeapRewritten ==
  ASSUME NEW u, NEW g, NEW on, NEW fn, Heap(u, g, on, fn), NEW u2, DOMAIN u2 = Location,
         \A l \in Location : u2[l] # u[l] =>
            IsCell(g, l) /\ (Is("oop", u2[l]) \/ Is("smi", u2[l])) /\ Proper(u2[l]),
         CellsHold(u2, g)
  PROVE  Heap(u2, g, on, fn)
<1>1. Placement(g, on, fn) /\ Fits(u, g, on, fn) /\ LibraryFits(u)
  BY DEF Heap
<1>2. \A l \in Location : Proper(u2[l])
  BY DEF Heap
<1>3. ASSUME NEW a \in DOMAIN g
      PROVE  /\ a - 2 \in Location /\ a - 3 \in Location
             /\ u2[a - 2] = u[a - 2] /\ (g[a].extended => u2[a - 3] = u[a - 3])
  <2>1. a - 2 \in Location /\ a - 3 \in Location
    BY HeaderWord
  <2>2. ~IsCell(g, a - 2) /\ (g[a].extended => ~IsCell(g, a - 3))
    BY <1>1, CellApart
  <2>3. QED BY <2>1, <2>2
<1>4. ASSUME NEW a \in (OldBase + 2 .. on) \cup (FromBase + 2 .. fn), Is("bits", u2[a - 2])
      PROVE  a \in DOMAIN g
  <2>1. a - 2 \in Location
    BY <1>1, Bounds DEF Placement
  <2>2. u2[a - 2] = u[a - 2]
    BY <2>1, <1>4, OneTag
  <2>3. QED BY <2>2, <1>1, <1>4 DEF Fits
<1>5. Fits(u2, g, on, fn)
  BY <1>1, <1>3, <1>4 DEF Fits
<1>6. LibraryFits(u2)
  <2>1. ASSUME NEW a \in LibraryObjects PROVE u2[a - 2] = u[a - 2]
    <3>1. a - 2 \in Location
      BY Numbers, Bounds
    <3>2. ~IsCell(g, a - 2)
      BY <1>1, CellApart
    <3>3. QED BY <3>1, <3>2
  <2>2. QED BY <1>1, <2>1 DEF LibraryFits
<1>7. QED
  BY <1>1, <1>2, <1>5, <1>6 DEF Heap

(* Words that no list goes through are written in the same way with and     *)
(* without the lists.                                                       *)
LEMMA ThreadsRewritten ==
  ASSUME NEW u, NEW g, NEW on, NEW fn, Heap(u, g, on, fn), NEW m, NEW L, Threads(m, u, g, L),
         NEW u2, NEW m2, DOMAIN m2 = Location,
         \A l \in Location : OnList(L, l) \/ l + 2 \in DOMAIN g => u2[l] = u[l] /\ m2[l] = m[l],
         \A l \in Location : ~OnList(L, l) /\ l + 2 \notin DOMAIN g =>
            m2[l] = u2[l] \/ (u2[l] = u[l] /\ m2[l] = m[l])
  PROVE  Threads(m2, u2, g, L)
<1>1. Lists(u, g, L) /\ DOMAIN L = DOMAIN g
  BY DEF Threads, Lists
<1>2. ASSUME NEW a \in DOMAIN g, NEW j \in 1 .. Len(L[a])
      PROVE  u2[L[a][j]] = u[L[a][j]] /\ m2[L[a][j]] = m[L[a][j]]
  <2>1. OnList(L, L[a][j]) /\ L[a][j] \in Location
    BY <1>1, Listed
  <2>2. QED BY <2>1
<1>3. ASSUME NEW a \in DOMAIN g PROVE u2[a - 2] = u[a - 2] /\ m2[a - 2] = m[a - 2] /\ a - 2 + 2 = a
  <2>1. a - 2 \in Location /\ a - 2 + 2 = a
    BY HeaderWord
  <2>2. QED BY <2>1
<1>4. Lists(u2, g, L)
  BY <1>1, <1>2 DEF Lists
<1>5. ASSUME NEW a \in DOMAIN g, L[a] # << >> PROVE Chained(m2, u2, L, a)
  <2>1. Chained(m, u, L, a) /\ Len(L[a]) \in Nat /\ 1 <= Len(L[a])
    BY <1>1, <1>5, Listed DEF Threads
  <2>2. 1 \in 1 .. Len(L[a]) /\ \A j \in 2 .. Len(L[a]) : j \in 1 .. Len(L[a])
    BY <2>1
  <2>3. QED BY <2>1, <2>2, <1>2, <1>3 DEF Chained
<1>6. ASSUME NEW l \in Location, ~OnList(L, l), ~HeadsList(L, l) PROVE m2[l] = u2[l]
  <2>1. m[l] = u[l]
    BY <1>6 DEF Threads
  <2>2. CASE l + 2 \in DOMAIN g
    BY <2>1, <2>2
  <2>3. CASE l + 2 \notin DOMAIN g
    BY <2>1, <2>3, <1>6
  <2>4. QED BY <2>2, <2>3
<1>7. QED
  BY <1>4, <1>5, <1>6 DEF Threads


(* An object of a library is marked in its header. *)
LEMMA LibraryMarked ==
  ASSUME NEW u, NEW g, NEW on, NEW fn, Heap(u, g, on, fn), NEW a \in LibraryObjects,
         NEW h \in HeaderBits, h.unseenInSpace, h.extended = Value(u[a - 2]).extended,
         h.hasWeaks = Value(u[a - 2]).hasWeaks, h.size = Value(u[a - 2]).size,
         NEW u2, DOMAIN u2 = Location, u2[a - 2] = Bits(h),
         \A l \in Location : l # a - 2 => u2[l] = u[l]
  PROVE  /\ Heap(u2, g, on, fn) /\ a - 2 \in Location /\ a - 2 + 2 = a
         /\ ~Is("oop", u[a - 2]) /\ ~IsCell(g, a - 2) /\ a \notin DOMAIN g
         /\ Value(u2[a - 2]).unseenInSpace
<1>1. /\ Placement(g, on, fn) /\ Fits(u, g, on, fn) /\ LibraryFits(u) /\ CellsHold(u, g)
      /\ DOMAIN u = Location /\ \A l \in Location : Proper(u[l])
  BY DEF Heap
<1>2. a \in {2, 4, 6} /\ a - 2 \in Location /\ a - 2 < OldBase /\ a - 2 + 2 = a
  <2>1. a \in {2, 4, 6}
    BY Numbers
  <2>2. QED BY <2>1, Bounds
<1>3. Is("bits", u[a - 2]) /\ IsWord(u[a - 2])
  BY <1>1, <1>2 DEF LibraryFits, Proper
<1>4. Value(u[a - 2]) \in HeaderBits
  BY <1>3, Tagged
<1>5. ~IsCell(g, a - 2) /\ ~Is("oop", u[a - 2])
  BY <1>1, <1>3, CellApart, OneTag
<1>7. /\ h \in HeaderBits /\ h.unseenInSpace
      /\ h.extended = Value(u[a - 2]).extended /\ h.hasWeaks = Value(u[a - 2]).hasWeaks
      /\ h.size = Value(u[a - 2]).size
  OBVIOUS
<1>8. /\ u2[a - 2] = Bits(h) /\ DOMAIN u2 = Location
      /\ \A l \in Location : l # a - 2 => u2[l] = u[l]
  OBVIOUS
<1>9. Proper(u2[a - 2]) /\ Is("bits", u2[a - 2]) /\ Value(u2[a - 2]) = h
  BY <1>7, <1>8, WordsMade, Tags
<1>10. \A l \in Location : Proper(u2[l])
  BY <1>1, <1>8, <1>9
<1>11. Fits(u2, g, on, fn)
  <2>1. ASSUME NEW b \in DOMAIN g PROVE u2[b - 2] = u[b - 2] /\ (g[b].extended => u2[b - 3] = u[b - 3])
    <3>1. b - 2 \in Location /\ b - 3 \in Location /\ b \in Nat
      BY HeaderWord
    <3>2. OldBase <= Start(g, b) /\ Start(g, b) = b - (IF g[b].extended THEN 3 ELSE 2)
      BY <1>1, Extents
    <3>3. b - 2 # a - 2 /\ (g[b].extended => b - 3 # a - 2)
      BY <1>2, <3>1, <3>2, Bounds
    <3>4. QED BY <3>1, <3>3, <1>8
  <2>2. ASSUME NEW b \in (OldBase + 2 .. on) \cup (FromBase + 2 .. fn) PROVE u2[b - 2] = u[b - 2]
    <3>1. b - 2 \in Location /\ b \in Nat /\ OldBase <= b - 2
      BY <1>1, Bounds DEF Placement
    <3>2. b - 2 # a - 2
      BY <3>1, <1>2, Bounds
    <3>3. QED BY <3>1, <3>2, <1>8
  <2>3. QED BY <2>1, <2>2, <1>1 DEF Fits
<1>12. LibraryFits(u2)
  <2>1. ASSUME NEW b \in LibraryObjects, b # a PROVE u2[b - 2] = u[b - 2]
    <3>1. b - 2 \in Location /\ b - 2 # a - 2
      BY <2>1, LibraryObject
    <3>2. QED BY <3>1, <1>8
  <2>2. ~h.extended /\ ~h.hasWeaks /\ h.size = IF a = Association THEN 1 ELSE 0
    BY <1>1, <1>7 DEF LibraryFits
  <2>3. QED BY <2>1, <2>2, <1>1, <1>9 DEF LibraryFits
<1>13. CellsHold(u2, g)
  <2>1. \A l \in Location : IsCell(g, l) => u2[l] = u[l]
    BY <1>5, <1>8
  <2>2. QED BY <2>1, <1>1, CellsKept
<1>14. a \notin DOMAIN g
  <2>1. a \in DOMAIN g => OldBase + 2 <= a
    BY <1>1, Extents
  <2>2. QED BY <2>1, <1>2, Bounds
<1>15. QED
  BY <1>1, <1>2, <1>5, <1>7, <1>8, <1>9, <1>10, <1>11, <1>12, <1>13, <1>14 DEF Heap


LEMMA ExploreLibrary ==
  ASSUME NEW u, NEW g, NEW on, NEW fn, Heap(u, g, on, fn), NEW m, NEW L, Threads(m, u, g, L),
         NEW M, NEW R, NEW T, Explored(u, g, L, M, R, T),
         NEW l \in T, NEW a \in LibraryObjects, a \notin M, u[l] = Oop(a),
         NEW h \in HeaderBits, h.unseenInSpace, h.extended = Value(u[a - 2]).extended,
         h.hasWeaks = Value(u[a - 2]).hasWeaks, h.size = Value(u[a - 2]).size,
         NEW u2, DOMAIN u2 = Location, u2[a - 2] = Bits(h),
         \A x \in Location : x # a - 2 => u2[x] = u[x],
         NEW m2, DOMAIN m2 = Location, m2[a - 2] = Bits(h),
         \A x \in Location : x # a - 2 => m2[x] = m[x]
  PROVE  /\ Heap(u2, g, on, fn) /\ Threads(m2, u2, g, L)
         /\ Explored(u2, g, L, M \cup {a}, R, (T \ {l}) \cup SlotsAt(g, a))
<1>1. /\ Heap(u2, g, on, fn) /\ a - 2 \in Location /\ a - 2 + 2 = a
      /\ ~Is("oop", u[a - 2]) /\ ~IsCell(g, a - 2) /\ a \notin DOMAIN g
      /\ Value(u2[a - 2]).unseenInSpace
  BY LibraryMarked
<1>2. /\ Placement(g, on, fn) /\ DOMAIN u = Location /\ DOMAIN m = Location /\ Lists(u, g, L)
      /\ DOMAIN L = DOMAIN g
  BY DEF Heap, Threads, Lists
<1>3. M \subseteq Known(g) /\ R \in WellKnownRoots .. RescuedEphemerons + 1 /\ a \in Known(g)
  BY DEF Explored, Known
<1>4. /\ DOMAIN u2 = Location /\ DOMAIN m2 = Location
      /\ \A x \in Location : x # a - 2 => u2[x] = u[x] /\ m2[x] = m[x]
  OBVIOUS
<1>5. ~OnList(L, a - 2) /\ ~HeadsList(L, a - 2)
  <2>1. ~OnList(L, a - 2)
    <3>1. SUFFICES ASSUME OnList(L, a - 2) PROVE FALSE
      OBVIOUS
    <3>2. PICK b \in DOMAIN g : u[a - 2] = Oop(b)
      BY <1>2, <3>1, ListedWord
    <3>3. QED BY <3>2, <1>1, Tags
  <2>2. QED BY <2>1, <1>1, <1>2 DEF HeadsList
<1>7. m2[a - 2] = u2[a - 2]
  OBVIOUS
<1>8. Threads(m2, u2, g, L)
  <2>1. \A x \in Location : OnList(L, x) \/ x + 2 \in DOMAIN g => u2[x] = u[x] /\ m2[x] = m[x]
    BY <1>1, <1>4, <1>5
  <2>2. \A x \in Location : ~OnList(L, x) /\ x + 2 \notin DOMAIN g =>
            m2[x] = u2[x] \/ (u2[x] = u[x] /\ m2[x] = m[x])
    BY <1>4, <1>7
  <2>3. QED BY <2>1, <2>2, <1>4, ThreadsRewritten
<1>9. \A x \in SlotsAt(g, a) : ~Reached(g, M, R, x) /\ x \in Location
  BY <1>2, <1>3, Unreached, SlotIsCell
<1>10. \A x \in Location : Reached(g, M \cup {a}, R, x) <=> Reached(g, M, R, x) \/ x \in SlotsAt(g, a)
  BY ReachedMore
<1>11. \A b \in DOMAIN g : b \in M \cup {a} <=> L[b] # << >>
  BY <1>1 DEF Explored
<1>12. \A b \in LibraryObjects : b \in M \cup {a} <=> Value(u2[b - 2]).unseenInSpace
  <2>1. ASSUME NEW b \in LibraryObjects, b # a PROVE u2[b - 2] = u[b - 2]
    <3>1. b - 2 \in Location /\ b - 2 # a - 2
      BY <2>1, LibraryObject
    <3>2. QED BY <3>1, <1>4
  <2>2. QED BY <2>1, <1>1 DEF Explored
<1>13. ASSUME NEW x \in Location, OnList(L, x)
       PROVE  Reached(g, M \cup {a}, R, x) /\ x \notin (T \ {l}) \cup SlotsAt(g, a)
  <2>1. Reached(g, M, R, x) /\ x \notin T
    BY <1>13 DEF Explored
  <2>2. QED BY <2>1, <1>9, <1>10
<1>14. ASSUME NEW x \in (T \ {l}) \cup SlotsAt(g, a)
       PROVE  x \in Location /\ Reached(g, M \cup {a}, R, x)
  <2>1. CASE x \in T
    BY <2>1, <1>10 DEF Explored
  <2>2. CASE x \in SlotsAt(g, a)
    BY <2>2, <1>9, <1>10
  <2>3. QED BY <2>1, <2>2, <1>14
<1>15. ASSUME NEW x \in Location, Reached(g, M \cup {a}, R, x), x \notin (T \ {l}) \cup SlotsAt(g, a),
              NEW b \in Known(g), u2[x] = Oop(b)
       PROVE  b \in M \cup {a} /\ (b \in DOMAIN g => InList(L, b, x))
  <2>1. Reached(g, M, R, x)
    BY <1>10, <1>15
  <2>2. u[x] = Oop(b)
    <3>1. x \in Int
      BY Bounds
    <3>2. IsCell(g, x)
      BY <2>1, <3>1, <1>2, <1>3, ReachedIsCell
    <3>3. QED BY <3>2, <1>1, <1>4, <1>15
  <2>3. CASE x = l
    <3>1. a = b
      BY <2>2, <2>3, OopsDiffer
    <3>2. QED BY <3>1, <1>1
  <2>4. CASE x # l
    <3>1. x \notin T
      BY <2>4, <1>15
    <3>2. QED BY <2>1, <2>2, <3>1 DEF Explored
  <2>5. QED BY <2>3, <2>4
<1>16. M \cup {a} \subseteq Known(g)
  BY <1>3
<1>17. Explored(u2, g, L, M \cup {a}, R, (T \ {l}) \cup SlotsAt(g, a))
  BY <1>3, <1>16, <1>11, <1>12, <1>13, <1>14, <1>15 DEF Explored
<1>18. QED BY <1>1, <1>8, <1>17

(* More roots are to be followed. *)
LEMMA ExploreRoots ==
  ASSUME NEW u, NEW g, NEW on, NEW fn, Placement(g, on, fn), NEW L, NEW M, NEW R, NEW T,
         Explored(u, g, L, M, R, T), NEW R2 \in R .. RescuedEphemerons + 1
  PROVE  Explored(u, g, L, M, R2, T \cup (R .. R2 - 1))
<1>1. /\ R \in 7 .. OldBase /\ R2 \in R .. OldBase /\ WellKnownRoots = 7 /\ OldBase \in Nat
      /\ M \subseteq Known(g) /\ R2 \in WellKnownRoots .. RescuedEphemerons + 1
  <2>1. RescuedEphemerons + 1 = OldBase /\ WellKnownRoots = 7 /\ OldBase \in Nat
    BY Numbers
  <2>2. R \in WellKnownRoots .. RescuedEphemerons + 1 /\ M \subseteq Known(g)
    BY DEF Explored
  <2>3. QED BY <2>1, <2>2
<1>2. \A l \in Location : Reached(g, M, R2, l) <=> Reached(g, M, R, l) \/ l \in R .. R2 - 1
  BY <1>1, Bounds DEF Reached
<1>3. ASSUME NEW l \in R .. R2 - 1 PROVE l \in Location /\ ~Reached(g, M, R, l)
  <2>1. l \in Int /\ R <= l /\ l < R2 /\ l \in Location
    BY <1>1, Bounds
  <2>2. l \in Roots
    BY <1>1, <2>1, Numbers DEF Roots
  <2>3. ~(\E a \in M : l \in SlotsAt(g, a))
    BY <1>1, <2>2, SlotIsCell
  <2>4. QED BY <1>1, <2>1, <2>3 DEF Reached
<1>4. \A l \in Location : OnList(L, l) => Reached(g, M, R2, l) /\ l \notin T \cup (R .. R2 - 1)
  BY <1>2, <1>3 DEF Explored
<1>5. \A l \in T \cup (R .. R2 - 1) : l \in Location /\ Reached(g, M, R2, l)
  BY <1>2, <1>3 DEF Explored
<1>6. \A l \in Location : Reached(g, M, R2, l) /\ l \notin T \cup (R .. R2 - 1) =>
       \A a \in Known(g) : u[l] = Oop(a) => a \in M /\ (a \in DOMAIN g => InList(L, a, l))
  BY <1>2 DEF Explored
<1>7. QED
  BY <1>1, <1>4, <1>5, <1>6 DEF Explored


(* The parts of Explored that only depend on what the cells reached hold.   *)
LEMMA ExploredKept ==
  ASSUME NEW u, NEW g, NEW on, NEW fn, Placement(g, on, fn), NEW L, NEW M, NEW R, NEW T,
         Explored(u, g, L, M, R, T), NEW u2,
         \A l \in Location : u2[l] # u[l] => IsCell(g, l) /\ (l \in T \/ ~Reached(g, M, R, l))
  PROVE  Explored(u2, g, L, M, R, T)
<1>1. \A a \in LibraryObjects : u2[a - 2] = u[a - 2]
  <2>1. ASSUME NEW a \in LibraryObjects PROVE a - 2 \in Location /\ ~IsCell(g, a - 2)
    BY LibraryObject, CellApart
  <2>2. QED BY <2>1
<1>2. \A l \in Location : Reached(g, M, R, l) /\ l \notin T => u2[l] = u[l]
  OBVIOUS
<1>3. QED
  BY <1>1, <1>2 DEF Explored

(* fixReferencesOrSetTombstone: slots of weak objects that are still to be  *)
(* looked at get a tombstone.                                               *)
Tombstoned(m, m2, dead) ==
  /\ DOMAIN m2 = Location
  /\ \A l \in Location : m2[l] = IF l \in dead THEN Oop(ResidueObject) ELSE m[l]
OfWeakObjects(g, dead) == \A l \in dead : \E a \in DOMAIN g : g[a].weak /\ l \in SlotsAt(g, a)

LEMMA TombstonesSet ==
  ASSUME NEW u, NEW g, NEW on, NEW fn, Heap(u, g, on, fn), NEW m, NEW L, Threads(m, u, g, L),
         NEW M, NEW R, NEW T, Explored(u, g, L, M, R, T),
         NEW dead \in SUBSET T, OfWeakObjects(g, dead),
         NEW u2, Tombstoned(u, u2, dead), NEW m2, Tombstoned(m, m2, dead)
  PROVE  /\ Heap(u2, g, on, fn) /\ Threads(m2, u2, g, L)
         /\ Explored(u2, g, L, M, R, T)
<1> USE DEF Tombstoned, OfWeakObjects
<1>1. Placement(g, on, fn) /\ CellsHold(u, g) /\ Lists(u, g, L)
  BY DEF Heap, Threads
<1>2. \A l \in dead : l \in Location /\ IsCell(g, l) /\ ~OnList(L, l) /\ l + 2 \notin DOMAIN g
  BY Untouched
<1>3. ResidueObject \in Known(g) /\ ResidueObject # QueueArray /\ ResidueObject \in Location
  BY Numbers, Bounds DEF Known
<1>4. Proper(Oop(ResidueObject)) /\ Is("oop", Oop(ResidueObject))
  BY <1>3, WordsMade, Tags
<1>5. /\ WellKnownRoots \notin dead /\ RescuedEphemerons \notin dead
      /\ \A j \in 0 .. QueueSize : QueueArray + j \notin dead
  <2>1. \A l \in Roots : l \notin dead
    BY <1>1, SlotIsCell DEF Known
  <2>2. WellKnownRoots \in Roots /\ RescuedEphemerons \in Roots
    BY Numbers DEF Roots
  <2>3. ASSUME NEW j \in 0 .. QueueSize, QueueArray + j \in dead PROVE FALSE
    <3>1. PICK a \in DOMAIN g : g[a].weak /\ QueueArray + j \in SlotsAt(g, a)
      BY <2>3
    <3>2. QueueArray + j \in SlotsAt(g, QueueArray) /\ QueueArray \in DOMAIN g /\ ~g[QueueArray].weak
      BY <1>1, KnownCells
    <3>3. a = QueueArray
      BY <1>1, <3>1, <3>2, SlotIsCell DEF Known
    <3>4. QED BY <3>1, <3>2, <3>3
  <2>4. QED BY <2>1, <2>2, <2>3
<1>6. CellsHold(u2, g)
  <2>1. PICK n \in 2 .. QueueSize + 2 :
          /\ u[QueueArray] = Smi(n)
          /\ \A j \in 1 .. n - 2 : \E e \in DOMAIN g : u[QueueArray + j] = Oop(e) /\ g[e].ephemeron
    BY <1>1 DEF CellsHold
  <2>2. u2[QueueArray] = Smi(n)
    <3>1. QueueArray + 0 = QueueArray /\ 0 \in 0 .. QueueSize /\ QueueArray \in Location
      BY <1>1, KnownCells
    <3>2. QED BY <3>1, <2>1, <1>5
  <2>3. \A j \in 1 .. n - 2 : \E e \in DOMAIN g : u2[QueueArray + j] = Oop(e) /\ g[e].ephemeron
    <3>1. \A j \in 1 .. n - 2 : j \in 0 .. QueueSize /\ QueueArray + j \in Location
      BY <1>1, KnownCells
    <3>2. QED BY <3>1, <2>1, <1>5
  <2>4. u2[WellKnownRoots] = Oop(Association) /\ u2[RescuedEphemerons] = Oop(QueueArray)
    BY <1>1, <1>5, KnownCells DEF CellsHold
  <2>5. ASSUME NEW l \in Location, IsCell(g, l), l # QueueArray
        PROVE  \E b \in Known(g) : u2[l] = Oop(b) /\ (b = QueueArray => l = RescuedEphemerons)
    <3>1. CASE l \in dead
      BY <3>1, <1>3
    <3>2. CASE l \notin dead
      BY <3>2, <2>5, <1>1 DEF CellsHold
    <3>3. QED BY <3>1, <3>2
  <2>6. \A a \in {Nil, ResidueObject} : \E b \in LibraryObjects : u2[a - 1] = Oop(b)
    BY <1>1, LibraryBehaviors DEF CellsHold
  <2>7. QED BY <2>2, <2>3, <2>4, <2>5, <2>6 DEF CellsHold
<1>7. Heap(u2, g, on, fn)
  BY <1>2, <1>4, <1>6, HeapRewritten
<1>8. Threads(m2, u2, g, L)
  <2>1. \A l \in Location : OnList(L, l) \/ l + 2 \in DOMAIN g => u2[l] = u[l] /\ m2[l] = m[l]
    BY <1>2
  <2>2. \A l \in Location : ~OnList(L, l) /\ l + 2 \notin DOMAIN g =>
            m2[l] = u2[l] \/ (u2[l] = u[l] /\ m2[l] = m[l])
    OBVIOUS
  <2>3. QED BY <2>1, <2>2, ThreadsRewritten
<1>9. Explored(u2, g, L, M, R, T)
  BY <1>1, <1>2, ExploredKept
<1>10. QED BY <1>7, <1>8, <1>9


(* An ephemeron is added to the queue. *)
LEMMA QueueGrown ==
  ASSUME NEW u, NEW g, NEW on, NEW fn, Heap(u, g, on, fn), NEW n \in 2 .. QueueSize + 1,
         u[QueueArray] = Smi(n), NEW e \in DOMAIN g, g[e].ephemeron,
         NEW u2, DOMAIN u2 = Location,
         u2[QueueArray] = Smi(n + 1), u2[QueueArray + (n - 1)] = Oop(e),
         \A l \in Location : l # QueueArray /\ l # QueueArray + (n - 1) => u2[l] = u[l]
  PROVE  /\ Heap(u2, g, on, fn)
         /\ \A l \in Location : u2[l] # u[l] => l \in SlotsAt(g, QueueArray)
<1>1. /\ Placement(g, on, fn) /\ CellsHold(u, g) /\ QueueArray \in Nat /\ QueueSize \in Nat
      /\ QueueArray \in DOMAIN g /\ ~g[QueueArray].ephemeron
  BY KnownCells DEF Heap
<1>2. /\ QueueArray \in SlotsAt(g, QueueArray) /\ QueueArray + (n - 1) \in SlotsAt(g, QueueArray)
      /\ QueueArray \in Location /\ QueueArray + (n - 1) \in Location
      /\ IsCell(g, QueueArray) /\ IsCell(g, QueueArray + (n - 1))
  <2>1. QueueArray + 0 = QueueArray /\ 0 \in 0 .. QueueSize /\ n - 1 \in 0 .. QueueSize
    BY <1>1
  <2>2. QED BY <1>1, <2>1, KnownCells
<1>3. /\ \A l \in Location : u2[l] # u[l] => l \in SlotsAt(g, QueueArray) /\ IsCell(g, l)
  BY <1>2
<1>4. /\ Proper(u2[QueueArray]) /\ Is("smi", u2[QueueArray])
      /\ Proper(u2[QueueArray + (n - 1)]) /\ Is("oop", u2[QueueArray + (n - 1)])
  <2>1. n + 1 \in 2 .. QueueSize + 2
    BY <1>1
  <2>2. e \in Location
    BY <1>1, KnownObject DEF Known
  <2>3. QED BY <2>1, <2>2, WordsMade, Tags
<1>5. CellsHold(u2, g)
  <2>1. \A j \in 1 .. n - 2 : \E x \in DOMAIN g : u[QueueArray + j] = Oop(x) /\ g[x].ephemeron
    <3>1. PICK k \in 2 .. QueueSize + 2 :
            /\ u[QueueArray] = Smi(k)
            /\ \A j \in 1 .. k - 2 : \E x \in DOMAIN g : u[QueueArray + j] = Oop(x) /\ g[x].ephemeron
      BY <1>1 DEF CellsHold
    <3>2. Value(u[QueueArray]) = k /\ Value(u[QueueArray]) = n
      BY <3>1, Tags
    <3>3. QED BY <3>1, <3>2
  <2>2. ASSUME NEW j \in 1 .. (n + 1) - 2
        PROVE  \E x \in DOMAIN g : u2[QueueArray + j] = Oop(x) /\ g[x].ephemeron
    <3>1. CASE j = n - 1
      BY <3>1
    <3>2. CASE j # n - 1
      <4>1. j \in 1 .. n - 2 /\ j \in 0 .. QueueSize /\ QueueArray + j # QueueArray
            /\ QueueArray + j # QueueArray + (n - 1)
        BY <3>2, <1>1
      <4>2. QueueArray + j \in Location
        BY <4>1, <1>1, KnownCells
      <4>3. QED BY <4>1, <4>2, <2>1
    <3>3. QED BY <3>1, <3>2
  <2>3. \A l \in Roots : l # QueueArray /\ l # QueueArray + (n - 1)
    BY <1>1, <1>2, SlotIsCell DEF Known
  <2>4. u2[WellKnownRoots] = Oop(Association) /\ u2[RescuedEphemerons] = Oop(QueueArray)
    <3>1. WellKnownRoots \in Roots /\ RescuedEphemerons \in Roots
      BY Numbers DEF Roots
    <3>2. QED BY <3>1, <2>3, <1>1, KnownCells DEF CellsHold
  <2>5. ASSUME NEW l \in Location, IsCell(g, l), l # QueueArray
        PROVE  \E b \in Known(g) : u2[l] = Oop(b) /\ (b = QueueArray => l = RescuedEphemerons)
    <3>1. CASE l = QueueArray + (n - 1)
      BY <3>1, <1>1 DEF Known
    <3>2. CASE l # QueueArray + (n - 1)
      BY <3>2, <2>5, <1>1 DEF CellsHold
    <3>3. QED BY <3>1, <3>2
  <2>6. n + 1 \in 2 .. QueueSize + 2
    BY <1>1
  <2>7. \A a \in {Nil, ResidueObject} : \E b \in LibraryObjects : u2[a - 1] = Oop(b)
    BY <1>1, <1>2, LibraryBehaviors DEF CellsHold
  <2>8. QED BY <2>2, <2>4, <2>5, <2>6, <2>7 DEF CellsHold
<1>6. Heap(u2, g, on, fn)
  <2>1. \A l \in Location : u2[l] # u[l] =>
            IsCell(g, l) /\ (Is("oop", u2[l]) \/ Is("smi", u2[l])) /\ Proper(u2[l])
    BY <1>3, <1>4
  <2>2. QED BY <2>1, <1>5, HeapRewritten
<1>7. QED BY <1>3, <1>6

LEMMA ExploreQueue ==
  ASSUME NEW u, NEW g, NEW on, NEW fn, Heap(u, g, on, fn), NEW m, NEW L, Threads(m, u, g, L),
         NEW M, NEW R, NEW T, Explored(u, g, L, M, R, T), QueueArray \notin M,
         NEW n \in 2 .. QueueSize + 1,
         u[QueueArray] = Smi(n), NEW e \in DOMAIN g, g[e].ephemeron,
         NEW u2, DOMAIN u2 = Location,
         u2[QueueArray] = Smi(n + 1), u2[QueueArray + (n - 1)] = Oop(e),
         \A l \in Location : l # QueueArray /\ l # QueueArray + (n - 1) => u2[l] = u[l],
         NEW m2, DOMAIN m2 = Location,
         m2[QueueArray] = Smi(n + 1), m2[QueueArray + (n - 1)] = Oop(e),
         \A l \in Location : l # QueueArray /\ l # QueueArray + (n - 1) => m2[l] = m[l]
  PROVE  /\ Heap(u2, g, on, fn) /\ Threads(m2, u2, g, L) /\ Explored(u2, g, L, M, R, T)
<1>1. Heap(u2, g, on, fn) /\ \A l \in Location : u2[l] # u[l] => l \in SlotsAt(g, QueueArray)
  BY QueueGrown
<1>2. Placement(g, on, fn) /\ QueueArray \in Known(g)
  BY KnownCells DEF Heap, Known
<1>3. M \subseteq Known(g) /\ R \in WellKnownRoots .. RescuedEphemerons + 1
  BY DEF Explored
<1>4. \A l \in SlotsAt(g, QueueArray) :
        /\ l \in Location /\ ~Reached(g, M, R, l) /\ ~OnList(L, l) /\ l + 2 \notin DOMAIN g /\ IsCell(g, l)
  <2>1. ASSUME NEW l \in SlotsAt(g, QueueArray)
        PROVE  /\ l \in Location /\ ~Reached(g, M, R, l) /\ l + 2 \notin DOMAIN g /\ IsCell(g, l)
    BY <1>2, <1>3, Unreached, SlotIsCell DEF IsCell
  <2>2. QED BY <2>1 DEF Explored
<1>5. QueueArray \in SlotsAt(g, QueueArray) /\ QueueArray + (n - 1) \in SlotsAt(g, QueueArray)
  <2>1. QueueArray \in Nat /\ QueueSize \in Nat
    BY <1>2, KnownCells
  <2>2. QueueArray + 0 = QueueArray /\ 0 \in 0 .. QueueSize /\ n - 1 \in 0 .. QueueSize
    BY <2>1
  <2>3. QED BY <1>2, <2>2, KnownCells
<1>6. Threads(m2, u2, g, L)
  <2>1. \A l \in Location : OnList(L, l) \/ l + 2 \in DOMAIN g => u2[l] = u[l] /\ m2[l] = m[l]
    BY <1>4, <1>5
  <2>2. \A l \in Location : ~OnList(L, l) /\ l + 2 \notin DOMAIN g =>
            m2[l] = u2[l] \/ (u2[l] = u[l] /\ m2[l] = m[l])
    OBVIOUS
  <2>3. QED BY <2>1, <2>2, ThreadsRewritten
<1>7. Explored(u2, g, L, M, R, T)
  BY <1>1, <1>2, <1>4, ExploredKept
<1>8. QED BY <1>1, <1>6, <1>7


(* Only the root rescuedEphemerons refers to the queue: before that root is *)
(* followed the queue is not marked.                                        *)
LEMMA QueueNotMarked ==
  ASSUME NEW u, NEW g, NEW on, NEW fn, Heap(u, g, on, fn), NEW L, Lists(u, g, L),
         NEW M, NEW R, NEW T, Explored(u, g, L, M, R, T), R <= RescuedEphemerons
  PROVE  QueueArray \notin M
<1>1. SUFFICES ASSUME QueueArray \in M PROVE FALSE
  OBVIOUS
<1>2. /\ Placement(g, on, fn) /\ CellsHold(u, g) /\ QueueArray \in DOMAIN g /\ QueueArray \in Known(g)
      /\ M \subseteq Known(g) /\ R \in WellKnownRoots .. RescuedEphemerons + 1
  BY KnownCells DEF Heap, Known, Explored
<1>3. 1 <= Len(L[QueueArray])
  BY <1>1, <1>2, Listed DEF Explored
<1>4. PICK l : l = L[QueueArray][1]
  OBVIOUS
<1>5. l \in Location /\ OnList(L, l) /\ u[l] = Oop(QueueArray)
  <2>1. 1 \in 1 .. Len(L[QueueArray])
    BY <1>2, <1>3, Listed
  <2>2. QED BY <2>1, <1>2, <1>4, Listed DEF Lists
<1>6. Reached(g, M, R, l)
  BY <1>5 DEF Explored
<1>7. IsCell(g, l) /\ l \in Nat
  <2>1. l \in Int
    BY <1>5, Bounds
  <2>2. QED BY <2>1, <1>2, <1>6, ReachedIsCell
<1>8. l # QueueArray
  <2>1. PICK n : u[QueueArray] = Smi(n)
    BY <1>2 DEF CellsHold
  <2>2. ~Is("oop", u[QueueArray]) /\ Is("oop", u[l])
    BY <2>1, <1>5, Tags
  <2>3. QED BY <2>2
<1>9. PICK a \in Known(g) : u[l] = Oop(a) /\ (a = QueueArray => l = RescuedEphemerons)
  BY <1>2, <1>5, <1>7, <1>8 DEF CellsHold
<1>10. l = RescuedEphemerons
  <2>1. a = QueueArray
    BY <1>5, <1>9, OopsDiffer
  <2>2. QED BY <2>1, <1>9
<1>11. RescuedEphemerons \in Roots /\ RescuedEphemerons \in Nat
  BY Numbers DEF Roots
<1>12. ~(\E b \in M : l \in SlotsAt(g, b))
  BY <1>2, <1>10, <1>11, SlotIsCell
<1>13. l < R
  BY <1>6, <1>12 DEF Reached
<1>14. R \in Int
  BY <1>2, Numbers
<1>15. QED BY <1>10, <1>11, <1>13, <1>14

(* Before anything is marked. *)
LEMMA NothingExplored ==
  ASSUME NEW u, NEW g, NEW on, NEW fn, Heap(u, g, on, fn),
         \A a \in LibraryObjects : ~Value(u[a - 2]).unseenInSpace,
         NEW L, L = [a \in DOMAIN g |-> << >>]
  PROVE  Threads(u, u, g, L) /\ Explored(u, g, L, {}, WellKnownRoots, {})
<1>1. L \in [DOMAIN g -> Seq(Location)] /\ DOMAIN L = DOMAIN g
      /\ \A a \in DOMAIN g : L[a] = << >> /\ Len(L[a]) = 0 /\ 1 .. Len(L[a]) = {}
  OBVIOUS
<1>2. \A l \in Location : ~OnList(L, l) /\ ~HeadsList(L, l)
  BY <1>1 DEF OnList, InList, HeadsList
<1>3. \A l \in Location : ~Reached(g, {}, WellKnownRoots, l)
  BY Numbers, Bounds DEF Reached
<1>4. WellKnownRoots \in WellKnownRoots .. RescuedEphemerons + 1
  BY Numbers
<1>5. Lists(u, g, L)
  BY <1>1 DEF Lists
<1>6. Threads(u, u, g, L)
  BY <1>1, <1>2, <1>5 DEF Threads, Heap
<1>7. Explored(u, g, L, {}, WellKnownRoots, {})
  BY <1>1, <1>2, <1>3, <1>4 DEF Explored
<1>8. QED BY <1>6, <1>7

(* What a header looks like while there are lists. *)
LEMMA HeaderRead ==
  ASSUME NEW u, NEW g, NEW on, NEW fn, Heap(u, g, on, fn), NEW m, NEW L, Threads(m, u, g, L),
         NEW a \in DOMAIN g
  PROVE  /\ L[a] = << >> => m[a - 2] = u[a - 2]
         /\ L[a] # << >> => Is("link", m[a - 2])
         /\ g[a].extended => m[a - 3] = u[a - 3]
<1>0. g[a].extended => u[a - 3] = Extension([size |-> g[a].size, isEphemeron |-> g[a].ephemeron])
  BY HeaderWord
<1>1. /\ a \in Nat /\ a - 2 \in Location /\ a - 3 \in Location /\ a - 2 + 2 = a
      /\ g[a].extended => Is("extension", u[a - 3])
  <2>1. a \in Nat /\ a - 2 \in Location /\ a - 3 \in Location /\ a - 2 + 2 = a
    BY HeaderWord
  <2>2. \A x : Is("extension", Extension(x))
    BY Tags
  <2>3. QED BY <1>0, <2>1, <2>2
<1>2. Lists(u, g, L) /\ DOMAIN L = DOMAIN g
  BY DEF Threads, Lists
<1>3. L[a] = << >> => m[a - 2] = u[a - 2]
  <2>1. ~OnList(L, a - 2)
    BY <1>2, ListedWord
  <2>2. L[a] = << >> => ~HeadsList(L, a - 2)
    BY <1>1 DEF HeadsList
  <2>3. QED BY <1>1, <2>1, <2>2 DEF Threads
<1>4. L[a] # << >> => Is("link", m[a - 2])
  BY Tags DEF Threads, Chained
<1>5. ASSUME g[a].extended PROVE m[a - 3] = u[a - 3]
  <2>1. ~OnList(L, a - 3)
    <3>1. SUFFICES ASSUME OnList(L, a - 3) PROVE FALSE
      OBVIOUS
    <3>2. PICK b \in DOMAIN g : u[a - 3] = Oop(b)
      BY <1>2, <3>1, ListedWord
    <3>3. QED BY <3>2, <1>1, <1>5, Tags, OneTag
  <2>2. a - 3 + 2 \notin DOMAIN g
    <3>1. SUFFICES ASSUME NEW b \in DOMAIN g, b = a - 3 + 2 PROVE FALSE
      OBVIOUS
    <3>2. b - 2 = a - 3
      BY <3>1, <1>1
    <3>3. ~Is("extension", u[b - 2])
      BY HeaderWord
    <3>4. QED BY <3>2, <3>3, <1>1, <1>5
  <2>3. ~HeadsList(L, a - 3)
    BY <2>2, <1>2 DEF HeadsList
  <2>4. QED BY <1>1, <2>1, <2>3 DEF Threads
<1>6. QED BY <1>3, <1>4, <1>5

LEMMA LibraryRead ==
  ASSUME NEW u, NEW g, NEW on, NEW fn, Heap(u, g, on, fn), NEW m, NEW L, Threads(m, u, g, L),
         NEW a \in LibraryObjects
  PROVE  /\ m[a - 2] = u[a - 2] /\ Is("bits", u[a - 2]) /\ a \notin DOMAIN g
         /\ Value(u[a - 2]) \in HeaderBits
         /\ ~Value(u[a - 2]).extended /\ ~Value(u[a - 2]).hasWeaks
         /\ Value(u[a - 2]).size = SizeAt(g, a)
<1>1. /\ a - 2 \in Location /\ a - 2 + 2 = a /\ Placement(g, on, fn) /\ LibraryFits(u) /\ Lists(u, g, L)
      /\ DOMAIN L = DOMAIN g
  BY LibraryObject DEF Heap, Threads, Lists
<1>2. a \notin DOMAIN g
  <2>1. a \in DOMAIN g => OldBase + 2 <= a
    BY <1>1, Extents
  <2>2. a <= 6 /\ a \in Nat
    BY LibraryObject
  <2>3. QED BY <2>1, <2>2, Bounds
<1>3. Is("bits", u[a - 2]) /\ IsWord(u[a - 2])
  BY <1>1 DEF Heap, LibraryFits, Proper
<1>4. ~OnList(L, a - 2)
  <2>1. SUFFICES ASSUME OnList(L, a - 2) PROVE FALSE
    OBVIOUS
  <2>2. PICK b \in DOMAIN g : u[a - 2] = Oop(b)
    BY <1>1, <2>1, ListedWord
  <2>3. QED BY <2>2, <1>3, Tags, OneTag
<1>5. ~HeadsList(L, a - 2)
  BY <1>1, <1>2 DEF HeadsList
<1>6. QED
  BY <1>1, <1>2, <1>3, <1>4, <1>5, Tagged DEF Threads, LibraryFits, SizeAt


-----------------------------------------------------------------------------
(* Following a list from its head gives back the bits of the header, and    *)
(* the slots of the list on the way.                                        *)
LEMMA ThreadedWord ==
  ASSUME NEW u, NEW g, NEW on, NEW fn, Heap(u, g, on, fn), NEW m, NEW L, Threads(m, u, g, L),
         NEW l \in Location
  PROVE  \/ ~Is("link", m[l]) /\ m[l] = u[l] /\ ~OnList(L, l) /\ ~HeadsList(L, l)
         \/ \E a \in DOMAIN g : \E j \in 1 .. Len(L[a]) :
              l = a - 2 /\ j = Len(L[a]) /\ m[l] = Link(L[a][j])
         \/ \E a \in DOMAIN g : \E j \in 1 .. Len(L[a]) :
              l = L[a][j] /\ j = 1 /\ m[l] = u[a - 2] /\ ~Is("link", m[l])
         \/ \E a \in DOMAIN g : \E j \in 1 .. Len(L[a]) :
              l = L[a][j] /\ 2 <= j /\ m[l] = Link(L[a][j - 1])
<1>1. Lists(u, g, L) /\ DOMAIN L = DOMAIN g /\ l \in Int
  BY Bounds DEF Threads, Lists
<1>2. CASE ~OnList(L, l) /\ ~HeadsList(L, l)
  <2>1. m[l] = u[l]
    BY <1>2 DEF Threads
  <2>2. ~Is("link", u[l])
    BY DEF Heap, Proper
  <2>3. QED BY <1>2, <2>1, <2>2
<1>3. CASE HeadsList(L, l)
  <2>1. l + 2 \in DOMAIN g /\ L[l + 2] # << >> /\ l = (l + 2) - 2
    BY <1>1, <1>3 DEF HeadsList
  <2>2. Len(L[l + 2]) \in 1 .. Len(L[l + 2])
    BY <1>1, <2>1, Listed
  <2>3. m[l] = Link(L[l + 2][Len(L[l + 2])])
    BY <2>1 DEF Threads, Chained
  <2>4. QED BY <2>1, <2>2, <2>3
<1>4. CASE OnList(L, l)
  <2>0. PICK a \in DOMAIN g : InList(L, a, l)
    BY <1>1, <1>4 DEF OnList
  <2>1. PICK j \in 1 .. Len(L[a]) : L[a][j] = l
    BY <2>0 DEF InList
  <2>2. Len(L[a]) \in Nat /\ L[a] # << >>
    BY <1>1, <2>1, Listed
  <2>3. Chained(m, u, L, a)
    BY <2>2 DEF Threads
  <2>4. ~Is("link", u[a - 2])
    BY HeaderWord
  <2>5. CASE j = 1
    <3>1. m[l] = u[a - 2]
      BY <2>1, <2>3, <2>5 DEF Chained
    <3>2. QED BY <2>1, <2>4, <2>5, <3>1
  <2>6. CASE j # 1
    <3>1. j \in 2 .. Len(L[a])
      BY <2>1, <2>2, <2>6
    <3>2. m[l] = Link(L[a][j - 1])
      BY <2>1, <2>3, <3>1 DEF Chained
    <3>3. 2 <= j
      BY <3>1
    <3>4. QED BY <2>1, <3>2, <3>3
  <2>7. QED BY <2>5, <2>6
<1>5. QED BY <1>2, <1>3, <1>4

(* An induction over the positions of a list. *)
LEMMA AlongList ==
  ASSUME NEW n \in Nat, NEW good, 1 <= n => 1 \in good,
         \A j \in 2 .. n : j - 1 \in good => j \in good
  PROVE  \A j \in 1 .. n : j \in good
<1> DEFINE bad == {j \in 1 .. n : j \notin good}
<1>1. SUFFICES ASSUME bad # {} PROVE FALSE
  OBVIOUS
<1>2. bad \in SUBSET Nat
  OBVIOUS
<1>3. PICK j \in bad : \A k \in bad : j <= k
  <2> HIDE DEF bad
  <2>1. QED BY <1>1, <1>2, LeastElement
<1>4. j \in 1 .. n /\ j \notin good
  BY <1>3
<1>5. j # 1
  BY <1>4
<1>6. j \in 2 .. n /\ j - 1 \in 1 .. n
  BY <1>4, <1>5
<1>7. j - 1 \notin bad
  BY <1>3, <1>4
<1>8. j - 1 \in good
  BY <1>6, <1>7
<1>9. QED BY <1>4, <1>6, <1>8

LEMMA BitsAfterUnfolds ==
  ASSUME NEW f, f = [l \in Location |-> IF Is("link", memory[l]) THEN f[Value(memory[l])]
                                        ELSE Value(memory[l])]
  PROVE  BitsAfter = [l \in Location |-> IF Is("link", memory[l]) THEN BitsAfter[Value(memory[l])]
                                         ELSE Value(memory[l])]
BY Zenon DEF BitsAfter

LEMMA BitsAfterList ==
  ASSUME NEW u, NEW g, NEW on, NEW fn, Heap(u, g, on, fn), NEW L, Threads(memory, u, g, L),
         NEW a \in DOMAIN g
  PROVE  BitsAfter[a - 2] = Value(u[a - 2])
<1> DEFINE f == [l \in Location |-> IF OnList(L, l) THEN Value(u[Value(u[l]) - 2]) ELSE Value(u[l])]
           BitsFrom(h, l) == IF Is("link", memory[l]) THEN h[Value(memory[l])] ELSE Value(memory[l])
<1>1. Lists(u, g, L) /\ DOMAIN L = DOMAIN g
  BY DEF Threads, Lists
<1>2. ASSUME NEW b \in DOMAIN g
      PROVE  /\ b - 2 \in Location /\ f[b - 2] = Value(u[b - 2]) /\ Len(L[b]) \in Nat
             /\ \A j \in 1 .. Len(L[b]) : L[b][j] \in Location /\ f[L[b][j]] = Value(u[b - 2])
  <2>1. b - 2 \in Location /\ ~OnList(L, b - 2)
    <3>1. OnList(L, b - 2) => b - 2 # b - 2
      BY <1>1, ListedWord
    <3>2. QED BY <3>1, HeaderWord
  <2>2. ASSUME NEW j \in 1 .. Len(L[b])
        PROVE  L[b][j] \in Location /\ f[L[b][j]] = Value(u[b - 2])
    <3>1. L[b][j] \in Location /\ OnList(L, L[b][j])
      BY <1>1, Listed
    <3>2. Value(u[L[b][j]]) = b
      BY <1>1, Tags DEF Lists
    <3>3. QED BY <3>1, <3>2
  <2>3. Len(L[b]) \in Nat
    BY <1>1, Listed
  <2>4. QED BY <2>1, <2>2, <2>3
<1>3. ASSUME NEW l \in Location PROVE f[l] = BitsFrom(f, l)
  <2>1. CASE ~Is("link", memory[l]) /\ memory[l] = u[l] /\ ~OnList(L, l)
    BY <2>1
  <2>2. ASSUME NEW b \in DOMAIN g, NEW j \in 1 .. Len(L[b]), l = b - 2, memory[l] = Link(L[b][j])
        PROVE  f[l] = BitsFrom(f, l)
    <3>1. Is("link", memory[l]) /\ Value(memory[l]) = L[b][j]
      BY <2>2, Tags
    <3>2. f[l] = Value(u[b - 2]) /\ f[L[b][j]] = Value(u[b - 2])
      BY <2>2, <1>2
    <3>3. QED BY <3>1, <3>2
  <2>3. ASSUME NEW b \in DOMAIN g, NEW j \in 1 .. Len(L[b]), l = L[b][j], memory[l] = u[b - 2],
               ~Is("link", memory[l])
        PROVE  f[l] = BitsFrom(f, l)
    <3>1. f[l] = Value(u[b - 2])
      BY <2>3, <1>2
    <3>2. QED BY <3>1, <2>3
  <2>4. ASSUME NEW b \in DOMAIN g, NEW j \in 1 .. Len(L[b]), l = L[b][j], 2 <= j,
               memory[l] = Link(L[b][j - 1])
        PROVE  f[l] = BitsFrom(f, l)
    <3>1. Is("link", memory[l]) /\ Value(memory[l]) = L[b][j - 1]
      BY <2>4, Tags
    <3>2. j - 1 \in 1 .. Len(L[b])
      BY <2>4, <1>2
    <3>3. f[l] = Value(u[b - 2]) /\ f[L[b][j - 1]] = Value(u[b - 2])
      BY <2>4, <3>2, <1>2
    <3>4. QED BY <3>1, <3>3
  <2>5. QED
    BY <2>1, <2>2, <2>3, <2>4, ThreadedWord
<1>4. f = [l \in Location |-> IF Is("link", memory[l]) THEN f[Value(memory[l])]
                              ELSE Value(memory[l])]
  BY <1>3
<1> HIDE DEF f
<1>5. BitsAfter = [l \in Location |-> IF Is("link", memory[l]) THEN BitsAfter[Value(memory[l])]
                                      ELSE Value(memory[l])]
  BY <1>4, BitsAfterUnfolds, Zenon
<1>6. \A l \in Location : BitsAfter[l] = BitsFrom(BitsAfter, l)
  BY <1>5
<1>7. CASE L[a] = << >>
  <2>1. memory[a - 2] = u[a - 2]
    BY <1>7, HeaderRead
  <2>2. ~Is("link", u[a - 2]) /\ a - 2 \in Location
    BY HeaderWord
  <2>3. QED BY <2>1, <2>2, <1>6
<1>8. CASE L[a] # << >>
  <2> DEFINE good == {j \in 1 .. Len(L[a]) : BitsAfter[L[a][j]] = Value(u[a - 2])}
  <2>1. Chained(memory, u, L, a) /\ ~Is("link", u[a - 2]) /\ 1 <= Len(L[a])
    BY <1>1, <1>8, HeaderWord, Listed DEF Threads
  <2>2. BitsAfter[L[a][1]] = Value(u[a - 2])
    <3>1. L[a][1] \in Location /\ memory[L[a][1]] = u[a - 2]
      BY <2>1, <1>2 DEF Chained
    <3>2. QED BY <3>1, <2>1, <1>6
  <2>3. ASSUME NEW j \in 2 .. Len(L[a]), BitsAfter[L[a][j - 1]] = Value(u[a - 2])
        PROVE  BitsAfter[L[a][j]] = Value(u[a - 2])
    <3>1. memory[L[a][j]] = Link(L[a][j - 1]) /\ L[a][j] \in Location
      BY <2>1, <1>2 DEF Chained
    <3>2. Is("link", memory[L[a][j]]) /\ Value(memory[L[a][j]]) = L[a][j - 1]
      BY <3>1, Tags
    <3>3. QED BY <3>1, <3>2, <2>3, <1>6
  <2>4. \A j \in 1 .. Len(L[a]) : j \in good
    <3>1. Len(L[a]) \in Nat
      BY <1>2
    <3>2. 1 <= Len(L[a]) => 1 \in good
      BY <2>2, <3>1
    <3>3. \A j \in 2 .. Len(L[a]) : j - 1 \in good => j \in good
      BY <2>3, <3>1
    <3> HIDE DEF good
    <3>4. QED BY <3>1, <3>2, <3>3, AlongList
  <2>5. /\ a - 2 \in Location /\ Is("link", memory[a - 2])
        /\ Value(memory[a - 2]) = L[a][Len(L[a])] /\ Len(L[a]) \in 1 .. Len(L[a])
    <3>1. a - 2 \in Location /\ memory[a - 2] = Link(L[a][Len(L[a])]) /\ Len(L[a]) \in 1 .. Len(L[a])
      BY <2>1, <1>2 DEF Chained
    <3>2. QED BY <3>1, Tags
  <2>6. BitsAfter[L[a][Len(L[a])]] = Value(u[a - 2])
    BY <2>4, <2>5
  <2>7. QED BY <2>5, <2>6, <1>6
<1>9. QED BY <1>7, <1>8


LEMMA ListedAfterUnfolds ==
  ASSUME NEW f, f = [l \in Location |-> IF Is("link", memory[l])
                                        THEN {Value(memory[l])} \cup f[Value(memory[l])]
                                        ELSE {}]
  PROVE  ListedAfter = [l \in Location |-> IF Is("link", memory[l])
                                           THEN {Value(memory[l])} \cup ListedAfter[Value(memory[l])]
                                           ELSE {}]
BY Zenon DEF ListedAfter

(* The slots of a list before one of its positions. *)
ListedBefore(L, a, j) == {L[a][k] : k \in 1 .. j - 1}

LEMMA ListedBeforeNext ==
  ASSUME NEW g, NEW L \in [DOMAIN g -> Seq(Location)], NEW a \in DOMAIN g,
         NEW j \in 1 .. Len(L[a])
  PROVE  /\ ListedBefore(L, a, j + 1) = {L[a][j]} \cup ListedBefore(L, a, j)
         /\ ListedBefore(L, a, 1) = {}
<1>1. Len(L[a]) \in Nat
  OBVIOUS
<1>2. \A k : k \in 1 .. j + 1 - 1 <=> k = j \/ k \in 1 .. j - 1
  BY <1>1
<1>3. 1 .. 1 - 1 = {}
  OBVIOUS
<1>4. QED BY <1>2, <1>3 DEF ListedBefore

LEMMA ListedAfterList ==
  ASSUME NEW u, NEW g, NEW on, NEW fn, Heap(u, g, on, fn), NEW L, Threads(memory, u, g, L),
         NEW a \in DOMAIN g
  PROVE  \A x : x \in ListedAfter[a - 2] <=> InList(L, a, x)
<1> DEFINE Before(b, l) == {L[b][k] : k \in {k \in 1 .. Len(L[b]) : \E j \in 1 .. Len(L[b]) : k < j /\ L[b][j] = l}}
           Whole(b) == {L[b][k] : k \in 1 .. Len(L[b])}
           f == [l \in Location |-> IF OnList(L, l) THEN Before(Value(u[l]), l)
                                    ELSE IF HeadsList(L, l) THEN Whole(l + 2) ELSE {}]
           After(h, l) == IF Is("link", memory[l]) THEN {Value(memory[l])} \cup h[Value(memory[l])] ELSE {}
<1>1. Lists(u, g, L) /\ DOMAIN L = DOMAIN g /\ L \in [DOMAIN g -> Seq(Location)]
  BY DEF Threads, Lists
<1>2. ASSUME NEW b \in DOMAIN g
      PROVE  /\ b - 2 \in Location /\ ~OnList(L, b - 2) /\ b - 2 + 2 = b
             /\ Len(L[b]) \in Nat /\ (L[b] # << >> <=> 1 <= Len(L[b]))
             /\ L[b] # << >> => f[b - 2] = ListedBefore(L, b, Len(L[b]) + 1)
             /\ \A j \in 1 .. Len(L[b]) : L[b][j] \in Location /\ f[L[b][j]] = ListedBefore(L, b, j)
  <2>1. b - 2 \in Location /\ ~OnList(L, b - 2) /\ b - 2 + 2 = b
    <3>1. OnList(L, b - 2) => b - 2 # b - 2
      BY <1>1, ListedWord
    <3>2. QED BY <3>1, HeaderWord
  <2>2. Len(L[b]) \in Nat /\ (L[b] # << >> <=> 1 <= Len(L[b]))
    BY <1>1, Listed
  <2>3. ASSUME L[b] # << >> PROVE f[b - 2] = ListedBefore(L, b, Len(L[b]) + 1)
    <3>1. f[b - 2] = Whole(b)
      BY <2>1, <2>3, <1>1 DEF HeadsList
    <3>2. \A k : k \in 1 .. Len(L[b]) + 1 - 1 <=> k \in 1 .. Len(L[b])
      BY <2>2
    <3>3. ListedBefore(L, b, Len(L[b]) + 1) = Whole(b)
      BY <3>2 DEF ListedBefore
    <3> HIDE DEF f
    <3>4. QED BY <3>1, <3>3
  <2>4. ASSUME NEW j \in 1 .. Len(L[b])
        PROVE  L[b][j] \in Location /\ f[L[b][j]] = ListedBefore(L, b, j)
    <3>1. L[b][j] \in Location /\ OnList(L, L[b][j])
      BY <1>1, Listed
    <3>2. Value(u[L[b][j]]) = b
      BY <1>1, Tags DEF Lists
    <3>3. f[L[b][j]] = Before(b, L[b][j])
      BY <3>1, <3>2
    <3>4. \A k : k \in 1 .. j - 1 <=>
            k \in 1 .. Len(L[b]) /\ \E x \in 1 .. Len(L[b]) : k < x /\ L[b][x] = L[b][j]
      <4>1. \A x \in 1 .. Len(L[b]) : L[b][x] = L[b][j] => x = j
        BY <1>1 DEF Lists
      <4>2. QED BY <4>1, <2>2
    <3>5. Before(b, L[b][j]) = ListedBefore(L, b, j)
      BY <3>4 DEF ListedBefore
    <3>6. QED BY <3>1, <3>3, <3>5
  <2> HIDE DEF f
  <2>5. QED BY <2>1, <2>2, <2>3, <2>4
<1>11. \A b \in DOMAIN g : \A k \in 1 .. Len(L[b]) :
        ListedBefore(L, b, k + 1) = {L[b][k]} \cup ListedBefore(L, b, k)
  <2>1. SUFFICES ASSUME NEW b \in DOMAIN g, NEW k \in 1 .. Len(L[b])
                 PROVE  ListedBefore(L, b, k + 1) = {L[b][k]} \cup ListedBefore(L, b, k)
    OBVIOUS
  <2>2. L \in [DOMAIN g -> Seq(Location)]
    BY <1>1
  <2>3. QED BY <2>2, ListedBeforeNext
<1>3. ASSUME NEW l \in Location PROVE f[l] = After(f, l)
  <2>1. CASE ~Is("link", memory[l]) /\ ~OnList(L, l) /\ ~HeadsList(L, l)
    BY <2>1
  <2>2. ASSUME NEW b \in DOMAIN g, NEW j \in 1 .. Len(L[b]), l = b - 2, j = Len(L[b]),
               memory[l] = Link(L[b][j])
        PROVE  f[l] = After(f, l)
    <3>1. Is("link", memory[l]) /\ Value(memory[l]) = L[b][j]
      BY <2>2, Tags
    <3> HIDE DEF f
    <3>2. f[l] = ListedBefore(L, b, j + 1) /\ f[L[b][j]] = ListedBefore(L, b, j)
      BY <2>2, <1>2
    <3>3. ListedBefore(L, b, j + 1) = {L[b][j]} \cup ListedBefore(L, b, j)
      BY <1>1, ListedBeforeNext
    <3>4. QED BY <3>1, <3>2, <3>3
  <2>3. ASSUME NEW b \in DOMAIN g, NEW j \in 1 .. Len(L[b]), l = L[b][j], j = 1,
               ~Is("link", memory[l])
        PROVE  f[l] = After(f, l)
    <3>1. f[l] = ListedBefore(L, b, 1)
      BY <2>3, <1>2
    <3>2. ListedBefore(L, b, 1) = {}
      BY <1>1, ListedBeforeNext
    <3> HIDE DEF f
    <3>3. QED BY <3>1, <3>2, <2>3
  <2>4. ASSUME NEW b \in DOMAIN g, NEW j \in 1 .. Len(L[b]), l = L[b][j], 2 <= j,
               memory[l] = Link(L[b][j - 1])
        PROVE  f[l] = After(f, l)
    <3>1. Is("link", memory[l]) /\ Value(memory[l]) = L[b][j - 1]
      BY <2>4, Tags
    <3>2. PICK k \in 1 .. Len(L[b]) : k = j - 1 /\ k + 1 = j
      BY <2>4, <1>2
    <3> HIDE DEF f
    <3>3. f[l] = ListedBefore(L, b, k + 1) /\ f[L[b][k]] = ListedBefore(L, b, k)
      BY <2>4, <3>2, <1>2
    <3>4. ListedBefore(L, b, k + 1) = {L[b][k]} \cup ListedBefore(L, b, k)
      BY <1>11
    <3>5. Value(memory[l]) = L[b][k]
      BY <3>1, <3>2
    <3>6. QED BY <3>1, <3>3, <3>4, <3>5
  <2> HIDE DEF f, After
  <2>5. QED
    BY <2>1, <2>2, <2>3, <2>4, ThreadedWord
<1>4. f = [l \in Location |-> IF Is("link", memory[l])
                              THEN {Value(memory[l])} \cup f[Value(memory[l])] ELSE {}]
  BY <1>3
<1> HIDE DEF f
<1>5. ListedAfter = [l \in Location |-> IF Is("link", memory[l])
                                        THEN {Value(memory[l])} \cup ListedAfter[Value(memory[l])]
                                        ELSE {}]
  BY <1>4, ListedAfterUnfolds, Zenon
<1>6. \A l \in Location : ListedAfter[l] = After(ListedAfter, l)
  BY <1>5
<1>7. CASE L[a] = << >>
  <2>1. memory[a - 2] = u[a - 2]
    BY <1>7, HeaderRead
  <2>2. ~Is("link", u[a - 2]) /\ a - 2 \in Location
    BY HeaderWord
  <2>3. ListedAfter[a - 2] = {}
    BY <2>1, <2>2, <1>6
  <2>4. Len(L[a]) = 0
    BY <1>7
  <2>5. \A x : ~InList(L, a, x)
    BY <2>4 DEF InList
  <2>6. QED BY <2>3, <2>5
<1>8. CASE L[a] # << >>
  <2> DEFINE good == {j \in 1 .. Len(L[a]) : ListedAfter[L[a][j]] = ListedBefore(L, a, j)}
  <2>1. Chained(memory, u, L, a) /\ ~Is("link", u[a - 2]) /\ 1 <= Len(L[a])
    BY <1>1, <1>8, HeaderWord, Listed DEF Threads
  <2>2. 1 \in good
    <3>1. L[a][1] \in Location /\ memory[L[a][1]] = u[a - 2] /\ 1 \in 1 .. Len(L[a])
      BY <2>1, <1>2 DEF Chained
    <3>2. ListedAfter[L[a][1]] = {}
      BY <3>1, <2>1, <1>6
    <3>3. ListedBefore(L, a, 1) = {}
      BY <3>1, <1>1, ListedBeforeNext
    <3>4. QED BY <3>1, <3>2, <3>3
  <2>3. ASSUME NEW j \in 2 .. Len(L[a]), j - 1 \in good PROVE j \in good
    <3>1. memory[L[a][j]] = Link(L[a][j - 1]) /\ L[a][j] \in Location
      BY <2>1, <1>2 DEF Chained
    <3>2. Is("link", memory[L[a][j]]) /\ Value(memory[L[a][j]]) = L[a][j - 1]
      BY <3>1, Tags
    <3>3. ListedAfter[L[a][j]] = {L[a][j - 1]} \cup ListedBefore(L, a, j - 1)
      BY <3>1, <3>2, <2>3, <1>6
    <3>4. j - 1 \in 1 .. Len(L[a]) /\ j - 1 + 1 = j /\ j \in 1 .. Len(L[a])
      BY <1>2
    <3>5. ListedBefore(L, a, j) = {L[a][j - 1]} \cup ListedBefore(L, a, j - 1)
      BY <1>1, <3>4, ListedBeforeNext
    <3>6. QED BY <3>3, <3>4, <3>5
  <2>4. \A j \in 1 .. Len(L[a]) : j \in good
    <3>1. Len(L[a]) \in Nat
      BY <1>2
    <3> HIDE DEF good
    <3>2. QED BY <3>1, <2>2, <2>3, AlongList
  <2>5. /\ a - 2 \in Location /\ Is("link", memory[a - 2])
        /\ Value(memory[a - 2]) = L[a][Len(L[a])] /\ Len(L[a]) \in 1 .. Len(L[a])
    <3>1. a - 2 \in Location /\ memory[a - 2] = Link(L[a][Len(L[a])]) /\ Len(L[a]) \in 1 .. Len(L[a])
      BY <2>1, <1>2 DEF Chained
    <3>2. QED BY <3>1, Tags
  <2>6. ListedAfter[L[a][Len(L[a])]] = ListedBefore(L, a, Len(L[a]))
    BY <2>4, <2>5
  <2>7. ListedAfter[a - 2] = ListedBefore(L, a, Len(L[a]) + 1)
    <3>1. ListedBefore(L, a, Len(L[a]) + 1) = {L[a][Len(L[a])]} \cup ListedBefore(L, a, Len(L[a]))
      BY <1>1, <2>5, ListedBeforeNext
    <3>2. QED BY <2>5, <2>6, <3>1, <1>6
  <2>8. Len(L[a]) + 1 - 1 = Len(L[a])
    BY <1>2
  <2>9. QED BY <2>7, <2>8 DEF ListedBefore, InList
<1>9. QED BY <1>7, <1>8


(* The objects of the heap are those that its copy has headers for.         *)
LEMMA CopiedAreObjects ==
  ASSUME NEW g, Heap(copy, g, oldNextFree, fromNextFree)
  PROVE  CopiedObjects = DOMAIN g
<1>1. Placement(g, oldNextFree, fromNextFree) /\ Fits(copy, g, oldNextFree, fromNextFree)
  BY DEF Heap
<1>2. ASSUME NEW a \in DOMAIN g PROVE a \in CopiedObjects
  <2>1. /\ a \in Nat /\ OldBase <= Start(g, a) /\ OldBase + 2 <= a /\ a <= End(g, a)
        /\ Start(g, a) = a - (IF g[a].extended THEN 3 ELSE 2)
        /\ \/ End(g, a) <= oldNextFree
           \/ FromBase <= Start(g, a) /\ End(g, a) <= fromNextFree
        /\ oldNextFree \in Nat /\ fromNextFree \in Nat
        /\ g[a].size \in Nat /\ End(g, a) = a + g[a].size
    BY <1>1, Extents
  <2>2. OldBase \in Nat /\ FromBase \in Nat
    BY Bounds
  <2>3. a \in (OldBase + 2 .. oldNextFree) \cup (FromBase + 2 .. fromNextFree)
    BY <2>1, <2>2
  <2>4. Is("bits", copy[a - 2])
    BY <1>1 DEF Fits
  <2>5. QED BY <2>3, <2>4 DEF CopiedObjects
<1>3. ASSUME NEW a \in CopiedObjects PROVE a \in DOMAIN g
  BY <1>1, <1>3 DEF CopiedObjects, Fits
<1>4. QED BY <1>2, <1>3

(* Undoing the lists gives the memory without lists.                        *)
LEMMA UndoneWord ==
  ASSUME NEW u, NEW g, NEW on, NEW fn, Heap(u, g, on, fn), NEW L, Threads(memory, u, g, L),
         CopiedObjects = DOMAIN g, NEW l \in Location
  PROVE  Undone(l) = u[l]
<1>1. Lists(u, g, L) /\ DOMAIN L = DOMAIN g
  BY DEF Threads, Lists
<1>2. \A a \in DOMAIN g : \A x : x \in ListedAfter[a - 2] <=> InList(L, a, x)
  BY ListedAfterList
<1>3. CASE OnList(L, l)
  <2>1. PICK a \in DOMAIN g : InList(L, a, l) /\ u[l] = Oop(a)
    BY <1>1, <1>3, ListedWord
  <2>2. \A b \in DOMAIN g : InList(L, b, l) => b = a
    BY <1>1, <1>3, <2>1, ListedWord, OopsDiffer
  <2>3. (CHOOSE b \in DOMAIN g : l \in ListedAfter[b - 2]) = a
    BY <1>2, <2>1, <2>2
  <2>4. \E b \in DOMAIN g : l \in ListedAfter[b - 2]
    BY <1>2, <2>1
  <2>5. QED BY <2>1, <2>3, <2>4 DEF Undone
<1>4. CASE ~OnList(L, l)
  <2>1. ~\E b \in DOMAIN g : l \in ListedAfter[b - 2]
    BY <1>1, <1>2, <1>4 DEF OnList
  <2>2. CASE HeadsList(L, l)
    <3>1. PICK a \in DOMAIN g : a = l + 2 /\ L[a] # << >>
      BY <2>2, <1>1 DEF HeadsList
    <3>2. a - 2 = l
      BY <3>1, Bounds
    <3>3. Is("link", memory[l]) /\ u[l] = Bits(Value(u[l]))
      <4>1. L[a] # << >> => Is("link", memory[a - 2])
        BY HeaderRead
      <4>2. u[a - 2] = Bits(Value(u[a - 2]))
        BY HeaderWord
      <4>3. QED BY <3>1, <3>2, <4>1, <4>2
    <3>4. BitsAfter[l] = Value(u[l])
      BY <3>2, BitsAfterList
    <3>5. QED BY <2>1, <3>3, <3>4 DEF Undone
  <2>3. CASE ~HeadsList(L, l)
    <3>1. memory[l] = u[l]
      BY <1>4, <2>3 DEF Threads
    <3>2. ~Is("link", u[l])
      BY DEF Heap, Proper
    <3>3. QED BY <2>1, <3>1, <3>2 DEF Undone
  <2>4. QED BY <2>2, <2>3
<1>5. QED BY <1>3, <1>4


-----------------------------------------------------------------------------
(* How the scans of followCountStartingAt divide what is still to be       *)
(* looked at, and that marking keeps the heap without its lists.           *)

(* The slots a scan has ahead, all that are ahead of the scan sc and of the *)
(* suspended ones st, and the slots of the objects W that wait for one.     *)
Ahead(s, l) == s.scanned + s.index <= l /\ l < s.scanned + s.limit
InScans(sc, st, l) == Ahead(sc, l) \/ \E j \in 1 .. Len(st) : Ahead(st[j], l)
InWaiting(g, W, l) == \E a \in W : a <= l /\ l < a + SizeAt(g, a)
Todo(g, sc, st, W) == {l \in Location : InScans(sc, st, l) \/ InWaiting(g, W, l)}

(* No slot is ahead twice.                                                  *)
Divided(g, M, sc, st, W) ==
  /\ sc \in ScanType /\ st \in Seq(ScanType)
  /\ \A l \in Int : InScans(sc, st, l) => l \in Location
  /\ \A j \in 1 .. Len(st) : \A l \in Int : ~(Ahead(st[j], l) /\ Ahead(sc, l))
  /\ \A j, k \in 1 .. Len(st) : \A l \in Int : Ahead(st[j], l) /\ Ahead(st[k], l) => j = k
  /\ \A l \in Int : ~(InScans(sc, st, l) /\ InWaiting(g, W, l))
  /\ W \subseteq M \cap DOMAIN g
  /\ \A a \in W : g[a].weak

LEMMA ScanFields ==
  ASSUME NEW s \in ScanType
  PROVE  s.scanned \in Nat /\ s.index \in Int /\ s.limit \in Nat
         /\ s = [scanned |-> s.scanned, index |-> s.index, limit |-> s.limit]
BY Bounds DEF ScanType

LEMMA Advancing ==
  ASSUME NEW g, NEW M, NEW sc, NEW st, NEW W, Divided(g, M, sc, st, W), sc.index < sc.limit,
         NEW sc2, sc2 = [sc EXCEPT !.index = @ + 1]
  PROVE  /\ Divided(g, M, sc2, st, W)
         /\ sc.scanned + sc.index \in Todo(g, sc, st, W)
         /\ Todo(g, sc2, st, W) = Todo(g, sc, st, W) \ {sc.scanned + sc.index}
<1>1. sc \in ScanType /\ st \in Seq(ScanType)
  BY DEF Divided
<1>2. sc.scanned \in Nat /\ sc.index \in Int /\ sc.limit \in Nat
  BY <1>1, ScanFields
<1>3. sc2.scanned = sc.scanned /\ sc2.index = sc.index + 1 /\ sc2.limit = sc.limit /\ sc2 \in ScanType
  BY <1>1 DEF ScanType
<1>4. \A l \in Int : Ahead(sc, l) <=> Ahead(sc2, l) \/ l = sc.scanned + sc.index
  BY <1>2, <1>3 DEF Ahead
<1>5. \A l \in Int : ~(Ahead(sc2, l) /\ l = sc.scanned + sc.index)
  BY <1>2, <1>3 DEF Ahead
<1>6. sc.scanned + sc.index \in Int /\ InScans(sc, st, sc.scanned + sc.index)
  BY <1>2, <1>4 DEF InScans
<1>7. \A l \in Int : InScans(sc, st, l) <=> InScans(sc2, st, l) \/ l = sc.scanned + sc.index
  BY <1>4 DEF InScans
<1>8. ~InScans(sc2, st, sc.scanned + sc.index)
  <2>1. ~Ahead(sc2, sc.scanned + sc.index) /\ Ahead(sc, sc.scanned + sc.index)
    BY <1>4, <1>5, <1>6
  <2>2. QED BY <2>1, <1>6 DEF InScans, Divided
<1>9. ~InWaiting(g, W, sc.scanned + sc.index)
  BY <1>6 DEF Divided
<1>10. Divided(g, M, sc2, st, W)
  BY <1>3, <1>4, <1>7 DEF Divided
<1>11. \A l \in Location : l \in Int
  BY Bounds
<1>12. sc.scanned + sc.index \in Todo(g, sc, st, W)
  BY <1>6 DEF Divided, Todo
<1>13. Todo(g, sc2, st, W) = Todo(g, sc, st, W) \ {sc.scanned + sc.index}
  BY <1>7, <1>8, <1>9, <1>11 DEF Todo
<1>14. QED BY <1>10, <1>12, <1>13

(* The new scan of Descend, and what is suspended for it.                   *)
Fresh(sc2, sc, st) ==
  sc2 \in ScanType /\ \A l \in Int : Ahead(sc2, l) => l \in Location /\ ~InScans(sc, st, l)

Pushed(sc2, st2, sc, st) ==
  /\ st2 \in Seq(ScanType)
  /\ \A l \in Int : InScans(sc2, st2, l) <=> Ahead(sc2, l) \/ InScans(sc, st, l)
  /\ \A j \in 1 .. Len(st2) : \A l \in Int : ~(Ahead(st2[j], l) /\ Ahead(sc2, l))
  /\ \A j, k \in 1 .. Len(st2) : \A l \in Int : Ahead(st2[j], l) /\ Ahead(st2[k], l) => j = k

Suspended(st2, st, sc) == st2 = IF sc.index < sc.limit THEN Append(st, sc) ELSE st

LEMMA Suspending ==
  ASSUME NEW g, NEW M, NEW sc, NEW st, NEW W, Divided(g, M, sc, st, W),
         NEW st2, Suspended(st2, st, sc),
         NEW sc2, Fresh(sc2, sc, st)
  PROVE  Pushed(sc2, st2, sc, st)
<1>1. sc \in ScanType /\ st \in Seq(ScanType)
  BY DEF Divided
<1>2. CASE sc.index < sc.limit
  <2>1. /\ st2 \in Seq(ScanType) /\ Len(st2) = Len(st) + 1 /\ st2[Len(st) + 1] = sc
        /\ Len(st) \in Nat
        /\ \A j \in 1 .. Len(st) : st2[j] = st[j]
    BY <1>1, <1>2, AppendProperties DEF Suspended
  <2>2. 1 .. Len(st2) = 1 .. Len(st) \cup {Len(st) + 1}
    BY <2>1
  <2>3. \A l : (\E j \in 1 .. Len(st2) : Ahead(st2[j], l)) <=> InScans(sc, st, l)
    BY <2>1, <2>2 DEF InScans
  <2>4. \A l \in Int : InScans(sc2, st2, l) <=> Ahead(sc2, l) \/ InScans(sc, st, l)
    BY <2>3 DEF InScans
  <2>5. \A j \in 1 .. Len(st2) : \A l \in Int : ~(Ahead(st2[j], l) /\ Ahead(sc2, l))
    BY <2>3 DEF Fresh
  <2>6. ASSUME NEW j \in 1 .. Len(st2), NEW k \in 1 .. Len(st2), NEW l \in Int,
               Ahead(st2[j], l), Ahead(st2[k], l)
        PROVE  j = k
    <3>1. CASE j \in 1 .. Len(st) /\ k \in 1 .. Len(st)
      BY <3>1, <2>1, <2>6 DEF Divided
    <3>2. CASE j \in 1 .. Len(st) /\ k = Len(st) + 1
      BY <3>2, <2>1, <2>6 DEF Divided
    <3>3. CASE j = Len(st) + 1 /\ k \in 1 .. Len(st)
      BY <3>3, <2>1, <2>6 DEF Divided
    <3>4. QED BY <2>2, <3>1, <3>2, <3>3
  <2>7. QED BY <2>1, <2>4, <2>5, <2>6 DEF Pushed
<1>3. CASE ~(sc.index < sc.limit)
  <2>1. st2 = st
    BY <1>3 DEF Suspended
  <2>2. \A l \in Int : ~Ahead(sc, l)
    BY <1>1, <1>3, ScanFields DEF Ahead
  <2>3. \A l \in Int : InScans(sc, st, l) <=> \E j \in 1 .. Len(st) : Ahead(st[j], l)
    BY <2>2 DEF InScans
  <2>4. \A l \in Int : InScans(sc2, st2, l) <=> Ahead(sc2, l) \/ InScans(sc, st, l)
    BY <2>1, <2>3 DEF InScans
  <2>5. \A j \in 1 .. Len(st2) : \A l \in Int : ~(Ahead(st2[j], l) /\ Ahead(sc2, l))
    BY <2>1, <2>3 DEF Fresh
  <2>6. QED BY <1>1, <2>1, <2>4, <2>5 DEF Divided, Pushed
<1>4. QED BY <1>2, <1>3


LEMMA ScanAhead ==
  ASSUME NEW scanned \in Int, NEW size \in Nat, NEW base \in {0, 1}, base = 1 \/ size > 0,
         NEW l \in Int
  PROVE  /\ Ahead(Scan(scanned, size, base), l) <=> scanned + base - 1 <= l /\ l < scanned + base - 1 + size
         /\ scanned \in Location => Scan(scanned, size, base) \in ScanType
BY DEF Ahead, Scan, ScanType

(* A weak object waits with its slots, its behavior is next.                *)
Disjoint(S, T) == S \cap T = {}
Without(S, a) == S \ {a}
IsWeak(g, a) == a \in DOMAIN g /\ g[a].weak
SlotsAdded(T, g, a) == T \cup SlotsAt(g, a)

LEMMA DescendingToWeak ==
  ASSUME NEW g, NEW on, NEW fn, Placement(g, on, fn), NEW M, NEW sc, NEW st, NEW W,
         Divided(g, M, sc, st, W),
         NEW a, a \notin M, IsWeak(g, a),
         Disjoint(SlotsAt(g, a), Todo(g, sc, st, W)),
         NEW st2, Suspended(st2, st, sc),
         NEW sc2, sc2 = Scan(a, 1, 0)
  PROVE  /\ Divided(g, M \cup {a}, sc2, st2, W \cup {a})
         /\ Todo(g, sc2, st2, W \cup {a}) = SlotsAdded(Todo(g, sc, st, W), g, a)
<1>0. \A l \in SlotsAt(g, a) : l \notin Todo(g, sc, st, W)
  BY DEF Disjoint
<1>1. a \in Known(g) /\ a \in DOMAIN g
  BY DEF Known, IsWeak
<1>2. a \in Nat /\ SizeAt(g, a) \in Nat /\ a \in Location
  BY <1>1, KnownObject
<1>3. \A l \in SlotsAt(g, a) : l \in Location
  BY <1>1, SlotIsCell
<1>4. \A l \in Int : Ahead(sc2, l) <=> l = a - 1
  BY <1>2, ScanAhead
<1>5. sc2 \in ScanType
  BY <1>2, ScanAhead
<1>6. \A l \in Int : l \in SlotsAt(g, a) <=> l = a - 1 \/ (a <= l /\ l < a + SizeAt(g, a))
  BY <1>2 DEF SlotsAt
<1>7. \A l \in Int : InScans(sc, st, l) => l \in Todo(g, sc, st, W)
  BY DEF Divided, Todo
<1>8. \A l \in Location : l \in Int
  BY Bounds
<1>9. /\ st2 \in Seq(ScanType)
      /\ \A l \in Int : InScans(sc2, st2, l) <=> Ahead(sc2, l) \/ InScans(sc, st, l)
      /\ \A j \in 1 .. Len(st2) : \A l \in Int : ~(Ahead(st2[j], l) /\ Ahead(sc2, l))
      /\ \A j, k \in 1 .. Len(st2) : \A l \in Int : Ahead(st2[j], l) /\ Ahead(st2[k], l) => j = k
  <2>1. \A l \in Int : Ahead(sc2, l) => l \in Location /\ ~InScans(sc, st, l)
    BY <1>0, <1>3, <1>4, <1>6, <1>7
  <2>2. Pushed(sc2, st2, sc, st)
    BY <1>5, <2>1, Suspending DEF Fresh
  <2>3. QED BY <2>2 DEF Pushed
<1>10. \A l \in Int : InWaiting(g, W \cup {a}, l) <=> InWaiting(g, W, l) \/ (a <= l /\ l < a + SizeAt(g, a))
  BY DEF InWaiting
<1>11. \A l \in Int : InScans(sc2, st2, l) => l \in Location
  BY <1>3, <1>4, <1>6, <1>9 DEF Divided
<1>12. ASSUME NEW l \in Int, InScans(sc2, st2, l), InWaiting(g, W \cup {a}, l) PROVE FALSE
  <2>1. l \in Location
    BY <1>11, <1>12
  <2>2. l = a - 1 \/ InScans(sc, st, l)
    BY <1>4, <1>9, <1>12
  <2>3. InWaiting(g, W, l) \/ (a <= l /\ l < a + SizeAt(g, a))
    BY <1>10, <1>12
  <2>4. CASE InScans(sc, st, l)
    BY <2>1, <2>3, <2>4, <1>0, <1>6, <1>7 DEF Divided
  <2>5. CASE l = a - 1
    <3>1. l \in SlotsAt(g, a) /\ ~(a <= l)
      BY <2>5, <1>2, <1>6
    <3>2. InWaiting(g, W, l)
      BY <3>1, <2>3
    <3>3. QED BY <2>1, <3>1, <3>2, <1>0 DEF Todo
  <2>6. QED BY <2>2, <2>4, <2>5
<1>13. Divided(g, M \cup {a}, sc2, st2, W \cup {a})
  BY <1>1, <1>5, <1>9, <1>11, <1>12 DEF Divided, IsWeak
<1>14. \A l : l \in Todo(g, sc2, st2, W \cup {a}) <=> l \in Todo(g, sc, st, W) \/ l \in SlotsAt(g, a)
  BY <1>3, <1>4, <1>6, <1>8, <1>9, <1>10 DEF Todo
<1>15. QED BY <1>13, <1>14 DEF SlotsAdded

LEMMA DescendingToPlain ==
  ASSUME NEW g, NEW on, NEW fn, Placement(g, on, fn), NEW M, NEW sc, NEW st, NEW W,
         Divided(g, M, sc, st, W),
         NEW a \in Known(g), a \notin M,
         Disjoint(SlotsAt(g, a), Todo(g, sc, st, W)),
         NEW st2, Suspended(st2, st, sc),
         NEW sc2, sc2 = Scan(a, 1 + SizeAt(g, a), 0)
  PROVE  /\ Divided(g, M \cup {a}, sc2, st2, W)
         /\ Todo(g, sc2, st2, W) = SlotsAdded(Todo(g, sc, st, W), g, a)
<1>0. \A l \in SlotsAt(g, a) : l \notin Todo(g, sc, st, W)
  BY DEF Disjoint
<1>2. a \in Nat /\ SizeAt(g, a) \in Nat /\ 1 + SizeAt(g, a) \in Nat /\ a \in Location
  BY KnownObject
<1>3. \A l \in SlotsAt(g, a) : l \in Location
  BY SlotIsCell
<1>4. \A l \in Int : Ahead(sc2, l) <=> l \in SlotsAt(g, a)
  BY <1>2, ScanAhead DEF SlotsAt
<1>5. sc2 \in ScanType
  BY <1>2, ScanAhead
<1>7. \A l \in Int : InScans(sc, st, l) => l \in Todo(g, sc, st, W)
  BY DEF Divided, Todo
<1>8. \A l \in Location : l \in Int
  BY Bounds
<1>9. /\ st2 \in Seq(ScanType)
      /\ \A l \in Int : InScans(sc2, st2, l) <=> Ahead(sc2, l) \/ InScans(sc, st, l)
      /\ \A j \in 1 .. Len(st2) : \A l \in Int : ~(Ahead(st2[j], l) /\ Ahead(sc2, l))
      /\ \A j, k \in 1 .. Len(st2) : \A l \in Int : Ahead(st2[j], l) /\ Ahead(st2[k], l) => j = k
  <2>1. \A l \in Int : Ahead(sc2, l) => l \in Location /\ ~InScans(sc, st, l)
    BY <1>0, <1>3, <1>4, <1>7
  <2>2. Pushed(sc2, st2, sc, st)
    BY <1>5, <2>1, Suspending DEF Fresh
  <2>3. QED BY <2>2 DEF Pushed
<1>10. \A l \in Location : InWaiting(g, W, l) => l \in Todo(g, sc, st, W)
  BY DEF Todo
<1>11. \A l \in Int : InScans(sc2, st2, l) => l \in Location
  BY <1>3, <1>4, <1>9 DEF Divided
<1>12. \A l \in Int : ~(InScans(sc2, st2, l) /\ InWaiting(g, W, l))
  BY <1>0, <1>3, <1>4, <1>9, <1>10 DEF Divided
<1>13. Divided(g, M \cup {a}, sc2, st2, W)
  BY <1>5, <1>9, <1>11, <1>12 DEF Divided
<1>14. \A l : l \in Todo(g, sc2, st2, W) <=> l \in Todo(g, sc, st, W) \/ l \in SlotsAt(g, a)
  BY <1>3, <1>4, <1>8, <1>9 DEF Todo
<1>15. QED BY <1>13, <1>14 DEF SlotsAdded

LEMMA TopAndRest ==
  ASSUME NEW S, NEW s \in Seq(S), s # << >>
  PROVE  /\ Len(s) \in Nat \ {0} /\ Last(s) = s[Len(s)] /\ Last(s) \in S
         /\ Front(s) \in Seq(S) /\ Len(Front(s)) = Len(s) - 1
         /\ \A j \in 1 .. Len(s) - 1 : Front(s)[j] = s[j]
<1>1. Len(s) \in Nat /\ Len(s) # 0 /\ \A k \in 1 .. Len(s) : s[k] \in S
  BY ElementOfSeq, EmptySeq
<1>2. Len(s) - 1 \in Nat /\ \A k \in 1 .. Len(s) - 1 : s[k] \in S
  BY <1>1
<1> DEFINE n == Len(s) - 1
<1>3. /\ SubSeq(s, 1, n) \in Seq(S)
      /\ Len(SubSeq(s, 1, n)) = IF 1 <= n THEN n - 1 + 1 ELSE 0
      /\ \A j \in 1 .. n - 1 + 1 : SubSeq(s, 1, n)[j] = s[1 + j - 1]
  <2> HIDE DEF n
  <2>1. n \in Int /\ \A k \in 1 .. n : s[k] \in S
    BY <1>2 DEF n
  <2>2. SubSeq(s, 1, n) \in Seq(S)
    BY <2>1, SubSeqProperties
  <2>3. Len(SubSeq(s, 1, n)) = IF 1 <= n THEN n - 1 + 1 ELSE 0
    BY <2>1, SubSeqProperties
  <2>4. ASSUME NEW j \in 1 .. n - 1 + 1 PROVE SubSeq(s, 1, n)[j] = s[1 + j - 1]
    BY <2>1, SubSeqProperties
  <2>5. QED BY <2>2, <2>3, <2>4
<1> HIDE DEF n
<1>4. n \in Nat /\ n = Len(s) - 1 /\ Front(s) = SubSeq(s, 1, n)
  BY <1>1 DEF n, Front
<1>5. Len(SubSeq(s, 1, n)) = n /\ n - 1 + 1 = n
  BY <1>3, <1>4
<1>6. ASSUME NEW j \in 1 .. n PROVE Front(s)[j] = s[j]
  <2>1. j \in 1 .. n - 1 + 1 /\ 1 + j - 1 = j
    BY <1>4
  <2>2. SubSeq(s, 1, n)[j] = s[1 + j - 1]
    BY <2>1, <1>3
  <2>3. QED BY <2>1, <2>2, <1>4
<1>7. Last(s) = s[Len(s)] /\ Len(s) \in 1 .. Len(s)
  BY <1>1 DEF Last
<1>8. QED BY <1>1, <1>3, <1>4, <1>5, <1>6, <1>7

LEMMA Resuming ==
  ASSUME NEW g, NEW M, NEW sc, NEW st, NEW W, Divided(g, M, sc, st, W),
         ~(sc.index < sc.limit), st # << >>,
         NEW sc2, sc2 = Last(st), NEW st2, st2 = Front(st)
  PROVE  Divided(g, M, sc2, st2, W) /\ Todo(g, sc2, st2, W) = Todo(g, sc, st, W)
<1>1. sc \in ScanType /\ st \in Seq(ScanType)
  BY DEF Divided
<1>2. /\ sc2 = st[Len(st)] /\ st2 \in Seq(ScanType) /\ Len(st2) = Len(st) - 1 /\ Len(st) \in Nat \ {0}
      /\ \A j \in 1 .. Len(st2) : st2[j] = st[j]
  BY <1>1, TopAndRest
<1>3. 1 .. Len(st) = 1 .. Len(st2) \cup {Len(st)} /\ Len(st) \in 1 .. Len(st)
      /\ \A j \in 1 .. Len(st2) : j \in 1 .. Len(st) /\ j # Len(st)
  BY <1>2
<1>4. \A l \in Int : ~Ahead(sc, l)
  BY <1>1, ScanFields DEF Ahead
<1>5. \A l \in Int : InScans(sc2, st2, l) <=> InScans(sc, st, l)
  BY <1>2, <1>3, <1>4 DEF InScans
<1>6. sc2 \in ScanType
  BY <1>1, <1>2, <1>3
<1>7. \A j \in 1 .. Len(st2) : \A l \in Int : ~(Ahead(st2[j], l) /\ Ahead(sc2, l))
  BY <1>2, <1>3 DEF Divided
<1>8. \A j, k \in 1 .. Len(st2) : \A l \in Int : Ahead(st2[j], l) /\ Ahead(st2[k], l) => j = k
  BY <1>2, <1>3 DEF Divided
<1>9. Divided(g, M, sc2, st2, W)
  BY <1>2, <1>5, <1>6, <1>7, <1>8 DEF Divided
<1>10. Todo(g, sc2, st2, W) = Todo(g, sc, st, W)
  BY <1>5, Bounds DEF Todo
<1>11. QED BY <1>9, <1>10

(* Without a scan under way, nothing is ahead. *)
LEMMA Exhausted ==
  ASSUME NEW g, NEW M, NEW sc, NEW st, NEW W, Divided(g, M, sc, st, W),
         ~(sc.index < sc.limit), st = << >>
  PROVE  /\ \A l \in Int : ~InScans(sc, st, l)
         /\ Todo(g, sc, st, W) = {l \in Location : InWaiting(g, W, l)}
<1>1. \A l \in Int : ~InScans(sc, st, l)
  BY ScanFields DEF Divided, InScans, Ahead
<1>2. QED BY <1>1, Bounds DEF Todo

(* A scan that begins without suspended ones. *)
Clear(g, W, sc) ==
  sc \in ScanType /\ \A l \in Int : Ahead(sc, l) => l \in Location /\ ~InWaiting(g, W, l)

LEMMA ScanBegins ==
  ASSUME NEW g, NEW M, NEW W, NEW sc, Clear(g, W, sc),
         W \subseteq M \cap DOMAIN g, \A a \in W : g[a].weak
  PROVE  /\ Divided(g, M, sc, << >>, W)
         /\ Todo(g, sc, << >>, W) = {l \in Location : Ahead(sc, l) \/ InWaiting(g, W, l)}
BY DEF Divided, InScans, Todo, Clear

LEMMA StartingWaiting ==
  ASSUME NEW g, NEW on, NEW fn, Placement(g, on, fn), NEW M, NEW sc, NEW st, NEW W,
         Divided(g, M, sc, st, W), ~(sc.index < sc.limit), st = << >>,
         NEW a \in W, NEW sc2, sc2 = Scan(a, g[a].size, 1), NEW W2, W2 = Without(W, a)
  PROVE  Divided(g, M, sc2, st, W2) /\ Todo(g, sc2, st, W2) = Todo(g, sc, st, W)
<1>0. W2 = W \ {a}
  BY DEF Without
<1>1. W \subseteq M \cap DOMAIN g /\ (\A b \in W : g[b].weak) /\ a \in Known(g) /\ a \in DOMAIN g
  BY DEF Divided, Known
<1>2. a \in Nat /\ SizeAt(g, a) \in Nat /\ a \in Location /\ SizeAt(g, a) = g[a].size
  BY <1>1, KnownObject
<1>3. \A l \in Int : Ahead(sc2, l) <=> a <= l /\ l < a + SizeAt(g, a)
  BY <1>2, ScanAhead
<1>4. sc2 \in ScanType
  BY <1>2, ScanAhead
<1>5. \A b \in Known(g) : \A l \in Int : b <= l /\ l < b + SizeAt(g, b) => l \in SlotsAt(g, b)
  BY KnownObject DEF SlotsAt
<1>6. \A l \in Int : Ahead(sc2, l) => l \in SlotsAt(g, a) /\ l \in Location
  BY <1>1, <1>3, <1>5, SlotIsCell
<1>7. ASSUME NEW l \in Int, Ahead(sc2, l), InWaiting(g, W2, l) PROVE FALSE
  <2>1. PICK b \in W2 : b <= l /\ l < b + SizeAt(g, b)
    BY <1>7 DEF InWaiting
  <2>2. b \in Known(g) /\ b # a /\ l \in SlotsAt(g, b)
    BY <2>1, <1>0, <1>1, <1>5 DEF Known
  <2>3. QED BY <2>2, <1>1, <1>6, <1>7, SlotIsCell
<1>8. W2 \subseteq M \cap DOMAIN g /\ \A b \in W2 : g[b].weak
  BY <1>0, <1>1
<1>9. /\ Divided(g, M, sc2, << >>, W2)
      /\ Todo(g, sc2, << >>, W2) = {l \in Location : Ahead(sc2, l) \/ InWaiting(g, W2, l)}
  <2>1. Clear(g, W2, sc2)
    BY <1>4, <1>6, <1>7 DEF Clear
  <2>2. QED BY <2>1, <1>8, ScanBegins
<1>10. \A l \in Location : Ahead(sc2, l) \/ InWaiting(g, W2, l) <=> InWaiting(g, W, l)
  BY <1>0, <1>3, Bounds DEF InWaiting
<1>11. Todo(g, sc, st, W) = {l \in Location : InWaiting(g, W, l)}
  BY Exhausted
<1>12. QED BY <1>9, <1>10, <1>11

LEMMA StartingRoots ==
  ASSUME NEW g, NEW on, NEW fn, Placement(g, on, fn), NEW M, NEW sc, NEW st, NEW W,
         Divided(g, M, sc, st, W), ~(sc.index < sc.limit), st = << >>,
         NEW R \in Roots, NEW n \in Nat, R + n <= RescuedEphemerons + 1,
         NEW sc2, sc2 = Scan(R, n, 1)
  PROVE  /\ Divided(g, M, sc2, st, W)
         /\ Todo(g, sc2, st, W) = Todo(g, sc, st, W) \cup (R .. R + n - 1)
<1>1. W \subseteq M \cap DOMAIN g /\ \A b \in W : g[b].weak
  BY DEF Divided
<1>2. R \in Nat /\ R \in Location
  BY RootIsCell
<1>3. \A l \in Int : Ahead(sc2, l) <=> l \in R .. R + n - 1
  BY <1>2, ScanAhead
<1>4. sc2 \in ScanType
  BY <1>2, ScanAhead
<1>5. \A l \in Int : Ahead(sc2, l) => l \in Roots
  BY <1>2, <1>3, Numbers DEF Roots
<1>6. ASSUME NEW l \in Int, Ahead(sc2, l) PROVE l \in Location /\ ~InWaiting(g, W, l)
  <2>1. l \in Roots /\ l \in Location
    BY <1>5, <1>6, RootIsCell
  <2>2. ASSUME NEW b \in W, b <= l, l < b + SizeAt(g, b) PROVE FALSE
    <3>1. b \in Known(g)
      BY <1>1 DEF Known
    <3>2. l \in SlotsAt(g, b)
      BY <2>2, <3>1, KnownObject DEF SlotsAt
    <3>3. QED BY <2>1, <3>1, <3>2, SlotIsCell
  <2>3. QED BY <2>1, <2>2 DEF InWaiting
<1>7. /\ Divided(g, M, sc2, << >>, W)
      /\ Todo(g, sc2, << >>, W) = {l \in Location : Ahead(sc2, l) \/ InWaiting(g, W, l)}
  <2>1. Clear(g, W, sc2)
    BY <1>4, <1>6 DEF Clear
  <2>2. QED BY <2>1, <1>1, ScanBegins
<1>8. Todo(g, sc, st, W) = {l \in Location : InWaiting(g, W, l)}
  BY Exhausted
<1>9. \A l \in R .. R + n - 1 : l \in Int /\ l \in Location
  BY <1>3, <1>6, <1>2
<1>10. \A l \in Location : l \in Int
  BY Bounds
<1>11. \A l : l \in Todo(g, sc2, st, W) <=> l \in Todo(g, sc, st, W) \/ l \in R .. R + n - 1
  BY <1>3, <1>7, <1>8, <1>9, <1>10
<1>12. QED BY <1>7, <1>11


-----------------------------------------------------------------------------
(* The lists of ephemerons es, of unknowns us, looked at from index fu on,  *)
(* and of weak containers ws, looked at from index fw on.  All that is in   *)
(* them is marked and in one of them only.                                  *)
Distinct(s) == \A j, k \in 1 .. Len(s) : s[j] = s[k] => j = k
From(s, n) == {s[j] : j \in n .. Len(s)}
WaitSet(es, us, ws, fu, fw) == From(es, 1) \cup From(us, fu) \cup From(ws, fw)

Queues(g, M, es, us, ws, fu, fw) ==
  /\ es \in Seq(Location) /\ us \in Seq(Location) /\ ws \in Seq(Location)
  /\ fu \in Nat \ {0} /\ fw \in Nat \ {0} /\ fw <= Len(ws) + 1
  /\ Distinct(es) /\ Distinct(us) /\ Distinct(ws)
  /\ From(es, 1) \cap From(us, fu) = {}
  /\ \A e \in From(es, 1) \cup From(us, 1) : e \in M /\ e \in DOMAIN g /\ g[e].ephemeron
  /\ \A w \in From(ws, 1) : w \in M /\ w \in DOMAIN g /\ ~g[w].ephemeron

LEMMA FromAppend ==
  ASSUME NEW S, NEW s \in Seq(S), Distinct(s), NEW a \in S, a \notin From(s, 1),
         NEW n \in Nat \ {0}, n <= Len(s) + 1
  PROVE  /\ Append(s, a) \in Seq(S) /\ Distinct(Append(s, a))
         /\ From(Append(s, a), 1) = From(s, 1) \cup {a}
         /\ From(Append(s, a), n) = From(s, n) \cup {a}
<1> DEFINE t == Append(s, a)
<1>1. /\ t \in Seq(S) /\ Len(t) = Len(s) + 1 /\ Len(s) \in Nat /\ t[Len(s) + 1] = a
      /\ \A j \in 1 .. Len(s) : t[j] = s[j]
  BY AppendProperties
<1> HIDE DEF t
<1>2. ASSUME NEW k \in Nat \ {0}, k <= Len(s) + 1 PROVE From(t, k) = From(s, k) \cup {a}
  <2>1. k .. Len(t) = (k .. Len(s)) \cup {Len(s) + 1}
    BY <1>1, <1>2
  <2>2. \A j \in k .. Len(s) : t[j] = s[j]
    BY <1>1
  <2>3. QED BY <1>1, <2>1, <2>2 DEF From
<1>3. ASSUME NEW j \in 1 .. Len(t), NEW k \in 1 .. Len(t), t[j] = t[k]
      PROVE  j = k
  <2>1. \A x \in 1 .. Len(t) : x = Len(s) + 1 \/ (x \in 1 .. Len(s) /\ t[x] = s[x] /\ t[x] # a)
    BY <1>1, <1>3 DEF From
  <2>2. QED BY <1>1, <1>3, <2>1 DEF Distinct
<1>4. 1 <= Len(s) + 1 /\ 1 \in Nat \ {0}
  BY <1>1
<1>5. Distinct(t)
  BY <1>3 DEF Distinct
<1>6. QED BY <1>1, <1>2, <1>4, <1>5 DEF t

LEMMA FromFront ==
  ASSUME NEW S, NEW s \in Seq(S), s # << >>, Distinct(s)
  PROVE  /\ Front(s) \in Seq(S) /\ Last(s) \in S /\ Last(s) \in From(s, 1) /\ Distinct(Front(s))
         /\ From(Front(s), 1) = From(s, 1) \ {Last(s)}
<1>1. /\ Len(s) \in Nat \ {0} /\ Last(s) = s[Len(s)] /\ Last(s) \in S
      /\ Front(s) \in Seq(S) /\ Len(Front(s)) = Len(s) - 1
      /\ \A j \in 1 .. Len(s) - 1 : Front(s)[j] = s[j]
  BY TopAndRest
<1>2. \A j : j \in 1 .. Len(s) <=> j \in 1 .. Len(s) - 1 \/ j = Len(s)
  BY <1>1
<1>3. \A j \in 1 .. Len(s) - 1 : s[j] # Last(s)
  BY <1>1, <1>2 DEF Distinct
<1>4. From(Front(s), 1) = From(s, 1) \ {Last(s)}
  BY <1>1, <1>2, <1>3 DEF From
<1>5. Distinct(Front(s))
  BY <1>1, <1>2 DEF Distinct
<1>6. QED BY <1>1, <1>2, <1>4, <1>5 DEF From

LEMMA FromNext ==
  ASSUME NEW S, NEW s \in Seq(S), Distinct(s), NEW n \in Nat \ {0}
  PROVE  /\ n <= Len(s) => s[n] \in From(s, n) /\ s[n] \in S /\ From(s, n + 1) = From(s, n) \ {s[n]}
         /\ n > Len(s) => From(s, n) = {}
         /\ From(s, n) \subseteq From(s, 1)
         /\ From(<< >>, n) = {} /\ << >> \in Seq(S) /\ Distinct(<< >>)
<1>1. Len(s) \in Nat /\ Len(<< >>) = 0
  OBVIOUS
<1>2. ASSUME n <= Len(s) PROVE s[n] \in From(s, n) /\ s[n] \in S /\ From(s, n + 1) = From(s, n) \ {s[n]}
  <2>1. n \in 1 .. Len(s) /\ n \in n .. Len(s) /\ s[n] \in S
    BY <1>1, <1>2
  <2>2. \A j : j \in n .. Len(s) <=> j \in n + 1 .. Len(s) \/ j = n
    BY <1>1, <1>2
  <2>3. \A j \in n + 1 .. Len(s) : j \in 1 .. Len(s) /\ j # n
    BY <1>1
  <2>4. \A j \in n + 1 .. Len(s) : s[j] # s[n]
    BY <2>1, <2>3 DEF Distinct
  <2>5. QED BY <2>1, <2>2, <2>4 DEF From
<1>3. n > Len(s) => n .. Len(s) = {}
  BY <1>1
<1>4. \A j \in n .. Len(s) : j \in 1 .. Len(s)
  BY <1>1
<1>5. n .. Len(<< >>) = {} /\ 1 .. Len(<< >>) = {}
  BY <1>1
<1>6. QED BY <1>2, <1>3, <1>4, <1>5 DEF From, Distinct

(* RememberIfWeak. *)
LEMMA QueueEphemeron ==
  ASSUME NEW g, NEW M, NEW es, NEW us, NEW ws, NEW fu, NEW fw, Queues(g, M, es, us, ws, fu, fw),
         NEW a \in DOMAIN g, a \in Location, a \notin M, g[a].ephemeron
  PROVE  /\ Queues(g, M \cup {a}, Append(es, a), us, ws, fu, fw)
         /\ WaitSet(Append(es, a), us, ws, fu, fw) = WaitSet(es, us, ws, fu, fw) \cup {a}
<1>1. a \notin From(es, 1) /\ a \notin From(us, 1)
  BY DEF Queues
<1>2. From(us, fu) \subseteq From(us, 1)
  BY FromNext DEF Queues
<1>3. /\ Append(es, a) \in Seq(Location) /\ From(Append(es, a), 1) = From(es, 1) \cup {a}
      /\ Distinct(Append(es, a))
  <2>1. 1 <= Len(es) + 1 /\ 1 \in Nat \ {0}
    BY DEF Queues
  <2>2. QED BY <1>1, <2>1, FromAppend DEF Queues
<1>4. QED
  BY <1>1, <1>2, <1>3 DEF Queues, WaitSet

LEMMA QueueWeak ==
  ASSUME NEW g, NEW M, NEW es, NEW us, NEW ws, NEW fu, NEW fw, Queues(g, M, es, us, ws, fu, fw),
         NEW a \in DOMAIN g, a \in Location, a \notin M, ~g[a].ephemeron
  PROVE  /\ Queues(g, M \cup {a}, es, us, Append(ws, a), fu, fw)
         /\ WaitSet(es, us, Append(ws, a), fu, fw) = WaitSet(es, us, ws, fu, fw) \cup {a}
<1>1. a \notin From(ws, 1)
  BY DEF Queues
<1>2. /\ Append(ws, a) \in Seq(Location) /\ From(Append(ws, a), 1) = From(ws, 1) \cup {a}
      /\ From(Append(ws, a), fw) = From(ws, fw) \cup {a} /\ Distinct(Append(ws, a))
  BY <1>1, FromAppend DEF Queues
<1>3. Len(Append(ws, a)) = Len(ws) + 1 /\ Len(ws) \in Nat /\ fw \in Nat
  BY AppendProperties DEF Queues
<1>4. QED
  BY <1>2, <1>3 DEF Queues, WaitSet

LEMMA QueueNothing ==
  ASSUME NEW g, NEW M, NEW es, NEW us, NEW ws, NEW fu, NEW fw, Queues(g, M, es, us, ws, fu, fw),
         NEW a
  PROVE  Queues(g, M \cup {a}, es, us, ws, fu, fw)
BY DEF Queues

LEMMA TakeEphemeron ==
  ASSUME NEW g, NEW M, NEW es, NEW us, NEW ws, NEW fu, NEW fw, Queues(g, M, es, us, ws, fu, fw),
         es # << >>, NEW a, a = Last(es)
  PROVE  /\ Queues(g, M, Front(es), us, ws, fu, fw)
         /\ WaitSet(Front(es), us, ws, fu, fw) = Without(WaitSet(es, us, ws, fu, fw), a)
         /\ a \in WaitSet(es, us, ws, fu, fw) /\ g[a].ephemeron /\ a \in DOMAIN g
<1>1. /\ Front(es) \in Seq(Location) /\ a \in From(es, 1) /\ Distinct(Front(es))
      /\ From(Front(es), 1) = From(es, 1) \ {a}
  BY FromFront DEF Queues
<1>2. From(ws, fw) \subseteq From(ws, 1)
  BY FromNext DEF Queues
<1>3. a \notin From(us, fu) /\ a \notin From(ws, fw)
  BY <1>1, <1>2 DEF Queues
<1>4. QED BY <1>1, <1>3 DEF Queues, WaitSet, Without

LEMMA MoveEphemeron ==
  ASSUME NEW g, NEW M, NEW es, NEW us, NEW ws, NEW fw, Queues(g, M, es, us, ws, 1, fw),
         es # << >>, NEW a, a = Last(es)
  PROVE  /\ Queues(g, M, Front(es), Append(us, a), ws, 1, fw)
         /\ WaitSet(Front(es), Append(us, a), ws, 1, fw) = WaitSet(es, us, ws, 1, fw)
<1>1. /\ Front(es) \in Seq(Location) /\ a \in From(es, 1) /\ Distinct(Front(es)) /\ a \in Location
      /\ From(Front(es), 1) = From(es, 1) \ {a}
  BY FromFront DEF Queues
<1>2. a \notin From(us, 1)
  BY <1>1 DEF Queues
<1>3. /\ Append(us, a) \in Seq(Location) /\ From(Append(us, a), 1) = From(us, 1) \cup {a}
      /\ Distinct(Append(us, a))
  <2>1. 1 <= Len(us) + 1 /\ 1 \in Nat \ {0}
    BY DEF Queues
  <2>2. QED BY <1>1, <1>2, <2>1, FromAppend DEF Queues
<1>4. QED BY <1>1, <1>2, <1>3 DEF Queues, WaitSet

LEMMA AgainEphemerons ==
  ASSUME NEW g, NEW M, NEW us, NEW ws, NEW fw, Queues(g, M, << >>, us, ws, 1, fw)
  PROVE  /\ Queues(g, M, us, << >>, ws, 1, fw)
         /\ WaitSet(us, << >>, ws, 1, fw) = WaitSet(<< >>, us, ws, 1, fw)
<1>1. From(<< >>, 1) = {} /\ << >> \in Seq(Location) /\ Distinct(<< >>)
  BY FromNext DEF Queues
<1>2. QED BY <1>1 DEF Queues, WaitSet

LEMMA TakeUnknown ==
  ASSUME NEW g, NEW M, NEW es, NEW us, NEW ws, NEW fu, NEW fw, Queues(g, M, es, us, ws, fu, fw),
         fu <= Len(us), NEW a, a = us[fu]
  PROVE  /\ Queues(g, M, es, us, ws, fu + 1, fw)
         /\ WaitSet(es, us, ws, fu + 1, fw) = Without(WaitSet(es, us, ws, fu, fw), a)
         /\ a \in WaitSet(es, us, ws, fu, fw) /\ g[a].ephemeron /\ a \in DOMAIN g
<1>1. a \in From(us, fu) /\ From(us, fu + 1) = From(us, fu) \ {a} /\ From(us, fu) \subseteq From(us, 1)
  BY FromNext DEF Queues
<1>2. From(ws, fw) \subseteq From(ws, 1)
  BY FromNext DEF Queues
<1>3. a \notin From(es, 1) /\ a \notin From(ws, fw)
  BY <1>1, <1>2 DEF Queues
<1>4. fu + 1 \in Nat \ {0}
  BY DEF Queues
<1>5. QED BY <1>1, <1>3, <1>4 DEF Queues, WaitSet, Without

LEMMA DropUnknowns ==
  ASSUME NEW g, NEW M, NEW es, NEW us, NEW ws, NEW fu, NEW fw, Queues(g, M, es, us, ws, fu, fw),
         fu > Len(us), NEW fu2 \in Nat \ {0}
  PROVE  /\ Queues(g, M, es, << >>, ws, fu2, fw)
         /\ WaitSet(es, << >>, ws, fu2, fw) = WaitSet(es, us, ws, fu, fw)
<1>1. /\ From(<< >>, 1) = {} /\ From(<< >>, fu2) = {} /\ << >> \in Seq(Location) /\ Distinct(<< >>)
      /\ From(us, fu) = {}
  BY FromNext DEF Queues
<1>2. QED BY <1>1 DEF Queues, WaitSet

LEMMA TakeWeak ==
  ASSUME NEW g, NEW M, NEW es, NEW us, NEW ws, NEW fu, NEW fw, Queues(g, M, es, us, ws, fu, fw),
         fw <= Len(ws), NEW a, a = ws[fw]
  PROVE  /\ Queues(g, M, es, us, ws, fu, fw + 1)
         /\ WaitSet(es, us, ws, fu, fw + 1) = Without(WaitSet(es, us, ws, fu, fw), a)
         /\ a \in WaitSet(es, us, ws, fu, fw) /\ ~g[a].ephemeron /\ a \in DOMAIN g
<1>1. a \in From(ws, fw) /\ From(ws, fw + 1) = From(ws, fw) \ {a} /\ From(ws, fw) \subseteq From(ws, 1)
  BY FromNext DEF Queues
<1>2. From(us, fu) \subseteq From(us, 1)
  BY FromNext DEF Queues
<1>3. a \notin From(es, 1) /\ a \notin From(us, fu)
  BY <1>1, <1>2 DEF Queues
<1>4. fw + 1 \in Nat \ {0} /\ fw + 1 <= Len(ws) + 1
  BY DEF Queues
<1>5. QED BY <1>1, <1>3, <1>4 DEF Queues, WaitSet, Without

LEMMA DropWeak ==
  ASSUME NEW g, NEW M, NEW es, NEW us, NEW ws, NEW fu, NEW fw, Queues(g, M, es, us, ws, fu, fw),
         fw > Len(ws)
  PROVE  /\ Queues(g, M, es, us, << >>, fu, 1)
         /\ WaitSet(es, us, << >>, fu, 1) = WaitSet(es, us, ws, fu, fw)
<1>1. /\ From(<< >>, 1) = {} /\ << >> \in Seq(Location) /\ Distinct(<< >>) /\ Len(<< >>) = 0
      /\ From(ws, fw) = {}
  BY FromNext DEF Queues
<1>2. QED BY <1>1 DEF Queues, WaitSet


-----------------------------------------------------------------------------
(* The invariant of marking.  c is the copy of the memory from before the   *)
(* collection, u the memory without lists.                                  *)
InWeak(g, l) ==
  \E a \in DOMAIN g : g[a].weak /\ ~g[a].ephemeron /\ a <= l /\ l < a + g[a].size

Kept(c, g, l, now) ==
  IF Is("bits", c[l])
  THEN /\ Is("bits", now)
       /\ [Value(now) EXCEPT !.unseenInSpace = TRUE, !.inRememberedSet = FALSE]
            = [Value(c[l]) EXCEPT !.unseenInSpace = TRUE, !.inRememberedSet = FALSE]
  ELSE \/ now = c[l]
       \/ QueueArray <= l /\ l <= QueueArray + QueueSize
       \/ InWeak(g, l) /\ now = Oop(ResidueObject)

AllKept(c, g, u) == \A l \in Location : Kept(c, g, l, u[l])

MarkLabels ==
  {"followWellKnownObjects", "followStack", "followExtraRoots",
   "rescueEphemerons", "collectUnknowns", "rescueEphemeron", "addRescued",
   "fixWeakContainers", "followRescuedEphemerons", "setNewPositions"}

(* The roots from here on have not been followed. *)
NextRoot ==
  IF pc = "followWellKnownObjects" THEN WellKnownRoots
  ELSE IF pc = "followStack" THEN Frame
  ELSE IF pc = "followExtraRoots" THEN ExtraRoots
  ELSE IF pc = "setNewPositions" THEN RescuedEphemerons + 1
  ELSE RescuedEphemerons

FirstUnknown == IF pc = "rescueEphemeron" THEN i ELSE IF pc = "addRescued" THEN i + 1 ELSE 1
FirstWeak == IF pc = "fixWeakContainers" THEN i ELSE 1

(* What is found behind the ephemerons, in the first collection: its queue  *)
(* has entries of its own only, which are marked.  S are slots that lead    *)
(* nowhere else.                                                            *)
LateObjects == {Nil, ResidueObject, QueueArray}
LateSlots == {Nil - 1, ResidueObject - 1} \cup (QueueArray - 1 .. QueueArray + QueueSize)
Leads(u, M, S) == \A l \in S : \A a : u[l] = Oop(a) => a \in M \cup LateObjects
LateLabels == {"fixWeakContainers", "followRescuedEphemerons", "setNewPositions"}

(* In a heap without ephemerons these slots lead to late objects in every   *)
(* collection, for the queue stays empty.  Weak slots are as before until   *)
(* weak containers are fixed; then those whose referents were not reached   *)
(* are tombstones.                                                          *)
NoEphemeronPlaced ==
  /\ \A k \in DOMAIN OldShapes : ~OldShapes[k].ephemeron
  /\ \A k \in DOMAIN YoungShapes : ~YoungShapes[k].ephemeron
NoEphemeron(g) == \A a \in DOMAIN g : ~g[a].ephemeron
Objs(g) == DOMAIN g \ {QueueArray}
LeadsNowhere(u) == \A l \in LateSlots : \A a : u[l] = Oop(a) => a \in LateObjects
LeadsToNil(u) == u[Association - 1] = Oop(Nil)
WeakAlike(g, c, u) == \A l \in Location : InWeak(g, l) => u[l] = c[l]
Buried(c, g, u, M) ==
  \A l \in Location : u[l] # c[l] /\ InWeak(g, l) => \E b \in Objs(g) : c[l] = Oop(b) /\ b \notin M

Entombed(label, c, g, u, M) ==
  /\ LeadsNowhere(u) /\ LeadsToNil(c)
  /\ label \notin LateLabels => WeakAlike(g, c, u)
  /\ label \in LateLabels => Buried(c, g, u, M)

Narrow(c, g, label, u, M, sc, st, es, ws) ==
  /\ Leads(u, M, LateSlots)
  /\ label \in LateLabels => es = << >> /\ Leads(u, M, Todo(g, sc, st, {}))
  /\ label \in LateLabels \ {"fixWeakContainers"} => ws = << >>
  /\ NoEphemeronPlaced => NoEphemeron(g) /\ Entombed(label, c, g, u, M)

(* T is what is still to be looked at. *)
Accounted(g, M, sc, st, es, us, ws, fu, fw, T) ==
  /\ Queues(g, M, es, us, ws, fu, fw)
  /\ Divided(g, M, sc, st, WaitSet(es, us, ws, fu, fw))
  /\ T = Todo(g, sc, st, WaitSet(es, us, ws, fu, fw))

MarkInv(g, u, L, M, T) ==
  /\ pc \in MarkLabels /\ i \in Nat \ {0}
  /\ Heap(u, g, oldNextFree, fromNextFree) /\ Heap(copy, g, oldNextFree, fromNextFree)
  /\ AllKept(copy, g, u)
  /\ Threads(memory, u, g, L)
  /\ Explored(u, g, L, M, NextRoot, T)
  /\ Accounted(g, M, scan, stack, ephemerons, unknowns, weakContainers, FirstUnknown, FirstWeak, T)
  /\ unknowns # << >> => pc \in {"collectUnknowns", "rescueEphemeron", "addRescued"}
  /\ pc = "addRescued" => i <= Len(unknowns)
  /\ pc = "rescueEphemeron" => i <= Len(unknowns) + 1
  /\ buffer = OldBase /\ reference = None /\ newToOld = << >> /\ auxNextFree = OldBase
  /\ rememberedSet = << >>
  /\ (collections <= 1 \/ NoEphemeronPlaced)
       => Narrow(copy, g, pc, u, M, scan, stack, ephemerons, weakContainers)

(* What the collector reads of an object while it marks.                    *)
LEMMA ObjectRead ==
  ASSUME NEW u, NEW g, NEW on, NEW fn, Heap(u, g, on, fn), NEW L, Threads(memory, u, g, L),
         NEW M, NEW R, NEW T, Explored(u, g, L, M, R, T), NEW a \in DOMAIN g
  PROVE  /\ ArenaIncludes(a) /\ (HasBeenSeenInSpace(a) <=> a \in M)
         /\ a \notin M => /\ BitsOf(a).hasWeaks = g[a].weak /\ Size(a) = g[a].size
                          /\ IsActiveEphemeron(a) <=> g[a].weak /\ g[a].ephemeron
         /\ UnthreadedSize(a) = g[a].size
         /\ g[a].extended => ExtensionOf(a).size = g[a].size
<1>1. Placement(g, on, fn) /\ a \in Known(g) /\ (a \in M <=> L[a] # << >>)
  BY DEF Heap, Known, Explored
<1>2. ArenaIncludes(a)
  BY <1>1, KnownObject
<1>3. /\ L[a] = << >> => memory[a - 2] = u[a - 2]
      /\ L[a] # << >> => Is("link", memory[a - 2])
      /\ g[a].extended => memory[a - 3] = u[a - 3]
  BY HeaderRead
<1>4. /\ Is("bits", u[a - 2]) /\ Value(u[a - 2]).unseenInSpace
      /\ Value(u[a - 2]).extended = g[a].extended /\ Value(u[a - 2]).hasWeaks = g[a].weak
      /\ IF g[a].extended
         THEN u[a - 3] = Extension([size |-> g[a].size, isEphemeron |-> g[a].ephemeron])
         ELSE Value(u[a - 2]).size = g[a].size
  BY HeaderWord
<1>5. g[a].extended => ExtensionOf(a) = [size |-> g[a].size, isEphemeron |-> g[a].ephemeron]
  BY <1>3, <1>4, Tags DEF ExtensionOf
<1>6. BitsAfter[a - 2] = Value(u[a - 2])
  BY BitsAfterList
<1>7. UnthreadedSize(a) = g[a].size
  BY <1>4, <1>5, <1>6 DEF UnthreadedSize, SizeIn
<1>8. HasBeenSeenInSpace(a) <=> a \in M
  <2>1. CASE a \in M
    BY <2>1, <1>1, <1>3, OneTag DEF HasBeenSeenInSpace, HasBeenSeenInLibrary, HeaderOf
  <2>2. CASE a \notin M
    BY <2>2, <1>1, <1>3, <1>4 DEF HasBeenSeenInSpace, HasBeenSeenInLibrary, HeaderOf, BitsOf
  <2>3. QED BY <2>1, <2>2
<1>9. ASSUME a \notin M
      PROVE  /\ BitsOf(a).hasWeaks = g[a].weak /\ Size(a) = g[a].size
             /\ IsActiveEphemeron(a) <=> g[a].weak /\ g[a].ephemeron
  <2>1. BitsOf(a) = Value(u[a - 2])
    BY <1>1, <1>3, <1>9 DEF BitsOf, HeaderOf
  <2>2. Size(a) = g[a].size
    BY <2>1, <1>4, <1>5 DEF Size, SizeIn
  <2>3. g[a].ephemeron => g[a].extended
    BY <1>1 DEF Placement
  <2>4. g[a] \in Shape
    BY <1>1 DEF Placement
  <2>5. IsActiveEphemeron(a) <=> g[a].weak /\ g[a].ephemeron
    <3>1. CASE g[a].extended
      BY <3>1, <2>1, <1>4, <1>5 DEF IsActiveEphemeron
    <3>2. CASE ~g[a].extended
      BY <3>2, <2>1, <2>3, <1>4 DEF IsActiveEphemeron
    <3>3. QED BY <3>1, <3>2
  <2>6. QED BY <2>1, <2>2, <2>5, <1>4
<1>10. QED BY <1>2, <1>5, <1>7, <1>8, <1>9

LEMMA LibraryObjectRead ==
  ASSUME NEW u, NEW g, NEW on, NEW fn, Heap(u, g, on, fn), NEW L, Threads(memory, u, g, L),
         NEW M, NEW R, NEW T, Explored(u, g, L, M, R, T), NEW a \in LibraryObjects
  PROVE  /\ ~ArenaIncludes(a) /\ (HasBeenSeenInLibrary(a) <=> a \in M)
         /\ BitsOf(a) = Value(u[a - 2]) /\ BitsOf(a) \in HeaderBits /\ a \notin DOMAIN g
         /\ ~BitsOf(a).hasWeaks /\ Size(a) = SizeAt(g, a) /\ ~IsActiveEphemeron(a)
<1>1. Placement(g, on, fn) /\ a \in Known(g) /\ (a \in M <=> Value(u[a - 2]).unseenInSpace)
  BY DEF Heap, Known, Explored
<1>2. /\ memory[a - 2] = u[a - 2] /\ Is("bits", u[a - 2]) /\ a \notin DOMAIN g
      /\ Value(u[a - 2]) \in HeaderBits
      /\ ~Value(u[a - 2]).extended /\ ~Value(u[a - 2]).hasWeaks
      /\ Value(u[a - 2]).size = SizeAt(g, a)
  BY LibraryRead
<1>3. ~ArenaIncludes(a)
  BY <1>1, <1>2, KnownObject
<1>4. BitsOf(a) = Value(u[a - 2])
  BY <1>2 DEF BitsOf, HeaderOf
<1>5. QED
  BY <1>1, <1>2, <1>3, <1>4
     DEF HasBeenSeenInLibrary, HeaderOf, Size, SizeIn, IsActiveEphemeron


(* The slot a scan looks at holds a small integer or refers to an object:   *)
(* no list goes through it.                                                 *)
LEMMA LookedAt ==
  ASSUME NEW g, NEW u, NEW L, NEW M, NEW T, MarkInv(g, u, L, M, T), scan.index < scan.limit
  PROVE  /\ Looked \in T /\ memory[Looked] = u[Looked]
         /\ Looked \in Location /\ ~OnList(L, Looked)
         /\ \/ Is("smi", memory[Looked]) /\ ~Is("oop", memory[Looked])
            \/ Is("oop", memory[Looked]) /\ Found \in Known(g) /\ u[Looked] = Oop(Found)
<1>1. Looked \in T
  BY Advancing DEF MarkInv, Accounted, Looked
<1>2. PICK l : l = Looked
  OBVIOUS
<1>3. /\ memory[l] = u[l] /\ l \in Location /\ l \in Nat /\ ~OnList(L, l) /\ IsCell(g, l)
  BY <1>1, <1>2, Untouched DEF MarkInv
<1>4. CellsHold(u, g)
  BY DEF Heap, MarkInv
<1>5. CASE l = QueueArray
  <2>1. PICK n \in 2 .. QueueSize + 2 : u[QueueArray] = Smi(n)
    BY <1>4 DEF CellsHold
  <2>2. Is("smi", memory[l]) /\ ~Is("oop", memory[l])
    BY <1>3, <1>5, <2>1, Tags
  <2>3. QED BY <1>1, <1>2, <1>3, <2>2
<1>6. CASE l # QueueArray
  <2>1. PICK a \in Known(g) : u[l] = Oop(a)
    BY <1>3, <1>4, <1>6 DEF CellsHold
  <2>2. Is("oop", memory[l]) /\ Value(memory[l]) = a
    BY <1>3, <2>1, Tags
  <2>3. Found = a
    BY <1>2, <2>2 DEF Found
  <2>4. QED BY <1>1, <1>2, <1>3, <2>1, <2>2, <2>3
<1>7. QED BY <1>5, <1>6

(* The scan after it looked at its slot. *)
LEMMA ScanAdvanced ==
  ASSUME NEW g, NEW M, NEW st, NEW es, NEW us, NEW ws, NEW fu, NEW fw, NEW T,
         Accounted(g, M, scan, st, es, us, ws, fu, fw, T), scan.index < scan.limit
  PROVE  Accounted(g, M, Advanced, st, es, us, ws, fu, fw, T \ {Looked})
BY Advancing DEF Accounted, Looked, Advanced

(* What is left of a first collection stays narrow: when words change to    *)
(* what is marked, when a slot was looked at, when a scan is resumed, and   *)
(* when the slots of what was found are added.                              *)
LEMMA LateSlotsIn ==
  \A l \in LateSlots : l \in Location
<1>1. /\ QueueArray = OldBase + 2 /\ QueueSize \in Nat /\ OldBase \in Nat /\ FromBase \in Nat
      /\ OldBase + QueueSize + 3 <= FromBase /\ FromBase <= FromEnd /\ FromEnd \in Nat
      /\ Location = 0 .. FromEnd + 2 /\ Nil = 2 /\ ResidueObject = 4
  BY SpaceSizes, Numbers
<1>2. QED BY <1>1 DEF LateSlots

(* Words that lead to nothing new, but to what is marked or late.           *)
LeadsOn(u, u2, M) ==
  \A l \in Location : \A x : u2[l] = Oop(x) => u[l] = Oop(x) \/ x \in M \cup LateObjects
LeadsNoFurther(u, u2) ==
  \A l \in Location : \A x : u2[l] = Oop(x) => u[l] = Oop(x) \/ x \in LateObjects

LEMMA EntombedWords ==
  ASSUME NEW c, NEW g, NEW label, NEW u, NEW M, Entombed(label, c, g, u, M),
         NEW u2, LeadsNoFurther(u, u2), WeakAlike(g, u, u2)
  PROVE  Entombed(label, c, g, u2, M)
<1>1. LeadsNowhere(u2)
  BY LateSlotsIn DEF Entombed, LeadsNowhere, LeadsNoFurther
<1>2. WeakAlike(g, c, u) => WeakAlike(g, c, u2)
  BY DEF WeakAlike
<1>3. Buried(c, g, u, M) => Buried(c, g, u2, M)
  BY DEF WeakAlike, Buried
<1>4. QED BY <1>1, <1>2, <1>3 DEF Entombed

LEMMA NarrowWords ==
  ASSUME NEW c, NEW g, NEW label, NEW u, NEW M, NEW sc, NEW st, NEW es, NEW ws,
         Narrow(c, g, label, u, M, sc, st, es, ws),
         NEW u2, LeadsOn(u, u2, M), NoEphemeronPlaced => LeadsNoFurther(u, u2) /\ WeakAlike(g, u, u2)
  PROVE  Narrow(c, g, label, u2, M, sc, st, es, ws)
<1>1. \A l \in LateSlots : l \in Location
  BY LateSlotsIn
<1>2. \A l \in Todo(g, sc, st, {}) : l \in Location
  BY DEF Todo
<1>3. ASSUME NEW S, \A l \in S : l \in Location, Leads(u, M, S) PROVE Leads(u2, M, S)
  BY <1>3 DEF Leads, LeadsOn
<1>4. NoEphemeronPlaced => NoEphemeron(g) /\ Entombed(label, c, g, u2, M)
  BY EntombedWords DEF Narrow
<1>5. QED BY <1>1, <1>2, <1>3, <1>4 DEF Narrow

LEMMA NarrowEarly ==
  ASSUME NEW c, NEW g, NEW label, label \notin LateLabels, NEW u, NEW M, NEW sc, NEW st, NEW es, NEW ws,
         Narrow(c, g, label, u, M, sc, st, es, ws),
         NEW label2, label2 \notin LateLabels, NEW sc2, NEW st2, NEW es2, NEW ws2
  PROVE  Narrow(c, g, label2, u, M, sc2, st2, es2, ws2)
BY DEF Narrow, Entombed

LEMMA NarrowAdvanced ==
  ASSUME NEW c, NEW g, NEW label, NEW u, NEW M, NEW sc, NEW st, NEW es, NEW ws,
         Narrow(c, g, label, u, M, sc, st, es, ws),
         NEW W, Divided(g, M, sc, st, W), sc.index < sc.limit,
         NEW sc2, sc2 = [sc EXCEPT !.index = @ + 1]
  PROVE  Narrow(c, g, label, u, M, sc2, st, es, ws)
<1>1. Divided(g, M, sc, st, {})
  BY DEF Divided, InWaiting
<1>2. Todo(g, sc2, st, {}) = Todo(g, sc, st, {}) \ {sc.scanned + sc.index}
  BY <1>1, Advancing
<1>3. QED BY <1>2 DEF Narrow, Leads

LEMMA NarrowResumed ==
  ASSUME NEW c, NEW g, NEW label, NEW u, NEW M, NEW sc, NEW st, NEW es, NEW ws,
         Narrow(c, g, label, u, M, sc, st, es, ws),
         NEW W, Divided(g, M, sc, st, W), ~(sc.index < sc.limit), st # << >>,
         NEW sc2, sc2 = Last(st), NEW st2, st2 = Front(st)
  PROVE  Narrow(c, g, label, u, M, sc2, st2, es, ws)
<1>1. Divided(g, M, sc, st, {})
  BY DEF Divided, InWaiting
<1>2. Todo(g, sc2, st2, {}) = Todo(g, sc, st, {})
  BY <1>1, Resuming
<1>3. QED BY <1>2 DEF Narrow

(* What a step of a scan has to show.                                       *)
LEMMA ScanStep ==
  ASSUME NEW g, NEW u, NEW L, NEW M, NEW T, MarkInv(g, u, L, M, T), FollowStep,
         NEW u2, NEW L2, NEW M2, NEW T2,
         Heap(u2, g, oldNextFree, fromNextFree), AllKept(copy, g, u2),
         Threads(memory', u2, g, L2), Explored(u2, g, L2, M2, NextRoot, T2),
         Accounted(g, M2, scan', stack', ephemerons', unknowns, weakContainers',
                   FirstUnknown, FirstWeak, T2),
         (collections <= 1 \/ NoEphemeronPlaced)
           => Narrow(copy, g, pc, u2, M2, scan', stack', ephemerons', weakContainers')
  PROVE  MarkInv(g, u2, L2, M2, T2)'
<1>1. /\ NextRoot' = NextRoot /\ FirstUnknown' = FirstUnknown /\ FirstWeak' = FirstWeak
      /\ unknowns' = unknowns
  BY DEF FollowStep, NextRoot, FirstUnknown, FirstWeak
<1>2. QED
  BY <1>1 DEF MarkInv, FollowStep, spaceVars, walkVars, historyVars

LEMMA NarrowAfterSlot ==
  ASSUME NEW g, NEW u, NEW L, NEW M, NEW T, MarkInv(g, u, L, M, T), scan.index < scan.limit,
         scan' = Advanced, UNCHANGED <<stack, ephemerons, weakContainers>>
  PROVE  (collections <= 1 \/ NoEphemeronPlaced)
           => Narrow(copy, g, pc, u, M, scan', stack', ephemerons', weakContainers')
<1>1. PICK W : W = WaitSet(ephemerons, unknowns, weakContainers, FirstUnknown, FirstWeak)
  OBVIOUS
<1>2. Divided(g, M, scan, stack, W)
  BY <1>1 DEF MarkInv, Accounted
<1>3. (collections <= 1 \/ NoEphemeronPlaced)
        => Narrow(copy, g, pc, u, M, scan, stack, ephemerons, weakContainers)
  BY DEF MarkInv
<1>4. scan' = [scan EXCEPT !.index = @ + 1]
  BY DEF Advanced
<1>5. QED BY <1>2, <1>3, <1>4, NarrowAdvanced

(* A slot of which nothing more is wanted. *)
LEMMA SlotIgnored ==
  ASSUME NEW g, NEW u, NEW L, NEW M, NEW T, MarkInv(g, u, L, M, T), FollowStep,
         scan.index < scan.limit, scan' = Advanced,
         UNCHANGED <<memory, stack, ephemerons, weakContainers>>,
         NEW l, l = Looked, \A a \in Known(g) : u[l] = Oop(a) => a \in M /\ a \notin DOMAIN g
  PROVE  MarkInv(g, u, L, M, T \ {l})'
<1>1. Accounted(g, M, scan', stack', ephemerons', unknowns, weakContainers',
                FirstUnknown, FirstWeak, T \ {l})
  BY ScanAdvanced DEF MarkInv
<1>2. l \in T
  BY LookedAt
<1>3. Explored(u, g, L, M, NextRoot, T \ {l})
  <2>1. Explored(u, g, L, M, NextRoot, T)
    BY DEF MarkInv
  <2>2. QED BY <1>2, <2>1, ExploreIgnore
<1>4. /\ Heap(u, g, oldNextFree, fromNextFree) /\ AllKept(copy, g, u)
      /\ Threads(memory', u, g, L)
  BY DEF MarkInv
<1>5. (collections <= 1 \/ NoEphemeronPlaced)
        => Narrow(copy, g, pc, u, M, scan', stack', ephemerons', weakContainers')
  BY NarrowAfterSlot
<1>6. QED BY <1>1, <1>3, <1>4, <1>5, ScanStep

LEMMA MarkIgnoreSmallInteger ==
  ASSUME NEW g, NEW u, NEW L, NEW M, NEW T, MarkInv(g, u, L, M, T), IgnoreSmallInteger
  PROVE  \E T2 : MarkInv(g, u, L, M, T2)'
<1>1. memory[Looked] = u[Looked] /\ ~Is("oop", memory[Looked])
  BY LookedAt, OneTag DEF IgnoreSmallInteger
<1>2. PICK l : l = Looked
  OBVIOUS
<1>3. \A a \in Known(g) : u[l] = Oop(a) => a \in M /\ a \notin DOMAIN g
  BY <1>1, <1>2, Tags
<1>4. MarkInv(g, u, L, M, T \ {l})'
  BY <1>2, <1>3, SlotIgnored DEF IgnoreSmallInteger
<1>5. QED BY <1>4

LEMMA MarkIgnoreSeenInLibrary ==
  ASSUME NEW g, NEW u, NEW L, NEW M, NEW T, MarkInv(g, u, L, M, T), IgnoreSeenInLibrary
  PROVE  \E T2 : MarkInv(g, u, L, M, T2)'
<1>1. Found \in Known(g) /\ u[Looked] = Oop(Found)
  BY LookedAt DEF IgnoreSeenInLibrary, LooksAtReference
<1>2. Found \notin DOMAIN g
  BY <1>1, KnownObject DEF MarkInv, Heap, IgnoreSeenInLibrary
<1>3. Found \in M
  BY <1>1, <1>2, LibraryObjectRead DEF MarkInv, IgnoreSeenInLibrary, Known
<1>4. PICK l : l = Looked
  OBVIOUS
<1>5. \A a \in Known(g) : u[l] = Oop(a) => a \in M /\ a \notin DOMAIN g
  BY <1>1, <1>2, <1>3, <1>4, OopsDiffer
<1>6. MarkInv(g, u, L, M, T \ {l})'
  BY <1>4, <1>5, SlotIgnored DEF IgnoreSeenInLibrary, LooksAtReference
<1>7. QED BY <1>6

LEMMA MarkThreadSeen ==
  ASSUME NEW g, NEW u, NEW L, NEW M, NEW T, MarkInv(g, u, L, M, T), ThreadSeen
  PROVE  \E L2, T2 : MarkInv(g, u, L2, M, T2)'
<1>1. PICK a, l, L2, T2 :
        a = Found /\ l = Looked /\ L2 = [L EXCEPT ![a] = Append(L[a], l)] /\ T2 = T \ {l}
  OBVIOUS
<1>2. a \in Known(g) /\ u[l] = Oop(a) /\ l \in T /\ l \in Location /\ ~OnList(L, l)
  BY <1>1, LookedAt DEF ThreadSeen, LooksAtReference
<1>3. a \in DOMAIN g
  BY <1>1, <1>2, KnownObject DEF MarkInv, Heap, ThreadSeen
<1>4. a \in M
  BY <1>1, <1>3, ObjectRead DEF MarkInv, ThreadSeen
<1>5. Explored(u, g, L, M, NextRoot, T) /\ Lists(u, g, L)
  BY DEF MarkInv, Threads
<1>6. Explored(u, g, L2, M, NextRoot, T2)
  BY <1>1, <1>2, <1>3, <1>4, <1>5, ExploreThread
<1>7. Threads(memory', u, g, L2)
  <2>1. memory' = [memory EXCEPT ![l] = memory[a - 2], ![a - 2] = Link(l)]
    BY <1>1 DEF ThreadSeen, Threaded, HeaderOf
  <2>2. QED BY <1>1, <1>2, <1>3, <2>1, ThreadOne DEF MarkInv
<1>8. Accounted(g, M, scan', stack', ephemerons', unknowns, weakContainers',
                FirstUnknown, FirstWeak, T2)
  BY <1>1, ScanAdvanced DEF MarkInv, ThreadSeen, LooksAtReference
<1>9. Heap(u, g, oldNextFree, fromNextFree) /\ AllKept(copy, g, u) /\ FollowStep
  BY DEF MarkInv, ThreadSeen
<1>10. (collections <= 1 \/ NoEphemeronPlaced)
         => Narrow(copy, g, pc, u, M, scan', stack', ephemerons', weakContainers')
  BY NarrowAfterSlot DEF ThreadSeen, LooksAtReference
<1>11. MarkInv(g, u, L2, M, T2)'
  BY <1>6, <1>7, <1>8, <1>9, <1>10, ScanStep
<1>12. QED BY <1>11

LEMMA MarkResumeScan ==
  ASSUME NEW g, NEW u, NEW L, NEW M, NEW T, MarkInv(g, u, L, M, T), ResumeScan
  PROVE  MarkInv(g, u, L, M, T)'
<1>1. PICK W : W = WaitSet(ephemerons, unknowns, weakContainers, FirstUnknown, FirstWeak)
  OBVIOUS
<1>2. /\ Queues(g, M, ephemerons, unknowns, weakContainers, FirstUnknown, FirstWeak)
      /\ Divided(g, M, scan, stack, W) /\ T = Todo(g, scan, stack, W)
  BY <1>1 DEF MarkInv, Accounted
<1>3. ~(scan.index < scan.limit)
  BY <1>2, ScanFields DEF ResumeScan, Divided
<1>4. Divided(g, M, scan', stack', W) /\ Todo(g, scan', stack', W) = T
  BY <1>2, <1>3, Resuming DEF ResumeScan
<1>5. Accounted(g, M, scan', stack', ephemerons', unknowns, weakContainers',
                FirstUnknown, FirstWeak, T)
  BY <1>1, <1>2, <1>4 DEF Accounted, ResumeScan
<1>6. /\ Heap(u, g, oldNextFree, fromNextFree) /\ AllKept(copy, g, u) /\ FollowStep
      /\ Threads(memory', u, g, L) /\ Explored(u, g, L, M, NextRoot, T)
  BY DEF MarkInv, ResumeScan
<1>7. (collections <= 1 \/ NoEphemeronPlaced)
        => Narrow(copy, g, pc, u, M, scan', stack', ephemerons', weakContainers')
  <2>1. /\ scan' = Last(stack) /\ stack' = Front(stack) /\ stack # << >>
        /\ UNCHANGED <<ephemerons, weakContainers>>
    BY DEF ResumeScan
  <2>2. (collections <= 1 \/ NoEphemeronPlaced)
          => Narrow(copy, g, pc, u, M, scan, stack, ephemerons, weakContainers)
    BY DEF MarkInv
  <2>3. QED BY <1>2, <1>3, <2>1, <2>2, NarrowResumed
<1>8. QED BY <1>5, <1>6, <1>7, ScanStep


(* Descend: the slots of an object found for the first time are divided     *)
(* between its scan and, when it is weak, the lists it is remembered in.    *)
ScannedSize(g, a) == IF IsWeak(g, a) THEN 1 ELSE 1 + SizeAt(g, a)
WeakRemembered(g, a, es, ws, es2, ws2) ==
  /\ es2 = IF IsWeak(g, a) /\ g[a].ephemeron THEN Append(es, a) ELSE es
  /\ ws2 = IF IsWeak(g, a) /\ ~g[a].ephemeron THEN Append(ws, a) ELSE ws

LEMMA Descending ==
  ASSUME NEW g, NEW on, NEW fn, Placement(g, on, fn), NEW M, NEW sc, NEW st,
         NEW es, NEW us, NEW ws, NEW fu, NEW fw, NEW T,
         Accounted(g, M, sc, st, es, us, ws, fu, fw, T),
         NEW a \in Known(g), a \notin M, Disjoint(SlotsAt(g, a), T),
         NEW st2, Suspended(st2, st, sc),
         NEW es2, NEW ws2, WeakRemembered(g, a, es, ws, es2, ws2),
         NEW sc2, sc2 = Scan(a, ScannedSize(g, a), 0)
  PROVE  Accounted(g, M \cup {a}, sc2, st2, es2, us, ws2, fu, fw, SlotsAdded(T, g, a))
<1>1. PICK W : W = WaitSet(es, us, ws, fu, fw)
  OBVIOUS
<1>2. PICK W2 : W2 = WaitSet(es2, us, ws2, fu, fw)
  OBVIOUS
<1>3. Queues(g, M, es, us, ws, fu, fw) /\ Divided(g, M, sc, st, W) /\ T = Todo(g, sc, st, W)
  BY <1>1 DEF Accounted
<1>4. a \in Location
  BY KnownObject
<1>5. CASE IsWeak(g, a)
  <2>1. a \in DOMAIN g /\ sc2 = Scan(a, 1, 0)
    BY <1>5 DEF IsWeak, ScannedSize
  <2>2. W2 = W \cup {a} /\ Queues(g, M \cup {a}, es2, us, ws2, fu, fw)
    <3>1. CASE g[a].ephemeron
      <4>1. es2 = Append(es, a) /\ ws2 = ws
        BY <1>5, <3>1 DEF WeakRemembered
      <4>2. QED BY <1>1, <1>2, <1>3, <1>4, <2>1, <3>1, <4>1, QueueEphemeron
    <3>2. CASE ~g[a].ephemeron
      <4>1. es2 = es /\ ws2 = Append(ws, a)
        BY <1>5, <3>2 DEF WeakRemembered
      <4>2. QED BY <1>1, <1>2, <1>3, <1>4, <2>1, <3>2, <4>1, QueueWeak
    <3>3. QED BY <3>1, <3>2
  <2>3. /\ Divided(g, M \cup {a}, sc2, st2, W \cup {a})
        /\ Todo(g, sc2, st2, W \cup {a}) = SlotsAdded(T, g, a)
    BY <1>3, <1>5, <2>1, DescendingToWeak
  <2>4. QED BY <1>2, <2>2, <2>3 DEF Accounted
<1>6. CASE ~IsWeak(g, a)
  <2>1. es2 = es /\ ws2 = ws /\ sc2 = Scan(a, 1 + SizeAt(g, a), 0) /\ W2 = W
    BY <1>1, <1>2, <1>6 DEF WeakRemembered, ScannedSize
  <2>2. Queues(g, M \cup {a}, es2, us, ws2, fu, fw)
    BY <1>3, <2>1, QueueNothing
  <2>3. /\ Divided(g, M \cup {a}, sc2, st2, W)
        /\ Todo(g, sc2, st2, W) = SlotsAdded(T, g, a)
    BY <1>3, <2>1, DescendingToPlain
  <2>4. QED BY <1>2, <2>1, <2>2, <2>3 DEF Accounted
<1>7. QED BY <1>5, <1>6

(* What Descend reads of an object. *)
Told(g, a) ==
  /\ BitsOf(a).hasWeaks <=> a \in DOMAIN g /\ g[a].weak
  /\ Size(a) = SizeAt(g, a)
  /\ a \in DOMAIN g /\ g[a].weak => (IsActiveEphemeron(a) <=> g[a].ephemeron)
  /\ ~BitsOf(a).hasWeaks => ~IsActiveEphemeron(a)

LEMMA DescendTold ==
  ASSUME NEW g, NEW a, Told(g, a), Descend(a)
  PROVE  /\ stack' = IF Advanced.index < scan.limit THEN Append(stack, Advanced) ELSE stack
         /\ scan' = Scan(a, ScannedSize(g, a), 0)
         /\ WeakRemembered(g, a, ephemerons, weakContainers, ephemerons', weakContainers')
<1>1. /\ BitsOf(a).hasWeaks <=> IsWeak(g, a)
      /\ Size(a) = SizeAt(g, a)
      /\ IsWeak(g, a) => (IsActiveEphemeron(a) <=> g[a].ephemeron)
      /\ ~IsWeak(g, a) => ~IsActiveEphemeron(a)
  BY DEF Told, IsWeak
<1>2. /\ stack' = IF Advanced.index < scan.limit THEN Append(stack, Advanced) ELSE stack
      /\ scan' = Scan(a, StrongPointersSize(a), 0) /\ RememberIfWeak(a)
  BY DEF Descend
<1>3. StrongPointersSize(a) = ScannedSize(g, a)
  BY <1>1 DEF StrongPointersSize, ScannedSize
<1>4. QED BY <1>1, <1>2, <1>3 DEF RememberIfWeak, WeakRemembered

(* A slot refers to an object found for the first time. *)
LEMMA DescendDivides ==
  ASSUME NEW g, NEW u, NEW L, NEW M, NEW T, MarkInv(g, u, L, M, T), scan.index < scan.limit,
         NEW a \in Known(g), a \notin M, Descend(a), Told(g, a)
  PROVE  Accounted(g, M \cup {a}, scan', stack', ephemerons', unknowns, weakContainers',
                   FirstUnknown, FirstWeak, SlotsAdded(T \ {Looked}, g, a))
<1>1. PICK sc, l : sc = Advanced /\ l = Looked
  OBVIOUS
<1>2. Accounted(g, M, sc, stack, ephemerons, unknowns, weakContainers, FirstUnknown, FirstWeak,
                T \ {l})
  BY <1>1, ScanAdvanced DEF MarkInv
<1>3. Disjoint(SlotsAt(g, a), T \ {l})
  <2>1. Explored(u, g, L, M, NextRoot, T) /\ Placement(g, oldNextFree, fromNextFree)
    BY DEF MarkInv, Heap
  <2>2. \A x \in T : Reached(g, M, NextRoot, x)
    BY <2>1 DEF Explored
  <2>3. M \subseteq Known(g) /\ NextRoot \in WellKnownRoots .. RescuedEphemerons + 1
    BY <2>1 DEF Explored
  <2>4. \A x \in SlotsAt(g, a) : ~Reached(g, M, NextRoot, x)
    BY <2>1, <2>3, Unreached
  <2>5. QED BY <2>2, <2>4 DEF Disjoint
<1>4. sc.limit = scan.limit
  BY <1>1, ScanFields DEF Advanced, MarkInv, Accounted, Divided
<1>5. Suspended(stack', stack, sc) /\ scan' = Scan(a, ScannedSize(g, a), 0)
      /\ WeakRemembered(g, a, ephemerons, weakContainers, ephemerons', weakContainers')
  BY <1>1, <1>4, DescendTold DEF Suspended
<1>6. Placement(g, oldNextFree, fromNextFree)
  BY DEF MarkInv, Heap
<1>7. Accounted(g, M \cup {a}, scan', stack', ephemerons', unknowns, weakContainers',
                FirstUnknown, FirstWeak, SlotsAdded(T \ {l}, g, a))
  BY <1>2, <1>3, <1>5, <1>6, Descending
<1>8. QED BY <1>1, <1>7

(* Behind the ephemerons only plain objects are found, and their slots lead *)
(* to no others.                                                            *)
LEMMA LateObjectPlain ==
  ASSUME NEW g, NEW on, NEW fn, Placement(g, on, fn), NEW a \in LateObjects
  PROVE  ~IsWeak(g, a) /\ \A l \in SlotsAt(g, a) : l \in LateSlots
<1>1. /\ QueueArray \in DOMAIN g /\ g[QueueArray] = QueueShape /\ QueueArray \in Int
      /\ \A b \in DOMAIN g : b \in Known(g)
  BY DEF Placement, Known
<1>2. QueueSize \in Nat /\ QueueArray \in Int /\ Nil = 2 /\ ResidueObject = 4 /\ Association = 6
  BY <1>1, Numbers
<1>3. QueueShape.size = QueueSize + 1 /\ ~QueueShape.weak
  BY DEF QueueShape
<1>4. CASE a = QueueArray
  <2>1. SizeAt(g, a) = QueueSize + 1 /\ ~IsWeak(g, a)
    BY <1>1, <1>3, <1>4 DEF SizeAt, IsWeak
  <2>2. QED BY <1>2, <1>4, <2>1 DEF SlotsAt, LateSlots
<1>5. CASE a = Nil \/ a = ResidueObject
  <2>1. a \notin DOMAIN g
    <3>1. a \in Known(g)
      BY <1>5, Numbers DEF Known
    <3>2. QED BY <1>2, <1>5, <3>1, KnownObject, Numbers
  <2>2. SizeAt(g, a) = 0 /\ ~IsWeak(g, a)
    BY <1>2, <1>5, <2>1 DEF SizeAt, IsWeak
  <2>3. QED BY <1>2, <1>5, <2>2 DEF SlotsAt, LateSlots
<1>6. QED BY <1>4, <1>5 DEF LateObjects

LEMMA NarrowDescends ==
  ASSUME NEW c, NEW g, NEW on, NEW fn, Placement(g, on, fn),
         NEW label, NEW u, NEW M, NEW sc, NEW st, NEW es, NEW ws,
         Narrow(c, g, label, u, M, sc, st, es, ws),
         NEW W, Divided(g, M, sc, st, W),
         NEW a \in Known(g), a \notin M, Disjoint(SlotsAt(g, a), Todo(g, sc, st, W)),
         label \in LateLabels => a \in LateObjects,
         NEW st2, Suspended(st2, st, sc),
         NEW es2, NEW ws2, WeakRemembered(g, a, es, ws, es2, ws2),
         NEW sc2, sc2 = Scan(a, ScannedSize(g, a), 0)
  PROVE  Narrow(c, g, label, u, M \cup {a}, sc2, st2, es2, ws2)
<1>1. \A S : Leads(u, M, S) => Leads(u, M \cup {a}, S)
  BY DEF Leads
<1>0. NoEphemeronPlaced => NoEphemeron(g) /\ Entombed(label, c, g, u, M \cup {a})
  <2>1. label \in LateLabels => a \notin Objs(g)
    <3>1. \A b \in DOMAIN g : b # Nil /\ b # ResidueObject
      <4>1. \A b \in DOMAIN g : b \in Nat /\ OldBase + 2 <= b
        BY Extents
      <4>2. QED BY <4>1, Numbers, Bounds
    <3>2. QED BY <3>1 DEF LateObjects, Objs
  <2>2. label \in LateLabels /\ Buried(c, g, u, M) => Buried(c, g, u, M \cup {a})
    BY <2>1 DEF Buried
  <2>3. QED BY <2>2 DEF Narrow, Entombed
<1>2. CASE label \notin LateLabels
  BY <1>0, <1>1, <1>2 DEF Narrow
<1>3. CASE label \in LateLabels
  <2>1. ~IsWeak(g, a) /\ \A l \in SlotsAt(g, a) : l \in LateSlots
    BY <1>3, LateObjectPlain
  <2>2. es2 = es /\ ws2 = ws /\ sc2 = Scan(a, 1 + SizeAt(g, a), 0)
    BY <2>1 DEF WeakRemembered, ScannedSize
  <2>3. Divided(g, M, sc, st, {})
    BY DEF Divided, InWaiting
  <2>4. Disjoint(SlotsAt(g, a), Todo(g, sc, st, {}))
    <3>1. \A l \in Todo(g, sc, st, {}) : l \in Todo(g, sc, st, W)
      BY DEF Todo, InWaiting
    <3>2. QED BY <3>1 DEF Disjoint
  <2>5. Todo(g, sc2, st2, {}) = SlotsAdded(Todo(g, sc, st, {}), g, a)
    <3>1. PICK W2 : W2 = {}
      OBVIOUS
    <3>2. Divided(g, M, sc, st, W2) /\ Disjoint(SlotsAt(g, a), Todo(g, sc, st, W2))
      BY <2>3, <2>4, <3>1
    <3>3. sc2 = Scan(a, 1 + SizeAt(g, a), 0)
      BY <2>2
    <3>4. /\ Divided(g, M \cup {a}, sc2, st2, W2)
          /\ Todo(g, sc2, st2, W2) = SlotsAdded(Todo(g, sc, st, W2), g, a)
      BY <3>2, <3>3, DescendingToPlain
    <3>5. QED BY <3>1, <3>4
  <2>6. Leads(u, M, LateSlots) /\ Leads(u, M, Todo(g, sc, st, {})) /\ es = << >>
    BY <1>3 DEF Narrow
  <2>7. Leads(u, M, SlotsAdded(Todo(g, sc, st, {}), g, a))
    BY <2>1, <2>6 DEF Leads, SlotsAdded
  <2>8. Leads(u, M \cup {a}, LateSlots) /\ Leads(u, M \cup {a}, Todo(g, sc2, st2, {}))
    BY <1>1, <2>5, <2>6, <2>7
  <2>9. QED BY <1>0, <2>2, <2>6, <2>8 DEF Narrow
<1>4. QED BY <1>2, <1>3

LEMMA NarrowAfterDescend ==
  ASSUME NEW g, NEW u, NEW L, NEW M, NEW T, MarkInv(g, u, L, M, T), scan.index < scan.limit,
         NEW a \in Known(g), a \notin M, u[Looked] = Oop(a), Descend(a), Told(g, a)
  PROVE  (collections <= 1 \/ NoEphemeronPlaced)
           => Narrow(copy, g, pc, u, M \cup {a}, scan', stack', ephemerons', weakContainers')
<1>1. SUFFICES ASSUME collections <= 1 \/ NoEphemeronPlaced
               PROVE  Narrow(copy, g, pc, u, M \cup {a}, scan', stack', ephemerons', weakContainers')
  OBVIOUS
<1>2. PICK sc, W : /\ sc = Advanced
                   /\ W = WaitSet(ephemerons, unknowns, weakContainers, FirstUnknown, FirstWeak)
  OBVIOUS
<1>3. /\ Divided(g, M, scan, stack, W) /\ Narrow(copy, g, pc, u, M, scan, stack, ephemerons, weakContainers)
      /\ Placement(g, oldNextFree, fromNextFree) /\ T = Todo(g, scan, stack, W)
      /\ Explored(u, g, L, M, NextRoot, T)
  BY <1>1, <1>2 DEF MarkInv, Accounted, Heap
<1>4. sc = [scan EXCEPT !.index = @ + 1]
  BY <1>2 DEF Advanced
<1>5. Narrow(copy, g, pc, u, M, sc, stack, ephemerons, weakContainers)
  BY <1>3, <1>4, NarrowAdvanced
<1>6. /\ Divided(g, M, sc, stack, W)
      /\ Todo(g, sc, stack, W) = T \ {Looked}
  BY <1>3, <1>4, Advancing DEF Looked
<1>7. Disjoint(SlotsAt(g, a), Todo(g, sc, stack, W))
  <2>1. \A x \in T : Reached(g, M, NextRoot, x)
    BY <1>3 DEF Explored
  <2>2. M \subseteq Known(g) /\ NextRoot \in WellKnownRoots .. RescuedEphemerons + 1
    BY <1>3 DEF Explored
  <2>3. \A x \in SlotsAt(g, a) : ~Reached(g, M, NextRoot, x)
    BY <1>3, <2>2, Unreached
  <2>4. QED BY <1>6, <2>1, <2>3 DEF Disjoint
<1>8. pc \in LateLabels => a \in LateObjects
  <2>1. ASSUME pc \in LateLabels PROVE a \in LateObjects
    <3>1. Divided(g, M, scan, stack, {})
      BY <1>3 DEF Divided, InWaiting
    <3>2. Looked \in Todo(g, scan, stack, {})
      BY <3>1, Advancing DEF Looked
    <3>3. Leads(u, M, Todo(g, scan, stack, {}))
      BY <1>3, <2>1 DEF Narrow
    <3>4. QED BY <3>2, <3>3 DEF Leads
  <2>2. QED BY <2>1
<1>9. sc.limit = scan.limit
  BY <1>3, <1>4, ScanFields DEF Divided
<1>10. /\ Suspended(stack', stack, sc) /\ scan' = Scan(a, ScannedSize(g, a), 0)
       /\ WeakRemembered(g, a, ephemerons, weakContainers, ephemerons', weakContainers')
  BY <1>2, <1>9, DescendTold DEF Suspended
<1>11. QED BY <1>3, <1>5, <1>6, <1>7, <1>8, <1>10, NarrowDescends

LEMMA ToldOfObject ==
  ASSUME NEW g, NEW u, NEW L, NEW M, NEW T, MarkInv(g, u, L, M, T), NEW a \in DOMAIN g, a \notin M
  PROVE  Told(g, a)
<1>1. /\ BitsOf(a).hasWeaks = g[a].weak /\ Size(a) = g[a].size
      /\ IsActiveEphemeron(a) <=> g[a].weak /\ g[a].ephemeron
  BY ObjectRead DEF MarkInv
<1>2. QED BY <1>1 DEF Told, SizeAt

LEMMA MarkThreadAndFollow ==
  ASSUME NEW g, NEW u, NEW L, NEW M, NEW T, MarkInv(g, u, L, M, T), ThreadAndFollow
  PROVE  \E L2, M2, T2 : MarkInv(g, u, L2, M2, T2)'
<1>1. PICK a, l, L2, M2, T2 :
        /\ a = Found /\ l = Looked /\ L2 = [L EXCEPT ![a] = Append(L[a], l)]
        /\ M2 = M \cup {a} /\ T2 = SlotsAdded(T \ {l}, g, a)
  OBVIOUS
<1>2. a \in Known(g) /\ u[l] = Oop(a) /\ l \in T /\ l \in Location /\ ~OnList(L, l)
  BY <1>1, LookedAt DEF ThreadAndFollow, LooksAtReference
<1>3. a \in DOMAIN g
  BY <1>1, <1>2, KnownObject DEF MarkInv, Heap, ThreadAndFollow
<1>4. a \notin M
  BY <1>1, <1>3, ObjectRead DEF MarkInv, ThreadAndFollow
<1>5. Told(g, a)
  BY <1>3, <1>4, ToldOfObject
<1>6. Explored(u, g, L, M, NextRoot, T) /\ Lists(u, g, L) /\ Placement(g, oldNextFree, fromNextFree)
  BY DEF MarkInv, Threads, Heap
<1>7. Explored(u, g, L2, M2, NextRoot, T2)
  BY <1>1, <1>2, <1>3, <1>4, <1>6, ExploreFollow DEF SlotsAdded
<1>8. Threads(memory', u, g, L2)
  <2>1. memory' = [memory EXCEPT ![l] = memory[a - 2], ![a - 2] = Link(l)]
    BY <1>1 DEF ThreadAndFollow, Threaded, HeaderOf
  <2>2. QED BY <1>1, <1>2, <1>3, <2>1, ThreadOne DEF MarkInv
<1>9. Descend(a) /\ FollowStep /\ scan.index < scan.limit
  BY <1>1 DEF ThreadAndFollow, LooksAtReference
<1>10. Accounted(g, M2, scan', stack', ephemerons', unknowns, weakContainers',
                 FirstUnknown, FirstWeak, T2)
  BY <1>1, <1>2, <1>4, <1>5, <1>9, DescendDivides
<1>11. Heap(u, g, oldNextFree, fromNextFree) /\ AllKept(copy, g, u)
  BY DEF MarkInv
<1>12. (collections <= 1 \/ NoEphemeronPlaced)
         => Narrow(copy, g, pc, u, M2, scan', stack', ephemerons', weakContainers')
  BY <1>1, <1>2, <1>4, <1>5, <1>9, NarrowAfterDescend
<1>13. MarkInv(g, u, L2, M2, T2)'
  BY <1>7, <1>8, <1>9, <1>10, <1>11, <1>12, ScanStep
<1>14. QED BY <1>13


(* A change of the mark in a header is kept. *)
LEMMA MarkKept ==
  ASSUME NEW c, NEW g, NEW u, AllKept(c, g, u), NEW x \in Location, Is("bits", c[x]),
         Value(u[x]) \in HeaderBits,
         NEW h, h = [Value(u[x]) EXCEPT !.unseenInSpace = TRUE],
         NEW u2, u2[x] = Bits(h), \A l \in Location : l # x => u2[l] = u[l]
  PROVE  AllKept(c, g, u2)
<1>1. Kept(c, g, x, u[x])
  BY DEF AllKept
<1>2. [h EXCEPT !.unseenInSpace = TRUE, !.inRememberedSet = FALSE]
        = [Value(u[x]) EXCEPT !.unseenInSpace = TRUE, !.inRememberedSet = FALSE]
  BY DEF HeaderBits
<1>3. Is("bits", u2[x]) /\ Value(u2[x]) = h
  BY Tags
<1>4. Kept(c, g, x, u2[x])
  BY <1>1, <1>2, <1>3 DEF Kept
<1>5. ASSUME NEW l \in Location PROVE Kept(c, g, l, u2[l])
  <2>1. CASE l = x
    BY <1>4, <2>1
  <2>2. CASE l # x
    BY <2>2 DEF AllKept
  <2>3. QED BY <2>1, <2>2
<1>6. QED BY <1>5 DEF AllKept

LEMMA MarkFollowInLibrary ==
  ASSUME NEW g, NEW u, NEW L, NEW M, NEW T, MarkInv(g, u, L, M, T), FollowInLibrary
  PROVE  \E u2, M2, T2 : MarkInv(g, u2, L, M2, T2)'
<1>1. PICK a, l, h, u2, M2, T2 :
        /\ a = Found /\ l = Looked /\ h = [BitsOf(a) EXCEPT !.unseenInSpace = TRUE]
        /\ u2 = [u EXCEPT ![a - 2] = Bits(h)]
        /\ M2 = M \cup {a} /\ T2 = SlotsAdded(T \ {l}, g, a)
  OBVIOUS
<1>2. a \in Known(g) /\ u[l] = Oop(a) /\ l \in T /\ l \in Location
  BY <1>1, LookedAt DEF FollowInLibrary, LooksAtReference
<1>3. /\ Heap(u, g, oldNextFree, fromNextFree) /\ Heap(copy, g, oldNextFree, fromNextFree)
      /\ Threads(memory, u, g, L) /\ Explored(u, g, L, M, NextRoot, T)
      /\ Placement(g, oldNextFree, fromNextFree) /\ AllKept(copy, g, u)
  BY DEF MarkInv, Heap
<1>4. a \in LibraryObjects /\ a \notin DOMAIN g
  BY <1>1, <1>2, <1>3, KnownObject DEF FollowInLibrary, Known
<1>5. /\ a \notin M /\ BitsOf(a) = Value(u[a - 2]) /\ BitsOf(a) \in HeaderBits
      /\ ~BitsOf(a).hasWeaks /\ Size(a) = SizeAt(g, a) /\ ~IsActiveEphemeron(a)
  BY <1>1, <1>3, <1>4, LibraryObjectRead DEF FollowInLibrary
<1>6. Told(g, a)
  BY <1>4, <1>5 DEF Told
<1>7. /\ h \in HeaderBits /\ h.unseenInSpace /\ h.extended = Value(u[a - 2]).extended
      /\ h.hasWeaks = Value(u[a - 2]).hasWeaks /\ h.size = Value(u[a - 2]).size
  BY <1>1, <1>5 DEF HeaderBits
<1>8. DOMAIN u = Location /\ DOMAIN memory = Location /\ a - 2 \in Location
  BY <1>3, <1>4, LibraryObject DEF Heap, Threads
<1>9. /\ DOMAIN u2 = Location /\ u2[a - 2] = Bits(h)
      /\ \A x \in Location : x # a - 2 => u2[x] = u[x]
  BY <1>1, <1>8
<1>10. /\ DOMAIN memory' = Location /\ memory'[a - 2] = Bits(h)
       /\ \A x \in Location : x # a - 2 => memory'[x] = memory[x]
  BY <1>1, <1>8 DEF FollowInLibrary, WithBits
<1>11. /\ Heap(u2, g, oldNextFree, fromNextFree) /\ Threads(memory', u2, g, L)
       /\ Explored(u2, g, L, M2, NextRoot, T2)
  <2>1. /\ Heap(u2, g, oldNextFree, fromNextFree) /\ Threads(memory', u2, g, L)
        /\ Explored(u2, g, L, M \cup {a}, NextRoot, (T \ {l}) \cup SlotsAt(g, a))
    BY <1>2, <1>3, <1>4, <1>5, <1>7, <1>9, <1>10, ExploreLibrary
  <2>2. QED BY <1>1, <2>1 DEF SlotsAdded
<1>12. AllKept(copy, g, u2)
  <2>1. Is("bits", copy[a - 2])
    BY <1>3, <1>4 DEF Heap, LibraryFits
  <2>2. h = [Value(u[a - 2]) EXCEPT !.unseenInSpace = TRUE] /\ Value(u[a - 2]) \in HeaderBits
    BY <1>1, <1>5
  <2>3. PICK x : x = a - 2
    OBVIOUS
  <2>4. QED BY <1>3, <1>8, <1>9, <2>1, <2>2, <2>3, MarkKept
<1>13. Descend(a) /\ FollowStep /\ scan.index < scan.limit
  BY <1>1 DEF FollowInLibrary, LooksAtReference
<1>14. Accounted(g, M2, scan', stack', ephemerons', unknowns, weakContainers',
                 FirstUnknown, FirstWeak, T2)
  BY <1>1, <1>2, <1>5, <1>6, <1>13, DescendDivides
<1>15. (collections <= 1 \/ NoEphemeronPlaced)
         => Narrow(copy, g, pc, u2, M2, scan', stack', ephemerons', weakContainers')
  <2>1. (collections <= 1 \/ NoEphemeronPlaced)
          => Narrow(copy, g, pc, u, M2, scan', stack', ephemerons', weakContainers')
    BY <1>1, <1>2, <1>5, <1>6, <1>13, NarrowAfterDescend
  <2>2. LeadsOn(u, u2, M2) /\ LeadsNoFurther(u, u2)
    BY <1>9, Tags DEF LeadsOn, LeadsNoFurther
  <2>3. WeakAlike(g, u, u2)
    <3>1. ~InWeak(g, a - 2)
      <4>1. a - 2 < OldBase /\ a - 2 \in Nat /\ OldBase \in Nat
        BY <1>4, LibraryObject, Bounds
      <4>2. \A b \in DOMAIN g : OldBase + 2 <= b /\ b \in Nat
        BY <1>3, Extents
      <4>3. QED BY <4>1, <4>2 DEF InWeak
    <3>2. QED BY <1>9, <3>1 DEF WeakAlike
  <2>4. QED BY <2>1, <2>2, <2>3, NarrowWords
<1>16. MarkInv(g, u2, L, M2, T2)'
  BY <1>11, <1>12, <1>13, <1>14, <1>15, ScanStep
<1>17. QED BY <1>16

(* The scans keep the invariant of marking. *)
LEMMA MarkFollowCountStartingAt ==
  ASSUME NEW g, NEW u, NEW L, NEW M, NEW T, MarkInv(g, u, L, M, T), FollowCountStartingAt
  PROVE  \E u2, L2, M2, T2 : MarkInv(g, u2, L2, M2, T2)'
<1>1. CASE IgnoreSmallInteger
  BY <1>1, MarkIgnoreSmallInteger
<1>2. CASE IgnoreSeenInLibrary
  BY <1>2, MarkIgnoreSeenInLibrary
<1>3. CASE FollowInLibrary
  BY <1>3, MarkFollowInLibrary
<1>4. CASE ThreadSeen
  BY <1>4, MarkThreadSeen
<1>5. CASE ThreadAndFollow
  BY <1>5, MarkThreadAndFollow
<1>6. CASE ResumeScan
  BY <1>6, MarkResumeScan
<1>7. QED
  BY <1>1, <1>2, <1>3, <1>4, <1>5, <1>6 DEF FollowCountStartingAt


-----------------------------------------------------------------------------
(* The steps between scans. *)
LEMMA NotTraversing ==
  ASSUME NEW g, NEW u, NEW L, NEW M, NEW T, MarkInv(g, u, L, M, T), ~Traversing
  PROVE  ~(scan.index < scan.limit) /\ stack = << >>
BY ScanFields DEF Traversing, MarkInv, Accounted, Divided

(* The roots are followed one after the other. *)
LEMMA RootsFollowed ==
  ASSUME NEW g, NEW on, NEW fn, Placement(g, on, fn), NEW u, NEW L, NEW M, NEW sc, NEW st,
         NEW es, NEW us, NEW ws, NEW fu, NEW fw, NEW T,
         Accounted(g, M, sc, st, es, us, ws, fu, fw, T), ~(sc.index < sc.limit), st = << >>,
         NEW R \in Roots, NEW R2 \in Nat, R <= R2, R2 <= RescuedEphemerons + 1,
         Explored(u, g, L, M, R, T),
         NEW n, n = R2 - R, NEW sc2, sc2 = Scan(R, n, 1)
  PROVE  \E T2 : /\ Accounted(g, M, sc2, st, es, us, ws, fu, fw, T2)
                 /\ Explored(u, g, L, M, R2, T2)
<1>0. R \in Nat /\ n \in Nat /\ R + n = R2 /\ R2 \in R .. RescuedEphemerons + 1
      /\ RescuedEphemerons \in Nat
  BY Numbers DEF Roots
<1>1. PICK T2 : T2 = T \cup (R .. R2 - 1)
  OBVIOUS
<1>2. PICK W : W = WaitSet(es, us, ws, fu, fw)
  OBVIOUS
<1>3. Queues(g, M, es, us, ws, fu, fw) /\ Divided(g, M, sc, st, W) /\ T = Todo(g, sc, st, W)
  BY <1>2 DEF Accounted
<1>4. Divided(g, M, sc2, st, W) /\ Todo(g, sc2, st, W) = Todo(g, sc, st, W) \cup (R .. R + n - 1)
  BY <1>0, <1>3, StartingRoots
<1>5. Todo(g, sc2, st, W) = T2
  BY <1>0, <1>1, <1>3, <1>4
<1>6. Explored(u, g, L, M, R2, T \cup (R .. R2 - 1))
  BY <1>0, ExploreRoots
<1>7. QED BY <1>1, <1>2, <1>3, <1>4, <1>5, <1>6 DEF Accounted

(* The queue is what the last root leads to.                                *)
LEMMA NarrowQueue ==
  ASSUME NEW c, NEW g, NEW on, NEW fn, Placement(g, on, fn), NEW label, label = "followRescuedEphemerons",
         NEW u, u[RescuedEphemerons] = Oop(QueueArray), NEW M, NEW sc, NEW st, NEW es, NEW ws,
         Narrow(c, g, label, u, M, sc, st, es, ws),
         NEW W, Divided(g, M, sc, st, W), ~(sc.index < sc.limit), st = << >>
  PROVE  Narrow(c, g, "setNewPositions", u, M, Scan(RescuedEphemerons, 1, 1), st, es, ws)
<1>1. Divided(g, M, sc, st, {})
  BY DEF Divided, InWaiting
<1>2. RescuedEphemerons \in Roots /\ RescuedEphemerons \in Nat
  BY Numbers DEF Roots
<1>3. PICK sc2, n : sc2 = Scan(RescuedEphemerons, n, 1) /\ n = 1
  OBVIOUS
<1>4. Todo(g, sc2, st, {})
        = Todo(g, sc, st, {}) \cup (RescuedEphemerons .. RescuedEphemerons + n - 1)
  BY <1>1, <1>2, <1>3, StartingRoots
<1>5. \A l \in Todo(g, sc2, st, {}) : l \in Todo(g, sc, st, {}) \/ l = RescuedEphemerons
  BY <1>2, <1>3, <1>4
<1>6. /\ Leads(u, M, LateSlots) /\ Leads(u, M, Todo(g, sc, st, {}))
      /\ es = << >> /\ ws = << >>
  BY DEF Narrow, LateLabels
<1>7. Leads(u, M, Todo(g, sc2, st, {}))
  <2>1. SUFFICES ASSUME NEW l \in Todo(g, sc2, st, {}), NEW a, u[l] = Oop(a)
                 PROVE  a \in M \cup LateObjects
    BY DEF Leads
  <2>2. CASE l \in Todo(g, sc, st, {})
    BY <1>6, <2>1, <2>2 DEF Leads
  <2>3. CASE l = RescuedEphemerons
    BY <2>1, <2>3, Tags DEF LateObjects
  <2>4. QED BY <1>5, <2>1, <2>2, <2>3
<1>8. NoEphemeronPlaced => NoEphemeron(g) /\ Entombed("setNewPositions", c, g, u, M)
  BY DEF Narrow, Entombed, LateLabels
<1>9. QED BY <1>3, <1>6, <1>7, <1>8 DEF Narrow

LEMMA RootsStep ==
  ASSUME NEW g, NEW u, NEW L, NEW M, NEW T, MarkInv(g, u, L, M, T),
         NEW label, NEW location \in Roots, NEW size \in Nat, NEW next,
         FollowRoots(label, location, size, next),
         NEW R2, R2 = location + size, R2 <= RescuedEphemerons + 1,
         NextRoot = location, NextRoot' = R2, next \in MarkLabels,
         label \notin {"collectUnknowns", "rescueEphemeron", "addRescued", "fixWeakContainers"},
         next \notin {"collectUnknowns", "rescueEphemeron", "addRescued", "fixWeakContainers"},
         (collections <= 1 \/ NoEphemeronPlaced)
           => Narrow(copy, g, next, u, M, Scan(location, size, 1), stack, ephemerons, weakContainers)
  PROVE  \E T2 : MarkInv(g, u, L, M, T2)'
<1>1. ~(scan.index < scan.limit) /\ stack = << >>
  BY NotTraversing DEF FollowRoots, At
<1>2. /\ Placement(g, oldNextFree, fromNextFree) /\ Explored(u, g, L, M, location, T)
      /\ Accounted(g, M, scan, stack, ephemerons, unknowns, weakContainers,
                   FirstUnknown, FirstWeak, T)
  BY DEF MarkInv, Heap
<1>3. location <= R2 /\ R2 \in Nat /\ size = R2 - location /\ location \in Nat
  BY Numbers DEF Roots
<1>4. scan' = Scan(location, size, 1)
  BY DEF FollowRoots
<1>5. PICK T2 : /\ Accounted(g, M, scan', stack, ephemerons, unknowns, weakContainers,
                             FirstUnknown, FirstWeak, T2)
                /\ Explored(u, g, L, M, R2, T2)
  BY <1>1, <1>2, <1>3, <1>4, RootsFollowed
<1>6. FirstUnknown = 1 /\ FirstWeak = 1 /\ FirstUnknown' = 1 /\ FirstWeak' = 1 /\ unknowns = << >>
  BY DEF FollowRoots, At, GoTo, FirstUnknown, FirstWeak, MarkInv
<1>7. Accounted(g, M, scan', stack', ephemerons', unknowns', weakContainers',
                FirstUnknown', FirstWeak', T2)
  BY <1>5, <1>6 DEF FollowRoots, localVars
<1>8. ((collections <= 1 \/ NoEphemeronPlaced)
         => Narrow(copy, g, pc, u, M, scan, stack, ephemerons, weakContainers))'
  BY <1>4 DEF FollowRoots, GoTo, localVars, historyVars
<1>9. MarkInv(g, u, L, M, T2)'
  BY <1>5, <1>6, <1>7, <1>8
     DEF MarkInv, FollowRoots, GoTo, spaceVars, localVars, walkVars, historyVars
<1>10. QED BY <1>9

LEMMA MarkFollowRoots ==
  ASSUME NEW g, NEW u, NEW L, NEW M, NEW T, MarkInv(g, u, L, M, T),
         \/ FollowWellKnownObjects \/ FollowStack \/ FollowExtraRoots \/ FollowRescuedEphemerons
  PROVE  \E T2 : MarkInv(g, u, L, M, T2)'
<1>0. (collections <= 1 \/ NoEphemeronPlaced)
        => Narrow(copy, g, pc, u, M, scan, stack, ephemerons, weakContainers)
  BY DEF MarkInv
<1>1. /\ NumTemporaries \in Nat /\ Frame = 8 /\ WellKnownRoots = 7
      /\ ExtraRoots = 8 + NumTemporaries /\ RescuedEphemerons = 9 + NumTemporaries
  BY Numbers
<1>2. CASE FollowWellKnownObjects
  <2>1. NextRoot = WellKnownRoots /\ NextRoot' = Frame /\ pc = "followWellKnownObjects"
    BY <1>2 DEF FollowWellKnownObjects, FollowRoots, At, GoTo, NextRoot
  <2>2. (collections <= 1 \/ NoEphemeronPlaced)
          => Narrow(copy, g, "followStack", u, M, Scan(WellKnownRoots, 1, 1), stack, ephemerons, weakContainers)
    BY <1>0, <2>1, NarrowEarly DEF LateLabels
  <2>3. QED
    BY <1>1, <1>2, <2>1, <2>2, RootsStep DEF FollowWellKnownObjects, MarkLabels, Roots
<1>3. CASE FollowStack
  <2>1. NextRoot = Frame /\ NextRoot' = ExtraRoots /\ pc = "followStack"
    BY <1>3 DEF FollowStack, FollowRoots, At, GoTo, NextRoot
  <2>2. (collections <= 1 \/ NoEphemeronPlaced)
          => Narrow(copy, g, "followExtraRoots", u, M, Scan(Frame, NumTemporaries, 1), stack, ephemerons, weakContainers)
    BY <1>0, <2>1, NarrowEarly DEF LateLabels
  <2>3. QED
    BY <1>1, <1>3, <2>1, <2>2, RootsStep DEF FollowStack, MarkLabels, Roots
<1>4. CASE FollowExtraRoots
  <2>1. NextRoot = ExtraRoots /\ NextRoot' = RescuedEphemerons /\ pc = "followExtraRoots"
    BY <1>4 DEF FollowExtraRoots, FollowRoots, At, GoTo, NextRoot
  <2>2. (collections <= 1 \/ NoEphemeronPlaced)
          => Narrow(copy, g, "rescueEphemerons", u, M, Scan(ExtraRoots, 1, 1), stack, ephemerons, weakContainers)
    BY <1>0, <2>1, NarrowEarly DEF LateLabels
  <2>3. QED
    BY <1>1, <1>4, <2>1, <2>2, RootsStep DEF FollowExtraRoots, MarkLabels, Roots
<1>5. CASE FollowRescuedEphemerons
  <2>1. NextRoot = RescuedEphemerons /\ NextRoot' = RescuedEphemerons + 1
    BY <1>5 DEF FollowRescuedEphemerons, FollowRoots, At, GoTo, NextRoot
  <2>2. (collections <= 1 \/ NoEphemeronPlaced)
          => Narrow(copy, g, "setNewPositions", u, M, Scan(RescuedEphemerons, 1, 1), stack,
                    ephemerons, weakContainers)
    <3>1. /\ pc = "followRescuedEphemerons" /\ ~(scan.index < scan.limit) /\ stack = << >>
      BY <1>5, NotTraversing DEF FollowRescuedEphemerons, FollowRoots, At
    <3>2. /\ Placement(g, oldNextFree, fromNextFree) /\ u[RescuedEphemerons] = Oop(QueueArray)
      BY DEF MarkInv, Heap, CellsHold
    <3>3. PICK W : Divided(g, M, scan, stack, W)
      BY DEF MarkInv, Accounted
    <3>4. QED BY <1>0, <3>1, <3>2, <3>3, NarrowQueue
  <2>3. QED
    BY <1>1, <1>5, <2>1, <2>2, RootsStep DEF FollowRescuedEphemerons, MarkLabels, Roots
<1>6. QED BY <1>2, <1>3, <1>4, <1>5


(* Steps that change neither memory nor what is still to be looked at.      *)
LEMMA QueueStep ==
  ASSUME NEW g, NEW u, NEW L, NEW M, NEW T, MarkInv(g, u, L, M, T),
         UNCHANGED <<memory, spaceVars, rememberedSet, stack, walkVars, historyVars>>,
         pc' \in MarkLabels, i' \in Nat \ {0}, NextRoot' = NextRoot,
         Accounted(g, M, scan', stack, ephemerons', unknowns', weakContainers',
                   FirstUnknown', FirstWeak', T),
         unknowns' # << >> => pc' \in {"collectUnknowns", "rescueEphemeron", "addRescued"},
         pc' = "addRescued" => i' <= Len(unknowns'),
         pc' = "rescueEphemeron" => i' <= Len(unknowns') + 1,
         (collections <= 1 \/ NoEphemeronPlaced)
           => Narrow(copy, g, pc', u, M, scan', stack, ephemerons', weakContainers')
  PROVE  MarkInv(g, u, L, M, T)'
BY DEF MarkInv, spaceVars, walkVars, historyVars

LEMMA NarrowBeforeLate ==
  ASSUME NEW g, NEW u, NEW L, NEW M, NEW T, MarkInv(g, u, L, M, T), pc \notin LateLabels, pc' \notin LateLabels
  PROVE  (collections <= 1 \/ NoEphemeronPlaced)
           => Narrow(copy, g, pc', u, M, scan', stack, ephemerons', weakContainers')
BY NarrowEarly DEF MarkInv

LEMMA MarkLookForEphemerons ==
  ASSUME NEW g, NEW u, NEW L, NEW M, NEW T, MarkInv(g, u, L, M, T), LookForEphemerons
  PROVE  MarkInv(g, u, L, M, T)'
<1>1. FirstUnknown' = FirstUnknown /\ FirstWeak' = FirstWeak /\ NextRoot' = NextRoot
  BY DEF LookForEphemerons, At, GoTo, FirstUnknown, FirstWeak, NextRoot
<1>2. (collections <= 1 \/ NoEphemeronPlaced)
        => Narrow(copy, g, pc', u, M, scan', stack, ephemerons', weakContainers')
  BY NarrowBeforeLate DEF LookForEphemerons, GoTo, At, LateLabels
<1>3. QED
  BY <1>1, <1>2, QueueStep DEF LookForEphemerons, At, GoTo, RescueStep, MarkInv, MarkLabels

(* An ephemeron whose slots are scanned waits no more. *)
LEMMA EphemeronScanned ==
  ASSUME NEW g, NEW u, NEW L, NEW M, NEW T, MarkInv(g, u, L, M, T), ~Traversing,
         NEW e \in DOMAIN g, g[e].ephemeron,
         NEW W, W = WaitSet(ephemerons, unknowns, weakContainers, FirstUnknown, FirstWeak), e \in W,
         NEW W2, W2 = Without(W, e)
  PROVE  LET sc == Scan(e, ExtensionOf(e).size, 1)
         IN  Divided(g, M, sc, stack, W2) /\ T = Todo(g, sc, stack, W2)
<1>1. ~(scan.index < scan.limit) /\ stack = << >>
  BY NotTraversing
<1>2. /\ Placement(g, oldNextFree, fromNextFree)
      /\ Divided(g, M, scan, stack, W) /\ T = Todo(g, scan, stack, W)
  BY DEF MarkInv, Heap, Accounted
<1>3. g[e].extended
  BY <1>2 DEF Placement
<1>4. ExtensionOf(e).size = g[e].size
  BY <1>3, ObjectRead DEF MarkInv
<1>5. PICK sc : sc = Scan(e, g[e].size, 1)
  OBVIOUS
<1>6. Divided(g, M, sc, stack, W2) /\ Todo(g, sc, stack, W2) = Todo(g, scan, stack, W)
  BY <1>1, <1>2, <1>5, StartingWaiting
<1>7. QED BY <1>2, <1>4, <1>5, <1>6

LEMMA MarkFollowEphemeron ==
  ASSUME NEW g, NEW u, NEW L, NEW M, NEW T, MarkInv(g, u, L, M, T), FollowEphemeron
  PROVE  MarkInv(g, u, L, M, T)'
<1>1. /\ Queues(g, M, ephemerons, unknowns, weakContainers, FirstUnknown, FirstWeak)
      /\ ephemerons # << >> /\ ~Traversing
  BY DEF MarkInv, Accounted, FollowEphemeron, At
<1>2. PICK e, W, W2 :
        /\ e = Last(ephemerons)
        /\ W = WaitSet(ephemerons, unknowns, weakContainers, FirstUnknown, FirstWeak)
        /\ W2 = WaitSet(Front(ephemerons), unknowns, weakContainers, FirstUnknown, FirstWeak)
  OBVIOUS
<1>3. /\ Queues(g, M, Front(ephemerons), unknowns, weakContainers, FirstUnknown, FirstWeak)
      /\ W2 = Without(W, e) /\ e \in W /\ g[e].ephemeron /\ e \in DOMAIN g
  BY <1>1, <1>2, TakeEphemeron
<1>5. scan' = Scan(e, ExtensionOf(e).size, 1)
  BY <1>2 DEF FollowEphemeron
<1>6. Divided(g, M, scan', stack, W2) /\ T = Todo(g, scan', stack, W2)
  BY <1>1, <1>2, <1>3, <1>5, EphemeronScanned
<1>7. FirstUnknown' = FirstUnknown /\ FirstWeak' = FirstWeak /\ NextRoot' = NextRoot
  BY DEF FollowEphemeron, FirstUnknown, FirstWeak, NextRoot
<1>8. ephemerons' = Front(ephemerons) /\ weakContainers' = weakContainers /\ unknowns' = unknowns
  BY DEF FollowEphemeron, RescueStep
<1>9. Accounted(g, M, scan', stack, ephemerons', unknowns', weakContainers',
                FirstUnknown', FirstWeak', T)
  BY <1>2, <1>3, <1>6, <1>7, <1>8 DEF Accounted
<1>10. (collections <= 1 \/ NoEphemeronPlaced)
         => Narrow(copy, g, pc', u, M, scan', stack, ephemerons', weakContainers')
  BY NarrowBeforeLate DEF FollowEphemeron, GoTo, At, LateLabels
<1>11. QED
  BY <1>7, <1>9, <1>10, QueueStep DEF FollowEphemeron, RescueStep, MarkInv

LEMMA MarkCollectUnknown ==
  ASSUME NEW g, NEW u, NEW L, NEW M, NEW T, MarkInv(g, u, L, M, T), CollectUnknown
  PROVE  MarkInv(g, u, L, M, T)'
<1>1. /\ FirstUnknown = 1 /\ FirstUnknown' = 1 /\ FirstWeak' = FirstWeak /\ NextRoot' = NextRoot
      /\ pc = "collectUnknowns" /\ ephemerons # << >>
  BY DEF CollectUnknown, At, FirstUnknown, FirstWeak, NextRoot
<1>2. Queues(g, M, ephemerons, unknowns, weakContainers, 1, FirstWeak)
  BY <1>1 DEF MarkInv, Accounted
<1>3. PICK e : e = Last(ephemerons)
  OBVIOUS
<1>4. /\ Queues(g, M, Front(ephemerons), Append(unknowns, e), weakContainers, 1, FirstWeak)
      /\ WaitSet(Front(ephemerons), Append(unknowns, e), weakContainers, 1, FirstWeak)
           = WaitSet(ephemerons, unknowns, weakContainers, 1, FirstWeak)
  BY <1>1, <1>2, <1>3, MoveEphemeron
<1>5. /\ ephemerons' = Front(ephemerons) /\ unknowns' = Append(unknowns, e)
      /\ weakContainers' = weakContainers /\ scan' = scan
  BY <1>3 DEF CollectUnknown, RescueStep
<1>6. Accounted(g, M, scan', stack, ephemerons', unknowns', weakContainers',
                FirstUnknown', FirstWeak', T)
  BY <1>1, <1>4, <1>5 DEF MarkInv, Accounted
<1>7. (collections <= 1 \/ NoEphemeronPlaced)
        => Narrow(copy, g, pc', u, M, scan', stack, ephemerons', weakContainers')
  BY NarrowBeforeLate DEF CollectUnknown, GoTo, At, LateLabels
<1>8. QED
  BY <1>1, <1>6, <1>7, QueueStep DEF CollectUnknown, RescueStep, MarkInv

LEMMA MarkRescan ==
  ASSUME NEW g, NEW u, NEW L, NEW M, NEW T, MarkInv(g, u, L, M, T), Rescan
  PROVE  MarkInv(g, u, L, M, T)'
<1>1. /\ FirstUnknown = 1 /\ FirstUnknown' = 1 /\ FirstWeak' = FirstWeak /\ NextRoot' = NextRoot
      /\ ephemerons = << >>
  BY DEF Rescan, At, GoTo, FirstUnknown, FirstWeak, NextRoot
<1>2. Queues(g, M, << >>, unknowns, weakContainers, 1, FirstWeak)
  BY <1>1 DEF MarkInv, Accounted
<1>3. /\ Queues(g, M, unknowns, << >>, weakContainers, 1, FirstWeak)
      /\ WaitSet(unknowns, << >>, weakContainers, 1, FirstWeak)
           = WaitSet(<< >>, unknowns, weakContainers, 1, FirstWeak)
  BY <1>2, AgainEphemerons
<1>4. /\ ephemerons' = unknowns /\ unknowns' = << >>
      /\ weakContainers' = weakContainers /\ scan' = scan
  BY DEF Rescan, RescueStep
<1>5. Accounted(g, M, scan', stack, ephemerons', unknowns', weakContainers',
                FirstUnknown', FirstWeak', T)
  BY <1>1, <1>3, <1>4 DEF MarkInv, Accounted
<1>6. (collections <= 1 \/ NoEphemeronPlaced)
        => Narrow(copy, g, pc', u, M, scan', stack, ephemerons', weakContainers')
  BY NarrowBeforeLate DEF Rescan, GoTo, At, LateLabels
<1>7. QED
  BY <1>1, <1>4, <1>5, <1>6, QueueStep DEF Rescan, GoTo, RescueStep, MarkLabels

LEMMA MarkRescueUnknowns ==
  ASSUME NEW g, NEW u, NEW L, NEW M, NEW T, MarkInv(g, u, L, M, T), RescueUnknowns
  PROVE  MarkInv(g, u, L, M, T)'
<1>1. FirstUnknown = 1 /\ FirstUnknown' = 1 /\ FirstWeak' = FirstWeak /\ NextRoot' = NextRoot
  BY DEF RescueUnknowns, At, GoTo, FirstUnknown, FirstWeak, NextRoot
<1>2. /\ Accounted(g, M, scan', stack, ephemerons', unknowns', weakContainers',
                   FirstUnknown', FirstWeak', T)
      /\ unknowns \in Seq(Location)
  BY <1>1 DEF MarkInv, RescueUnknowns, RescueStep, Accounted, Queues
<1>3. Len(unknowns) \in Nat
  BY <1>2
<1>4. (collections <= 1 \/ NoEphemeronPlaced)
        => Narrow(copy, g, pc', u, M, scan', stack, ephemerons', weakContainers')
  BY NarrowBeforeLate DEF RescueUnknowns, GoTo, At, LateLabels
<1>5. QED
  BY <1>1, <1>2, <1>3, <1>4, QueueStep DEF RescueUnknowns, GoTo, RescueStep, MarkLabels

LEMMA MarkRescueEphemeron ==
  ASSUME NEW g, NEW u, NEW L, NEW M, NEW T, MarkInv(g, u, L, M, T), RescueEphemeron
  PROVE  MarkInv(g, u, L, M, T)'
<1>1. /\ FirstUnknown = i /\ FirstUnknown' = i + 1 /\ FirstWeak' = FirstWeak /\ NextRoot' = NextRoot
      /\ i <= Len(unknowns) /\ ~Traversing
  BY DEF RescueEphemeron, RescueStep, At, FirstUnknown, FirstWeak, NextRoot
<1>2. Queues(g, M, ephemerons, unknowns, weakContainers, i, FirstWeak)
  BY <1>1 DEF MarkInv, Accounted
<1>3. PICK e, W, W2 :
        /\ e = unknowns[i]
        /\ W = WaitSet(ephemerons, unknowns, weakContainers, i, FirstWeak)
        /\ W2 = WaitSet(ephemerons, unknowns, weakContainers, i + 1, FirstWeak)
  OBVIOUS
<1>4. /\ Queues(g, M, ephemerons, unknowns, weakContainers, i + 1, FirstWeak)
      /\ W2 = Without(W, e) /\ e \in W /\ g[e].ephemeron /\ e \in DOMAIN g
  BY <1>1, <1>2, <1>3, TakeUnknown
<1>6. scan' = Scan(e, ExtensionOf(e).size, 1)
  BY <1>3 DEF RescueEphemeron
<1>7. W = WaitSet(ephemerons, unknowns, weakContainers, FirstUnknown, FirstWeak)
  BY <1>1, <1>3
<1>8. Divided(g, M, scan', stack, W2) /\ T = Todo(g, scan', stack, W2)
  BY <1>1, <1>4, <1>6, <1>7, EphemeronScanned
<1>9. /\ ephemerons' = ephemerons /\ weakContainers' = weakContainers /\ unknowns' = unknowns
      /\ i' = i /\ i \in Nat \ {0}
  BY DEF RescueEphemeron, RescueStep, MarkInv
<1>10. Accounted(g, M, scan', stack, ephemerons', unknowns', weakContainers',
                 FirstUnknown', FirstWeak', T)
  BY <1>1, <1>3, <1>4, <1>8, <1>9 DEF Accounted
<1>11. (collections <= 1 \/ NoEphemeronPlaced)
         => Narrow(copy, g, pc', u, M, scan', stack, ephemerons', weakContainers')
  BY NarrowBeforeLate DEF RescueEphemeron, GoTo, At, LateLabels
<1>12. QED
  BY <1>1, <1>9, <1>10, <1>11, QueueStep DEF RescueEphemeron, RescueStep, MarkLabels, MarkInv

LEMMA MarkUnknownsRescued ==
  ASSUME NEW g, NEW u, NEW L, NEW M, NEW T, MarkInv(g, u, L, M, T), UnknownsRescued
  PROVE  MarkInv(g, u, L, M, T)'
<1>1. /\ FirstUnknown = i /\ FirstUnknown' = 1 /\ FirstWeak' = FirstWeak /\ NextRoot' = NextRoot
      /\ i > Len(unknowns)
  BY DEF UnknownsRescued, At, GoTo, FirstUnknown, FirstWeak, NextRoot
<1>2. Queues(g, M, ephemerons, unknowns, weakContainers, i, FirstWeak)
  BY <1>1 DEF MarkInv, Accounted
<1>3. /\ Queues(g, M, ephemerons, << >>, weakContainers, 1, FirstWeak)
      /\ WaitSet(ephemerons, << >>, weakContainers, 1, FirstWeak)
           = WaitSet(ephemerons, unknowns, weakContainers, i, FirstWeak)
  BY <1>1, <1>2, DropUnknowns
<1>4. /\ ephemerons' = ephemerons /\ unknowns' = << >>
      /\ weakContainers' = weakContainers /\ scan' = scan
  BY DEF UnknownsRescued, RescueStep
<1>5. Accounted(g, M, scan', stack, ephemerons', unknowns', weakContainers',
                FirstUnknown', FirstWeak', T)
  BY <1>1, <1>3, <1>4 DEF MarkInv, Accounted
<1>6. (collections <= 1 \/ NoEphemeronPlaced)
        => Narrow(copy, g, pc', u, M, scan', stack, ephemerons', weakContainers')
  BY NarrowBeforeLate DEF UnknownsRescued, GoTo, At, LateLabels
<1>7. QED
  BY <1>1, <1>4, <1>5, <1>6, QueueStep DEF UnknownsRescued, GoTo, RescueStep, MarkLabels

LEMMA MarkEphemeronsDecided ==
  ASSUME NEW g, NEW u, NEW L, NEW M, NEW T, MarkInv(g, u, L, M, T), EphemeronsDecided
  PROVE  MarkInv(g, u, L, M, T)'
<1>1. FirstUnknown' = FirstUnknown /\ FirstWeak' = FirstWeak /\ NextRoot' = NextRoot
  BY DEF EphemeronsDecided, At, GoTo, FirstUnknown, FirstWeak, NextRoot
<1>2. (collections <= 1 \/ NoEphemeronPlaced)
        => Narrow(copy, g, pc', u, M, scan', stack, ephemerons', weakContainers')
  <2>1. SUFFICES ASSUME collections <= 1 \/ NoEphemeronPlaced
                 PROVE  Narrow(copy, g, pc', u, M, scan', stack, ephemerons', weakContainers')
    OBVIOUS
  <2>2. /\ ephemerons = << >> /\ pc' = "fixWeakContainers" /\ scan' = scan
        /\ ephemerons' = ephemerons /\ weakContainers' = weakContainers
        /\ ~(scan.index < scan.limit) /\ stack = << >>
    BY NotTraversing DEF EphemeronsDecided, RescueStep, GoTo, At
  <2>3. PICK W : Divided(g, M, scan, stack, W)
    BY DEF MarkInv, Accounted
  <2>4. Divided(g, M, scan, stack, {})
    BY <2>3 DEF Divided, InWaiting
  <2>5. Todo(g, scan, stack, {}) = {}
    <3>1. Todo(g, scan, stack, {}) = {l \in Location : InWaiting(g, {}, l)}
      BY <2>2, <2>4, Exhausted
    <3>2. QED BY <3>1 DEF InWaiting
  <2>6. Leads(u, M, LateSlots)
    BY <2>1 DEF MarkInv, Narrow
  <2>7. NoEphemeronPlaced => NoEphemeron(g) /\ Entombed("fixWeakContainers", copy, g, u, M)
    <3>1. pc \notin LateLabels
      BY DEF EphemeronsDecided, At, LateLabels
    <3>2. Narrow(copy, g, pc, u, M, scan, stack, ephemerons, weakContainers)
      BY <2>1 DEF MarkInv
    <3>3. WeakAlike(g, copy, u) => Buried(copy, g, u, M)
      BY DEF WeakAlike, Buried
    <3>4. QED BY <3>1, <3>2, <3>3 DEF Narrow, Entombed, LateLabels
  <2>8. QED BY <2>2, <2>5, <2>6, <2>7 DEF Narrow, Leads, LateLabels
<1>3. QED
  BY <1>1, <1>2, QueueStep DEF EphemeronsDecided, At, GoTo, RescueStep, MarkInv, MarkLabels


(* A cell that was not reached holds what it always held.                   *)
LEMMA UnreachedWord ==
  ASSUME NEW u, NEW g, NEW on, NEW fn, Heap(u, g, on, fn), NEW m, NEW L, Threads(m, u, g, L),
         NEW M, NEW R, NEW T, Explored(u, g, L, M, R, T), NEW l, IsCell(g, l), ~Reached(g, M, R, l)
  PROVE  m[l] = u[l]
<1>1. l \in Location /\ l + 2 \notin DOMAIN g
  BY CellApart DEF Heap
<1>2. ~OnList(L, l)
  BY <1>1 DEF Explored
<1>3. ~HeadsList(L, l)
  BY <1>1 DEF HeadsList, Threads, Lists
<1>4. QED BY <1>1, <1>2, <1>3 DEF Threads

(* The queue of ephemerons, as long as it is not marked.                    *)
LEMMA QueueRead ==
  ASSUME NEW g, NEW u, NEW L, NEW M, NEW T, MarkInv(g, u, L, M, T), NextRoot <= RescuedEphemerons
  PROVE  /\ QueueArray \notin M /\ Queue = QueueArray /\ memory[QueueArray] = u[QueueArray]
         /\ \E n \in 2 .. QueueSize + 2 : u[QueueArray] = Smi(n) /\ RescuedCount = n - 2
<1>1. /\ Heap(u, g, oldNextFree, fromNextFree) /\ Threads(memory, u, g, L) /\ Lists(u, g, L)
      /\ Explored(u, g, L, M, NextRoot, T) /\ CellsHold(u, g)
      /\ Placement(g, oldNextFree, fromNextFree)
  BY DEF MarkInv, Heap, Threads
<1>2. QueueArray \notin M
  BY <1>1, QueueNotMarked
<1>3. /\ IsCell(g, RescuedEphemerons) /\ IsCell(g, QueueArray) /\ QueueArray \in DOMAIN g
      /\ QueueArray \in SlotsAt(g, QueueArray) /\ QueueArray \in Known(g)
  <2>1. \A j \in 0 .. QueueSize :
          /\ QueueArray + j \in SlotsAt(g, QueueArray) /\ IsCell(g, QueueArray + j)
    BY <1>1, KnownCells
  <2>2. QueueArray + 0 = QueueArray /\ 0 \in 0 .. QueueSize
    BY <1>1, KnownCells
  <2>3. QED BY <1>1, <2>1, <2>2, KnownCells DEF Known
<1>4. M \subseteq Known(g) /\ NextRoot \in WellKnownRoots .. RescuedEphemerons + 1
  BY <1>1 DEF Explored
<1>5. ~Reached(g, M, NextRoot, QueueArray)
  BY <1>1, <1>2, <1>3, <1>4, Unreached
<1>6. ~Reached(g, M, NextRoot, RescuedEphemerons)
  <2>1. RescuedEphemerons \in Roots /\ RescuedEphemerons \in Int /\ NextRoot \in Int
    BY <1>4, Numbers DEF Roots
  <2>2. \A a \in M : RescuedEphemerons \notin SlotsAt(g, a)
    BY <1>1, <1>4, <2>1, SlotIsCell
  <2>3. QED BY <2>1, <2>2 DEF Reached
<1>7. memory[QueueArray] = u[QueueArray] /\ memory[RescuedEphemerons] = u[RescuedEphemerons]
  BY <1>1, <1>3, <1>5, <1>6, UnreachedWord
<1>8. Queue = QueueArray
  BY <1>1, <1>7, Tags DEF Queue, CellsHold
<1>9. PICK n \in 2 .. QueueSize + 2 : u[QueueArray] = Smi(n)
  BY <1>1 DEF CellsHold
<1>10. RescuedCount = n - 2
  BY <1>7, <1>8, <1>9, Tags DEF RescuedCount
<1>11. QED BY <1>2, <1>7, <1>8, <1>9, <1>10

LEMMA MarkAddRescued ==
  ASSUME NEW g, NEW u, NEW L, NEW M, NEW T, MarkInv(g, u, L, M, T), AddRescued
  PROVE  \E u2 : MarkInv(g, u2, L, M, T)'
<1>1. /\ NextRoot = RescuedEphemerons /\ NextRoot' = NextRoot /\ FirstUnknown = i + 1
      /\ FirstUnknown' = i' /\ i' = i + 1 /\ FirstWeak' = FirstWeak /\ i \in Nat \ {0}
      /\ i <= Len(unknowns) /\ RescuedEphemerons \in Nat /\ QueueSize \in Nat
  BY Numbers DEF AddRescued, At, FirstUnknown, FirstWeak, NextRoot, MarkInv
<1>2. /\ QueueArray \notin M /\ Queue = QueueArray /\ memory[QueueArray] = u[QueueArray]
      /\ \E n \in 2 .. QueueSize + 2 : u[QueueArray] = Smi(n) /\ RescuedCount = n - 2
  BY <1>1, QueueRead
<1>3. PICK n \in 2 .. QueueSize + 2 : u[QueueArray] = Smi(n) /\ RescuedCount = n - 2
  BY <1>2
<1>4. n \in 2 .. QueueSize + 1
  BY <1>1, <1>3 DEF AddRescued
<1>5. PICK e : e = unknowns[i]
  OBVIOUS
<1>6. e \in DOMAIN g /\ g[e].ephemeron
  <2>1. /\ unknowns \in Seq(Location)
        /\ \A x \in From(unknowns, 1) : x \in DOMAIN g /\ g[x].ephemeron
    BY DEF MarkInv, Accounted, Queues
  <2>2. i \in 1 .. Len(unknowns)
    BY <1>1, <2>1
  <2>3. QED BY <1>5, <2>1, <2>2 DEF From
<1>7. PICK u2 : u2 = [u EXCEPT ![QueueArray + (n - 1)] = Oop(e), ![QueueArray] = Smi(n + 1)]
  OBVIOUS
<1>8. /\ Heap(u, g, oldNextFree, fromNextFree) /\ Threads(memory, u, g, L)
      /\ Explored(u, g, L, M, NextRoot, T) /\ Placement(g, oldNextFree, fromNextFree)
      /\ DOMAIN u = Location /\ DOMAIN memory = Location /\ AllKept(copy, g, u)
  BY DEF MarkInv, Heap, Threads
<1>9. /\ QueueArray \in Location /\ QueueArray \in Nat /\ QueueArray + (n - 1) \in Location
  <2>1. \A j \in 0 .. QueueSize : QueueArray + j \in Location
    BY <1>8, KnownCells
  <2>2. PICK j : j = n - 1
    OBVIOUS
  <2>3. j \in 0 .. QueueSize
    BY <1>1, <1>4, <2>2
  <2>4. QED BY <1>8, <2>1, <2>2, <2>3, KnownCells
<1>10. /\ DOMAIN u2 = Location /\ u2[QueueArray] = Smi(n + 1) /\ u2[QueueArray + (n - 1)] = Oop(e)
       /\ \A l \in Location : l # QueueArray /\ l # QueueArray + (n - 1) => u2[l] = u[l]
  BY <1>1, <1>4, <1>7, <1>8, <1>9
<1>11. memory' = [memory EXCEPT ![QueueArray + (n - 1)] = Oop(e), ![QueueArray] = Smi(n + 1)]
  <2>1. QueueArray + RescuedCount + 1 = QueueArray + (n - 1) /\ RescuedCount + 3 = n + 1
    BY <1>3, <1>4, <1>9
  <2>2. memory' = [memory EXCEPT ![QueueArray + RescuedCount + 1] = Oop(e),
                                 ![QueueArray] = Smi(RescuedCount + 3)]
    BY <1>2, <1>5 DEF AddRescued
  <2>3. QED BY <2>1, <2>2
<1>12. /\ DOMAIN memory' = Location /\ memory'[QueueArray] = Smi(n + 1)
       /\ memory'[QueueArray + (n - 1)] = Oop(e)
       /\ \A l \in Location : l # QueueArray /\ l # QueueArray + (n - 1) => memory'[l] = memory[l]
  BY <1>1, <1>4, <1>8, <1>9, <1>11
<1>13. /\ Heap(u2, g, oldNextFree, fromNextFree) /\ Threads(memory', u2, g, L)
       /\ Explored(u2, g, L, M, NextRoot, T)
  BY <1>2, <1>3, <1>4, <1>6, <1>8, <1>10, <1>12, ExploreQueue
<1>14. AllKept(copy, g, u2)
  <2>1. ASSUME NEW l \in Location PROVE Kept(copy, g, l, u2[l])
    <3>1. Kept(copy, g, l, u[l])
      BY <1>8 DEF AllKept
    <3>2. CASE u2[l] = u[l]
      BY <3>1, <3>2
    <3>3. CASE u2[l] # u[l]
      <4>1. PICK j \in 0 .. QueueSize : l = QueueArray + j
        BY <1>1, <1>4, <1>10, <1>9, <3>3
      <4>2. QueueArray <= l /\ l <= QueueArray + QueueSize
        BY <1>1, <1>9, <4>1
      <4>3. ~Is("bits", copy[l])
        <5>1. CellsHold(copy, g) /\ IsCell(g, l)
          BY <1>8, <4>1, KnownCells DEF MarkInv, Heap
        <5>2. (\E k : copy[l] = Smi(k)) \/ (\E a \in Known(g) : copy[l] = Oop(a))
          BY <5>1 DEF CellsHold
        <5>3. QED BY <5>2, Tags
      <4>4. QED BY <4>2, <4>3 DEF Kept
    <3>4. QED BY <3>2, <3>3
  <2>2. QED BY <2>1 DEF AllKept
<1>15. Accounted(g, M, scan', stack', ephemerons', unknowns', weakContainers',
                 FirstUnknown', FirstWeak', T)
  BY <1>1 DEF MarkInv, AddRescued, RescueStep
<1>16. (collections <= 1 \/ NoEphemeronPlaced)
         => Narrow(copy, g, pc', u2, M, scan', stack', ephemerons', weakContainers')
  <2>1. /\ pc = "addRescued" /\ pc' = "rescueEphemeron" /\ stack' = stack
        /\ (collections <= 1 \/ NoEphemeronPlaced)
             => Narrow(copy, g, pc, u, M, scan, stack, ephemerons, weakContainers)
    BY DEF AddRescued, RescueStep, MarkInv, At
  <2>2. e \in M
    <3>1. /\ unknowns \in Seq(Location)
          /\ \A x \in From(unknowns, 1) : x \in M
      BY DEF MarkInv, Accounted, Queues
    <3>2. i \in 1 .. Len(unknowns)
      BY <1>1, <3>1
    <3>3. QED BY <1>5, <3>1, <3>2 DEF From
  <2>3. LeadsOn(u, u2, M)
    BY <1>10, <2>2, Tags DEF LeadsOn
  <2>4. ~NoEphemeronPlaced
    BY <1>6, <2>1 DEF NoEphemeron, Narrow
  <2>5. (collections <= 1 \/ NoEphemeronPlaced)
          => Narrow(copy, g, pc, u2, M, scan, stack, ephemerons, weakContainers)
    BY <2>1, <2>3, <2>4, NarrowWords
  <2>6. QED BY <2>1, <2>5, NarrowEarly DEF LateLabels
<1>17. MarkInv(g, u2, L, M, T)'
  <2>1. /\ pc' = "rescueEphemeron" /\ i' \in Nat \ {0} /\ unknowns' = unknowns
        /\ i' <= Len(unknowns) + 1
    <3>1. Len(unknowns) \in Nat
      BY DEF MarkInv, Accounted, Queues
    <3>2. QED BY <1>1, <3>1 DEF AddRescued, RescueStep
  <2>2. QED
    BY <1>1, <1>13, <1>14, <1>15, <1>16, <2>1
       DEF MarkInv, AddRescued, RescueStep, spaceVars, walkVars, historyVars, MarkLabels
<1>18. QED BY <1>17


(* A slot or root holds no header bits. *)
LEMMA CellHolds ==
  ASSUME NEW m, NEW g, CellsHold(m, g), NEW l \in Location, IsCell(g, l)
  PROVE  Is("oop", m[l]) \/ Is("smi", m[l])
<1>1. (\E k : m[l] = Smi(k)) \/ (\E a \in Known(g) : m[l] = Oop(a))
  BY DEF CellsHold
<1>2. QED BY <1>1, Tags

(* Nil and the association are marked when the well-known roots have been   *)
(* followed, so that no weak reference to them is taken for one to a dead   *)
(* object.                                                                  *)
LEMMA NilMarked ==
  ASSUME NEW u, NEW g, NEW on, NEW fn, Heap(u, g, on, fn), NEW L, NEW M, NEW R, NEW T,
         Explored(u, g, L, M, R, T), WellKnownRoots < R,
         NEW W, W \subseteq DOMAIN g, \A l \in T : InWaiting(g, W, l),
         NEW c, AllKept(c, g, u), Heap(c, g, on, fn), LeadsToNil(c)
  PROVE  Nil \in M /\ Association \in M
<1>1. Placement(g, on, fn) /\ CellsHold(u, g) /\ CellsHold(c, g) /\ R \in Nat
  BY Numbers DEF Heap, Explored
<1>2. /\ Association \in Known(g) /\ Nil \in Known(g) /\ Association \in Nat /\ Association \notin DOMAIN g
      /\ WellKnownRoots \in Location /\ WellKnownRoots \in Nat /\ WellKnownRoots < OldBase
      /\ Association - 1 \in SlotsAt(g, Association)
  <2>1. \A b \in DOMAIN g : b \in Nat /\ OldBase + 2 <= b
    BY <1>1, Extents
  <2>2. Association \in Nat /\ Association <= 6 /\ WellKnownRoots = 7
    BY Numbers
  <2>3. Association \notin DOMAIN g
    BY <2>1, <2>2, Bounds
  <2>4. QED BY <1>1, <2>2, <2>3, KnownCells, Numbers, Bounds DEF Known, SlotsAt, SizeAt, LibraryObjects
<1>3. \A l \in T : OldBase + 2 <= l
  <2>1. \A b \in DOMAIN g : b \in Nat /\ OldBase + 2 <= b
    BY <1>1, Extents
  <2>2. SUFFICES ASSUME NEW l \in T PROVE OldBase + 2 <= l
    OBVIOUS
  <2>3. PICK a \in W : a <= l
    BY DEF InWaiting
  <2>4. l \in Nat /\ a \in DOMAIN g
    BY <2>3, Bounds DEF Explored
  <2>5. QED BY <2>1, <2>3, <2>4, Bounds
<1>4. Association \in M
  <2>1. Reached(g, M, R, WellKnownRoots) /\ WellKnownRoots \notin T
    BY <1>2, <1>3, Bounds DEF Reached
  <2>2. u[WellKnownRoots] = Oop(Association)
    BY <1>1 DEF CellsHold
  <2>3. QED BY <1>2, <2>1, <2>2 DEF Explored
<1>5. PICK l : l = Association - 1
  OBVIOUS
<1>6. l \in Location /\ l < OldBase /\ l \in Nat
  BY <1>1, <1>2, <1>5, SlotIsCell, Numbers, Bounds
<1>7. u[l] = Oop(Nil)
  <2>1. c[l] = Oop(Nil) /\ ~Is("bits", c[l])
    BY <1>5, Tags DEF LeadsToNil
  <2>2. ~InWeak(g, l)
    <3>1. \A b \in DOMAIN g : b \in Nat /\ OldBase + 2 <= b
      BY <1>1, Extents
    <3>2. QED BY <1>6, <3>1, Bounds DEF InWeak
  <2>3. ~(QueueArray <= l)
    BY <1>6, Numbers, Bounds
  <2>4. QED BY <1>6, <2>1, <2>2, <2>3 DEF AllKept, Kept
<1>8. Reached(g, M, R, l) /\ l \notin T
  BY <1>2, <1>3, <1>4, <1>5, <1>6, Bounds DEF Reached
<1>9. Nil \in M
  BY <1>2, <1>6, <1>7, <1>8 DEF Explored
<1>10. QED BY <1>4, <1>9

LEMMA MarkFixWeakContainer ==
  ASSUME NEW g, NEW u, NEW L, NEW M, NEW T, MarkInv(g, u, L, M, T), FixWeakContainer
  PROVE  \E u2 : MarkInv(g, u2, L, M, T)'
<1>1. /\ NextRoot' = NextRoot /\ FirstUnknown = 1 /\ FirstUnknown' = 1 /\ FirstWeak = i
      /\ FirstWeak' = i + 1 /\ i \in Nat \ {0} /\ i <= Len(weakContainers) /\ ~Traversing
      /\ i' = i + 1
  BY DEF FixWeakContainer, At, FirstUnknown, FirstWeak, NextRoot, MarkInv
<1>2. ~(scan.index < scan.limit) /\ stack = << >>
  BY <1>1, NotTraversing
<1>3. PICK c, W, W2 :
        /\ c = weakContainers[i]
        /\ W = WaitSet(ephemerons, unknowns, weakContainers, 1, i)
        /\ W2 = WaitSet(ephemerons, unknowns, weakContainers, 1, i + 1)
  OBVIOUS
<1>4. /\ Queues(g, M, ephemerons, unknowns, weakContainers, 1, i)
      /\ Divided(g, M, scan, stack, W) /\ T = Todo(g, scan, stack, W)
  BY <1>1, <1>3 DEF MarkInv, Accounted
<1>5. /\ Queues(g, M, ephemerons, unknowns, weakContainers, 1, i + 1)
      /\ W2 = Without(W, c) /\ c \in W /\ ~g[c].ephemeron /\ c \in DOMAIN g
  <2>1. PICK j, k : j = i /\ k = 1
    OBVIOUS
  <2>2. /\ Queues(g, M, ephemerons, unknowns, weakContainers, k, j)
        /\ j <= Len(weakContainers) /\ c = weakContainers[j]
    BY <1>1, <1>3, <1>4, <2>1
  <2>3. /\ Queues(g, M, ephemerons, unknowns, weakContainers, k, j + 1)
        /\ WaitSet(ephemerons, unknowns, weakContainers, k, j + 1)
             = Without(WaitSet(ephemerons, unknowns, weakContainers, k, j), c)
        /\ c \in WaitSet(ephemerons, unknowns, weakContainers, k, j)
        /\ ~g[c].ephemeron /\ c \in DOMAIN g
    BY <2>2, TakeWeak
  <2>4. QED BY <1>3, <2>1, <2>3
<1>6. g[c].weak
  BY <1>4, <1>5 DEF Divided
<1>7. /\ Heap(u, g, oldNextFree, fromNextFree) /\ Threads(memory, u, g, L)
      /\ Explored(u, g, L, M, NextRoot, T) /\ Placement(g, oldNextFree, fromNextFree)
      /\ AllKept(copy, g, u) /\ CellsHold(copy, g)
  BY DEF MarkInv, Heap
<1>8. WeakSize(c) = g[c].size
  BY <1>5, <1>7, ObjectRead DEF WeakSize
<1>9. PICK dead : dead = {l \in c .. c + WeakSize(c) - 1 :
                            Is("oop", memory[l]) /\ ~HasBeenSeen(Value(memory[l]))}
  OBVIOUS
<1>10. /\ c \in Nat /\ g[c].size \in Nat /\ c \in Known(g) /\ SizeAt(g, c) = g[c].size
  BY <1>5, <1>7, KnownObject DEF Known
<1>11. \A l \in dead : l \in SlotsAt(g, c) /\ l \in Int /\ c <= l /\ l < c + g[c].size
  BY <1>8, <1>9, <1>10 DEF SlotsAt
<1>12. \A l \in dead : l \in Location
  BY <1>7, <1>10, <1>11, SlotIsCell
<1>13. dead \in SUBSET T
  <2>1. \A l \in dead : InWaiting(g, W, l)
    BY <1>5, <1>10, <1>11 DEF InWaiting
  <2>2. QED BY <1>4, <1>12, <2>1 DEF Todo
<1>14. OfWeakObjects(g, dead)
  BY <1>5, <1>6, <1>11 DEF OfWeakObjects
<1>15. PICK u2 : u2 = [l \in Location |-> IF l \in dead THEN Oop(ResidueObject) ELSE u[l]]
  OBVIOUS
<1>16. /\ DOMAIN u2 = Location
       /\ \A l \in Location : u2[l] = IF l \in dead THEN Oop(ResidueObject) ELSE u[l]
  BY <1>15
<1>17. memory' = [l \in Location |-> IF l \in dead THEN Oop(ResidueObject) ELSE memory[l]]
  BY <1>3, <1>9 DEF FixWeakContainer
<1>18. Tombstoned(u, u2, dead) /\ Tombstoned(memory, memory', dead)
  BY <1>16, <1>17 DEF Tombstoned
<1>19. /\ Heap(u2, g, oldNextFree, fromNextFree) /\ Threads(memory', u2, g, L)
       /\ Explored(u2, g, L, M, NextRoot, T)
  BY <1>7, <1>13, <1>14, <1>18, TombstonesSet
<1>20. AllKept(copy, g, u2)
  <2>1. ASSUME NEW l \in Location PROVE Kept(copy, g, l, u2[l])
    <3>1. CASE l \notin dead
      BY <1>7, <1>16, <3>1 DEF AllKept
    <3>2. CASE l \in dead
      <4>1. u2[l] = Oop(ResidueObject)
        BY <1>16, <3>2
      <4>2. InWeak(g, l)
        BY <1>5, <1>6, <1>11, <3>2 DEF InWeak
      <4>3. ~Is("bits", copy[l])
        BY <1>7, <1>10, <1>11, <3>2, CellHolds, OneTag DEF IsCell
      <4>4. QED BY <4>1, <4>2, <4>3 DEF Kept
    <3>3. QED BY <3>1, <3>2
  <2>2. QED BY <2>1 DEF AllKept
<1>21. scan' = Scan(c, g[c].size, 1)
  BY <1>3, <1>8 DEF FixWeakContainer
<1>22. Divided(g, M, scan', stack, W2) /\ Todo(g, scan', stack, W2) = Todo(g, scan, stack, W)
  BY <1>2, <1>4, <1>5, <1>7, <1>21, StartingWaiting
<1>23. Accounted(g, M, scan', stack', ephemerons', unknowns', weakContainers',
                 FirstUnknown', FirstWeak', T)
  BY <1>1, <1>3, <1>4, <1>5, <1>22 DEF Accounted, FixWeakContainer, localVars
<1>24. (collections <= 1 \/ NoEphemeronPlaced)
         => Narrow(copy, g, pc, u2, M, scan', stack, ephemerons, weakContainers)
  <2>1. SUFFICES ASSUME collections <= 1 \/ NoEphemeronPlaced
                 PROVE  Narrow(copy, g, pc, u2, M, scan', stack, ephemerons, weakContainers)
    OBVIOUS
  <2>2. /\ pc = "fixWeakContainers"
        /\ Narrow(copy, g, pc, u, M, scan, stack, ephemerons, weakContainers)
    BY <2>1 DEF FixWeakContainer, At, MarkInv
  <2>3. ephemerons = << >> /\ Leads(u, M, LateSlots) /\ Leads(u, M, Todo(g, scan, stack, {}))
    BY <2>2 DEF Narrow, LateLabels
  <2>4. LeadsOn(u, u2, M) /\ LeadsNoFurther(u, u2)
    BY <1>16, Tags DEF LateObjects, LeadsOn, LeadsNoFurther
  <2>5. \A S : (\A l \in S : l \in Location) /\ Leads(u, M, S) => Leads(u2, M, S)
    BY <2>4 DEF Leads, LeadsOn
  <2>6. Leads(u2, M, LateSlots)
    BY <2>3, <2>5, LateSlotsIn
  <2>7. ASSUME NEW l \in Location, c <= l, l < c + g[c].size, l \notin dead,
               NEW x, u[l] = Oop(x)
        PROVE  x \in M
    <3>1. /\ InWaiting(g, W, l) /\ l \in c .. c + WeakSize(c) - 1 /\ l \in SlotsAt(g, c)
      BY <1>5, <1>8, <1>10, <2>7, Bounds DEF InWaiting, SlotsAt
    <3>2. l \in T /\ IsCell(g, l)
      BY <1>4, <1>10, <2>7, <3>1 DEF Todo, IsCell
    <3>3. memory[l] = u[l]
      BY <1>7, <3>2, Untouched
    <3>4. /\ Is("oop", memory[l]) /\ Value(memory[l]) = x /\ x \in Known(g)
      <4>1. \E a \in Known(g) \cup {QueueArray} : u[l] = Oop(a)
        <5>1. CellsHold(u, g) /\ (\A n : u[l] # Smi(n))
          BY <1>7, <2>7, Tags DEF Heap
        <5>2. QED BY <2>7, <3>2, <5>1 DEF CellsHold
      <4>2. QueueArray \in Known(g)
        BY <1>7, KnownCells DEF Known
      <4>3. x \in Known(g)
        <5>1. PICK a \in Known(g) \cup {QueueArray} : Oop(x) = Oop(a)
          BY <2>7, <4>1
        <5>2. x = a
          <6>1. Value(Oop(x)) = x /\ Value(Oop(a)) = a
            BY Tags
          <6>2. QED BY <5>1, <6>1
        <5>3. QED BY <4>2, <5>2
      <4>4. memory[l] = Oop(x)
        BY <2>7, <3>3
      <4>5. QED BY <4>3, <4>4, Tags
    <3>5. HasBeenSeen(x)
      BY <1>9, <2>7, <3>1, <3>4
    <3>6. CASE x \in DOMAIN g
      BY <1>7, <3>5, <3>6, ObjectRead DEF HasBeenSeen
    <3>7. CASE x \in LibraryObjects
      BY <1>7, <3>5, <3>7, LibraryObjectRead DEF HasBeenSeen
    <3>8. QED BY <3>4, <3>6, <3>7 DEF Known
  <2>8. Leads(u2, M, Todo(g, scan', stack, {}))
    <3>1. SUFFICES ASSUME NEW l \in Todo(g, scan', stack, {}), NEW x, u2[l] = Oop(x)
                   PROVE  x \in M \cup LateObjects
      BY DEF Leads
    <3>2. l \in Location /\ InScans(scan', stack, l)
      BY DEF Todo, InWaiting
    <3>3. c <= l /\ l < c + g[c].size /\ l \in Int
      <4>1. Ahead(scan', l) /\ l \in Int
        BY <1>2, <3>2, Bounds DEF InScans
      <4>2. QED BY <1>10, <1>21, <4>1, ScanAhead
    <3>4. CASE l \in dead
      BY <1>16, <3>1, <3>2, <3>4, Tags DEF LateObjects
    <3>5. CASE l \notin dead
      BY <1>16, <2>7, <3>1, <3>2, <3>3, <3>5
    <3>6. QED BY <3>4, <3>5
  <2>9. NoEphemeronPlaced => NoEphemeron(g) /\ Entombed(pc, copy, g, u2, M)
    <3>1. SUFFICES ASSUME NoEphemeronPlaced PROVE Entombed(pc, copy, g, u2, M)
      BY <2>2 DEF Narrow
    <3>2. LeadsNowhere(u) /\ LeadsToNil(copy) /\ Buried(copy, g, u, M)
      BY <2>2, <3>1 DEF Narrow, Entombed, LateLabels
    <3>3. LeadsNowhere(u2)
      BY <2>4, <3>2, LateSlotsIn DEF LeadsNowhere, LeadsNoFurther
    <3>4. Nil \in M /\ Association \in M
      <4>1. \A l \in T : InWaiting(g, W, l)
        BY <1>2, <1>4, Exhausted
      <4>2. WellKnownRoots < NextRoot /\ Heap(copy, g, oldNextFree, fromNextFree)
        BY <2>2, Numbers DEF NextRoot, MarkInv
      <4>3. W \subseteq DOMAIN g
        BY <1>4 DEF Divided
      <4>4. QED BY <1>7, <3>2, <4>1, <4>2, <4>3, NilMarked
    <3>5. \A l \in dead : u[l] = Oop(ResidueObject) \/ \E b \in Objs(g) : u[l] = Oop(b) /\ b \notin M
      <4>1. SUFFICES ASSUME NEW l \in dead
                     PROVE  u[l] = Oop(ResidueObject) \/ \E b \in Objs(g) : u[l] = Oop(b) /\ b \notin M
        OBVIOUS
      <4>2. l \in T /\ l \in Location /\ IsCell(g, l) /\ l # RescuedEphemerons /\ memory[l] = u[l]
        <5>1. l \in T /\ l \in Location /\ l \in SlotsAt(g, c) /\ l \notin Roots
          BY <1>7, <1>10, <1>11, <1>12, <1>13, SlotIsCell
        <5>2. RescuedEphemerons \in Roots
          BY Numbers DEF Roots
        <5>3. memory[l] = u[l]
          BY <1>7, <5>1, Untouched
        <5>4. QED BY <1>10, <5>1, <5>2, <5>3 DEF IsCell
      <4>3. /\ Is("oop", u[l]) /\ ~HasBeenSeen(Value(u[l]))
        BY <1>9, <4>2
      <4>4. l # QueueArray
        BY <1>7, <4>3, Tags DEF Heap, CellsHold
      <4>5. PICK b \in Known(g) : u[l] = Oop(b) /\ b # QueueArray
        BY <1>7, <4>2, <4>4 DEF Heap, CellsHold
      <4>6. ~HasBeenSeen(b)
        BY <4>3, <4>5, Tags
      <4>7. CASE b \in DOMAIN g
        <5>1. b \notin M
          BY <1>7, <4>6, <4>7, ObjectRead DEF HasBeenSeen
        <5>2. QED BY <4>5, <4>7, <5>1 DEF Objs
      <4>8. CASE b \in LibraryObjects
        <5>1. b \notin M
          BY <1>7, <4>6, <4>8, LibraryObjectRead DEF HasBeenSeen
        <5>2. b = ResidueObject
          BY <3>4, <4>8, <5>1 DEF LibraryObjects
        <5>3. QED BY <4>5, <5>2
      <4>9. QED BY <4>7, <4>8 DEF Known
    <3>6. Buried(copy, g, u2, M)
      BY <1>16, <3>2, <3>5 DEF Buried
    <3>7. QED BY <2>2, <3>2, <3>3, <3>6 DEF Entombed, LateLabels
  <2>10. QED BY <2>2, <2>3, <2>6, <2>8, <2>9 DEF Narrow, LateLabels
<1>25. MarkInv(g, u2, L, M, T)'
  <2>1. UNCHANGED <<spaceVars, rememberedSet, localVars, stack, rescan, walkVars, pc, historyVars>>
        /\ pc = "fixWeakContainers"
    BY DEF FixWeakContainer, At
  <2>2. QED
    BY <1>1, <1>19, <1>20, <1>23, <1>24, <2>1
       DEF MarkInv, spaceVars, localVars, walkVars, historyVars
<1>26. QED BY <1>25

LEMMA MarkWeakContainersFixed ==
  ASSUME NEW g, NEW u, NEW L, NEW M, NEW T, MarkInv(g, u, L, M, T), WeakContainersFixed
  PROVE  MarkInv(g, u, L, M, T)'
<1>1. /\ NextRoot' = NextRoot /\ FirstUnknown = 1 /\ FirstUnknown' = 1 /\ FirstWeak = i
      /\ FirstWeak' = 1 /\ i > Len(weakContainers)
  BY DEF WeakContainersFixed, At, GoTo, FirstUnknown, FirstWeak, NextRoot
<1>2. Queues(g, M, ephemerons, unknowns, weakContainers, 1, i)
  BY <1>1 DEF MarkInv, Accounted
<1>3. /\ Queues(g, M, ephemerons, unknowns, << >>, 1, 1)
      /\ WaitSet(ephemerons, unknowns, << >>, 1, 1)
           = WaitSet(ephemerons, unknowns, weakContainers, 1, i)
  BY <1>1, <1>2, DropWeak
<1>4. /\ ephemerons' = ephemerons /\ unknowns' = unknowns /\ weakContainers' = << >>
      /\ scan' = scan /\ stack' = stack
  BY DEF WeakContainersFixed, scanVars
<1>5. Accounted(g, M, scan', stack, ephemerons', unknowns', weakContainers',
                FirstUnknown', FirstWeak', T)
  BY <1>1, <1>3, <1>4 DEF MarkInv, Accounted
<1>6. (collections <= 1 \/ NoEphemeronPlaced)
        => Narrow(copy, g, pc', u, M, scan', stack, ephemerons', weakContainers')
  <2>1. pc = "fixWeakContainers" /\ pc' = "followRescuedEphemerons"
    BY DEF WeakContainersFixed, At, GoTo
  <2>2. (collections <= 1 \/ NoEphemeronPlaced)
          => Narrow(copy, g, pc, u, M, scan, stack, ephemerons, weakContainers)
    BY DEF MarkInv
  <2>3. QED BY <1>4, <2>1, <2>2 DEF Narrow, Entombed, LateLabels
<1>7. QED
  BY <1>1, <1>4, <1>5, <1>6, QueueStep DEF WeakContainersFixed, At, GoTo, MarkLabels, MarkInv

(* The steps of marking. *)
MarkStep ==
  \/ FollowWellKnownObjects \/ FollowStack \/ FollowExtraRoots
  \/ FollowCountStartingAt \/ RescueEphemerons
  \/ FixWeakContainer \/ WeakContainersFixed \/ FollowRescuedEphemerons

LEMMA MarkKeepsInv ==
  ASSUME NEW g, NEW u, NEW L, NEW M, NEW T, MarkInv(g, u, L, M, T), MarkStep
  PROVE  \E u2, L2, M2, T2 : MarkInv(g, u2, L2, M2, T2)'
<1>1. CASE FollowWellKnownObjects \/ FollowStack \/ FollowExtraRoots \/ FollowRescuedEphemerons
  BY <1>1, MarkFollowRoots
<1>2. CASE FollowCountStartingAt
  BY <1>2, MarkFollowCountStartingAt
<1>3. CASE RescueEphemerons
  <2>1. CASE LookForEphemerons
    BY <2>1, MarkLookForEphemerons
  <2>2. CASE FollowEphemeron
    BY <2>2, MarkFollowEphemeron
  <2>3. CASE CollectUnknown
    BY <2>3, MarkCollectUnknown
  <2>4. CASE Rescan
    BY <2>4, MarkRescan
  <2>5. CASE RescueUnknowns
    BY <2>5, MarkRescueUnknowns
  <2>6. CASE RescueEphemeron
    BY <2>6, MarkRescueEphemeron
  <2>7. CASE AddRescued
    BY <2>7, MarkAddRescued
  <2>8. CASE UnknownsRescued
    BY <2>8, MarkUnknownsRescued
  <2>9. CASE EphemeronsDecided
    BY <2>9, MarkEphemeronsDecided
  <2>10. QED
    BY <1>3, <2>1, <2>2, <2>3, <2>4, <2>5, <2>6, <2>7, <2>8, <2>9 DEF RescueEphemerons
<1>4. CASE FixWeakContainer
  BY <1>4, MarkFixWeakContainer
<1>5. CASE WeakContainersFixed
  BY <1>5, MarkWeakContainersFixed
<1>6. QED BY <1>1, <1>2, <1>3, <1>4, <1>5 DEF MarkStep


-----------------------------------------------------------------------------
(* What the invariant of marking says of the properties.                    *)
LEMMA MarkNoSlotThreadedTwice ==
  ASSUME NEW g, NEW u, NEW L, NEW M, NEW T, MarkInv(g, u, L, M, T)
  PROVE  NoSlotThreadedTwice
BY LookedAt DEF NoSlotThreadedTwice

LEMMA KeptAsSpecified ==
  ASSUME NEW g, Heap(copy, g, oldNextFree, fromNextFree), NEW l \in Location, NEW now,
         Kept(copy, g, l, now)
  PROVE  KeptAt(l, now)
<1>1. Placement(g, oldNextFree, fromNextFree) /\ CopiedObjects = DOMAIN g
  BY CopiedAreObjects DEF Heap
<1>2. Value(copy[RescuedEphemerons]) = QueueArray
  BY Tags DEF Heap, CellsHold
<1>3. l \in Int /\ QueueArray \in Int /\ QueueSize \in Nat
  BY Bounds, Numbers
<1>4. QueueArray <= l /\ l <= QueueArray + QueueSize => InQueue(l)
  BY <1>2, <1>3 DEF InQueue
<1>5. InWeak(g, l) => InWeakObject(l)
  <2>1. SUFFICES ASSUME NEW a \in DOMAIN g, g[a].weak, ~g[a].ephemeron, a <= l, l < a + g[a].size
                 PROVE  InWeakObject(l)
    BY DEF InWeak
  <2>2. a \in Nat /\ g[a].size \in Nat
    BY <1>1, Extents
  <2>3. l \in a .. a - 1 + g[a].size
    BY <1>3, <2>1, <2>2
  <2>4. /\ Value(copy[a - 2]).extended = g[a].extended /\ Value(copy[a - 2]).hasWeaks = g[a].weak
        /\ IF g[a].extended
           THEN copy[a - 3] = Extension([size |-> g[a].size, isEphemeron |-> g[a].ephemeron])
           ELSE Value(copy[a - 2]).size = g[a].size
    BY HeaderWord
  <2>5. CASE g[a].extended
    <3>1. Value(copy[a - 3]) = [size |-> g[a].size, isEphemeron |-> g[a].ephemeron]
      BY <2>4, <2>5, Tags
    <3>2. Value(copy[a - 3]).size = g[a].size /\ Value(copy[a - 3]).isEphemeron = g[a].ephemeron
      BY <3>1
    <3>3. QED BY <1>1, <2>1, <2>3, <2>4, <2>5, <3>2 DEF InWeakObject
  <2>6. CASE ~g[a].extended
    BY <1>1, <2>1, <2>3, <2>4, <2>6 DEF InWeakObject
  <2>7. QED BY <2>5, <2>6
<1>6. QED BY <1>4, <1>5 DEF Kept, KeptAt

LEMMA MarkThreadsUndoable ==
  ASSUME NEW g, NEW u, NEW L, NEW M, NEW T, MarkInv(g, u, L, M, T)
  PROVE  ThreadsUndoable
<1>1. ASSUME NEW l \in Location PROVE KeptAt(l, Undone(l))
  <2>1. /\ Heap(u, g, oldNextFree, fromNextFree) /\ Heap(copy, g, oldNextFree, fromNextFree)
        /\ Threads(memory, u, g, L) /\ Kept(copy, g, l, u[l])
    BY DEF MarkInv, AllKept
  <2>2. Undone(l) = u[l]
    BY <2>1, CopiedAreObjects, UndoneWord
  <2>3. QED BY <2>1, <2>2, KeptAsSpecified
<1>2. QED BY <1>1 DEF ThreadsUndoable

=============================================================================
