-------------------------- MODULE CompactionProofs --------------------------
(***************************************************************************)
(* Theorems about MarkAndCompactGC: the walks that undo the lists and move *)
(* the objects, the invariants of each, and the cycle of the collections:  *)
(* the operations of the program and the four phases of a collection.      *)
(***************************************************************************)
EXTENDS MarkingProofs, FiniteSetTheorems

(* The words of marked objects, and where an object that begins at b goes:  *)
(* behind the marked words in front of it.                                  *)
MarkedWords(g, M) ==
  {l \in Location : \E a \in M : a \in DOMAIN g /\ Start(g, a) <= l /\ l < End(g, a)}
MarkedFrom(g, M, b, c) == {l \in MarkedWords(g, M) : b <= l /\ l < c}
Pos(g, M, b) == OldBase + Cardinality(MarkedFrom(g, M, OldBase, b))
New(g, M, a) == Pos(g, M, Start(g, a)) + HeaderSize(g[a])

LEMMA MarkedCounted ==
  ASSUME NEW g, NEW M, NEW b \in Nat, NEW c \in Nat
  PROVE  /\ IsFiniteSet(MarkedFrom(g, M, b, c))
         /\ Cardinality(MarkedFrom(g, M, b, c)) \in Nat
         /\ b <= c => Cardinality(MarkedFrom(g, M, b, c)) <= c - b
<1>1. PICK S : S = b .. c - 1
  OBVIOUS
<1>2. IsFiniteSet(S) /\ Cardinality(S) = IF b > c - 1 THEN 0 ELSE c - b
  BY <1>1, FS_Interval
<1>3. PICK T : T = MarkedFrom(g, M, b, c)
  OBVIOUS
<1>4. T \in SUBSET S
  BY <1>1, <1>3, Bounds DEF MarkedFrom, MarkedWords
<1>5. IsFiniteSet(T) /\ Cardinality(T) <= Cardinality(S)
  BY <1>2, <1>4, FS_Subset
<1>6. Cardinality(T) \in Nat
  BY <1>5, FS_CardinalityType
<1>7. QED BY <1>2, <1>3, <1>5, <1>6

(* The position behind a range is the one before it and the marked words.   *)
LEMMA PosBehind ==
  ASSUME NEW g, NEW M, NEW b \in Nat, NEW c \in Nat, OldBase <= b, b <= c
  PROVE  /\ Pos(g, M, b) \in Nat /\ Pos(g, M, c) \in Nat
         /\ Pos(g, M, c) = Pos(g, M, b) + Cardinality(MarkedFrom(g, M, b, c))
         /\ Pos(g, M, b) <= Pos(g, M, c) /\ Pos(g, M, c) <= Pos(g, M, b) + (c - b)
<1>1. PICK S : S = MarkedFrom(g, M, OldBase, b)
  OBVIOUS
<1>2. PICK T : T = MarkedFrom(g, M, b, c)
  OBVIOUS
<1>3. PICK U : U = MarkedFrom(g, M, OldBase, c)
  OBVIOUS
<1>4. OldBase \in Nat
  BY Bounds
<1>5. IsFiniteSet(S) /\ Cardinality(S) \in Nat
  BY <1>1, <1>4, MarkedCounted
<1>6. IsFiniteSet(T) /\ Cardinality(T) \in Nat /\ Cardinality(T) <= c - b
  BY <1>2, MarkedCounted
<1>7. S \cap T = {} /\ U = S \cup T
  BY <1>1, <1>2, <1>3, <1>4, Bounds DEF MarkedFrom, MarkedWords
<1>8. Cardinality(U) = Cardinality(S) + Cardinality(T) - Cardinality(S \cap T)
  BY <1>5, <1>6, <1>7, FS_Union
<1>9. Cardinality(S \cap T) = 0
  BY <1>7, FS_EmptySet
<1>10. QED BY <1>1, <1>2, <1>3, <1>4, <1>5, <1>6, <1>8, <1>9 DEF Pos

LEMMA PosAtBase ==
  ASSUME NEW g, NEW M
  PROVE  Pos(g, M, OldBase) = OldBase
<1>1. MarkedFrom(g, M, OldBase, OldBase) = {}
  BY Bounds DEF MarkedFrom, MarkedWords
<1>2. QED BY <1>1, FS_EmptySet, Bounds DEF Pos


(* An object takes its words when it is marked, and there are none between  *)
(* the two spaces.                                                          *)
LEMMA PosOfObject ==
  ASSUME NEW g, NEW on, NEW fn, Placement(g, on, fn), NEW M, NEW a \in DOMAIN g
  PROVE  /\ Start(g, a) \in Nat /\ End(g, a) \in Nat /\ Start(g, a) < End(g, a)
         /\ OldBase <= Start(g, a)
         /\ Pos(g, M, Start(g, a)) \in Nat /\ Pos(g, M, End(g, a)) \in Nat
         /\ a \in M => Pos(g, M, End(g, a)) = Pos(g, M, Start(g, a)) + (End(g, a) - Start(g, a))
         /\ a \notin M => Pos(g, M, End(g, a)) = Pos(g, M, Start(g, a))
<1>1. /\ Start(g, a) \in Nat /\ End(g, a) \in Nat /\ Start(g, a) < End(g, a)
      /\ OldBase <= Start(g, a) /\ End(g, a) <= FromEnd
  <2>1. /\ a \in Nat /\ g[a].size \in Nat
        /\ Start(g, a) = a - (IF g[a].extended THEN 3 ELSE 2) /\ End(g, a) = a + g[a].size
        /\ OldBase <= Start(g, a) /\ End(g, a) <= FromEnd
    BY Extents
  <2>2. OldBase \in Nat
    BY Bounds
  <2>3. QED BY <2>1, <2>2
<1>2. PICK b, c : b = Start(g, a) /\ c = End(g, a)
  OBVIOUS
<1>3. /\ Pos(g, M, b) \in Nat /\ Pos(g, M, c) \in Nat
      /\ Pos(g, M, c) = Pos(g, M, b) + Cardinality(MarkedFrom(g, M, b, c))
  BY <1>1, <1>2, PosBehind
<1>4. CASE a \in M
  <2>1. MarkedFrom(g, M, b, c) = b .. c - 1
    BY <1>1, <1>2, <1>4, Bounds DEF MarkedFrom, MarkedWords
  <2>2. Cardinality(b .. c - 1) = c - b
    BY <1>1, <1>2, FS_Interval
  <2>3. QED BY <1>1, <1>2, <1>3, <1>4, <2>1, <2>2
<1>5. CASE a \notin M
  <2>1. ASSUME NEW l \in MarkedFrom(g, M, b, c) PROVE FALSE
    <3>1. PICK d \in M : d \in DOMAIN g /\ Start(g, d) <= l /\ l < End(g, d)
      BY DEF MarkedFrom, MarkedWords
    <3>2. l \in Int /\ b <= l /\ l < c
      BY Bounds DEF MarkedFrom, MarkedWords
    <3>3. a = d \/ l = End(g, a)
      BY <1>1, <1>2, <3>1, <3>2, Apart
    <3>4. QED BY <1>1, <1>2, <1>5, <3>1, <3>2, <3>3
  <2>2. MarkedFrom(g, M, b, c) = {}
    BY <2>1
  <2>3. QED BY <1>1, <1>2, <1>3, <1>5, <2>2, FS_EmptySet
<1>6. QED BY <1>4, <1>5

LEMMA PosBetweenSpaces ==
  ASSUME NEW g, NEW on, NEW fn, Placement(g, on, fn), NEW M
  PROVE  Pos(g, M, FromBase) = Pos(g, M, on)
<1>1. on \in Nat /\ OldBase <= on /\ on <= FromBase
  BY Bounds DEF Placement
<1>2. ASSUME NEW l \in MarkedFrom(g, M, on, FromBase) PROVE FALSE
  <2>1. PICK d \in M : d \in DOMAIN g /\ Start(g, d) <= l /\ l < End(g, d)
    BY DEF MarkedFrom, MarkedWords
  <2>2. l \in Int /\ on <= l /\ l < FromBase
    BY Bounds DEF MarkedFrom, MarkedWords
  <2>3. QED BY <1>1, <2>1, <2>2, Extents, Bounds
<1>3. MarkedFrom(g, M, on, FromBase) = {}
  BY <1>2
<1>4. Cardinality(MarkedFrom(g, M, on, FromBase)) = 0
  BY <1>3, FS_EmptySet
<1>5. FromBase \in Nat
  BY Bounds
<1>6. /\ Pos(g, M, on) \in Nat
      /\ Pos(g, M, FromBase) = Pos(g, M, on) + Cardinality(MarkedFrom(g, M, on, FromBase))
  BY <1>1, <1>5, PosBehind
<1>7. QED BY <1>4, <1>6

(* Objects move towards the beginning of old space, and all fit there.      *)
LEMMA PosBelow ==
  ASSUME NEW g, NEW on, NEW fn, Placement(g, on, fn), NEW M,
         NEW b \in Nat, OldBase <= b
  PROVE  /\ Pos(g, M, b) \in Nat /\ OldBase <= Pos(g, M, b) /\ Pos(g, M, b) <= b
         /\ b <= fn => Pos(g, M, b) <= FromBase
<1>1. /\ on \in Nat /\ OldBase <= on /\ on <= FromBase /\ fn \in Nat /\ FromBase <= fn
      /\ on + fn <= 2 * FromBase /\ OldBase \in Nat /\ FromBase \in Nat
  BY Bounds DEF Placement
<1>2. Pos(g, M, OldBase) = OldBase
  BY PosAtBase
<1>3. Pos(g, M, b) \in Nat /\ OldBase <= Pos(g, M, b) /\ Pos(g, M, b) <= b
  BY <1>1, <1>2, PosBehind
<1>4. Pos(g, M, on) \in Nat /\ Pos(g, M, on) <= on /\ Pos(g, M, FromBase) = Pos(g, M, on)
  BY <1>1, <1>2, PosBehind, PosBetweenSpaces
<1>5. CASE b <= FromBase
  BY <1>1, <1>3, <1>5
<1>6. CASE FromBase <= b
  <2>1. Pos(g, M, b) <= Pos(g, M, FromBase) + (b - FromBase)
    BY <1>1, <1>6, PosBehind
  <2>2. QED BY <1>1, <1>3, <1>4, <1>6, <2>1
<1>7. QED BY <1>1, <1>5, <1>6

LEMMA NewPlace ==
  ASSUME NEW g, NEW on, NEW fn, Placement(g, on, fn), NEW M, NEW a \in DOMAIN g, a \in M
  PROVE  /\ New(g, M, a) \in Nat /\ New(g, M, a) \in Location /\ New(g, M, a) <= a
         /\ OldBase + 2 <= New(g, M, a) /\ g[a].size \in Nat
         /\ Pos(g, M, Start(g, a)) \in Nat /\ OldBase <= Pos(g, M, Start(g, a))
         /\ Pos(g, M, Start(g, a)) <= Start(g, a)
         /\ New(g, M, a) = Pos(g, M, Start(g, a)) + (IF g[a].extended THEN 3 ELSE 2)
         /\ New(g, M, a) + g[a].size = Pos(g, M, End(g, a))
         /\ New(g, M, a) + g[a].size <= Pos(g, M, fn) /\ Pos(g, M, fn) <= FromBase
         /\ a - New(g, M, a) = Start(g, a) - Pos(g, M, Start(g, a))
         /\ a - New(g, M, a) \in Nat
<1>1. /\ a \in Nat /\ g[a].size \in Nat
      /\ Start(g, a) = a - (IF g[a].extended THEN 3 ELSE 2)
      /\ HeaderSize(g[a]) = (IF g[a].extended THEN 3 ELSE 2)
      /\ End(g, a) = a + g[a].size /\ OldBase <= Start(g, a) /\ End(g, a) <= fn /\ fn \in Nat
      /\ OldBase \in Nat /\ FromBase \in Nat /\ FromBase <= FromEnd /\ FromEnd \in Nat
      /\ Location = 0 .. FromEnd + 2
  BY Extents, Bounds
<1>2. /\ Start(g, a) \in Nat /\ End(g, a) \in Nat /\ OldBase <= End(g, a)
      /\ Pos(g, M, End(g, a)) = Pos(g, M, Start(g, a)) + (End(g, a) - Start(g, a))
  <2>1. /\ Start(g, a) \in Nat /\ End(g, a) \in Nat /\ Start(g, a) < End(g, a)
        /\ OldBase <= Start(g, a)
        /\ Pos(g, M, End(g, a)) = Pos(g, M, Start(g, a)) + (End(g, a) - Start(g, a))
    BY PosOfObject
  <2>2. QED BY <1>1, <2>1
<1>3. /\ Pos(g, M, Start(g, a)) \in Nat /\ OldBase <= Pos(g, M, Start(g, a))
      /\ Pos(g, M, Start(g, a)) <= Start(g, a)
  BY <1>1, <1>2, PosBelow
<1>4. /\ Pos(g, M, End(g, a)) \in Nat /\ Pos(g, M, fn) \in Nat
      /\ Pos(g, M, End(g, a)) <= Pos(g, M, fn)
  BY <1>1, <1>2, PosBehind
<1>5. Pos(g, M, fn) <= FromBase
  <2>1. OldBase <= fn
    BY <1>1, <1>2
  <2>2. QED BY <1>1, <2>1, PosBelow
<1>6. New(g, M, a) = Pos(g, M, Start(g, a)) + (IF g[a].extended THEN 3 ELSE 2)
  BY <1>1 DEF New
<1>7. PICK h \in {2, 3} : h = IF g[a].extended THEN 3 ELSE 2
  OBVIOUS
<1>8. PICK s, e, p, q, n, z : /\ s = Start(g, a) /\ e = End(g, a) /\ p = Pos(g, M, Start(g, a))
                              /\ q = Pos(g, M, End(g, a)) /\ n = New(g, M, a) /\ z = g[a].size
  OBVIOUS
<1>9. /\ a \in Nat /\ z \in Nat /\ s = a - h /\ e = a + z /\ s \in Nat /\ e \in Nat /\ p \in Nat
      /\ q = p + (e - s) /\ p <= s /\ OldBase <= p /\ n = p + h /\ OldBase \in Nat
  BY <1>1, <1>2, <1>3, <1>6, <1>7, <1>8
<1>10. /\ n \in Nat /\ n <= a /\ OldBase + 2 <= n /\ n + z = q /\ a - n = s - p /\ a - n \in Nat
  BY <1>9
<1>11. n \in Location
  <2>1. a \in Location
    BY KnownObject DEF Known
  <2>2. QED BY <1>9, <1>10, <2>1, Bounds
<1>12. QED BY <1>3, <1>4, <1>5, <1>6, <1>8, <1>9, <1>10, <1>11

LEMMA NewInOrder ==
  ASSUME NEW g, NEW on, NEW fn, Placement(g, on, fn), NEW M,
         NEW a \in DOMAIN g, a \in M, NEW b \in DOMAIN g, a < b
  PROVE  /\ End(g, a) <= Start(g, b)
         /\ New(g, M, a) + g[a].size <= Pos(g, M, Start(g, b))
         /\ b \in M => New(g, M, a) < New(g, M, b)
<1>1. End(g, a) <= Start(g, b) /\ Start(g, b) \in Nat /\ End(g, a) \in Nat /\ OldBase <= End(g, a)
  <2>1. End(g, a) <= Start(g, b)
    BY DEF Placement
  <2>2. /\ Start(g, a) \in Nat /\ End(g, a) \in Nat /\ Start(g, a) < End(g, a)
        /\ OldBase <= Start(g, a) /\ Start(g, b) \in Nat /\ OldBase \in Nat
    BY PosOfObject, Bounds
  <2>3. QED BY <2>1, <2>2
<1>2. Pos(g, M, End(g, a)) <= Pos(g, M, Start(g, b)) /\ Pos(g, M, Start(g, b)) \in Nat
  BY <1>1, PosBehind
<1>3. New(g, M, a) + g[a].size = Pos(g, M, End(g, a)) /\ New(g, M, a) \in Nat /\ g[a].size \in Nat
  BY NewPlace
<1>4. b \in M => New(g, M, b) >= Pos(g, M, Start(g, b)) + 2
  BY <1>2, NewPlace
<1>5. b \in M => New(g, M, b) \in Nat
  BY NewPlace
<1>6. QED BY <1>1, <1>2, <1>3, <1>4, <1>5

(* Two objects are not moved to the same place, the queue stays where it is. *)
LEMMA NewDiffers ==
  ASSUME NEW g, NEW on, NEW fn, Placement(g, on, fn), NEW M,
         NEW a \in DOMAIN g, a \in M, NEW b \in DOMAIN g, b \in M
  PROVE  New(g, M, a) = New(g, M, b) => a = b
<1>1. a \in Nat /\ b \in Nat
  BY Extents
<1>2. a < b => New(g, M, a) < New(g, M, b)
  BY NewInOrder
<1>3. b < a => New(g, M, b) < New(g, M, a)
  BY NewInOrder
<1>4. New(g, M, a) \in Nat /\ New(g, M, b) \in Nat
  BY NewPlace
<1>5. QED BY <1>1, <1>2, <1>3, <1>4

LEMMA QueueStays ==
  ASSUME NEW g, NEW on, NEW fn, Placement(g, on, fn), NEW M
  PROVE  New(g, M, QueueArray) = QueueArray /\ Start(g, QueueArray) = OldBase
<1>1. QueueArray \in DOMAIN g /\ ~g[QueueArray].extended
  BY DEF Placement, QueueShape
<1>2. Start(g, QueueArray) = OldBase /\ HeaderSize(g[QueueArray]) = 2
  BY <1>1, Numbers DEF Start, HeaderSize
<1>3. QED BY <1>2, PosAtBase, Numbers DEF New


-----------------------------------------------------------------------------
(* Lists half undone.  Of the list of an object a, the slots from 1 to n[a] *)
(* are left; the others refer to where the object will be.  The header gets *)
(* its bits back with the last of them, when the walk, at b, is past it.    *)
SlotsLeft(m, u, g, L, M, n) ==
  \A a \in DOMAIN g : \A j \in 1 .. Len(L[a]) :
    m[L[a][j]] = IF j > n[a] THEN Oop(New(g, M, a))
                 ELSE IF j = 1 THEN u[a - 2] ELSE Link(L[a][j - 1])

SeenBits(u, a) == Bits([Value(u[a - 2]) EXCEPT !.unseenInSpace = FALSE])

HeadersLeft(m, u, g, L, b) ==
  \A a \in DOMAIN g : L[a] # << >> =>
    m[a - 2] = IF Start(g, a) < b THEN SeenBits(u, a) ELSE Link(L[a][Len(L[a])])

OthersLeft(m, u, L) == \A l \in Location : ~OnList(L, l) /\ ~HeadsList(L, l) => m[l] = u[l]

Walked(m, u, g, L, M, n, b) ==
  /\ DOMAIN m = Location
  /\ SlotsLeft(m, u, g, L, M, n) /\ HeadersLeft(m, u, g, L, b) /\ OthersLeft(m, u, L)

(* At the beginning every list is there.                                    *)
LEMMA WalkBegins ==
  ASSUME NEW u, NEW g, NEW on, NEW fn, Heap(u, g, on, fn), NEW m, NEW L, Threads(m, u, g, L), NEW M,
         NEW n, n = [a \in DOMAIN g |-> Len(L[a])]
  PROVE  Walked(m, u, g, L, M, n, OldBase)
<1>1. Lists(u, g, L) /\ Placement(g, on, fn)
  BY DEF Threads, Heap
<1>2. SlotsLeft(m, u, g, L, M, n)
  <2>1. SUFFICES ASSUME NEW a \in DOMAIN g, NEW j \in 1 .. Len(L[a])
                 PROVE  m[L[a][j]] = IF j > n[a] THEN Oop(New(g, M, a))
                                     ELSE IF j = 1 THEN u[a - 2] ELSE Link(L[a][j - 1])
    BY DEF SlotsLeft
  <2>2. Len(L[a]) \in Nat /\ L[a] # << >> /\ n[a] = Len(L[a])
    BY <1>1, <2>1, Listed
  <2>3. Chained(m, u, L, a)
    BY <2>2 DEF Threads
  <2>4. j = 1 \/ j \in 2 .. Len(L[a])
    BY <2>2
  <2>5. QED BY <2>2, <2>3, <2>4 DEF Chained
<1>3. HeadersLeft(m, u, g, L, OldBase)
  <2>1. \A a \in DOMAIN g : ~(Start(g, a) < OldBase)
    BY <1>1, Extents, Bounds
  <2>2. QED BY <2>1 DEF HeadersLeft, Threads, Chained
<1>4. QED BY <1>2, <1>3 DEF Walked, OthersLeft, Threads

(* The headers of objects that are not on a list, and sizes in headers.     *)
LEMMA WalkedHeader ==
  ASSUME NEW u, NEW g, NEW on, NEW fn, Heap(u, g, on, fn), NEW L, Lists(u, g, L), NEW M, NEW n, NEW b,
         NEW m, Walked(m, u, g, L, M, n, b), NEW a \in DOMAIN g
  PROVE  /\ L[a] = << >> => m[a - 2] = u[a - 2]
         /\ L[a] # << >> => m[a - 2] = IF Start(g, a) < b THEN SeenBits(u, a)
                                       ELSE Link(L[a][Len(L[a])])
         /\ g[a].extended => m[a - 3] = u[a - 3] /\ Is("extension", m[a - 3])
         /\ ~Is("extension", m[a - 2])
<1>1. /\ a \in Nat /\ a - 2 \in Location /\ a - 3 \in Location /\ a - 2 + 2 = a
      /\ ~Is("extension", u[a - 2])
  BY HeaderWord
<1>2. L[a] = << >> => m[a - 2] = u[a - 2]
  <2>1. ~OnList(L, a - 2)
    BY ListedWord
  <2>2. L[a] = << >> => ~HeadsList(L, a - 2)
    BY <1>1 DEF HeadsList
  <2>3. QED BY <1>1, <2>1, <2>2 DEF Walked, OthersLeft
<1>3. L[a] # << >> => m[a - 2] = IF Start(g, a) < b THEN SeenBits(u, a)
                                 ELSE Link(L[a][Len(L[a])])
  BY DEF Walked, HeadersLeft
<1>4. ~Is("extension", m[a - 2])
  BY <1>1, <1>2, <1>3, Tags DEF SeenBits
<1>5. ASSUME g[a].extended PROVE m[a - 3] = u[a - 3] /\ Is("extension", m[a - 3])
  <2>0. u[a - 3] = Extension([size |-> g[a].size, isEphemeron |-> g[a].ephemeron])
    BY <1>5, HeaderWord
  <2>1. \A x : Is("extension", Extension(x)) /\ ~Is("oop", Extension(x))
    BY Tags
  <2>2. Is("extension", u[a - 3]) /\ ~Is("oop", u[a - 3])
    BY <2>0, <2>1
  <2>3. ~OnList(L, a - 3)
    <3>1. SUFFICES ASSUME OnList(L, a - 3) PROVE FALSE
      OBVIOUS
    <3>2. PICK c \in DOMAIN g : u[a - 3] = Oop(c)
      BY <3>1, ListedWord
    <3>3. QED BY <2>2, <3>2, Tags
  <2>4. ~HeadsList(L, a - 3)
    <3>1. SUFFICES ASSUME HeadsList(L, a - 3) PROVE FALSE
      OBVIOUS
    <3>0. DOMAIN L = DOMAIN g
      BY DEF Lists
    <3>2. a - 3 + 2 \in DOMAIN g
      BY <3>0, <3>1 DEF HeadsList
    <3>3. PICK d \in DOMAIN g : d = a - 3 + 2
      BY <3>2
    <3>4. Is("bits", u[d - 2])
      BY HeaderWord
    <3>5. d - 2 = a - 3
      BY <1>1, <3>3
    <3>6. QED BY <2>2, <3>4, <3>5, OneTag
  <2>5. QED BY <1>1, <2>2, <2>3, <2>4 DEF Walked, OthersLeft
<1>6. QED BY <1>2, <1>3, <1>4, <1>5

(* The slots of a list are not headers, and are those of no other list.     *)
LEMMA ListedApart ==
  ASSUME NEW u, NEW g, NEW on, NEW fn, Heap(u, g, on, fn), NEW L, Lists(u, g, L),
         NEW a \in DOMAIN g, NEW j \in 1 .. Len(L[a]),
         NEW c \in DOMAIN g
  PROVE  /\ L[a][j] \in Location /\ OnList(L, L[a][j]) /\ L[a][j] # c - 2
         /\ \A k \in 1 .. Len(L[c]) : L[c][k] = L[a][j] => c = a /\ k = j
<1>1. L[a][j] \in Location /\ OnList(L, L[a][j])
  BY Listed
<1>2. L[a][j] # c - 2
  BY <1>1, ListedWord
<1>3. ASSUME NEW k \in 1 .. Len(L[c]), L[c][k] = L[a][j] PROVE c = a /\ k = j
  <2>1. u[L[c][k]] = Oop(c) /\ u[L[a][j]] = Oop(a)
    BY DEF Lists
  <2>2. c = a
    BY <1>3, <2>1, OopsDiffer
  <2>3. QED BY <1>3, <2>2 DEF Lists
<1>4. QED BY <1>1, <1>2, <1>3


(* Objects begin in front of the end of another when they begin in front of *)
(* the other.                                                               *)
LEMMA StartsApart ==
  ASSUME NEW g, NEW on, NEW fn, Placement(g, on, fn), NEW a \in DOMAIN g, NEW c \in DOMAIN g
  PROVE  /\ Start(g, c) < End(g, a) <=> Start(g, c) < Start(g, a) \/ c = a
         /\ Start(g, c) = Start(g, a) => c = a
         /\ Start(g, c) # End(g, a) \/ Start(g, a) < Start(g, c)
         /\ End(g, a) < Start(g, c) => Start(g, a) < Start(g, c)
<1>1. /\ Start(g, a) \in Nat /\ End(g, a) \in Nat /\ Start(g, a) < End(g, a)
      /\ Start(g, c) \in Nat /\ End(g, c) \in Nat /\ Start(g, c) < End(g, c)
  BY PosOfObject
<1>2. a \in Int /\ c \in Int
  BY Extents
<1>3. a < c => End(g, a) <= Start(g, c)
  BY DEF Placement
<1>4. c < a => End(g, c) <= Start(g, a)
  BY DEF Placement
<1>5. QED BY <1>1, <1>2, <1>3, <1>4

(* A slot is updated, its list goes on: n2 is n with the slot done.         *)
Lefts(g, n) == n \in [DOMAIN g -> Nat]
Done(n2, n, a) == n2 = [n EXCEPT ![a] = n[a] - 1]
Updated(L, m, m2, x, word) ==
  m2[x] = word /\ \A l \in Location : OnList(L, l) /\ l # x => m2[l] = m[l]

LEMMA WalkedOn ==
  ASSUME NEW u, NEW g, NEW on, NEW fn, Heap(u, g, on, fn), NEW L, Lists(u, g, L), NEW M, NEW b,
         NEW n, Lefts(g, n),
         NEW m, Walked(m, u, g, L, M, n, b), NEW a \in DOMAIN g,
         NEW k \in 1 .. Len(L[a]), k = n[a], NEW x, x = L[a][k]
  PROVE  /\ k = 1 => m[x] = u[a - 2] /\ ~Is("link", m[x])
         /\ k # 1 => m[x] = Link(L[a][k - 1])
<1>1. Len(L[a]) \in Nat /\ k \in Nat
  BY Listed
<1>2. ~(k > n[a])
  BY <1>1
<1>3. m[x] = IF k = 1 THEN u[a - 2] ELSE Link(L[a][k - 1])
  BY <1>2 DEF Walked, SlotsLeft
<1>4. ~Is("link", u[a - 2])
  BY HeaderWord
<1>5. QED BY <1>1, <1>3, <1>4

LEMMA SlotsWalked ==
  ASSUME NEW u, NEW g, NEW on, NEW fn, Heap(u, g, on, fn), NEW L, Lists(u, g, L), NEW M,
         NEW n, Lefts(g, n),
         NEW m, SlotsLeft(m, u, g, L, M, n), NEW a \in DOMAIN g, n[a] \in 1 .. Len(L[a]),
         NEW n2, Done(n2, n, a), NEW x, x = L[a][n[a]],
         NEW m2, Updated(L, m, m2, x, Oop(New(g, M, a)))
  PROVE  SlotsLeft(m2, u, g, L, M, n2) /\ Lefts(g, n2)
<1>1. Len(L[a]) \in Nat /\ L[a][n[a]] \in Location
  BY Listed
<1>2. Lefts(g, n2) /\ n2[a] = n[a] - 1 /\ \A c \in DOMAIN g : c # a => n2[c] = n[c]
  BY <1>1 DEF Done, Lefts
<1>3. SUFFICES ASSUME NEW c \in DOMAIN g, NEW j \in 1 .. Len(L[c])
               PROVE  m2[L[c][j]] = IF j > n2[c] THEN Oop(New(g, M, c))
                                    ELSE IF j = 1 THEN u[c - 2] ELSE Link(L[c][j - 1])
  BY <1>2 DEF SlotsLeft
<1>4. /\ L[c][j] \in Location /\ OnList(L, L[c][j])
      /\ L[a][n[a]] = L[c][j] => a = c /\ n[a] = j
  BY ListedApart
<1>5. m[L[c][j]] = IF j > n[c] THEN Oop(New(g, M, c))
                   ELSE IF j = 1 THEN u[c - 2] ELSE Link(L[c][j - 1])
  BY DEF SlotsLeft
<1>6. Len(L[c]) \in Nat
  BY Listed
<1>7. CASE a = c /\ n[a] = j
  BY <1>1, <1>2, <1>7 DEF Updated
<1>8. CASE ~(a = c /\ n[a] = j)
  <2>1. m2[L[c][j]] = m[L[c][j]]
    <3>1. L[c][j] # x
      BY <1>4, <1>8
    <3>2. QED BY <1>4, <3>1 DEF Updated
  <2>2. j > n2[c] <=> j > n[c]
    BY <1>1, <1>2, <1>6, <1>8
  <2>3. QED BY <1>5, <2>1, <2>2
<1>9. QED BY <1>7, <1>8

LEMMA WalkedUpdate ==
  ASSUME NEW u, NEW g, NEW on, NEW fn, Heap(u, g, on, fn), NEW L, Lists(u, g, L), NEW M, NEW b,
         NEW n, Lefts(g, n),
         NEW m, Walked(m, u, g, L, M, n, b), NEW a \in DOMAIN g, n[a] \in 1 .. Len(L[a]),
         NEW n2, Done(n2, n, a),
         NEW m2, m2 = [m EXCEPT ![L[a][n[a]]] = Oop(New(g, M, a))]
  PROVE  Walked(m2, u, g, L, M, n2, b) /\ Lefts(g, n2)
<1>0. PICK x : x = L[a][n[a]]
  OBVIOUS
<1>1. x \in Location /\ OnList(L, x) /\ \A c \in DOMAIN g : x # c - 2
  BY <1>0, ListedApart
<1>2. DOMAIN m = Location
  BY DEF Walked
<1>3. DOMAIN m2 = Location /\ m2[x] = Oop(New(g, M, a)) /\ \A l \in Location : l # x => m2[l] = m[l]
  BY <1>0, <1>1, <1>2
<1>4. SlotsLeft(m, u, g, L, M, n)
  BY DEF Walked
<1>5. SlotsLeft(m2, u, g, L, M, n2) /\ Lefts(g, n2)
  <2>1. Updated(L, m, m2, x, Oop(New(g, M, a)))
    BY <1>3 DEF Updated
  <2>2. QED BY <1>0, <1>3, <1>4, <2>1, SlotsWalked
<1>6. HeadersLeft(m2, u, g, L, b)
  <2>1. \A c \in DOMAIN g : m2[c - 2] = m[c - 2]
    BY <1>1, <1>3, HeaderWord
  <2>2. QED BY <2>1 DEF Walked, HeadersLeft
<1>7. OthersLeft(m2, u, L)
  BY <1>1, <1>3 DEF Walked, OthersLeft
<1>8. QED BY <1>3, <1>5, <1>6, <1>7 DEF Walked

(* The last slot of the list of the object at b: its header is whole again. *)
LEMMA WalkedEnd ==
  ASSUME NEW u, NEW g, NEW on, NEW fn, Heap(u, g, on, fn), NEW L, Lists(u, g, L), NEW M,
         NEW n, Lefts(g, n),
         NEW m, NEW a \in DOMAIN g, Walked(m, u, g, L, M, n, Start(g, a)), n[a] = 1, L[a] # << >>,
         NEW n2, Done(n2, n, a), NEW x, x = L[a][1],
         NEW m2, m2 = [m EXCEPT ![x] = Oop(New(g, M, a)), ![a - 2] = SeenBits(u, a)]
  PROVE  Walked(m2, u, g, L, M, n2, End(g, a)) /\ Lefts(g, n2)
<1>0. n[a] \in 1 .. Len(L[a]) /\ Placement(g, on, fn)
  BY Listed DEF Heap
<1>1. x \in Location /\ OnList(L, x) /\ \A c \in DOMAIN g : x # c - 2
  BY <1>0, ListedApart
<1>2. DOMAIN m = Location /\ a - 2 \in Location /\ ~OnList(L, a - 2)
  <2>1. ~OnList(L, a - 2)
    BY ListedWord
  <2>2. a - 2 \in Location
    BY HeaderWord
  <2>3. QED BY <2>1, <2>2 DEF Walked
<1>3. /\ DOMAIN m2 = Location /\ m2[x] = Oop(New(g, M, a)) /\ m2[a - 2] = SeenBits(u, a)
      /\ \A l \in Location : l # x /\ l # a - 2 => m2[l] = m[l]
  BY <1>1, <1>2
<1>4. SlotsLeft(m, u, g, L, M, n)
  BY DEF Walked
<1>5. SlotsLeft(m2, u, g, L, M, n2) /\ Lefts(g, n2)
  <2>1. \A l \in Location : OnList(L, l) /\ l # x => m2[l] = m[l]
    BY <1>2, <1>3
  <2>2. Updated(L, m, m2, x, Oop(New(g, M, a)))
    BY <1>3, <2>1 DEF Updated
  <2>3. QED BY <1>0, <1>3, <1>4, <2>2, SlotsWalked
<1>6. HeadersLeft(m2, u, g, L, End(g, a))
  <2>1. SUFFICES ASSUME NEW c \in DOMAIN g, L[c] # << >>
                 PROVE  m2[c - 2] = IF Start(g, c) < End(g, a) THEN SeenBits(u, c)
                                    ELSE Link(L[c][Len(L[c])])
    BY DEF HeadersLeft
  <2>2. Start(g, c) < End(g, a) <=> Start(g, c) < Start(g, a) \/ c = a
    BY <1>0, StartsApart
  <2>3. CASE c = a
    BY <1>3, <2>2, <2>3
  <2>4. CASE c # a
    <3>1. c - 2 \in Location /\ c - 2 # x /\ c - 2 # a - 2
      <4>1. c \in Nat /\ a \in Nat /\ c - 2 \in Location
        BY HeaderWord
      <4>2. QED BY <1>1, <2>4, <4>1
    <3>2. m[c - 2] = IF Start(g, c) < Start(g, a) THEN SeenBits(u, c) ELSE Link(L[c][Len(L[c])])
      BY <2>1 DEF Walked, HeadersLeft
    <3>3. QED BY <1>3, <2>2, <2>4, <3>1, <3>2
  <2>5. QED BY <2>3, <2>4
<1>7. OthersLeft(m2, u, L)
  <2>0. a - 2 + 2 = a
    BY HeaderWord
  <2>1. a - 2 + 2 = a /\ DOMAIN L = DOMAIN g
    BY <2>0 DEF Lists
  <2>2. HeadsList(L, a - 2)
    BY <2>1 DEF HeadsList
  <2>3. QED BY <1>1, <1>3, <2>2 DEF Walked, OthersLeft
<1>8. QED BY <1>3, <1>5, <1>6, <1>7 DEF Walked

LEMMA WalkedPast ==
  ASSUME NEW u, NEW g, NEW on, NEW fn, Heap(u, g, on, fn), NEW L, Lists(u, g, L), NEW M, NEW n,
         NEW m, NEW a \in DOMAIN g, Walked(m, u, g, L, M, n, Start(g, a)), L[a] = << >>
  PROVE  Walked(m, u, g, L, M, n, End(g, a))
<1>1. \A c \in DOMAIN g : c # a => (Start(g, c) < End(g, a) <=> Start(g, c) < Start(g, a))
  BY StartsApart DEF Heap
<1>2. QED BY <1>1 DEF Walked, HeadersLeft


-----------------------------------------------------------------------------
(* The walk through a space: what is in front of b is done, and of the      *)
(* object at b the slots behind ref.                                        *)
Turn(g, L, M, n, b, ref) ==
  /\ Lefts(g, n)
  /\ \A a \in DOMAIN g :
       /\ Start(g, a) < b => n[a] = 0
       /\ b < Start(g, a) => n[a] = Len(L[a])
       /\ Start(g, a) = b => IF ref = None THEN n[a] = Len(L[a])
                             ELSE a \in M /\ n[a] \in 1 .. Len(L[a]) /\ ref = L[a][n[a]]
  /\ ref # None => \E a \in DOMAIN g : Start(g, a) = b

(* What EqualChecker has noted so far.                                      *)
Noted(g, M, b, ref, a) ==
  a \in DOMAIN g /\ a \in M /\ (Start(g, a) < b \/ (Start(g, a) = b /\ ref # None))
Renamed(g, M, names, b, ref) ==
  /\ \A a : Noted(g, M, b, ref, a) => New(g, M, a) \in DOMAIN names /\ names[New(g, M, a)] = a
  /\ \A x \in DOMAIN names : \E a : Noted(g, M, b, ref, a) /\ x = New(g, M, a)

(* The walk stands at an object or at the end of what is in use.            *)
Standing(g, b, base, nextFree) ==
  /\ base <= b /\ b <= nextFree
  /\ b = nextFree \/ \E a \in DOMAIN g : Start(g, a) = b

LEMMA TurnBegins ==
  ASSUME NEW g, NEW on, NEW fn, Placement(g, on, fn), NEW L, L \in [DOMAIN g -> Seq(Location)], NEW M,
         NEW n, n = [a \in DOMAIN g |-> Len(L[a])]
  PROVE  Turn(g, L, M, n, OldBase, None) /\ Renamed(g, M, << >>, OldBase, None)
<1>1. \A a \in DOMAIN g : n[a] = Len(L[a]) /\ Len(L[a]) \in Nat
  OBVIOUS
<1>2. \A a \in DOMAIN g : OldBase <= Start(g, a) /\ Start(g, a) \in Nat /\ OldBase \in Nat
  BY PosOfObject, Bounds
<1>3. Turn(g, L, M, n, OldBase, None)
  BY <1>1, <1>2 DEF Turn, Lefts
<1>4. Renamed(g, M, << >>, OldBase, None)
  BY <1>2 DEF Renamed, Noted
<1>5. QED BY <1>3, <1>4

LEMMA TurnAt ==
  ASSUME NEW g, NEW on, NEW fn, Placement(g, on, fn), NEW L, L \in [DOMAIN g -> Seq(Location)],
         NEW M, NEW n, NEW b, NEW ref, ref # None, Turn(g, L, M, n, b, ref)
  PROVE  \E a \in DOMAIN g : /\ Start(g, a) = b /\ a \in M /\ n[a] \in 1 .. Len(L[a]) /\ L[a] # << >>
                             /\ ref = L[a][n[a]] /\ ref \in Location
BY DEF Turn

LEMMA TurnStarts ==
  ASSUME NEW g, NEW on, NEW fn, Placement(g, on, fn), NEW L, L \in [DOMAIN g -> Seq(Location)],
         NEW M, NEW n, NEW a \in DOMAIN g, a \in M, L[a] # << >>,
         NEW b, b = Start(g, a), Turn(g, L, M, n, b, None),
         NEW ref, ref = L[a][Len(L[a])]
  PROVE  Turn(g, L, M, n, b, ref) /\ ref # None
<1>1. Len(L[a]) \in 1 .. Len(L[a]) /\ ref \in Location
  OBVIOUS
<1>2. ref # None
  BY <1>1, Bounds DEF None
<1>3. \A c \in DOMAIN g : Start(g, c) = b => c = a
  BY StartsApart
<1>4. n[a] = Len(L[a])
  BY DEF Turn
<1>5. QED BY <1>1, <1>2, <1>3, <1>4 DEF Turn

LEMMA TurnGoesOn ==
  ASSUME NEW g, NEW on, NEW fn, Placement(g, on, fn), NEW L, L \in [DOMAIN g -> Seq(Location)],
         NEW M, NEW n, NEW a \in DOMAIN g, NEW b, b = Start(g, a), NEW ref, ref # None,
         Turn(g, L, M, n, b, ref), NEW n2, Done(n2, n, a), n[a] # 1,
         NEW ref2, ref2 = L[a][n[a] - 1]
  PROVE  Turn(g, L, M, n2, b, ref2) /\ ref2 # None /\ ref2 \in Location
<1>1. a \in M /\ n[a] \in 1 .. Len(L[a])
  BY DEF Turn
<1>2. n[a] - 1 \in 1 .. Len(L[a]) /\ n[a] - 1 \in Nat
  BY <1>1
<1>3. ref2 \in Location /\ ref2 # None
  BY <1>2, Bounds DEF None
<1>4. \A c \in DOMAIN g : Start(g, c) = b => c = a
  BY StartsApart
<1>5. n2[a] = n[a] - 1 /\ Lefts(g, n2) /\ \A c \in DOMAIN g : c # a => n2[c] = n[c]
  BY <1>2 DEF Done, Lefts, Turn
<1>6. Start(g, a) \in Nat
  BY PosOfObject
<1>7. QED BY <1>1, <1>2, <1>3, <1>4, <1>5, <1>6 DEF Turn

(* The walk goes on behind an object whose list is undone.                  *)
LEMMA TurnPast ==
  ASSUME NEW g, NEW on, NEW fn, Placement(g, on, fn), NEW L, L \in [DOMAIN g -> Seq(Location)],
         NEW M, NEW n, NEW a \in DOMAIN g, NEW b, b = Start(g, a), NEW ref,
         Turn(g, L, M, n, b, ref),
         NEW n2, Lefts(g, n2), n2[a] = 0, \A c \in DOMAIN g : c # a => n2[c] = n[c],
         NEW e, e = End(g, a)
  PROVE  Turn(g, L, M, n2, e, None)
<1>1. \A c \in DOMAIN g : /\ Start(g, c) < e => Start(g, c) < b \/ c = a
                          /\ Start(g, c) = e => b < Start(g, c)
                          /\ e < Start(g, c) => b < Start(g, c)
                          /\ c = a => Start(g, c) < e /\ ~(e < Start(g, c)) /\ Start(g, c) # e
  <2>1. SUFFICES ASSUME NEW c \in DOMAIN g
                 PROVE  /\ Start(g, c) < e => Start(g, c) < b \/ c = a
                        /\ Start(g, c) = e => b < Start(g, c)
                        /\ e < Start(g, c) => b < Start(g, c)
                        /\ c = a => Start(g, c) < e /\ ~(e < Start(g, c)) /\ Start(g, c) # e
    OBVIOUS
  <2>2. Start(g, a) \in Nat /\ End(g, a) \in Nat /\ Start(g, a) < End(g, a) /\ Start(g, c) \in Nat
    BY PosOfObject
  <2>3. /\ Start(g, c) < End(g, a) <=> Start(g, c) < Start(g, a) \/ c = a
        /\ Start(g, c) # End(g, a) \/ Start(g, a) < Start(g, c)
        /\ End(g, a) < Start(g, c) => Start(g, a) < Start(g, c)
    BY StartsApart
  <2>4. QED BY <2>2, <2>3
<1>2. QED BY <1>1 DEF Turn

(* Between the spaces are no objects.                                       *)
LEMMA TurnToFrom ==
  ASSUME NEW g, NEW on, NEW fn, Placement(g, on, fn), NEW L, L \in [DOMAIN g -> Seq(Location)],
         NEW M, NEW n, Turn(g, L, M, n, on, None)
  PROVE  /\ Turn(g, L, M, n, FromBase, None)
         /\ \A a \in DOMAIN g : (Start(g, a) < on <=> Start(g, a) < FromBase)
         /\ Pos(g, M, on) = Pos(g, M, FromBase)
<1>1. \A a \in DOMAIN g : /\ Start(g, a) \in Nat
                          /\ Start(g, a) < on => Start(g, a) < FromBase
                          /\ Start(g, a) < FromBase => Start(g, a) < on
                          /\ Start(g, a) = FromBase => n[a] = Len(L[a])
  <2>1. SUFFICES ASSUME NEW a \in DOMAIN g
                 PROVE  /\ Start(g, a) \in Nat
                        /\ Start(g, a) < on => Start(g, a) < FromBase
                        /\ Start(g, a) < FromBase => Start(g, a) < on
                        /\ Start(g, a) = FromBase => n[a] = Len(L[a])
    OBVIOUS
  <2>2. /\ Start(g, a) \in Nat /\ End(g, a) \in Nat /\ Start(g, a) < End(g, a)
        /\ End(g, a) <= on \/ FromBase <= Start(g, a)
        /\ on \in Nat /\ on <= FromBase /\ FromBase \in Nat
    BY PosOfObject, Extents, Bounds
  <2>3. QED BY <2>2 DEF Turn
<1>2. on \in Nat /\ on <= FromBase /\ FromBase \in Nat
  BY Bounds DEF Placement
<1>3. Turn(g, L, M, n, FromBase, None)
  BY <1>1, <1>2 DEF Turn
<1>4. QED BY <1>1, <1>3, PosBetweenSpaces


Noting(names2, names, x, a) ==
  names2 = [y \in DOMAIN names \cup {x} |-> IF y = x THEN a ELSE names[y]]

LEMMA NotedStarts ==
  ASSUME NEW g, NEW on, NEW fn, Placement(g, on, fn), NEW M, NEW a \in DOMAIN g, a \in M,
         NEW b, b = Start(g, a), NEW ref, ref # None,
         NEW names, Renamed(g, M, names, b, None), NEW x, x = New(g, M, a),
         NEW names2, Noting(names2, names, x, a)
  PROVE  Renamed(g, M, names2, b, ref)
<1>1. \A c : Noted(g, M, b, ref, c) <=> Noted(g, M, b, None, c) \/ c = a
  BY StartsApart DEF Noted
<1>2. \A c : Noted(g, M, b, ref, c) => c \in DOMAIN g /\ c \in M
  BY DEF Noted
<1>3. \A c : Noted(g, M, b, ref, c) /\ c # a => New(g, M, c) # x
  BY <1>2, NewDiffers
<1>4. ASSUME NEW c, Noted(g, M, b, ref, c)
      PROVE  New(g, M, c) \in DOMAIN names2 /\ names2[New(g, M, c)] = c
  BY <1>1, <1>3, <1>4 DEF Renamed, Noting
<1>5. ASSUME NEW y \in DOMAIN names2 PROVE \E c : Noted(g, M, b, ref, c) /\ y = New(g, M, c)
  BY <1>1, <1>5 DEF Renamed, Noting
<1>6. QED BY <1>4, <1>5 DEF Renamed

LEMMA NotedGoesOn ==
  ASSUME NEW g, NEW M, NEW b, NEW ref, ref # None, NEW ref2, ref2 # None,
         NEW names, Renamed(g, M, names, b, ref)
  PROVE  Renamed(g, M, names, b, ref2)
BY DEF Renamed, Noted

LEMMA NotedPast ==
  ASSUME NEW g, NEW on, NEW fn, Placement(g, on, fn), NEW M, NEW a \in DOMAIN g,
         NEW b, b = Start(g, a), NEW ref, a \in M <=> ref # None,
         NEW names, Renamed(g, M, names, b, ref), NEW e, e = End(g, a)
  PROVE  Renamed(g, M, names, e, None)
<1>1. \A c \in DOMAIN g : /\ Start(g, c) < e <=> Start(g, c) < b \/ c = a
                          /\ Start(g, c) = b <=> c = a
  BY StartsApart
<1>2. \A c : Noted(g, M, e, None, c) <=> Noted(g, M, b, ref, c)
  BY <1>1 DEF Noted
<1>3. QED BY <1>2 DEF Renamed

LEMMA NotedToFrom ==
  ASSUME NEW g, NEW on, NEW M, NEW names, Renamed(g, M, names, on, None),
         \A a \in DOMAIN g : (Start(g, a) < on <=> Start(g, a) < FromBase)
  PROVE  Renamed(g, M, names, FromBase, None)
<1>1. \A c : Noted(g, M, FromBase, None, c) <=> Noted(g, M, on, None, c)
  BY DEF Noted
<1>2. QED BY <1>1 DEF Renamed

(* The objects of a space are one behind the other.                         *)
LEMMA StandingInOld ==
  ASSUME NEW g, NEW on, NEW fn, Placement(g, on, fn), NEW b, Standing(g, b, OldBase, on), b # on
  PROVE  \E a \in DOMAIN g : /\ Start(g, a) = b /\ End(g, a) <= on
                             /\ Standing(g, End(g, a), OldBase, on)
<1>1. PICK a \in DOMAIN g : Start(g, a) = b
  BY DEF Standing
<1>2. /\ Start(g, a) \in Nat /\ End(g, a) \in Nat /\ Start(g, a) < End(g, a)
      /\ End(g, a) <= on \/ FromBase <= Start(g, a)
      /\ on \in Nat /\ on <= FromBase /\ FromBase \in Nat /\ OldBase \in Nat
  BY PosOfObject, Extents, Bounds
<1>3. OldBase <= b /\ b <= on
  BY DEF Standing
<1>4. End(g, a) <= on
  BY <1>1, <1>2, <1>3
<1>5. End(g, a) = on \/ \E c \in DOMAIN g : Start(g, c) = End(g, a)
  BY <1>4 DEF Placement
<1>6. QED BY <1>1, <1>2, <1>3, <1>4, <1>5 DEF Standing

LEMMA StandingInFrom ==
  ASSUME NEW g, NEW on, NEW fn, Placement(g, on, fn), NEW b, Standing(g, b, FromBase, fn), b # fn
  PROVE  \E a \in DOMAIN g : /\ Start(g, a) = b /\ End(g, a) <= fn
                             /\ Standing(g, End(g, a), FromBase, fn)
<1>1. PICK a \in DOMAIN g : Start(g, a) = b
  BY DEF Standing
<1>2. /\ Start(g, a) \in Nat /\ End(g, a) \in Nat /\ Start(g, a) < End(g, a)
      /\ End(g, a) <= on \/ End(g, a) <= fn
      /\ on \in Nat /\ on <= FromBase /\ FromBase \in Nat /\ fn \in Nat
  BY PosOfObject, Extents, Bounds
<1>3. FromBase <= b /\ b <= fn
  BY DEF Standing
<1>4. ~(End(g, a) <= on) /\ End(g, a) <= fn
  BY <1>1, <1>2, <1>3
<1>5. End(g, a) = fn \/ \E c \in DOMAIN g : Start(g, c) = End(g, a)
  BY <1>4 DEF Placement
<1>6. QED BY <1>1, <1>2, <1>3, <1>4, <1>5 DEF Standing

LEMMA StandingAtBase ==
  ASSUME NEW g, NEW on, NEW fn, Placement(g, on, fn)
  PROVE  Standing(g, OldBase, OldBase, on) /\ Standing(g, FromBase, FromBase, fn)
<1>1. QueueArray \in DOMAIN g /\ Start(g, QueueArray) = OldBase
  BY QueueStays DEF Placement
<1>2. OldBase <= on /\ FromBase <= fn
  BY Bounds DEF Placement
<1>3. fn = FromBase \/ \E a \in DOMAIN g : Start(g, a) = FromBase
  BY DEF Placement
<1>4. QED BY <1>1, <1>2, <1>3, Bounds DEF Standing


-----------------------------------------------------------------------------
(* setNewPositions: what holds while the lists are undone.                  *)
PlanLabels == {"setNewPositions", "setNewPositionsInFrom"}
Base == IF pc \in {"setNewPositions", "compact"} THEN OldBase ELSE FromBase

Idle ==
  /\ scan \in ScanType /\ ~(scan.index < scan.limit) /\ stack = << >>
  /\ ephemerons = << >> /\ unknowns = << >> /\ weakContainers = << >>
  /\ rememberedSet = << >> /\ i \in Nat \ {0}

(* In a heap without ephemerons the weak slots that no longer lead where    *)
(* they led are those whose referent was not reached; and the tombstone and *)
(* the slots of a queue stay what the embedder made them.                   *)
WeakTold(c, g, u, M) ==
  NoEphemeronPlaced => NoEphemeron(g) /\ LeadsNowhere(u) /\ LeadsToNil(c) /\ Buried(c, g, u, M)
Undisturbed(g, m) ==
  NoEphemeronPlaced => NoEphemeron(g) /\ LeadsNowhere(m) /\ LeadsToNil(m)

WalkInv(g, u, L, M, n) ==
  /\ pc \in PlanLabels /\ Idle
  /\ Heap(u, g, oldNextFree, fromNextFree) /\ Heap(copy, g, oldNextFree, fromNextFree)
  /\ AllKept(copy, g, u) /\ WeakTold(copy, g, u, M)
  /\ Lists(u, g, L) /\ Explored(u, g, L, M, RescuedEphemerons + 1, {})
  /\ Walked(memory, u, g, L, M, n, buffer)
  /\ Turn(g, L, M, n, buffer, reference)
  /\ Renamed(g, M, newToOld, buffer, reference)
  /\ Standing(g, buffer, Base, NextFree)
  /\ reference # None => buffer # NextFree
  /\ auxNextFree = Pos(g, M, buffer)

LEMMA NoLocation ==
  None \notin Nat
BY DEF None

(* Marking ends with every list complete, unless something was found late.  *)
LEMMA WalkInvBegins ==
  ASSUME NEW g, NEW u, NEW L, NEW M, NEW T, MarkInv(g, u, L, M, T),
         pc = "setNewPositions", ~Traversing, ephemerons = << >>, weakContainers = << >>
  PROVE  \E n : WalkInv(g, u, L, M, n)
<1>1. /\ Heap(u, g, oldNextFree, fromNextFree) /\ Heap(copy, g, oldNextFree, fromNextFree)
      /\ AllKept(copy, g, u) /\ Threads(memory, u, g, L) /\ Explored(u, g, L, M, NextRoot, T)
      /\ Accounted(g, M, scan, stack, ephemerons, unknowns, weakContainers, FirstUnknown, FirstWeak, T)
      /\ buffer = OldBase /\ reference = None /\ newToOld = << >> /\ auxNextFree = OldBase
      /\ rememberedSet = << >> /\ i \in Nat \ {0}
  BY DEF MarkInv
<1>2. unknowns = << >>
  BY DEF MarkInv
<1>3. ~(scan.index < scan.limit) /\ stack = << >>
  BY NotTraversing
<1>4. WaitSet(ephemerons, unknowns, weakContainers, FirstUnknown, FirstWeak) = {}
  <2>1. FirstUnknown = 1 /\ FirstWeak = 1
    BY DEF FirstUnknown, FirstWeak
  <2>2. From(<< >>, 1) = {}
    <3>1. \A j : j \notin 1 .. Len(<< >>)
      OBVIOUS
    <3>2. QED BY <3>1 DEF From
  <2>3. QED BY <1>2, <2>1, <2>2 DEF WaitSet
<1>5. Divided(g, M, scan, stack, {}) /\ T = Todo(g, scan, stack, {})
  BY <1>1, <1>4 DEF Accounted
<1>6. T = {}
  <2>1. PICK W : W = {}
    OBVIOUS
  <2>2. Todo(g, scan, stack, W) = {l \in Location : InWaiting(g, W, l)}
    BY <1>3, <1>5, <2>1, Exhausted
  <2>3. QED BY <1>5, <2>1, <2>2 DEF InWaiting
<1>7. NextRoot = RescuedEphemerons + 1
  BY DEF NextRoot
<1>8. Explored(u, g, L, M, RescuedEphemerons + 1, {})
  BY <1>1, <1>6, <1>7
<1>9. Lists(u, g, L) /\ L \in [DOMAIN g -> Seq(Location)] /\ Placement(g, oldNextFree, fromNextFree)
  BY <1>1 DEF Threads, Lists, Heap
<1>10. PICK n : n = [a \in DOMAIN g |-> Len(L[a])]
  OBVIOUS
<1>11. Walked(memory, u, g, L, M, n, OldBase)
  BY <1>1, <1>10, WalkBegins
<1>12. Turn(g, L, M, n, OldBase, None) /\ Renamed(g, M, << >>, OldBase, None)
  BY <1>9, <1>10, TurnBegins
<1>13. Standing(g, OldBase, OldBase, oldNextFree) /\ Pos(g, M, OldBase) = OldBase
  BY <1>9, StandingAtBase, PosAtBase
<1>14. Base = OldBase /\ NextFree = oldNextFree
  BY DEF Base, NextFree
<1>15. Idle
  BY <1>1, <1>2, <1>3, <1>5 DEF Idle, Divided
<1>17. WeakTold(copy, g, u, M)
  <2>1. NoEphemeronPlaced => Narrow(copy, g, pc, u, M, scan, stack, ephemerons, weakContainers)
    BY DEF MarkInv
  <2>2. NoEphemeronPlaced => NoEphemeron(g) /\ Entombed(pc, copy, g, u, M)
    BY <2>1 DEF Narrow
  <2>3. QED BY <2>2 DEF Entombed, LateLabels, WeakTold
<1>16. WalkInv(g, u, L, M, n)
  BY <1>17, <1>1, <1>8, <1>9, <1>11, <1>12, <1>13, <1>14, <1>15 DEF WalkInv, PlanLabels
<1>18. QED BY <1>16

(* Reading the header at buffer.                                            *)
LEMMA ObjectAtBuffer ==
  ASSUME NEW g, NEW on, NEW fn, Placement(g, on, fn), NEW a \in DOMAIN g, buffer = Start(g, a),
         g[a].extended => Is("extension", memory[a - 3]), ~Is("extension", memory[a - 2])
  PROVE  UnthreadedHeaderSize = HeaderSize(g[a]) /\ NextObject = a
<1>1. /\ Start(g, a) = a - (IF g[a].extended THEN 3 ELSE 2) /\ a \in Nat
      /\ HeaderSize(g[a]) = (IF g[a].extended THEN 3 ELSE 2)
  BY Extents
<1>2. UnthreadedHeaderSize = HeaderSize(g[a])
  BY <1>1 DEF UnthreadedHeaderSize
<1>3. QED BY <1>1, <1>2 DEF NextObject

LEMMA StandingSpace ==
  ASSUME NEW g, Placement(g, oldNextFree, fromNextFree), Standing(g, buffer, Base, NextFree),
         pc \in {"setNewPositions", "setNewPositionsInFrom", "compact", "compactFrom"}
  PROVE  /\ buffer \in Nat /\ buffer \in Location /\ OldBase <= buffer /\ buffer <= fromNextFree
         /\ NextFree \in Nat
         /\ buffer = NextFree => ~IsBelowNextFree(NextObject)
         /\ buffer # NextFree => \E a \in DOMAIN g : /\ Start(g, a) = buffer /\ End(g, a) <= NextFree
                                                     /\ Standing(g, End(g, a), Base, NextFree)
<1>1. (Base = OldBase /\ NextFree = oldNextFree) \/ (Base = FromBase /\ NextFree = fromNextFree)
  BY DEF Base, NextFree
<1>2. /\ oldNextFree \in Nat /\ fromNextFree \in Nat /\ oldNextFree <= FromBase /\ FromBase <= fromNextFree
      /\ fromNextFree <= FromEnd /\ OldBase \in Nat /\ FromBase \in Nat /\ OldBase <= FromBase
      /\ FromEnd \in Nat /\ Location = 0 .. FromEnd + 2
  BY Bounds DEF Placement
<1>3. Base <= buffer /\ buffer <= NextFree /\ (buffer = NextFree \/ \E a \in DOMAIN g : Start(g, a) = buffer)
  BY DEF Standing
<1>4. buffer \in Nat
  BY <1>1, <1>2, <1>3, PosOfObject
<1>5. buffer = NextFree => ~IsBelowNextFree(NextObject)
  <2>1. UnthreadedHeaderSize \in {2, 3}
    BY DEF UnthreadedHeaderSize
  <2>2. QED BY <1>4, <2>1 DEF IsBelowNextFree, NextObject
<1>6. buffer # NextFree => \E a \in DOMAIN g : /\ Start(g, a) = buffer /\ End(g, a) <= NextFree
                                               /\ Standing(g, End(g, a), Base, NextFree)
  BY <1>1, StandingInOld, StandingInFrom
<1>7. QED BY <1>1, <1>2, <1>3, <1>4, <1>5, <1>6


LEMMA WalkFacts ==
  ASSUME NEW g, NEW u, NEW L, NEW M, NEW n, WalkInv(g, u, L, M, n)
  PROVE  /\ Heap(u, g, oldNextFree, fromNextFree) /\ Placement(g, oldNextFree, fromNextFree)
         /\ Lists(u, g, L) /\ L \in [DOMAIN g -> Seq(Location)] /\ Lefts(g, n)
         /\ Walked(memory, u, g, L, M, n, buffer) /\ Turn(g, L, M, n, buffer, reference)
         /\ Renamed(g, M, newToOld, buffer, reference) /\ Standing(g, buffer, Base, NextFree)
         /\ \A a \in DOMAIN g : a \in M <=> L[a] # << >>
         /\ Positioning
BY DEF WalkInv, Heap, Lists, Turn, Explored, Positioning, PlanLabels, Traversing, Idle

(* The object the walk stands at.                                           *)
LEMMA WalkObject ==
  ASSUME NEW g, NEW u, NEW L, NEW M, NEW n, WalkInv(g, u, L, M, n),
         NEW a \in DOMAIN g, Start(g, a) = buffer
  PROVE  /\ UnthreadedHeaderSize = HeaderSize(g[a]) /\ NextObject = a /\ NewPosition = New(g, M, a)
         /\ HasBeenSeenInSpace(a) <=> a \in M
         /\ a \notin M => Size(a) = g[a].size
         /\ a \in M /\ reference = None => Value(HeaderOf(a)) = L[a][Len(L[a])]
         /\ SizeIn(Value(u[a - 2]), a) = g[a].size
         /\ a + g[a].size = End(g, a)
         /\ a \in M => NewPosition + g[a].size = Pos(g, M, End(g, a)) /\ NewPosition \in Location
         /\ a \notin M => Pos(g, M, End(g, a)) = auxNextFree
<1>1. /\ Heap(u, g, oldNextFree, fromNextFree) /\ Placement(g, oldNextFree, fromNextFree)
      /\ Lists(u, g, L) /\ Walked(memory, u, g, L, M, n, buffer)
      /\ a \in M <=> L[a] # << >>
  BY WalkFacts
<1>2. /\ L[a] = << >> => memory[a - 2] = u[a - 2]
      /\ L[a] # << >> => memory[a - 2] = IF Start(g, a) < buffer THEN SeenBits(u, a)
                                         ELSE Link(L[a][Len(L[a])])
      /\ g[a].extended => memory[a - 3] = u[a - 3] /\ Is("extension", memory[a - 3])
      /\ ~Is("extension", memory[a - 2])
  BY <1>1, WalkedHeader
<1>3. UnthreadedHeaderSize = HeaderSize(g[a]) /\ NextObject = a
  BY <1>1, <1>2, ObjectAtBuffer
<1>4. auxNextFree = Pos(g, M, buffer)
  BY DEF WalkInv
<1>5. NewPosition = New(g, M, a)
  BY <1>3, <1>4 DEF NewPosition, New
<1>6. /\ a \in Nat /\ Is("bits", u[a - 2]) /\ Value(u[a - 2]).unseenInSpace
      /\ Value(u[a - 2]).extended = g[a].extended
      /\ IF g[a].extended
         THEN u[a - 3] = Extension([size |-> g[a].size, isEphemeron |-> g[a].ephemeron])
         ELSE Value(u[a - 2]).size = g[a].size
  BY <1>1, HeaderWord
<1>7. ~(Start(g, a) < buffer)
  BY <1>1, PosOfObject
<1>8. a \in M => memory[a - 2] = Link(L[a][Len(L[a])])
  BY <1>1, <1>2, <1>7
<1>9. HasBeenSeenInSpace(a) <=> a \in M
  <2>1. a \in M => ~Is("bits", memory[a - 2])
    BY <1>8, Tags
  <2>2. a \notin M => memory[a - 2] = u[a - 2]
    BY <1>1, <1>2
  <2>3. QED BY <2>1, <2>2, <1>6 DEF HasBeenSeenInSpace, HasBeenSeenInLibrary, HeaderOf, BitsOf
<1>10. SizeIn(Value(u[a - 2]), a) = g[a].size
  <2>1. CASE g[a].extended
    <3>1. \A x : Value(Extension(x)) = x
      BY Tags
    <3>2. Value(memory[a - 3]) = [size |-> g[a].size, isEphemeron |-> g[a].ephemeron]
      BY <1>2, <1>6, <2>1, <3>1
    <3>3. QED BY <1>6, <2>1, <3>2 DEF SizeIn, ExtensionOf
  <2>2. CASE ~g[a].extended
    BY <1>6, <2>2 DEF SizeIn
  <2>3. QED BY <2>1, <2>2
<1>11. a \notin M => Size(a) = g[a].size
  BY <1>1, <1>2, <1>10 DEF Size, BitsOf, HeaderOf
<1>12. Value(Link(L[a][Len(L[a])])) = L[a][Len(L[a])]
  BY Tags
<1>13. a + g[a].size = End(g, a)
  BY DEF End
<1>14. a \in M => NewPosition + g[a].size = Pos(g, M, End(g, a)) /\ NewPosition \in Location
  BY <1>1, <1>5, NewPlace
<1>15. a \notin M => Pos(g, M, End(g, a)) = auxNextFree
  BY <1>1, <1>4, PosOfObject
<1>16. QED BY <1>3, <1>5, <1>8, <1>9, <1>10, <1>11, <1>12, <1>13, <1>14, <1>15 DEF HeaderOf

(* A step of the walk changes what the walk is about, nothing else.         *)
LEMMA WalkGoesOn ==
  ASSUME NEW g, NEW u, NEW L, NEW M, NEW n, WalkInv(g, u, L, M, n), WalkStep,
         pc' \in PlanLabels,
         NEW n2,
         Walked(memory', u, g, L, M, n2, buffer'), Turn(g, L, M, n2, buffer', reference'),
         Renamed(g, M, newToOld', buffer', reference'),
         Standing(g, buffer', Base', NextFree'), reference' # None => buffer' # NextFree',
         auxNextFree' = Pos(g, M, buffer')
  PROVE  WalkInv(g, u, L, M, n2)'
<1>1. UNCHANGED <<oldNextFree, fromNextFree, copy>> /\ (Idle => Idle')
  BY DEF WalkStep, Idle, localVars, scanVars, historyVars
<1>2. Idle /\ Heap(u, g, oldNextFree, fromNextFree) /\ Heap(copy, g, oldNextFree, fromNextFree)
      /\ AllKept(copy, g, u) /\ Lists(u, g, L) /\ Explored(u, g, L, M, RescuedEphemerons + 1, {})
      /\ WeakTold(copy, g, u, M)
  BY DEF WalkInv
<1>3. QED BY <1>1, <1>2 DEF WalkInv

LEMMA WalkStartUnthreading ==
  ASSUME NEW g, NEW u, NEW L, NEW M, NEW n, WalkInv(g, u, L, M, n), StartUnthreading
  PROVE  WalkInv(g, u, L, M, n)'
<1>0. /\ Placement(g, oldNextFree, fromNextFree) /\ L \in [DOMAIN g -> Seq(Location)]
      /\ Turn(g, L, M, n, buffer, reference) /\ Renamed(g, M, newToOld, buffer, reference)
      /\ Standing(g, buffer, Base, NextFree) /\ \A a \in DOMAIN g : a \in M <=> L[a] # << >>
  BY WalkFacts
<1>1. /\ reference = None /\ IsBelowNextFree(NextObject) /\ HasBeenSeenInSpace(NextObject)
      /\ reference' = Value(HeaderOf(NextObject)) /\ WalkStep
      /\ newToOld' = [a \in DOMAIN newToOld \cup {NewPosition} |->
                        IF a = NewPosition THEN NextObject ELSE newToOld[a]]
      /\ UNCHANGED <<memory, auxNextFree, buffer, pc>>
  BY DEF StartUnthreading
<1>2. pc \in PlanLabels /\ auxNextFree = Pos(g, M, buffer) /\ Walked(memory, u, g, L, M, n, buffer)
  BY DEF WalkInv
<1>3. PICK a \in DOMAIN g : Start(g, a) = buffer
  BY <1>0, <1>1, <1>2, StandingSpace DEF PlanLabels
<1>4. /\ NextObject = a /\ NewPosition = New(g, M, a) /\ a \in M
      /\ Value(HeaderOf(a)) = L[a][Len(L[a])]
  BY <1>1, <1>3, WalkObject
<1>5. PICK ref : ref = L[a][Len(L[a])]
  OBVIOUS
<1>6. Turn(g, L, M, n, buffer, None) /\ Renamed(g, M, newToOld, buffer, None)
  BY <1>0, <1>1
<1>7. Turn(g, L, M, n, buffer, ref) /\ ref # None
  BY <1>0, <1>3, <1>4, <1>5, <1>6, TurnStarts
<1>8. PICK x, names2 : x = New(g, M, a) /\ Noting(names2, newToOld, x, a)
  BY DEF Noting
<1>9. Renamed(g, M, names2, buffer, ref)
  BY <1>0, <1>3, <1>4, <1>6, <1>7, <1>8, NotedStarts
<1>10. newToOld' = names2 /\ reference' = ref
  BY <1>1, <1>4, <1>5, <1>8 DEF Noting
<1>11. Base' = Base /\ NextFree' = NextFree
  BY <1>1 DEF Base, NextFree, WalkStep
<1>12. QED
  <2>1. Standing(g, buffer', Base', NextFree') /\ buffer' # NextFree'
    BY <1>0, <1>1, <1>2, <1>11, StandingSpace DEF PlanLabels
  <2>2. Turn(g, L, M, n, buffer', reference') /\ Renamed(g, M, newToOld', buffer', reference')
    BY <1>1, <1>7, <1>9, <1>10
  <2>3. Walked(memory', u, g, L, M, n, buffer') /\ auxNextFree' = Pos(g, M, buffer') /\ pc' \in PlanLabels
    BY <1>1, <1>2
  <2>4. QED BY <1>1, <2>1, <2>2, <2>3, WalkGoesOn


LEMMA WalkUpdateReference ==
  ASSUME NEW g, NEW u, NEW L, NEW M, NEW n, WalkInv(g, u, L, M, n), UpdateReference
  PROVE  \E n2 : WalkInv(g, u, L, M, n2)'
<1>0. /\ Heap(u, g, oldNextFree, fromNextFree) /\ Placement(g, oldNextFree, fromNextFree)
      /\ Lists(u, g, L) /\ L \in [DOMAIN g -> Seq(Location)] /\ Lefts(g, n)
      /\ Walked(memory, u, g, L, M, n, buffer) /\ Turn(g, L, M, n, buffer, reference)
      /\ Renamed(g, M, newToOld, buffer, reference) /\ Standing(g, buffer, Base, NextFree)
  BY WalkFacts
<1>1. /\ reference # None /\ Is("link", memory[reference])
      /\ memory' = [memory EXCEPT ![reference] = Oop(NewPosition)]
      /\ reference' = Value(memory[reference]) /\ WalkStep
      /\ UNCHANGED <<auxNextFree, buffer, newToOld, pc>>
  BY DEF UpdateReference
<1>2. /\ pc \in PlanLabels /\ auxNextFree = Pos(g, M, buffer) /\ buffer # NextFree
  BY <1>1 DEF WalkInv
<1>3. PICK a \in DOMAIN g : /\ Start(g, a) = buffer /\ a \in M /\ n[a] \in 1 .. Len(L[a])
                            /\ reference = L[a][n[a]]
  BY <1>0, <1>1, TurnAt
<1>4. NewPosition = New(g, M, a)
  BY <1>3, WalkObject
<1>5. n[a] # 1 /\ memory[reference] = Link(L[a][n[a] - 1])
  <2>0. PICK k \in 1 .. Len(L[a]) : k = n[a]
    BY <1>3
  <2>1. PICK x : k = n[a] /\ x = L[a][k]
    BY <2>0
  <2>2. /\ k = 1 => memory[x] = u[a - 2] /\ ~Is("link", memory[x])
        /\ k # 1 => memory[x] = Link(L[a][k - 1])
    BY <1>0, <2>1, WalkedOn
  <2>3. QED BY <1>1, <1>3, <2>1, <2>2
<1>6. PICK n2, ref : Done(n2, n, a) /\ ref = L[a][n[a] - 1]
  BY DEF Done
<1>7. reference' = ref
  BY <1>1, <1>5, <1>6, Tags
<1>8. Walked(memory', u, g, L, M, n2, buffer)
  <2>1. memory' = [memory EXCEPT ![L[a][n[a]]] = Oop(New(g, M, a))]
    BY <1>1, <1>3, <1>4
  <2>2. QED BY <1>0, <1>3, <1>6, <2>1, WalkedUpdate
<1>9. Turn(g, L, M, n2, buffer, ref) /\ ref # None
  BY <1>0, <1>1, <1>3, <1>5, <1>6, TurnGoesOn
<1>10. Renamed(g, M, newToOld, buffer, ref)
  BY <1>0, <1>1, <1>9, NotedGoesOn
<1>11. Base' = Base /\ NextFree' = NextFree
  BY <1>1 DEF Base, NextFree, WalkStep
<1>12. WalkInv(g, u, L, M, n2)'
  <2>1. Standing(g, buffer', Base', NextFree') /\ buffer' # NextFree'
    BY <1>0, <1>1, <1>2, <1>11
  <2>2. Turn(g, L, M, n2, buffer', reference') /\ Renamed(g, M, newToOld', buffer', reference')
    BY <1>1, <1>7, <1>9, <1>10
  <2>3. Walked(memory', u, g, L, M, n2, buffer') /\ auxNextFree' = Pos(g, M, buffer') /\ pc' \in PlanLabels
    BY <1>1, <1>2, <1>8
  <2>4. QED BY <1>1, <2>1, <2>2, <2>3, WalkGoesOn
<1>13. QED BY <1>12

LEMMA WalkEndUnthreading ==
  ASSUME NEW g, NEW u, NEW L, NEW M, NEW n, WalkInv(g, u, L, M, n), EndUnthreading
  PROVE  \E n2 : WalkInv(g, u, L, M, n2)'
<1>0. /\ Heap(u, g, oldNextFree, fromNextFree) /\ Placement(g, oldNextFree, fromNextFree)
      /\ Lists(u, g, L) /\ L \in [DOMAIN g -> Seq(Location)] /\ Lefts(g, n)
      /\ Walked(memory, u, g, L, M, n, buffer) /\ Turn(g, L, M, n, buffer, reference)
      /\ Renamed(g, M, newToOld, buffer, reference) /\ Standing(g, buffer, Base, NextFree)
  BY WalkFacts
<1>1. /\ reference # None /\ ~Is("link", memory[reference]) /\ reference' = None
      /\ WalkStep /\ UNCHANGED <<newToOld, pc>>
  BY DEF EndUnthreading
<1>2. PICK bits : bits = Value(memory[reference])
  OBVIOUS
<1>3. /\ memory' = [memory EXCEPT ![reference] = Oop(NewPosition),
                                  ![NextObject - 2] = Bits([bits EXCEPT !.unseenInSpace = FALSE])]
      /\ auxNextFree' = NewPosition + SizeIn(bits, NextObject)
      /\ buffer' = NextObject + SizeIn(bits, NextObject)
  BY <1>2 DEF EndUnthreading
<1>4. /\ pc \in PlanLabels /\ auxNextFree = Pos(g, M, buffer) /\ buffer # NextFree
  BY <1>1 DEF WalkInv
<1>5. PICK a \in DOMAIN g : /\ Start(g, a) = buffer /\ a \in M /\ n[a] \in 1 .. Len(L[a])
                            /\ L[a] # << >> /\ reference = L[a][n[a]]
  BY <1>0, <1>1, TurnAt
<1>6. /\ NextObject = a /\ NewPosition = New(g, M, a)
      /\ SizeIn(Value(u[a - 2]), a) = g[a].size /\ a + g[a].size = End(g, a)
      /\ NewPosition + g[a].size = Pos(g, M, End(g, a))
  BY <1>5, WalkObject
<1>7. n[a] = 1 /\ memory[reference] = u[a - 2]
  <2>9. PICK k \in 1 .. Len(L[a]) : k = n[a]
    BY <1>5
  <2>0. PICK x : k = n[a] /\ x = L[a][k]
    BY <2>9
  <2>1. /\ k = 1 => memory[x] = u[a - 2] /\ ~Is("link", memory[x])
        /\ k # 1 => memory[x] = Link(L[a][k - 1])
    BY <1>0, <2>0, WalkedOn
  <2>2. \A y : Is("link", Link(y))
    BY Tags
  <2>3. k = 1
    BY <1>1, <1>5, <2>0, <2>1, <2>2
  <2>4. QED BY <1>5, <2>0, <2>1, <2>3
<1>8. PICK n2, x : Done(n2, n, a) /\ x = L[a][1]
  BY DEF Done
<1>9. buffer' = End(g, a) /\ auxNextFree' = Pos(g, M, End(g, a))
  BY <1>2, <1>3, <1>6, <1>7
<1>10. Walked(memory', u, g, L, M, n2, End(g, a)) /\ Lefts(g, n2)
  <2>1. memory' = [memory EXCEPT ![x] = Oop(New(g, M, a)), ![a - 2] = SeenBits(u, a)]
    BY <1>2, <1>3, <1>5, <1>6, <1>7, <1>8 DEF SeenBits
  <2>2. QED BY <1>0, <1>5, <1>7, <1>8, <2>1, WalkedEnd
<1>11. PICK e : e = End(g, a)
  OBVIOUS
<1>12. Turn(g, L, M, n2, e, None)
  <2>1. n2[a] = 0 /\ \A c \in DOMAIN g : c # a => n2[c] = n[c]
    BY <1>0, <1>7, <1>8 DEF Done, Lefts
  <2>2. QED BY <1>0, <1>5, <1>10, <1>11, <2>1, TurnPast
<1>13. Renamed(g, M, newToOld, e, None)
  BY <1>0, <1>1, <1>5, <1>11, NotedPast
<1>14. Base' = Base /\ NextFree' = NextFree
  BY <1>1 DEF Base, NextFree, WalkStep
<1>15. Standing(g, e, Base, NextFree)
  <2>1. PICK c \in DOMAIN g : Start(g, c) = buffer /\ Standing(g, End(g, c), Base, NextFree)
    BY <1>0, <1>4, StandingSpace DEF PlanLabels
  <2>2. c = a
    BY <1>0, <1>5, <2>1, StartsApart
  <2>3. QED BY <1>11, <2>1, <2>2
<1>16. WalkInv(g, u, L, M, n2)'
  <2>1. Standing(g, buffer', Base', NextFree')
    BY <1>9, <1>11, <1>14, <1>15
  <2>2. Turn(g, L, M, n2, buffer', reference') /\ Renamed(g, M, newToOld', buffer', reference')
    BY <1>1, <1>9, <1>11, <1>12, <1>13
  <2>3. Walked(memory', u, g, L, M, n2, buffer') /\ auxNextFree' = Pos(g, M, buffer') /\ pc' \in PlanLabels
    BY <1>1, <1>4, <1>9, <1>10
  <2>4. QED BY <1>1, <2>1, <2>2, <2>3, WalkGoesOn
<1>17. QED BY <1>16

LEMMA WalkSkipUnseen ==
  ASSUME NEW g, NEW u, NEW L, NEW M, NEW n, WalkInv(g, u, L, M, n), SkipUnseen
  PROVE  WalkInv(g, u, L, M, n)'
<1>0. /\ Heap(u, g, oldNextFree, fromNextFree) /\ Placement(g, oldNextFree, fromNextFree)
      /\ Lists(u, g, L) /\ L \in [DOMAIN g -> Seq(Location)] /\ Lefts(g, n)
      /\ Walked(memory, u, g, L, M, n, buffer) /\ Turn(g, L, M, n, buffer, reference)
      /\ Renamed(g, M, newToOld, buffer, reference) /\ Standing(g, buffer, Base, NextFree)
      /\ \A a \in DOMAIN g : a \in M <=> L[a] # << >>
  BY WalkFacts
<1>1. /\ reference = None /\ IsBelowNextFree(NextObject) /\ ~HasBeenSeenInSpace(NextObject)
      /\ buffer' = NextObject + Size(NextObject) /\ WalkStep
      /\ UNCHANGED <<memory, auxNextFree, reference, newToOld, pc>>
  BY DEF SkipUnseen
<1>2. pc \in PlanLabels /\ auxNextFree = Pos(g, M, buffer)
  BY DEF WalkInv
<1>3. PICK a \in DOMAIN g : Start(g, a) = buffer /\ Standing(g, End(g, a), Base, NextFree)
  BY <1>0, <1>1, <1>2, StandingSpace DEF PlanLabels
<1>4. NextObject = a /\ (HasBeenSeenInSpace(a) <=> a \in M)
  BY <1>3, WalkObject
<1>5. a \notin M
  BY <1>1, <1>4
<1>6. Size(a) = g[a].size /\ a + g[a].size = End(g, a) /\ Pos(g, M, End(g, a)) = auxNextFree
  BY <1>3, <1>5, WalkObject
<1>7. PICK e : e = End(g, a)
  OBVIOUS
<1>8. buffer' = e
  BY <1>1, <1>4, <1>6, <1>7
<1>9. Walked(memory, u, g, L, M, n, e)
  BY <1>0, <1>3, <1>5, <1>7, WalkedPast
<1>10. Turn(g, L, M, n, e, None)
  <2>1. n[a] = 0
    <3>1. n[a] = Len(L[a]) /\ L[a] = << >>
      BY <1>0, <1>1, <1>3, <1>5 DEF Turn
    <3>2. QED BY <3>1
  <2>2. QED BY <1>0, <1>3, <1>7, <2>1, TurnPast
<1>11. Renamed(g, M, newToOld, e, None)
  BY <1>0, <1>1, <1>3, <1>5, <1>7, NotedPast
<1>12. Base' = Base /\ NextFree' = NextFree
  BY <1>1 DEF Base, NextFree, WalkStep
<1>13. QED
  <2>1. Standing(g, buffer', Base', NextFree') /\ auxNextFree' = Pos(g, M, buffer')
    BY <1>1, <1>3, <1>6, <1>7, <1>8, <1>12
  <2>2. Turn(g, L, M, n, buffer', reference') /\ Renamed(g, M, newToOld', buffer', reference')
    BY <1>1, <1>8, <1>10, <1>11
  <2>3. Walked(memory', u, g, L, M, n, buffer') /\ pc' \in PlanLabels /\ reference' = None
    BY <1>1, <1>2, <1>8, <1>9
  <2>4. QED BY <1>1, <2>1, <2>2, <2>3, WalkGoesOn


(* The walk is at the end of what is in use when there is no object.        *)
LEMMA WalkAtEnd ==
  ASSUME NEW g, NEW u, NEW L, NEW M, NEW n, WalkInv(g, u, L, M, n), ~IsBelowNextFree(NextObject)
  PROVE  buffer = NextFree
<1>1. SUFFICES ASSUME buffer # NextFree PROVE FALSE
  OBVIOUS
<1>2. /\ Placement(g, oldNextFree, fromNextFree) /\ Standing(g, buffer, Base, NextFree)
      /\ pc \in PlanLabels
  BY WalkFacts DEF WalkInv
<1>3. PICK a \in DOMAIN g : Start(g, a) = buffer /\ End(g, a) <= NextFree
  BY <1>1, <1>2, StandingSpace DEF PlanLabels
<1>4. NextObject = a
  BY <1>3, WalkObject
<1>5. a <= End(g, a) /\ a \in Nat /\ End(g, a) \in Nat /\ NextFree \in Nat
  BY <1>2, Extents, PosOfObject, StandingSpace DEF PlanLabels
<1>6. QED BY <1>3, <1>4, <1>5 DEF IsBelowNextFree

LEMMA WalkOldPositionsSet ==
  ASSUME NEW g, NEW u, NEW L, NEW M, NEW n, WalkInv(g, u, L, M, n), OldPositionsSet
  PROVE  WalkInv(g, u, L, M, n)'
<1>0. /\ Placement(g, oldNextFree, fromNextFree) /\ L \in [DOMAIN g -> Seq(Location)]
      /\ Walked(memory, u, g, L, M, n, buffer) /\ Turn(g, L, M, n, buffer, reference)
      /\ Renamed(g, M, newToOld, buffer, reference)
  BY WalkFacts
<1>1. /\ pc = "setNewPositions" /\ reference = None /\ ~IsBelowNextFree(NextObject)
      /\ buffer' = FromBase /\ pc' = "setNewPositionsInFrom" /\ WalkStep
      /\ UNCHANGED <<memory, auxNextFree, reference, newToOld>>
  BY DEF OldPositionsSet, WalkFrom
<1>2. buffer = oldNextFree /\ auxNextFree = Pos(g, M, buffer)
  BY <1>1, WalkAtEnd DEF NextFree, WalkInv
<1>3. /\ Turn(g, L, M, n, FromBase, None)
      /\ \A a \in DOMAIN g : (Start(g, a) < oldNextFree <=> Start(g, a) < FromBase)
      /\ Pos(g, M, oldNextFree) = Pos(g, M, FromBase)
  BY <1>0, <1>1, <1>2, TurnToFrom
<1>4. Renamed(g, M, newToOld, FromBase, None)
  BY <1>0, <1>1, <1>2, <1>3, NotedToFrom
<1>5. Walked(memory, u, g, L, M, n, FromBase)
  BY <1>0, <1>2, <1>3 DEF Walked, HeadersLeft
<1>6. Base' = FromBase /\ NextFree' = fromNextFree
  BY <1>1 DEF Base, NextFree, WalkStep
<1>7. Standing(g, FromBase, FromBase, fromNextFree)
  BY <1>0, StandingAtBase
<1>8. QED
  <2>1. Standing(g, buffer', Base', NextFree') /\ auxNextFree' = Pos(g, M, buffer')
    BY <1>1, <1>2, <1>3, <1>6, <1>7
  <2>2. Turn(g, L, M, n, buffer', reference') /\ Renamed(g, M, newToOld', buffer', reference')
    BY <1>1, <1>3, <1>4
  <2>3. Walked(memory', u, g, L, M, n, buffer') /\ pc' \in PlanLabels /\ reference' = None
    BY <1>1, <1>5 DEF PlanLabels
  <2>4. QED BY <1>1, <2>1, <2>2, <2>3, WalkGoesOn

-----------------------------------------------------------------------------
(* The memory s with every list undone: the words of u, but what was        *)
(* reached refers to where objects will be.                                 *)
Everywhere(g, M, l) == Reached(g, M, RescuedEphemerons + 1, l)
Settled(s, u, g, M) ==
  /\ DOMAIN s = Location
  /\ \A a \in DOMAIN g : a \in M => s[a - 2] = SeenBits(u, a)
  /\ \A l \in Location : Everywhere(g, M, l) =>
       \A a \in DOMAIN g : u[l] = Oop(a) => a \in M /\ s[l] = Oop(New(g, M, a))
  /\ \A l \in Location :
       \/ s[l] = u[l]
       \/ \E a \in DOMAIN g : a \in M /\ l = a - 2
       \/ Everywhere(g, M, l) /\ \E a \in DOMAIN g : u[l] = Oop(a)

LEMMA WalkSettles ==
  ASSUME NEW u, NEW g, NEW on, NEW fn, Heap(u, g, on, fn), NEW L, Lists(u, g, L), NEW M,
         Explored(u, g, L, M, RescuedEphemerons + 1, {}), NEW n, NEW b,
         NEW m, Walked(m, u, g, L, M, n, b),
         \A a \in DOMAIN g : n[a] = 0 /\ Start(g, a) < b
  PROVE  Settled(m, u, g, M)
<1>1. DOMAIN m = Location /\ DOMAIN L = DOMAIN g
  BY DEF Walked, Lists
<1>2. ASSUME NEW a \in DOMAIN g, a \in M PROVE m[a - 2] = SeenBits(u, a)
  <2>1. L[a] # << >>
    BY <1>2 DEF Explored
  <2>2. QED BY <2>1 DEF Walked, HeadersLeft
<1>3. ASSUME NEW l \in Location, Everywhere(g, M, l), NEW a \in DOMAIN g, u[l] = Oop(a)
      PROVE  a \in M /\ m[l] = Oop(New(g, M, a))
  <2>1. a \in M /\ InList(L, a, l)
    BY <1>3 DEF Explored, Everywhere, Known
  <2>2. PICK j \in 1 .. Len(L[a]) : L[a][j] = l
    BY <2>1 DEF InList
  <2>3. Len(L[a]) \in Nat
    BY Listed
  <2>4. j > n[a]
    BY <2>3
  <2>5. QED BY <2>1, <2>2, <2>4 DEF Walked, SlotsLeft
<1>4. ASSUME NEW l \in Location
      PROVE  \/ m[l] = u[l]
             \/ \E a \in DOMAIN g : a \in M /\ l = a - 2
             \/ Everywhere(g, M, l) /\ \E a \in DOMAIN g : u[l] = Oop(a)
  <2>1. CASE OnList(L, l)
    <3>1. \E a \in DOMAIN g : u[l] = Oop(a)
      BY <2>1, ListedWord
    <3>2. Everywhere(g, M, l)
      BY <2>1 DEF Explored, Everywhere
    <3>3. QED BY <3>1, <3>2
  <2>2. CASE HeadsList(L, l)
    <3>1. l + 2 \in DOMAIN g /\ L[l + 2] # << >>
      BY <1>1, <2>2 DEF HeadsList
    <3>2. l + 2 \in M /\ l = (l + 2) - 2
      BY <3>1, Bounds DEF Explored
    <3>3. QED BY <3>1, <3>2
  <2>3. CASE ~OnList(L, l) /\ ~HeadsList(L, l)
    BY <2>3 DEF Walked, OthersLeft
  <2>4. QED BY <2>1, <2>2, <2>3
<1>5. QED BY <1>1, <1>2, <1>3, <1>4 DEF Settled

LEMMA SettledProper ==
  ASSUME NEW u, NEW g, NEW on, NEW fn, Heap(u, g, on, fn), NEW M, NEW s, Settled(s, u, g, M)
  PROVE  \A l \in Location : Proper(s[l])
<1>1. SUFFICES ASSUME NEW l \in Location PROVE Proper(s[l])
  OBVIOUS
<1>2. CASE s[l] = u[l]
  BY <1>2 DEF Heap
<1>3. CASE \E a \in DOMAIN g : a \in M /\ l = a - 2
  <2>1. PICK a \in DOMAIN g : a \in M /\ l = a - 2
    BY <1>3
  <2>2. s[l] = SeenBits(u, a)
    BY <2>1 DEF Settled
  <2>3. [Value(u[a - 2]) EXCEPT !.unseenInSpace = FALSE] \in HeaderBits
    <3>1. Value(u[a - 2]) \in HeaderBits
      BY HeaderWord
    <3>2. QED BY <3>1 DEF HeaderBits
  <2>4. QED BY <2>2, <2>3, WordsMade DEF SeenBits
<1>4. CASE Everywhere(g, M, l) /\ \E a \in DOMAIN g : u[l] = Oop(a)
  <2>1. PICK a \in DOMAIN g : u[l] = Oop(a)
    BY <1>4
  <2>2. a \in M /\ s[l] = Oop(New(g, M, a))
    BY <1>4, <2>1 DEF Settled
  <2>3. New(g, M, a) \in Location
    BY <2>2, NewPlace DEF Heap
  <2>4. QED BY <2>2, <2>3, WordsMade
<1>5. QED BY <1>2, <1>3, <1>4 DEF Settled


-----------------------------------------------------------------------------
(* What compact has copied of the memory s when it stands at b: every       *)
(* marked object in front of b is where it was planned, and nothing is      *)
(* between these objects.  Behind b nothing changed yet.                    *)
Moved(m, s, g, M, a) ==
  \A l \in Int : Start(g, a) <= l /\ l < End(g, a) =>
    m[l - (a - New(g, M, a))] = IF l = a - 2 THEN Bits(CopiedBits(Value(s[l]))) ELSE s[l]

Covered(g, M, b) ==
  \A l \in Int : OldBase <= l /\ l < Pos(g, M, b) =>
    \E a \in DOMAIN g : /\ a \in M /\ Start(g, a) < b
                        /\ Pos(g, M, Start(g, a)) <= l /\ l < Pos(g, M, End(g, a))

Compacted(m, s, g, M, b) ==
  /\ DOMAIN m = Location /\ \A l \in Location : Proper(m[l])
  /\ \A l \in Location : l < OldBase \/ b <= l => m[l] = s[l]
  /\ \A a \in DOMAIN g : a \in M /\ Start(g, a) < b => Moved(m, s, g, M, a)
  /\ Covered(g, M, b)

LEMMA CompactedAtFirst ==
  ASSUME NEW u, NEW g, NEW on, NEW fn, Heap(u, g, on, fn), NEW M, NEW s, Settled(s, u, g, M)
  PROVE  Compacted(s, s, g, M, OldBase)
<1>1. Placement(g, on, fn)
  BY DEF Heap
<1>2. \A a \in DOMAIN g : ~(Start(g, a) < OldBase)
  <2>1. OldBase \in Nat
    BY Bounds
  <2>2. QED BY <1>1, <2>1, PosOfObject
<1>3. Covered(g, M, OldBase)
  BY PosAtBase, Bounds DEF Covered
<1>4. DOMAIN s = Location /\ \A l \in Location : Proper(s[l])
  BY SettledProper DEF Settled
<1>5. QED BY <1>2, <1>3, <1>4 DEF Compacted

(* An object that was not marked is left out.                               *)
LEMMA CompactedPast ==
  ASSUME NEW g, NEW on, NEW fn, Placement(g, on, fn), NEW M, NEW s, NEW m,
         NEW a \in DOMAIN g, a \notin M, NEW b, b = Start(g, a), Compacted(m, s, g, M, b),
         NEW e, e = End(g, a)
  PROVE  Compacted(m, s, g, M, e)
<1>1. /\ b \in Nat /\ e \in Nat /\ b < e /\ Pos(g, M, e) = Pos(g, M, b)
  BY PosOfObject
<1>2. \A c \in DOMAIN g : c \in M => (Start(g, c) < e <=> Start(g, c) < b)
  BY StartsApart
<1>3. Covered(g, M, e)
  BY <1>1, <1>2 DEF Covered, Compacted
<1>4. \A l \in Location : e <= l => b <= l
  BY <1>1, Bounds
<1>5. QED BY <1>2, <1>3, <1>4 DEF Compacted

(* The next marked object, at b, is copied from there.                      *)
Copied(m2, m, a, x, p, size, b) ==
  /\ DOMAIN m2 = Location
  /\ \A l \in Location : m2[l] = IF l = x - 2 THEN Bits(CopiedBits(Value(m[a - 2])))
                                 ELSE IF p <= l /\ l <= p + size - 1 THEN m[l - p + b] ELSE m[l]

LEMMA CopiedObject ==
  ASSUME NEW u, NEW g, NEW on, NEW fn, Heap(u, g, on, fn), NEW M, NEW s, Settled(s, u, g, M), NEW m,
         NEW a \in DOMAIN g, a \in M, NEW b, b = Start(g, a), Compacted(m, s, g, M, b),
         NEW e, e = End(g, a), NEW p, p = Pos(g, M, b), NEW x, x = New(g, M, a), NEW size, size = e - b,
         NEW m2, Copied(m2, m, a, x, p, size, b)
  PROVE  Compacted(m2, s, g, M, e)
<1>1. Placement(g, on, fn) /\ DOMAIN m = Location
  BY DEF Heap, Compacted
<1>2. /\ b \in Nat /\ e \in Nat /\ b < e /\ OldBase <= b /\ OldBase \in Nat
      /\ p \in Nat /\ Pos(g, M, e) = p + size /\ size \in Nat
  BY <1>1, PosOfObject, Bounds
<1>3. /\ a \in Nat /\ x \in Nat /\ a - x \in Nat /\ a - x = b - p /\ OldBase <= p /\ p <= b
      /\ p + 2 <= x /\ b + 2 <= a /\ a <= e
  <2>1. /\ x \in Nat /\ a - x = b - p /\ a - x \in Nat /\ OldBase <= p /\ p <= b
        /\ x = p + (IF g[a].extended THEN 3 ELSE 2)
    BY <1>1, NewPlace
  <2>2. /\ a \in Nat /\ b = a - (IF g[a].extended THEN 3 ELSE 2) /\ a <= e
    BY <1>1, Extents
  <2>3. QED BY <1>2, <2>1, <2>2
<1>4. /\ e <= FromEnd /\ FromEnd \in Nat
      /\ \A y \in Int : 0 <= y /\ y <= e => y \in Location
      /\ \A y \in Location : y \in Int
  <2>1. e <= FromEnd
    BY <1>1, Extents
  <2>2. FromEnd \in Nat /\ Location = 0 .. FromEnd + 2
    BY Bounds
  <2>3. QED BY <1>2, <2>1, <2>2
<1>5. m[a - 2] = s[a - 2] /\ a - 2 \in Location
  <2>1. a - 2 \in Location /\ b <= a - 2
    BY <1>2, <1>3, <1>4
  <2>2. QED BY <2>1 DEF Compacted
<1>6. \A l \in Location : Proper(m2[l])
  <2>1. SUFFICES ASSUME NEW l \in Location PROVE Proper(m2[l])
    OBVIOUS
  <2>2. CASE l = x - 2
    <3>1. m2[l] = Bits(CopiedBits(Value(s[a - 2])))
      BY <1>5, <2>2 DEF Copied
    <3>2. s[a - 2] = SeenBits(u, a)
      BY DEF Settled
    <3>3. Value(u[a - 2]) \in HeaderBits
      BY HeaderWord
    <3>4. Value(s[a - 2]) \in HeaderBits
      <4>1. \A y : Value(Bits(y)) = y
        BY Tags
      <4>2. Value(s[a - 2]) = [Value(u[a - 2]) EXCEPT !.unseenInSpace = FALSE]
        BY <3>2, <4>1 DEF SeenBits
      <4>3. QED BY <3>3, <4>2 DEF HeaderBits
    <3>5. CopiedBits(Value(s[a - 2])) \in HeaderBits
      BY <3>4 DEF CopiedBits, HeaderBits
    <3>6. QED BY <3>1, <3>5, WordsMade
  <2>3. CASE l # x - 2 /\ p <= l /\ l <= p + size - 1
    <3>1. m2[l] = m[l - p + b]
      BY <2>3 DEF Copied
    <3>2. l - p + b \in Location
      BY <1>2, <1>3, <1>4, <2>3
    <3>3. QED BY <3>1, <3>2 DEF Compacted
  <2>4. CASE l # x - 2 /\ ~(p <= l /\ l <= p + size - 1)
    <3>1. m2[l] = m[l]
      BY <2>4 DEF Copied
    <3>2. QED BY <3>1 DEF Compacted
  <2>5. QED BY <2>2, <2>3, <2>4
(* What is outside of the words copied to stays.                            *)
<1>7. \A l \in Location : l < p \/ p + size <= l => m2[l] = m[l]
  <2>1. SUFFICES ASSUME NEW l \in Location, l < p \/ p + size <= l PROVE m2[l] = m[l]
    OBVIOUS
  <2>2. x - 2 >= p /\ x - 2 < p + size
    BY <1>2, <1>3
  <2>3. l # x - 2 /\ ~(p <= l /\ l <= p + size - 1)
    BY <1>2, <1>3, <1>4, <2>1, <2>2
  <2>4. QED BY <2>3 DEF Copied
<1>8. \A l \in Location : l < OldBase \/ e <= l => m2[l] = s[l]
  <2>1. SUFFICES ASSUME NEW l \in Location, l < OldBase \/ e <= l PROVE m2[l] = s[l]
    OBVIOUS
  <2>2. (l < p \/ p + size <= l) /\ (l < OldBase \/ b <= l)
    BY <1>2, <1>3, <1>4, <2>1
  <2>3. QED BY <1>7, <2>2 DEF Compacted
<1>9. ASSUME NEW c \in DOMAIN g, c \in M, Start(g, c) < e PROVE Moved(m2, s, g, M, c)
  <2>1. Start(g, c) < b \/ c = a
    BY <1>1, <1>9, StartsApart
  <2>2. CASE Start(g, c) < b
    <3>1. SUFFICES ASSUME NEW l \in Int, Start(g, c) <= l, l < End(g, c)
                   PROVE  m2[l - (c - New(g, M, c))]
                            = IF l = c - 2 THEN Bits(CopiedBits(Value(s[l]))) ELSE s[l]
      BY DEF Moved
    <3>2. Moved(m, s, g, M, c)
      BY <1>9, <2>2 DEF Compacted
    <3>3. PICK t, d : d = c - New(g, M, c) /\ t = l - d
      OBVIOUS
    <3>4. m[t] = IF l = c - 2 THEN Bits(CopiedBits(Value(s[l]))) ELSE s[l]
      BY <3>1, <3>2, <3>3 DEF Moved
    <3>5. t \in Location /\ t < p
      <4>1. c < a /\ c # a
        <5>1. c = a \/ a < c \/ c < a
          BY <1>1, Extents
        <5>2. a < c => e <= Start(g, c)
          BY DEF Heap, Placement
        <5>3. Start(g, c) \in Nat
          BY <1>1, PosOfObject
        <5>4. QED BY <1>2, <2>2, <5>1, <5>2, <5>3
      <4>2. New(g, M, c) + g[c].size <= p
        BY <1>1, <1>9, <4>1, NewInOrder
      <4>3. /\ New(g, M, c) \in Nat /\ OldBase + 2 <= New(g, M, c) /\ g[c].size \in Nat
            /\ d = Start(g, c) - Pos(g, M, Start(g, c)) /\ OldBase <= Pos(g, M, Start(g, c))
            /\ Pos(g, M, Start(g, c)) \in Nat /\ d \in Nat
        BY <1>1, <1>9, <3>3, NewPlace
      <4>4. End(g, c) = c + g[c].size /\ c \in Nat /\ Start(g, c) \in Nat
        BY <1>1, Extents, PosOfObject
      <4>5. t < p
        BY <1>2, <3>1, <3>3, <4>2, <4>3, <4>4
      <4>6. OldBase <= t /\ t \in Int
        BY <1>2, <3>1, <3>3, <4>3, <4>4
      <4>7. QED BY <1>2, <1>3, <1>4, <4>5, <4>6
    <3>6. m2[t] = m[t]
      BY <1>7, <3>5
    <3>7. QED BY <3>3, <3>4, <3>6
  <2>3. CASE c = a
    <3>1. SUFFICES ASSUME NEW l \in Int, b <= l, l < e
                   PROVE  m2[l - (a - x)] = IF l = a - 2 THEN Bits(CopiedBits(Value(s[l]))) ELSE s[l]
      BY <2>3 DEF Moved
    <3>2. PICK t : t = l - (a - x)
      OBVIOUS
    <3>3. /\ t \in Location /\ p <= t /\ t <= p + size - 1 /\ t - p + b = l
          /\ t = x - 2 <=> l = a - 2
      BY <1>2, <1>3, <1>4, <3>1, <3>2
    <3>4. l \in Location /\ m[l] = s[l]
      <4>1. l \in Location
        BY <1>2, <1>4, <3>1
      <4>2. QED BY <3>1, <4>1 DEF Compacted
    <3>5. QED BY <1>5, <3>2, <3>3, <3>4 DEF Copied
  <2>4. QED BY <2>1, <2>2, <2>3
<1>10. Covered(g, M, e)
  <2>1. SUFFICES ASSUME NEW l \in Int, OldBase <= l, l < Pos(g, M, e)
                 PROVE  \E c \in DOMAIN g : /\ c \in M /\ Start(g, c) < e
                                            /\ Pos(g, M, Start(g, c)) <= l /\ l < Pos(g, M, End(g, c))
    BY DEF Covered
  <2>2. CASE l < p
    <3>1. PICK c \in DOMAIN g : /\ c \in M /\ Start(g, c) < b
                                /\ Pos(g, M, Start(g, c)) <= l /\ l < Pos(g, M, End(g, c))
      BY <2>1, <2>2 DEF Compacted, Covered
    <3>2. Start(g, c) < e
      BY <1>1, <1>2, <3>1, PosOfObject
    <3>3. QED BY <3>1, <3>2
  <2>3. CASE p <= l
    BY <1>2, <2>1, <2>3
  <2>4. QED BY <1>2, <2>2, <2>3
<1>11. DOMAIN m2 = Location
  BY DEF Copied
<1>12. QED BY <1>6, <1>8, <1>9, <1>10, <1>11 DEF Compacted


LEMMA NoneBetween ==
  ASSUME NEW g, NEW on, NEW fn, Placement(g, on, fn)
  PROVE  \A a \in DOMAIN g : (Start(g, a) < on <=> Start(g, a) < FromBase)
<1>1. SUFFICES ASSUME NEW a \in DOMAIN g PROVE Start(g, a) < on <=> Start(g, a) < FromBase
  OBVIOUS
<1>2. /\ Start(g, a) \in Nat /\ End(g, a) \in Nat /\ Start(g, a) < End(g, a)
      /\ End(g, a) <= on \/ FromBase <= Start(g, a)
      /\ on \in Nat /\ on <= FromBase /\ FromBase \in Nat
  BY PosOfObject, Extents, Bounds
<1>3. QED BY <1>2

LEMMA CompactedToFrom ==
  ASSUME NEW g, NEW on, NEW fn, Placement(g, on, fn), NEW M, NEW s, NEW m, Compacted(m, s, g, M, on)
  PROVE  Compacted(m, s, g, M, FromBase)
<1>1. \A a \in DOMAIN g : (Start(g, a) < on <=> Start(g, a) < FromBase)
  BY NoneBetween
<1>2. Pos(g, M, FromBase) = Pos(g, M, on)
  BY PosBetweenSpaces
<1>3. on \in Nat /\ on <= FromBase /\ FromBase \in Nat
  BY Bounds DEF Placement
<1>4. \A l \in Location : FromBase <= l => on <= l
  BY <1>3, Bounds
<1>5. Covered(g, M, FromBase)
  BY <1>1, <1>2 DEF Covered, Compacted
<1>6. QED BY <1>1, <1>4, <1>5 DEF Compacted

(* compact: what holds while the objects are moved.                         *)
CompactInv(g, u, M, s) ==
  /\ pc \in {"compact", "compactFrom"} /\ Idle /\ reference = None
  /\ Heap(u, g, oldNextFree, fromNextFree) /\ Heap(copy, g, oldNextFree, fromNextFree)
  /\ AllKept(copy, g, u) /\ WeakTold(copy, g, u, M)
  /\ Settled(s, u, g, M) /\ M \subseteq Known(g) /\ Association \in M
  /\ Renamed(g, M, newToOld, fromNextFree, None)
  /\ Standing(g, buffer, Base, NextFree) /\ auxNextFree = Pos(g, M, buffer)
  /\ Compacted(memory, s, g, M, buffer)

LEMMA WalkPrepareForCompact ==
  ASSUME NEW g, NEW u, NEW L, NEW M, NEW n, WalkInv(g, u, L, M, n), PrepareForCompact
  PROVE  \E s : CompactInv(g, u, M, s)'
<1>0. /\ Heap(u, g, oldNextFree, fromNextFree) /\ Placement(g, oldNextFree, fromNextFree)
      /\ Lists(u, g, L) /\ L \in [DOMAIN g -> Seq(Location)] /\ Lefts(g, n)
      /\ Walked(memory, u, g, L, M, n, buffer) /\ Turn(g, L, M, n, buffer, reference)
      /\ Renamed(g, M, newToOld, buffer, reference)
  BY WalkFacts
<1>1. /\ pc = "setNewPositionsInFrom" /\ reference = None /\ ~IsBelowNextFree(NextObject)
      /\ buffer' = OldBase /\ auxNextFree' = OldBase /\ pc' = "compact" /\ WalkStep
      /\ UNCHANGED <<memory, reference, newToOld>>
  BY DEF PrepareForCompact
<1>2. /\ Heap(copy, g, oldNextFree, fromNextFree) /\ AllKept(copy, g, u) /\ Idle
      /\ WeakTold(copy, g, u, M)
      /\ Explored(u, g, L, M, RescuedEphemerons + 1, {})
  BY DEF WalkInv
<1>3. buffer = fromNextFree
  BY <1>1, WalkAtEnd DEF NextFree
<1>4. \A a \in DOMAIN g : Start(g, a) < fromNextFree
  <2>1. SUFFICES ASSUME NEW a \in DOMAIN g PROVE Start(g, a) < fromNextFree
    OBVIOUS
  <2>2. /\ Start(g, a) \in Nat /\ End(g, a) \in Nat /\ Start(g, a) < End(g, a)
        /\ End(g, a) <= oldNextFree \/ End(g, a) <= fromNextFree
        /\ oldNextFree \in Nat /\ oldNextFree <= FromBase /\ FromBase <= fromNextFree
        /\ FromBase \in Nat /\ fromNextFree \in Nat
    BY <1>0, PosOfObject, Extents, Bounds
  <2>3. QED BY <2>2
<1>5. \A a \in DOMAIN g : n[a] = 0 /\ Start(g, a) < fromNextFree
  BY <1>0, <1>3, <1>4 DEF Turn
<1>6. PICK s : s = memory
  OBVIOUS
<1>7. Settled(s, u, g, M)
  BY <1>0, <1>2, <1>3, <1>5, <1>6, WalkSettles
<1>8. M \subseteq Known(g) /\ Association \in M
  <2>1. M \subseteq Known(g)
    BY <1>2 DEF Explored
  <2>2. u[WellKnownRoots] = Oop(Association) /\ Association \in Known(g)
    BY <1>0 DEF Heap, CellsHold, Known, LibraryObjects
  <2>3. Reached(g, M, RescuedEphemerons + 1, WellKnownRoots) /\ WellKnownRoots \in Location
    BY <1>0, Numbers, KnownCells DEF Reached
  <2>4. QED BY <1>2, <2>1, <2>2, <2>3 DEF Explored
<1>9. Renamed(g, M, newToOld, fromNextFree, None)
  BY <1>0, <1>1, <1>3
<1>10. Compacted(s, s, g, M, OldBase) /\ Pos(g, M, OldBase) = OldBase
  BY <1>0, <1>7, CompactedAtFirst, PosAtBase
<1>11. Standing(g, OldBase, OldBase, oldNextFree)
  BY <1>0, StandingAtBase
<1>12. /\ Base' = OldBase /\ NextFree' = oldNextFree /\ Idle'
       /\ UNCHANGED <<oldNextFree, fromNextFree, copy>>
  <2>1. UNCHANGED <<oldNextFree, fromNextFree, copy>>
    BY <1>1 DEF WalkStep, historyVars
  <2>2. Idle'
    BY <1>1, <1>2 DEF WalkStep, Idle, localVars, scanVars
  <2>3. QED BY <1>1, <2>1, <2>2 DEF Base, NextFree
<1>13. CompactInv(g, u, M, s)'
  <2>1. Compacted(memory', s, g, M, buffer') /\ auxNextFree' = Pos(g, M, buffer')
    BY <1>1, <1>6, <1>10
  <2>2. Standing(g, buffer', Base', NextFree')
    BY <1>1, <1>11, <1>12
  <2>3. /\ Heap(u, g, oldNextFree', fromNextFree') /\ Heap(copy', g, oldNextFree', fromNextFree')
        /\ AllKept(copy', g, u) /\ Renamed(g, M, newToOld', fromNextFree', None)
        /\ WeakTold(copy', g, u, M)
    BY <1>0, <1>1, <1>2, <1>9, <1>12
  <2>4. pc' \in {"compact", "compactFrom"} /\ reference' = None
    BY <1>1
  <2>5. QED BY <1>7, <1>8, <1>12, <2>1, <2>2, <2>3, <2>4 DEF CompactInv
<1>14. QED BY <1>13

(* The object compact stands at is where it was, with its bits and mark.    *)
LEMMA CompactObjectRead ==
  ASSUME NEW g, NEW u, NEW M, NEW s, CompactInv(g, u, M, s),
         NEW a \in DOMAIN g, Start(g, a) = buffer
  PROVE  /\ UnthreadedHeaderSize = HeaderSize(g[a]) /\ NextObject = a
         /\ NewPosition = New(g, M, a) /\ (HasBeenSeenInSpace(a) <=> a \in M)
         /\ Size(a) = g[a].size /\ UnthreadedHeaderSize + Size(a) = End(g, a) - Start(g, a)
         /\ buffer + (UnthreadedHeaderSize + Size(a)) = End(g, a)
<1>1. /\ Heap(u, g, oldNextFree, fromNextFree) /\ Placement(g, oldNextFree, fromNextFree)
      /\ Settled(s, u, g, M) /\ Compacted(memory, s, g, M, buffer) /\ auxNextFree = Pos(g, M, buffer)
  BY DEF CompactInv, Heap
<1>2. /\ a \in Nat /\ g[a].size \in Nat /\ Start(g, a) = a - (IF g[a].extended THEN 3 ELSE 2)
      /\ HeaderSize(g[a]) = (IF g[a].extended THEN 3 ELSE 2) /\ End(g, a) = a + g[a].size
  BY <1>1, Extents
<1>3. /\ a - 2 \in Location /\ a - 3 \in Location
      /\ Is("bits", u[a - 2]) /\ Value(u[a - 2]).unseenInSpace /\ Value(u[a - 2]) \in HeaderBits
      /\ Value(u[a - 2]).extended = g[a].extended
      /\ IF g[a].extended
         THEN u[a - 3] = Extension([size |-> g[a].size, isEphemeron |-> g[a].ephemeron])
         ELSE Value(u[a - 2]).size = g[a].size
  BY <1>1, HeaderWord
<1>4. memory[a - 2] = s[a - 2] /\ (g[a].extended => memory[a - 3] = s[a - 3])
  <2>1. buffer <= a - 2 /\ (g[a].extended => buffer <= a - 3)
    BY <1>2
  <2>2. QED BY <1>1, <1>3, <2>1 DEF Compacted
<1>5. IF a \in M THEN memory[a - 2] = SeenBits(u, a) ELSE memory[a - 2] = u[a - 2]
  <2>1. a \in M => s[a - 2] = SeenBits(u, a)
    BY <1>1 DEF Settled
  <2>2. ASSUME a \notin M PROVE s[a - 2] = u[a - 2]
    <3>1. ~ \E c \in DOMAIN g : c \in M /\ a - 2 = c - 2
      BY <1>1, <1>2, <2>2, Extents
    <3>2. ~ \E c \in DOMAIN g : u[a - 2] = Oop(c)
      BY <1>3, Tags
    <3>3. QED BY <1>1, <1>3, <3>1, <3>2 DEF Settled
  <2>3. QED BY <1>4, <2>1, <2>2
<1>6. ASSUME g[a].extended PROVE memory[a - 3] = u[a - 3] /\ Is("extension", memory[a - 3])
  <2>0. Is("extension", u[a - 3])
    BY <1>3, <1>6, Tags
  <2>1. ~ \E c \in DOMAIN g : c \in M /\ a - 3 = c - 2
    <3>1. SUFFICES ASSUME NEW c \in DOMAIN g, a - 3 = c - 2 PROVE FALSE
      OBVIOUS
    <3>2. Is("bits", u[c - 2])
      BY <1>1, HeaderWord
    <3>3. QED BY <2>0, <3>1, <3>2, OneTag
  <2>2. ~ \E c \in DOMAIN g : u[a - 3] = Oop(c)
    BY <2>0, Tags
  <2>3. s[a - 3] = u[a - 3]
    BY <1>1, <1>3, <2>1, <2>2 DEF Settled
  <2>4. QED BY <1>4, <1>6, <2>0, <2>3
<1>7. Is("bits", memory[a - 2]) /\ ~Is("extension", memory[a - 2])
  BY <1>3, <1>5, Tags, OneTag DEF SeenBits
<1>8. UnthreadedHeaderSize = HeaderSize(g[a]) /\ NextObject = a
  BY <1>1, <1>6, <1>7, ObjectAtBuffer
<1>9. NewPosition = New(g, M, a)
  BY <1>1, <1>8 DEF NewPosition, New
<1>10. Value(memory[a - 2]).unseenInSpace <=> a \notin M
  <2>1. \A y : Value(Bits(y)) = y
    BY Tags
  <2>2. a \in M => Value(memory[a - 2]) = [Value(u[a - 2]) EXCEPT !.unseenInSpace = FALSE]
    BY <1>5, <2>1 DEF SeenBits
  <2>3. QED BY <1>3, <1>5, <2>2 DEF HeaderBits
<1>11. /\ Value(memory[a - 2]).extended = g[a].extended
       /\ Value(memory[a - 2]).size = Value(u[a - 2]).size
  <2>1. \A y : Value(Bits(y)) = y
    BY Tags
  <2>2. a \in M => Value(memory[a - 2]) = [Value(u[a - 2]) EXCEPT !.unseenInSpace = FALSE]
    BY <1>5, <2>1 DEF SeenBits
  <2>3. QED BY <1>3, <1>5, <2>2 DEF HeaderBits
<1>12. HasBeenSeenInSpace(a) <=> a \in M
  BY <1>7, <1>10 DEF HasBeenSeenInSpace, HasBeenSeenInLibrary, HeaderOf, BitsOf
<1>13. Size(a) = g[a].size
  <2>1. CASE g[a].extended
    <3>1. Value(memory[a - 3]) = [size |-> g[a].size, isEphemeron |-> g[a].ephemeron]
      BY <1>3, <1>6, <2>1, Tags
    <3>2. QED BY <1>11, <2>1, <3>1 DEF Size, SizeIn, ExtensionOf, BitsOf, HeaderOf
  <2>2. CASE ~g[a].extended
    BY <1>3, <1>11, <2>2 DEF Size, SizeIn, BitsOf, HeaderOf
  <2>3. QED BY <2>1, <2>2
<1>14. /\ UnthreadedHeaderSize + Size(a) = End(g, a) - Start(g, a)
       /\ buffer + (UnthreadedHeaderSize + Size(a)) = End(g, a)
  BY <1>2, <1>8, <1>13
<1>15. QED BY <1>8, <1>9, <1>12, <1>13, <1>14


LEMMA CompactFacts ==
  ASSUME NEW g, NEW u, NEW M, NEW s, CompactInv(g, u, M, s)
  PROVE  /\ Heap(u, g, oldNextFree, fromNextFree) /\ Placement(g, oldNextFree, fromNextFree)
         /\ Settled(s, u, g, M) /\ Compacted(memory, s, g, M, buffer)
         /\ Standing(g, buffer, Base, NextFree) /\ auxNextFree = Pos(g, M, buffer)
         /\ pc \in {"compact", "compactFrom"} /\ reference = None
         /\ Renamed(g, M, newToOld, fromNextFree, None)
BY DEF CompactInv, Heap

LEMMA CompactGoesOn ==
  ASSUME NEW g, NEW u, NEW M, NEW s, CompactInv(g, u, M, s), WalkStep,
         UNCHANGED <<reference, newToOld>>, pc' \in {"compact", "compactFrom"},
         Standing(g, buffer', Base', NextFree'), auxNextFree' = Pos(g, M, buffer'),
         Compacted(memory', s, g, M, buffer')
  PROVE  CompactInv(g, u, M, s)'
<1>1. UNCHANGED <<oldNextFree, fromNextFree, copy, reference, newToOld>> /\ Idle'
  <2>1. UNCHANGED <<oldNextFree, fromNextFree, copy>>
    BY DEF WalkStep, historyVars
  <2>2. Idle'
    BY DEF CompactInv, WalkStep, Idle, localVars, scanVars
  <2>3. QED BY <2>1, <2>2
<1>2. /\ Heap(u, g, oldNextFree', fromNextFree') /\ Heap(copy', g, oldNextFree', fromNextFree')
      /\ AllKept(copy', g, u) /\ Renamed(g, M, newToOld', fromNextFree', None) /\ reference' = None
      /\ Settled(s, u, g, M) /\ M \subseteq Known(g) /\ Association \in M
      /\ WeakTold(copy', g, u, M)
  BY <1>1 DEF CompactInv
<1>3. QED BY <1>1, <1>2 DEF CompactInv

(* The object compact stands at, when there is one.                         *)
LEMMA CompactAt ==
  ASSUME NEW g, NEW u, NEW M, NEW s, CompactInv(g, u, M, s), IsBelowNextFree(NextObject)
  PROVE  \E a \in DOMAIN g : /\ Start(g, a) = buffer /\ NextObject = a
                             /\ Standing(g, End(g, a), Base, NextFree)
<1>1. /\ Placement(g, oldNextFree, fromNextFree) /\ Standing(g, buffer, Base, NextFree)
      /\ pc \in {"setNewPositions", "setNewPositionsInFrom", "compact", "compactFrom"}
  BY CompactFacts
<1>2. PICK a \in DOMAIN g : Start(g, a) = buffer /\ Standing(g, End(g, a), Base, NextFree)
  BY <1>1, StandingSpace
<1>3. QED BY <1>2, CompactObjectRead

LEMMA CompactAtEnd ==
  ASSUME NEW g, NEW u, NEW M, NEW s, CompactInv(g, u, M, s), ~IsBelowNextFree(NextObject)
  PROVE  buffer = NextFree
<1>1. SUFFICES ASSUME buffer # NextFree PROVE FALSE
  OBVIOUS
<1>2. /\ Placement(g, oldNextFree, fromNextFree) /\ Standing(g, buffer, Base, NextFree)
      /\ pc \in {"setNewPositions", "setNewPositionsInFrom", "compact", "compactFrom"}
  BY CompactFacts
<1>3. PICK a \in DOMAIN g : Start(g, a) = buffer /\ End(g, a) <= NextFree
  BY <1>1, <1>2, StandingSpace
<1>4. NextObject = a
  BY <1>3, CompactObjectRead
<1>5. a <= End(g, a) /\ a \in Nat /\ End(g, a) \in Nat
  BY <1>2, Extents, PosOfObject
<1>6. NextFree \in Nat
  BY <1>2, StandingSpace
<1>7. QED BY <1>3, <1>4, <1>5, <1>6 DEF IsBelowNextFree

(* Where an object is copied to.                                            *)
CopyPlaces(x, size, nextFree, m, m2, a, b) ==
  m2 = [l \in Location |->
          CASE l = x - 2 -> Bits(CopiedBits(Value(m[a - 2])))
            [] l \in nextFree .. nextFree + size - 1 /\ l # x - 2 -> m[l - nextFree + b]
            [] OTHER -> m[l]]

LEMMA CopiedPlaces ==
  ASSUME NEW x, NEW size \in Nat, NEW p \in Nat, NEW m, NEW m2, NEW a, NEW b,
         CopyPlaces(x, size, p, m, m2, a, b)
  PROVE  Copied(m2, m, a, x, p, size, b)
<1>1. DOMAIN m2 = Location
  BY DEF CopyPlaces
<1>2. ASSUME NEW l \in Location
      PROVE  m2[l] = IF l = x - 2 THEN Bits(CopiedBits(Value(m[a - 2])))
                     ELSE IF p <= l /\ l <= p + size - 1 THEN m[l - p + b] ELSE m[l]
  <2>1. l \in Int
    BY Bounds
  <2>2. l \in p .. p + size - 1 <=> p <= l /\ l <= p + size - 1
    BY <2>1
  <2>3. CASE l = x - 2
    BY <2>3 DEF CopyPlaces
  <2>4. CASE l # x - 2 /\ l \in p .. p + size - 1
    BY <2>2, <2>4 DEF CopyPlaces
  <2>5. CASE l # x - 2 /\ l \notin p .. p + size - 1
    BY <2>2, <2>5 DEF CopyPlaces
  <2>6. QED BY <2>3, <2>4, <2>5
<1>3. QED BY <1>1, <1>2 DEF Copied

LEMMA CompactCompactObject ==
  ASSUME NEW g, NEW u, NEW M, NEW s, CompactInv(g, u, M, s), CompactObject
  PROVE  CompactInv(g, u, M, s)'
<1>0. /\ Heap(u, g, oldNextFree, fromNextFree) /\ Placement(g, oldNextFree, fromNextFree)
      /\ Settled(s, u, g, M) /\ Compacted(memory, s, g, M, buffer)
      /\ auxNextFree = Pos(g, M, buffer) /\ pc \in {"compact", "compactFrom"}
  BY CompactFacts
<1>1. /\ IsBelowNextFree(NextObject) /\ WalkStep /\ UNCHANGED <<reference, newToOld, pc>>
      /\ buffer' = buffer + (UnthreadedHeaderSize + Size(NextObject))
  BY DEF CompactObject
<1>2. PICK a \in DOMAIN g : Start(g, a) = buffer /\ NextObject = a
                            /\ Standing(g, End(g, a), Base, NextFree)
  BY <1>1, CompactAt
<1>3. /\ NewPosition = New(g, M, a) /\ (HasBeenSeenInSpace(a) <=> a \in M)
      /\ UnthreadedHeaderSize + Size(a) = End(g, a) - Start(g, a)
      /\ buffer + (UnthreadedHeaderSize + Size(a)) = End(g, a)
  BY <1>2, CompactObjectRead
<1>4. PICK e, b, size, p, x : /\ e = End(g, a) /\ b = buffer /\ size = UnthreadedHeaderSize + Size(a)
                              /\ p = auxNextFree /\ x = NewPosition
  OBVIOUS
<1>5. /\ buffer' = e /\ size = e - b /\ b = Start(g, a) /\ p = Pos(g, M, b) /\ x = New(g, M, a)
      /\ e \in Nat /\ b \in Nat /\ b < e /\ p \in Nat /\ size \in Nat
      /\ a \in M => Pos(g, M, e) = p + size
      /\ a \notin M => Pos(g, M, e) = p
  <2>1. buffer' = e /\ size = e - b /\ b = Start(g, a) /\ p = Pos(g, M, b) /\ x = New(g, M, a)
    BY <1>0, <1>1, <1>2, <1>3, <1>4
  <2>2. /\ Start(g, a) \in Nat /\ End(g, a) \in Nat /\ Start(g, a) < End(g, a)
        /\ Pos(g, M, Start(g, a)) \in Nat
        /\ a \in M => Pos(g, M, End(g, a)) = Pos(g, M, Start(g, a)) + (End(g, a) - Start(g, a))
        /\ a \notin M => Pos(g, M, End(g, a)) = Pos(g, M, Start(g, a))
    BY <1>0, PosOfObject
  <2>3. QED BY <1>4, <2>1, <2>2
<1>6. Compacted(memory', s, g, M, e) /\ auxNextFree' = Pos(g, M, e)
  <2>1. CASE a \in M
    <3>1. CopyPlaces(x, size, p, memory, memory', a, b) /\ auxNextFree' = p + size
      BY <1>2, <1>3, <1>4, <2>1 DEF CompactObject, CopyPlaces, BitsOf, HeaderOf
    <3>2. Copied(memory', memory, a, x, p, size, b)
      BY <1>5, <3>1, CopiedPlaces
    <3>3. Compacted(memory, s, g, M, b)
      BY <1>0, <1>4
    <3>4. Compacted(memory', s, g, M, e)
      BY <1>0, <1>4, <1>5, <2>1, <3>2, <3>3, CopiedObject
    <3>5. QED BY <1>5, <2>1, <3>1, <3>4
  <2>2. CASE a \notin M
    <3>1. memory' = memory /\ auxNextFree' = auxNextFree
      BY <1>2, <1>3, <2>2 DEF CompactObject
    <3>2. Compacted(memory, s, g, M, b)
      BY <1>0, <1>4
    <3>3. Compacted(memory, s, g, M, e)
      BY <1>0, <1>4, <1>5, <2>2, <3>2, CompactedPast
    <3>4. QED BY <1>4, <1>5, <2>2, <3>1, <3>3
  <2>3. QED BY <2>1, <2>2
<1>7. Base' = Base /\ NextFree' = NextFree
  BY <1>1 DEF Base, NextFree, WalkStep
<1>8. QED
  <2>1. Standing(g, buffer', Base', NextFree')
    BY <1>2, <1>4, <1>5, <1>7
  <2>2. Compacted(memory', s, g, M, buffer') /\ auxNextFree' = Pos(g, M, buffer')
    BY <1>5, <1>6
  <2>3. UNCHANGED <<reference, newToOld>> /\ pc' \in {"compact", "compactFrom"}
    BY <1>0, <1>1
  <2>4. QED BY <1>1, <2>1, <2>2, <2>3, CompactGoesOn

LEMMA CompactOldCompacted ==
  ASSUME NEW g, NEW u, NEW M, NEW s, CompactInv(g, u, M, s), OldCompacted
  PROVE  CompactInv(g, u, M, s)'
<1>0. /\ Placement(g, oldNextFree, fromNextFree)
      /\ Compacted(memory, s, g, M, buffer) /\ auxNextFree = Pos(g, M, buffer)
  BY CompactFacts
<1>1. /\ pc = "compact" /\ ~IsBelowNextFree(NextObject)
      /\ buffer' = FromBase /\ pc' = "compactFrom" /\ WalkStep
      /\ UNCHANGED <<memory, auxNextFree, reference, newToOld>>
  BY DEF OldCompacted, WalkFrom
<1>2. buffer = oldNextFree
  BY <1>1, CompactAtEnd DEF NextFree
<1>3. Compacted(memory, s, g, M, FromBase)
  BY <1>0, <1>2, CompactedToFrom
<1>4. Pos(g, M, FromBase) = auxNextFree
  BY <1>0, <1>2, PosBetweenSpaces
<1>5. Base' = FromBase /\ NextFree' = fromNextFree
  BY <1>1 DEF Base, NextFree, WalkStep
<1>6. Standing(g, FromBase, FromBase, fromNextFree)
  BY <1>0, StandingAtBase
<1>7. /\ Standing(g, buffer', Base', NextFree') /\ auxNextFree' = Pos(g, M, buffer')
      /\ Compacted(memory', s, g, M, buffer')
  BY <1>1, <1>3, <1>4, <1>5, <1>6
<1>8. pc' \in {"compact", "compactFrom"} /\ UNCHANGED <<reference, newToOld>>
  BY <1>1
<1>9. QED BY <1>1, <1>7, <1>8, CompactGoesOn

(* Every marked object has been noted, so that compact finds the objects    *)
(* where they were planned.                                                 *)
LEMMA AllNoted ==
  ASSUME NEW g, NEW on, NEW fn, Placement(g, on, fn), NEW M, NEW names,
         Renamed(g, M, names, fn, None)
  PROVE  /\ \A a \in DOMAIN g : a \in M => New(g, M, a) \in DOMAIN names /\ names[New(g, M, a)] = a
         /\ \A x \in DOMAIN names : names[x] \in DOMAIN g /\ names[x] \in M /\ x = New(g, M, names[x])
<1>1. \A a \in DOMAIN g : Start(g, a) < fn
  <2>1. SUFFICES ASSUME NEW a \in DOMAIN g PROVE Start(g, a) < fn
    OBVIOUS
  <2>2. /\ Start(g, a) \in Nat /\ End(g, a) \in Nat /\ Start(g, a) < End(g, a)
        /\ End(g, a) <= on \/ End(g, a) <= fn
        /\ on \in Nat /\ on <= FromBase /\ FromBase <= fn /\ FromBase \in Nat /\ fn \in Nat
    BY PosOfObject, Extents, Bounds
  <2>3. QED BY <2>2
<1>2. \A a \in DOMAIN g : a \in M => New(g, M, a) \in DOMAIN names /\ names[New(g, M, a)] = a
  BY <1>1 DEF Renamed, Noted
<1>3. ASSUME NEW x \in DOMAIN names
      PROVE  names[x] \in DOMAIN g /\ names[x] \in M /\ x = New(g, M, names[x])
  <2>1. PICK a : Noted(g, M, fn, None, a) /\ x = New(g, M, a)
    BY <1>3 DEF Renamed
  <2>2. a \in DOMAIN g /\ a \in M
    BY <2>1 DEF Noted
  <2>3. QED BY <1>2, <2>1, <2>2
<1>4. QED BY <1>2, <1>3

LEMMA CompactInvPlanned ==
  ASSUME NEW g, NEW u, NEW M, NEW s, CompactInv(g, u, M, s)
  PROVE  CompactsAsPlanned
<1>1. SUFFICES ASSUME IsBelowNextFree(NextObject), HasBeenSeenInSpace(NextObject)
               PROVE  /\ NewPosition \in DOMAIN newToOld /\ newToOld[NewPosition] = NextObject
                      /\ NewPosition <= NextObject
  BY DEF CompactsAsPlanned
<1>2. PICK a \in DOMAIN g : Start(g, a) = buffer /\ NextObject = a
  BY <1>1, CompactAt
<1>3. NewPosition = New(g, M, a) /\ a \in M
  BY <1>1, <1>2, CompactObjectRead
<1>4. Placement(g, oldNextFree, fromNextFree) /\ Renamed(g, M, newToOld, fromNextFree, None)
  BY CompactFacts
<1>5. New(g, M, a) \in DOMAIN newToOld /\ newToOld[New(g, M, a)] = a
  BY <1>3, <1>4, AllNoted
<1>6. New(g, M, a) <= a
  BY <1>3, <1>4, NewPlace
<1>7. QED BY <1>2, <1>3, <1>5, <1>6


-----------------------------------------------------------------------------
(* The words of an object that has moved: references to objects are renamed. *)
Renaming(g, M, w, v) ==
  /\ \A c \in DOMAIN g : w = Oop(c) => c \in M /\ v = Oop(New(g, M, c))
  /\ (\A c \in DOMAIN g : w # Oop(c)) => v = w

LEMMA StartsBelow ==
  ASSUME NEW g, NEW on, NEW fn, Placement(g, on, fn), NEW a \in DOMAIN g
  PROVE  Start(g, a) < fn
<1>1. /\ Start(g, a) \in Nat /\ End(g, a) \in Nat /\ Start(g, a) < End(g, a)
      /\ End(g, a) <= on \/ End(g, a) <= fn
      /\ on \in Nat /\ on <= FromBase /\ FromBase <= fn /\ FromBase \in Nat /\ fn \in Nat
  BY PosOfObject, Extents, Bounds
<1>2. QED BY <1>1

MarksOf(g, M) == M \subseteq Known(g)

LEMMA SettledCell ==
  ASSUME NEW u, NEW g, NEW on, NEW fn, Heap(u, g, on, fn), NEW M, MarksOf(g, M),
         NEW s, Settled(s, u, g, M), NEW l \in Location, Everywhere(g, M, l)
  PROVE  Renaming(g, M, u[l], s[l])
<1>1. Placement(g, on, fn) /\ RescuedEphemerons + 1 \in WellKnownRoots .. RescuedEphemerons + 1
      /\ l \in Int
  BY Numbers, Bounds DEF Heap
<1>2. l + 2 \notin DOMAIN g
  BY <1>1, ReachedIsCell DEF Everywhere, MarksOf
<1>3. \A c \in DOMAIN g : l # c - 2
  BY <1>1, <1>2, Extents
<1>4. QED BY <1>3 DEF Settled, Renaming

LEMMA SettledRest ==
  ASSUME NEW u, NEW g, NEW on, NEW fn, Placement(g, on, fn), NEW M, NEW s, Settled(s, u, g, M),
         NEW l \in Location, l + 2 \notin DOMAIN g, \A c \in DOMAIN g : u[l] # Oop(c)
  PROVE  s[l] = u[l]
<1>1. \A c \in DOMAIN g : l # c - 2
  BY Extents, Bounds
<1>2. QED BY <1>1 DEF Settled

MovedBits(u, a) == [Value(u[a - 2]) EXCEPT !.inRememberedSet = FALSE]

LEMMA MovedHeader ==
  ASSUME NEW u, NEW g, NEW on, NEW fn, Heap(u, g, on, fn), NEW a \in DOMAIN g, NEW w, w = SeenBits(u, a)
  PROVE  /\ CopiedBits(Value(w)) = MovedBits(u, a) /\ MovedBits(u, a) \in HeaderBits
         /\ MovedBits(u, a).unseenInSpace
         /\ MovedBits(u, a).extended = g[a].extended /\ MovedBits(u, a).hasWeaks = g[a].weak
         /\ ~g[a].extended => MovedBits(u, a).size = g[a].size
<1>1. /\ Value(u[a - 2]) \in HeaderBits /\ Value(u[a - 2]).unseenInSpace
      /\ Value(u[a - 2]).extended = g[a].extended /\ Value(u[a - 2]).hasWeaks = g[a].weak
      /\ ~g[a].extended => Value(u[a - 2]).size = g[a].size
  <2>1. /\ Value(u[a - 2]).unseenInSpace /\ Value(u[a - 2]) \in HeaderBits
        /\ Value(u[a - 2]).extended = g[a].extended /\ Value(u[a - 2]).hasWeaks = g[a].weak
        /\ IF g[a].extended
           THEN u[a - 3] = Extension([size |-> g[a].size, isEphemeron |-> g[a].ephemeron])
           ELSE Value(u[a - 2]).size = g[a].size
    BY HeaderWord
  <2>2. QED BY <2>1
<1>2. Value(w) = [Value(u[a - 2]) EXCEPT !.unseenInSpace = FALSE]
  <2>1. \A y : Value(Bits(y)) = y
    BY Tags
  <2>2. QED BY <2>1 DEF SeenBits
<1>3. PICK h : h = Value(u[a - 2])
  OBVIOUS
<1>4. h \in HeaderBits /\ h.unseenInSpace = TRUE
  BY <1>1, <1>3 DEF HeaderBits
<1>5. [[h EXCEPT !.unseenInSpace = FALSE] EXCEPT !.inRememberedSet = FALSE, !.unseenInSpace = TRUE]
        = [h EXCEPT !.inRememberedSet = FALSE]
  BY <1>4 DEF HeaderBits
<1>6. MovedBits(u, a) = [h EXCEPT !.inRememberedSet = FALSE]
  BY <1>3 DEF MovedBits
<1>7. /\ [h EXCEPT !.inRememberedSet = FALSE] \in HeaderBits
      /\ [h EXCEPT !.inRememberedSet = FALSE].unseenInSpace = h.unseenInSpace
      /\ [h EXCEPT !.inRememberedSet = FALSE].extended = h.extended
      /\ [h EXCEPT !.inRememberedSet = FALSE].hasWeaks = h.hasWeaks
      /\ [h EXCEPT !.inRememberedSet = FALSE].size = h.size
  BY <1>4 DEF HeaderBits
<1>8. CopiedBits(Value(w)) = MovedBits(u, a)
  BY <1>2, <1>3, <1>5, <1>6 DEF CopiedBits
<1>9. QED BY <1>1, <1>3, <1>6, <1>7, <1>8

LEMMA MovedObject ==
  ASSUME NEW u, NEW g, NEW on, NEW fn, Heap(u, g, on, fn), NEW M, MarksOf(g, M),
         NEW s, Settled(s, u, g, M), NEW m, Compacted(m, s, g, M, fn),
         NEW a \in DOMAIN g, a \in M, NEW x, x = New(g, M, a)
  PROVE  /\ x \in Nat /\ x - 2 \in Location /\ m[x - 2] = Bits(MovedBits(u, a))
         /\ g[a].extended => x - 3 \in Location /\ a - 3 \in Location /\ m[x - 3] = u[a - 3]
         /\ \A k \in Int : -1 <= k /\ k < g[a].size =>
              /\ x + k \in Location /\ a + k \in Location /\ a + k \in SlotsAt(g, a)
              /\ Renaming(g, M, u[a + k], m[x + k])
<1>1. Placement(g, on, fn)
  BY DEF Heap
<1>2. Moved(m, s, g, M, a)
  BY <1>1, StartsBelow DEF Compacted
<1>3. /\ a \in Nat /\ g[a].size \in Nat /\ Start(g, a) = a - (IF g[a].extended THEN 3 ELSE 2)
      /\ End(g, a) = a + g[a].size /\ End(g, a) <= FromEnd /\ OldBase <= Start(g, a)
  BY <1>1, Extents
<1>4. x \in Nat /\ OldBase + 2 <= x /\ x + g[a].size <= FromBase
  <2>1. /\ x \in Nat /\ OldBase + 2 <= x /\ x + g[a].size <= Pos(g, M, fn) /\ Pos(g, M, fn) <= FromBase
    BY <1>1, NewPlace
  <2>2. Pos(g, M, fn) \in Nat
    <3>1. fn \in Nat /\ OldBase <= fn
      BY <1>1, Bounds DEF Placement
    <3>2. QED BY <1>1, <3>1, PosBelow
  <2>3. QED BY <1>3, <2>1, <2>2, Bounds
<1>4a. g[a].extended => OldBase + 3 <= x
  <2>1. /\ Pos(g, M, Start(g, a)) \in Nat /\ OldBase <= Pos(g, M, Start(g, a))
        /\ x = Pos(g, M, Start(g, a)) + (IF g[a].extended THEN 3 ELSE 2)
    BY <1>1, NewPlace
  <2>2. QED BY <2>1, Bounds
<1>5. /\ OldBase \in Nat /\ 10 <= OldBase /\ FromBase \in Nat /\ FromEnd \in Nat /\ FromBase <= FromEnd
      /\ \A y \in Int : 0 <= y /\ y <= FromEnd => y \in Location
  BY Bounds
<1>6. \A l \in Int : Start(g, a) <= l /\ l < End(g, a) =>
        m[l - (a - x)] = IF l = a - 2 THEN Bits(CopiedBits(Value(s[l]))) ELSE s[l]
  BY <1>2 DEF Moved
<1>7. x - 2 \in Location /\ m[x - 2] = Bits(MovedBits(u, a))
  <2>1. x - 2 \in Location
    BY <1>3, <1>4, <1>5
  <2>2. a - 2 \in Int /\ Start(g, a) <= a - 2 /\ a - 2 < End(g, a) /\ (a - 2) - (a - x) = x - 2
    BY <1>3, <1>4
  <2>3. m[x - 2] = Bits(CopiedBits(Value(s[a - 2])))
    BY <1>6, <2>2
  <2>4. s[a - 2] = SeenBits(u, a)
    BY DEF Settled
  <2>5. QED BY <2>1, <2>3, <2>4, MovedHeader
<1>8. ASSUME g[a].extended PROVE x - 3 \in Location /\ a - 3 \in Location /\ m[x - 3] = u[a - 3]
  <2>1. x - 3 \in Location /\ a - 3 \in Location
    BY <1>3, <1>4, <1>4a, <1>5, <1>8
  <2>2. /\ a - 3 \in Int /\ Start(g, a) <= a - 3 /\ a - 3 < End(g, a) /\ (a - 3) - (a - x) = x - 3
        /\ a - 3 # a - 2
    BY <1>3, <1>4, <1>8
  <2>3. m[x - 3] = s[a - 3]
    BY <1>6, <2>2
  <2>4. Is("extension", u[a - 3]) /\ a - 3 + 2 \notin DOMAIN g
    <3>1. Is("extension", u[a - 3])
      <4>1. IF g[a].extended
            THEN u[a - 3] = Extension([size |-> g[a].size, isEphemeron |-> g[a].ephemeron])
            ELSE Value(u[a - 2]).size = g[a].size
        BY HeaderWord
      <4>2. u[a - 3] = Extension([size |-> g[a].size, isEphemeron |-> g[a].ephemeron])
        BY <1>8, <4>1
      <4>3. QED BY <4>2, Tags
    <3>2. ASSUME a - 3 + 2 \in DOMAIN g PROVE FALSE
      <4>1. PICK c \in DOMAIN g : c = a - 3 + 2
        BY <3>2
      <4>2. Is("bits", u[c - 2])
        BY HeaderWord
      <4>3. c - 2 = a - 3
        BY <1>3, <4>1
      <4>4. QED BY <3>1, <4>2, <4>3, OneTag
    <3>3. QED BY <3>1, <3>2
  <2>5. \A c \in DOMAIN g : u[a - 3] # Oop(c)
    BY <2>4, Tags
  <2>6. s[a - 3] = u[a - 3]
    BY <1>1, <2>1, <2>4, <2>5, SettledRest
  <2>7. QED BY <2>1, <2>3, <2>6
<1>9. ASSUME NEW k \in Int, -1 <= k, k < g[a].size
      PROVE  /\ x + k \in Location /\ a + k \in Location /\ a + k \in SlotsAt(g, a)
             /\ Renaming(g, M, u[a + k], m[x + k])
  <2>1. x + k \in Location /\ a + k \in Location
    BY <1>3, <1>4, <1>5, <1>9
  <2>2. a + k \in SlotsAt(g, a)
    BY <1>3, <1>9 DEF SlotsAt, SizeAt
  <2>3. /\ a + k \in Int /\ Start(g, a) <= a + k /\ a + k < End(g, a) /\ (a + k) - (a - x) = x + k
        /\ a + k # a - 2
    BY <1>3, <1>4, <1>9
  <2>4. m[x + k] = s[a + k]
    BY <1>6, <2>3
  <2>5. PICK l \in Location : l = a + k
    BY <2>1
  <2>6. Everywhere(g, M, l)
    BY <2>2, <2>5 DEF Everywhere, Reached
  <2>7. Renaming(g, M, u[l], s[l])
    BY <2>6, SettledCell
  <2>8. QED BY <2>1, <2>2, <2>4, <2>5, <2>7
<1>10. QED BY <1>4, <1>7, <1>8, <1>9

(* The roots and the objects of the libraries stay where they are.          *)
LEMMA MovedRoot ==
  ASSUME NEW u, NEW g, NEW on, NEW fn, Heap(u, g, on, fn), NEW M, MarksOf(g, M),
         NEW s, Settled(s, u, g, M), NEW m, Compacted(m, s, g, M, fn),
         NEW l \in Location, l < OldBase
  PROVE  /\ Everywhere(g, M, l) => Renaming(g, M, u[l], m[l])
         /\ (\A c \in DOMAIN g : u[l] # Oop(c)) => m[l] = u[l]
<1>1. m[l] = s[l]
  BY DEF Compacted
<1>2. Everywhere(g, M, l) => Renaming(g, M, u[l], m[l])
  BY <1>1, SettledCell
<1>3. l + 2 \notin DOMAIN g
  <2>1. ASSUME l + 2 \in DOMAIN g PROVE FALSE
    <3>1. PICK c \in DOMAIN g : c = l + 2
      BY <2>1
    <3>2. Placement(g, on, fn)
      BY DEF Heap
    <3>3. OldBase + 2 <= c
      BY <3>2, Extents
    <3>4. QED BY <3>1, <3>3, Bounds
  <2>2. QED BY <2>1
<1>4. Placement(g, on, fn)
  BY DEF Heap
<1>5. QED BY <1>1, <1>2, <1>3, <1>4, SettledRest


-----------------------------------------------------------------------------
(* The layout after a collection: the marked objects where they moved, the  *)
(* rescued ephemerons R no longer weak.                                     *)
Rescuing(g, M, R) ==
  \A x \in R : \E e \in DOMAIN g : e \in M /\ g[e].ephemeron /\ x = New(g, M, e)

MovedShapes(g2, g, M, R) ==
  /\ \A x : x \in DOMAIN g2 <=> \E a \in DOMAIN g : a \in M /\ x = New(g, M, a)
  /\ \A a \in DOMAIN g : a \in M =>
       g2[New(g, M, a)] = IF New(g, M, a) \in R THEN [g[a] EXCEPT !.weak = FALSE] ELSE g[a]

LEMMA ShapesMoved ==
  ASSUME NEW g, NEW on, NEW fn, Placement(g, on, fn), NEW M, NEW names,
         Renamed(g, M, names, fn, None), NEW R, NEW g2,
         g2 = [x \in DOMAIN names |-> IF x \in R THEN [g[names[x]] EXCEPT !.weak = FALSE]
                                      ELSE g[names[x]]]
  PROVE  MovedShapes(g2, g, M, R) /\ DOMAIN g2 = DOMAIN names
<1>1. \A a \in DOMAIN g : a \in M => New(g, M, a) \in DOMAIN names /\ names[New(g, M, a)] = a
  BY AllNoted
<1>2. \A x \in DOMAIN names : names[x] \in DOMAIN g /\ names[x] \in M /\ x = New(g, M, names[x])
  BY AllNoted
<1>3. DOMAIN g2 = DOMAIN names
  OBVIOUS
<1>4. \A x : x \in DOMAIN g2 <=> \E a \in DOMAIN g : a \in M /\ x = New(g, M, a)
  BY <1>1, <1>2, <1>3
<1>5. ASSUME NEW a \in DOMAIN g, a \in M
      PROVE  g2[New(g, M, a)] = IF New(g, M, a) \in R THEN [g[a] EXCEPT !.weak = FALSE] ELSE g[a]
  <2>1. PICK x : x = New(g, M, a)
    OBVIOUS
  <2>2. x \in DOMAIN names /\ names[x] = a
    BY <1>1, <1>5, <2>1
  <2>3. g2[x] = IF x \in R THEN [g[a] EXCEPT !.weak = FALSE] ELSE g[a]
    BY <2>2
  <2>4. QED BY <2>1, <2>3
<1>6. QED BY <1>3, <1>4, <1>5 DEF MovedShapes

LEMMA MovedExtent ==
  ASSUME NEW g, NEW on, NEW fn, Placement(g, on, fn), NEW M, NEW R, NEW g2, MovedShapes(g2, g, M, R),
         NEW a \in DOMAIN g, a \in M, NEW x, x = New(g, M, a)
  PROVE  /\ x \in DOMAIN g2 /\ x \in Nat /\ g2[x] \in Shape
         /\ g2[x].size = g[a].size /\ g2[x].extended = g[a].extended
         /\ g2[x].ephemeron = g[a].ephemeron
         /\ Start(g2, x) = Pos(g, M, Start(g, a)) /\ End(g2, x) = Pos(g, M, End(g, a))
<1>1. x \in DOMAIN g2
  BY DEF MovedShapes
<1>2. g2[x] = IF x \in R THEN [g[a] EXCEPT !.weak = FALSE] ELSE g[a]
  BY DEF MovedShapes
<1>3. g[a] \in Shape
  BY DEF Placement
<1>4. PICK h : h = g[a]
  OBVIOUS
<1>5. h \in [size : Nat, extended : BOOLEAN, weak : BOOLEAN, ephemeron : BOOLEAN]
  BY <1>3, <1>4 DEF Shape
<1>6. /\ [h EXCEPT !.weak = FALSE] \in Shape /\ h \in Shape
      /\ [h EXCEPT !.weak = FALSE].size = h.size /\ [h EXCEPT !.weak = FALSE].extended = h.extended
      /\ [h EXCEPT !.weak = FALSE].ephemeron = h.ephemeron /\ [h EXCEPT !.weak = FALSE].weak = FALSE
  BY <1>5 DEF Shape
<1>7. /\ g2[x] \in Shape /\ g2[x].size = g[a].size /\ g2[x].extended = g[a].extended
      /\ g2[x].ephemeron = g[a].ephemeron
  BY <1>2, <1>4, <1>6
<1>8. /\ x \in Nat /\ x = Pos(g, M, Start(g, a)) + (IF g[a].extended THEN 3 ELSE 2)
      /\ x + g[a].size = Pos(g, M, End(g, a)) /\ Pos(g, M, Start(g, a)) \in Nat
  BY NewPlace
<1>9. Start(g2, x) = Pos(g, M, Start(g, a)) /\ End(g2, x) = Pos(g, M, End(g, a))
  BY <1>7, <1>8 DEF Start, End, HeaderSize
<1>10. QED BY <1>1, <1>7, <1>8, <1>9

WeakUnlessRescued(g2, g, R, x, a) ==
  /\ x \in R => g2[x].weak = FALSE
  /\ x \notin R => g2[x].weak = g[a].weak

LEMMA MovedWeakness ==
  ASSUME NEW g, NEW on, NEW fn, Placement(g, on, fn), NEW M, NEW R, NEW g2, MovedShapes(g2, g, M, R),
         NEW a \in DOMAIN g, a \in M, NEW x, x = New(g, M, a)
  PROVE  WeakUnlessRescued(g2, g, R, x, a)
<1>1. g2[x] = IF x \in R THEN [g[a] EXCEPT !.weak = FALSE] ELSE g[a]
  BY DEF MovedShapes
<1>2. g[a] \in Shape
  BY DEF Placement
<1>3. PICK h : h = g[a]
  OBVIOUS
<1>4. [h EXCEPT !.weak = FALSE].weak = FALSE
  BY <1>2, <1>3 DEF Shape
<1>5. QED BY <1>1, <1>3, <1>4 DEF WeakUnlessRescued

LEMMA QueueNotRescued ==
  ASSUME NEW g, NEW on, NEW fn, Placement(g, on, fn), NEW M, NEW R, Rescuing(g, M, R),
         NEW a \in DOMAIN g, a \in M, ~g[a].ephemeron
  PROVE  New(g, M, a) \notin R
<1>1. SUFFICES ASSUME New(g, M, a) \in R PROVE FALSE
  OBVIOUS
<1>2. PICK e \in DOMAIN g : e \in M /\ g[e].ephemeron /\ New(g, M, a) = New(g, M, e)
  BY <1>1 DEF Rescuing
<1>3. a = e
  BY <1>2, NewDiffers
<1>4. QED BY <1>2, <1>3

(* The next object begins where one ends.                                   *)
LEMMA MovedNext ==
  ASSUME NEW g, NEW on, NEW fn, Placement(g, on, fn), NEW M, Covered(g, M, fn),
         NEW a \in DOMAIN g, a \in M, Pos(g, M, End(g, a)) < Pos(g, M, fn)
  PROVE  \E c \in DOMAIN g : c \in M /\ Pos(g, M, Start(g, c)) = Pos(g, M, End(g, a))
<1>1. PICK l : l = Pos(g, M, End(g, a))
  OBVIOUS
<1>2. /\ l \in Nat /\ Pos(g, M, Start(g, a)) \in Nat
      /\ Pos(g, M, Start(g, a)) <= l /\ OldBase <= l
  <2>1. /\ Start(g, a) \in Nat /\ End(g, a) \in Nat /\ Start(g, a) < End(g, a)
        /\ OldBase <= Start(g, a)
        /\ Pos(g, M, Start(g, a)) \in Nat /\ Pos(g, M, End(g, a)) \in Nat
    BY PosOfObject
  <2>2. Pos(g, M, End(g, a)) = Pos(g, M, Start(g, a)) + (End(g, a) - Start(g, a))
    BY PosOfObject
  <2>3. OldBase <= Pos(g, M, Start(g, a))
    BY <2>1, PosBelow
  <2>4. QED BY <1>1, <2>1, <2>2, <2>3, Bounds
<1>3. PICK c \in DOMAIN g : c \in M /\ Pos(g, M, Start(g, c)) <= l /\ l < Pos(g, M, End(g, c))
  BY <1>1, <1>2 DEF Covered
<1>4. a \in Int /\ c \in Int
  BY Extents
<1>5. CASE a < c
  <2>1. New(g, M, a) + g[a].size <= Pos(g, M, Start(g, c))
    BY <1>5, NewInOrder
  <2>2. New(g, M, a) + g[a].size = l
    BY <1>1, NewPlace
  <2>3. Pos(g, M, Start(g, c)) \in Nat
    BY PosOfObject
  <2>4. QED BY <1>1, <1>2, <1>3, <2>1, <2>2, <2>3
<1>6. CASE c < a
  <2>1. New(g, M, c) + g[c].size <= Pos(g, M, Start(g, a))
    BY <1>3, <1>6, NewInOrder
  <2>2. New(g, M, c) + g[c].size = Pos(g, M, End(g, c))
    BY <1>3, NewPlace
  <2>3. Pos(g, M, End(g, c)) \in Nat
    BY PosOfObject
  <2>4. QED BY <1>2, <1>3, <2>1, <2>2, <2>3
<1>7. CASE a = c
  BY <1>1, <1>2, <1>3, <1>7
<1>8. QED BY <1>4, <1>5, <1>6, <1>7

LEMMA MovedPlacement ==
  ASSUME NEW g, NEW on, NEW fn, Placement(g, on, fn), NEW M, NEW R, Rescuing(g, M, R),
         NEW g2, MovedShapes(g2, g, M, R), Covered(g, M, fn), QueueArray \in M,
         NEW on2, on2 = Pos(g, M, fn)
  PROVE  Placement(g2, on2, FromBase)
<1>1. fn \in Nat /\ OldBase <= fn /\ FromBase \in Nat /\ OldBase \in Nat /\ FromBase <= FromEnd
      /\ FromEnd \in Nat
  BY Bounds DEF Placement
<1>2. on2 \in Nat /\ OldBase <= on2 /\ on2 <= FromBase
  BY <1>1, PosBelow
<1>3. ASSUME NEW x \in DOMAIN g2
      PROVE  /\ x \in Int /\ g2[x] \in Shape
             /\ OldBase <= Start(g2, x) /\ End(g2, x) <= on2
             /\ g2[x].ephemeron => g2[x].extended /\ g2[x].size > 0
             /\ \/ End(g2, x) = on2
                \/ \E y \in DOMAIN g2 : Start(g2, y) = End(g2, x)
             /\ \A y \in DOMAIN g2 : x < y => End(g2, x) <= Start(g2, y)
  <2>1. PICK a \in DOMAIN g : a \in M /\ x = New(g, M, a)
    BY <1>3 DEF MovedShapes
  <2>2. /\ x \in Nat /\ g2[x] \in Shape
        /\ g2[x].size = g[a].size /\ g2[x].extended = g[a].extended
        /\ g2[x].ephemeron = g[a].ephemeron
        /\ Start(g2, x) = Pos(g, M, Start(g, a)) /\ End(g2, x) = Pos(g, M, End(g, a))
    BY <2>1, MovedExtent
  <2>3. /\ OldBase <= Pos(g, M, Start(g, a)) /\ Pos(g, M, End(g, a)) <= on2
        /\ Pos(g, M, End(g, a)) = New(g, M, a) + g[a].size
    BY <2>1, NewPlace
  <2>4. Pos(g, M, End(g, a)) \in Nat
    BY PosOfObject
  <2>5. g[a].ephemeron => g[a].extended /\ g[a].size > 0
    BY DEF Placement
  <2>6. \/ End(g2, x) = on2
        \/ \E y \in DOMAIN g2 : Start(g2, y) = End(g2, x)
    <3>1. SUFFICES ASSUME Pos(g, M, End(g, a)) < on2
                   PROVE  \E y \in DOMAIN g2 : Start(g2, y) = End(g2, x)
      BY <1>2, <2>2, <2>3, <2>4
    <3>2. PICK c \in DOMAIN g : c \in M /\ Pos(g, M, Start(g, c)) = Pos(g, M, End(g, a))
      BY <2>1, <3>1, MovedNext
    <3>3. PICK y : y = New(g, M, c)
      OBVIOUS
    <3>4. y \in DOMAIN g2 /\ Start(g2, y) = Pos(g, M, Start(g, c))
      BY <3>2, <3>3, MovedExtent
    <3>5. QED BY <2>2, <3>2, <3>4
  <2>7. ASSUME NEW y \in DOMAIN g2, x < y PROVE End(g2, x) <= Start(g2, y)
    <3>1. PICK c \in DOMAIN g : c \in M /\ y = New(g, M, c)
      BY <2>7 DEF MovedShapes
    <3>2. Start(g2, y) = Pos(g, M, Start(g, c)) /\ y \in Nat
      BY <3>1, MovedExtent
    <3>3. a \in Int /\ c \in Int
      BY Extents
    <3>4. c < a => y < x
      BY <2>1, <3>1, NewInOrder
    <3>5. a # c
      BY <2>1, <2>2, <2>7, <3>1
    <3>6. a < c
      BY <2>2, <2>7, <3>2, <3>3, <3>4, <3>5
    <3>7. New(g, M, a) + g[a].size <= Pos(g, M, Start(g, c))
      BY <2>1, <3>6, NewInOrder
    <3>8. QED BY <2>2, <2>3, <3>2, <3>7
  <2>8. QED BY <2>2, <2>3, <2>5, <2>6, <2>7
<1>4. QueueArray \in DOMAIN g2 /\ g2[QueueArray] = QueueShape
  <2>1. QueueArray \in DOMAIN g /\ g[QueueArray] = QueueShape
    BY DEF Placement
  <2>2. New(g, M, QueueArray) = QueueArray
    BY QueueStays
  <2>3. ~g[QueueArray].ephemeron
    BY <2>1 DEF QueueShape
  <2>4. QueueArray \notin R
    BY <2>1, <2>2, <2>3, QueueNotRescued
  <2>5. QueueArray \in DOMAIN g2
    BY <2>1, <2>2 DEF MovedShapes
  <2>6. g2[QueueArray] = g[QueueArray]
    BY <2>1, <2>2, <2>4 DEF MovedShapes
  <2>7. QED BY <2>1, <2>5, <2>6
<1>5. \A x \in DOMAIN g2 : \/ End(g2, x) = IF End(g2, x) <= on2 THEN on2 ELSE FromBase
                           \/ \E b \in DOMAIN g2 : Start(g2, b) = End(g2, x)
  BY <1>3
<1>6. on2 \in OldBase .. FromBase /\ FromBase \in FromBase .. FromEnd /\ on2 + FromBase <= 2 * FromBase
  BY <1>1, <1>2
<1>7. \A x \in DOMAIN g2 :
        /\ x \in Int /\ g2[x] \in Shape
        /\ \/ OldBase <= Start(g2, x) /\ End(g2, x) <= on2
           \/ FromBase <= Start(g2, x) /\ End(g2, x) <= FromBase
        /\ g2[x].ephemeron => g2[x].extended /\ g2[x].size > 0
  BY <1>3
<1>8. \A x, y \in DOMAIN g2 : x < y => End(g2, x) <= Start(g2, y)
  BY <1>3
<1>9. QED BY <1>4, <1>5, <1>6, <1>7, <1>8 DEF Placement


(* A slot or root after its reference was renamed.                          *)
LEMMA RenamedWord ==
  ASSUME NEW u, NEW g, NEW on, NEW fn, Heap(u, g, on, fn), NEW M,
         NEW l \in Location, IsCell(g, l), NEW v, Renaming(g, M, u[l], v)
  PROVE  /\ Is("oop", v) \/ Is("smi", v)
         /\ ~Is("bits", v) /\ ~Is("extension", v)
         /\ \A c \in DOMAIN g : u[l] = Oop(c) => c \in M /\ v = Oop(New(g, M, c))
         /\ \A c : c \notin DOMAIN g /\ u[l] = Oop(c) => v = Oop(c)
<1>1. Is("oop", u[l]) \/ Is("smi", u[l])
  BY CellHolds DEF Heap
<1>2. CASE \E c \in DOMAIN g : u[l] = Oop(c)
  <2>1. PICK c \in DOMAIN g : u[l] = Oop(c)
    BY <1>2
  <2>2. c \in M /\ v = Oop(New(g, M, c))
    BY <2>1 DEF Renaming
  <2>3. Is("oop", v)
    BY <2>2, Tags
  <2>4. \A d : u[l] = Oop(d) => d = c
    BY <2>1, OopsDiffer
  <2>5. QED BY <2>2, <2>3, <2>4, OneTag
<1>3. CASE \A c \in DOMAIN g : u[l] # Oop(c)
  <2>1. v = u[l]
    BY <1>3 DEF Renaming
  <2>2. QED BY <1>1, <1>3, <2>1, OneTag
<1>4. QED BY <1>2, <1>3

(* makeRescuedEphemeronsNonWeak. *)
Ended(m2, m, R) ==
  /\ DOMAIN m2 = Location
  /\ \A l \in Location :
       m2[l] = IF l + 2 \in R THEN Bits([Value(m[l]) EXCEPT !.hasWeaks = FALSE]) ELSE m[l]

SlotsMoved(u, g, M, m2, a, x) ==
  \A k \in Int : -1 <= k /\ k < g[a].size =>
    /\ x + k \in Location /\ a + k \in Location /\ a + k \in SlotsAt(g, a)
    /\ IsCell(g, a + k) /\ ~Is("bits", m2[x + k])
    /\ Renaming(g, M, u[a + k], m2[x + k])

LEMMA EndedObject ==
  ASSUME NEW u, NEW g, NEW on, NEW fn, Heap(u, g, on, fn), NEW M, MarksOf(g, M),
         NEW s, Settled(s, u, g, M), NEW m, Compacted(m, s, g, M, fn),
         NEW R, Rescuing(g, M, R), NEW m2, Ended(m2, m, R),
         NEW a \in DOMAIN g, a \in M, NEW x, x = New(g, M, a)
  PROVE  /\ x \in Nat /\ x - 2 \in Location
         /\ x \in R => m2[x - 2] = Bits([MovedBits(u, a) EXCEPT !.hasWeaks = FALSE])
         /\ x \notin R => m2[x - 2] = Bits(MovedBits(u, a))
         /\ g[a].extended => x - 3 \in Location /\ a - 3 \in Location /\ m2[x - 3] = u[a - 3]
                             /\ Is("extension", m2[x - 3])
         /\ SlotsMoved(u, g, M, m2, a, x)
<1>1. /\ x \in Nat /\ x - 2 \in Location /\ m[x - 2] = Bits(MovedBits(u, a))
      /\ g[a].extended => x - 3 \in Location /\ a - 3 \in Location /\ m[x - 3] = u[a - 3]
  BY MovedObject
<1>2. \A k \in Int : -1 <= k /\ k < g[a].size =>
        /\ x + k \in Location /\ a + k \in Location /\ a + k \in SlotsAt(g, a)
        /\ Renaming(g, M, u[a + k], m[x + k])
  BY MovedObject
<1>3. \A l \in Location : ~Is("bits", m[l]) => m2[l] = m[l]
  <2>1. SUFFICES ASSUME NEW l \in Location, l + 2 \in R PROVE Is("bits", m[l])
    BY DEF Ended
  <2>2. PICK e \in DOMAIN g : e \in M /\ l + 2 = New(g, M, e)
    BY <2>1 DEF Rescuing
  <2>3. PICK y : y = New(g, M, e)
    OBVIOUS
  <2>4. y \in Nat /\ m[y - 2] = Bits(MovedBits(u, e))
    BY <2>2, <2>3, MovedObject
  <2>5. y - 2 = l
    BY <2>2, <2>3, Bounds
  <2>6. QED BY <2>4, <2>5, Tags
<1>4. x - 2 + 2 = x
  BY <1>1
<1>5. x \in R => m2[x - 2] = Bits([MovedBits(u, a) EXCEPT !.hasWeaks = FALSE])
  <2>1. Value(m[x - 2]) = MovedBits(u, a)
    BY <1>1, Tags
  <2>2. QED BY <1>1, <1>4, <2>1 DEF Ended
<1>6. x \notin R => m2[x - 2] = Bits(MovedBits(u, a))
  BY <1>1, <1>4 DEF Ended
<1>7. ASSUME g[a].extended PROVE Is("extension", u[a - 3])
  <2>1. IF g[a].extended
        THEN u[a - 3] = Extension([size |-> g[a].size, isEphemeron |-> g[a].ephemeron])
        ELSE Value(u[a - 2]).size = g[a].size
    BY HeaderWord
  <2>2. u[a - 3] = Extension([size |-> g[a].size, isEphemeron |-> g[a].ephemeron])
    BY <1>7, <2>1
  <2>3. QED BY <2>2, Tags
<1>8. g[a].extended => x - 3 \in Location /\ a - 3 \in Location /\ m2[x - 3] = u[a - 3]
                       /\ Is("extension", m2[x - 3])
  BY <1>1, <1>3, <1>7, OneTag
<1>9. ASSUME NEW k \in Int, -1 <= k, k < g[a].size
      PROVE  /\ x + k \in Location /\ a + k \in Location /\ a + k \in SlotsAt(g, a)
             /\ IsCell(g, a + k) /\ ~Is("bits", m2[x + k])
             /\ Renaming(g, M, u[a + k], m2[x + k])
  <2>1. /\ x + k \in Location /\ a + k \in Location /\ a + k \in SlotsAt(g, a)
        /\ Renaming(g, M, u[a + k], m[x + k])
    BY <1>2, <1>9
  <2>2. IsCell(g, a + k)
    BY <2>1 DEF IsCell, Known
  <2>3. PICK l, v : l \in Location /\ l = a + k /\ v = m[x + k]
    BY <2>1
  <2>4. ~Is("bits", v)
    BY <2>1, <2>2, <2>3, RenamedWord
  <2>5. m2[x + k] = v
    BY <1>3, <2>1, <2>3, <2>4
  <2>6. QED BY <2>1, <2>2, <2>3, <2>4, <2>5
<1>10. QED BY <1>1, <1>5, <1>6, <1>8, <1>9 DEF SlotsMoved

LEMMA EndedSlot ==
  ASSUME NEW u, NEW g, NEW on, NEW fn, Heap(u, g, on, fn), NEW M, MarksOf(g, M),
         NEW s, Settled(s, u, g, M), NEW m, Compacted(m, s, g, M, fn),
         NEW R, Rescuing(g, M, R), NEW m2, Ended(m2, m, R),
         NEW a \in DOMAIN g, a \in M, NEW x, x = New(g, M, a),
         NEW k \in Int, -1 <= k, k < g[a].size
  PROVE  /\ x + k \in Location /\ a + k \in Location /\ a + k \in SlotsAt(g, a)
         /\ IsCell(g, a + k) /\ Renaming(g, M, u[a + k], m2[x + k])
<1>1. SlotsMoved(u, g, M, m2, a, x)
  BY EndedObject
<1>2. QED BY <1>1 DEF SlotsMoved

LEMMA EndedRoot ==
  ASSUME NEW u, NEW g, NEW on, NEW fn, Heap(u, g, on, fn), NEW M, MarksOf(g, M),
         NEW s, Settled(s, u, g, M), NEW m, Compacted(m, s, g, M, fn),
         NEW R, Rescuing(g, M, R), NEW m2, Ended(m2, m, R),
         NEW l \in Location, l < OldBase
  PROVE  /\ Everywhere(g, M, l) => Renaming(g, M, u[l], m2[l])
         /\ (\A c \in DOMAIN g : u[l] # Oop(c)) => m2[l] = u[l]
<1>1. l + 2 \notin R
  <2>1. SUFFICES ASSUME l + 2 \in R PROVE FALSE
    OBVIOUS
  <2>2. PICK e \in DOMAIN g : e \in M /\ l + 2 = New(g, M, e)
    BY <2>1 DEF Rescuing
  <2>3. Placement(g, on, fn)
    BY DEF Heap
  <2>4. OldBase + 2 <= New(g, M, e)
    BY <2>2, <2>3, NewPlace
  <2>5. QED BY <2>2, <2>4, Bounds
<1>2. m2[l] = m[l]
  BY <1>1 DEF Ended
<1>3. QED BY <1>2, MovedRoot


(* Headers tell the shapes after the collection, and there are no others.   *)
LEMMA EndedHeader ==
  ASSUME NEW u, NEW g, NEW on, NEW fn, Heap(u, g, on, fn), NEW M, MarksOf(g, M),
         NEW s, Settled(s, u, g, M), NEW m, Compacted(m, s, g, M, fn),
         NEW R, Rescuing(g, M, R), NEW m2, Ended(m2, m, R), NEW g2, MovedShapes(g2, g, M, R),
         NEW a \in DOMAIN g, a \in M, NEW x, x = New(g, M, a)
  PROVE  /\ Is("bits", m2[x - 2]) /\ Value(m2[x - 2]) \in HeaderBits
         /\ Value(m2[x - 2]).unseenInSpace
         /\ Value(m2[x - 2]).extended = g2[x].extended
         /\ Value(m2[x - 2]).hasWeaks = g2[x].weak
         /\ IF g2[x].extended
            THEN m2[x - 3] = Extension([size |-> g2[x].size, isEphemeron |-> g2[x].ephemeron])
            ELSE Value(m2[x - 2]).size = g2[x].size
<1>1. Placement(g, on, fn)
  BY DEF Heap
<1>2. /\ x \in R => m2[x - 2] = Bits([MovedBits(u, a) EXCEPT !.hasWeaks = FALSE])
      /\ x \notin R => m2[x - 2] = Bits(MovedBits(u, a))
      /\ g[a].extended => m2[x - 3] = u[a - 3]
  BY EndedObject
<1>3. PICK h : h = MovedBits(u, a)
  OBVIOUS
<1>4. /\ h \in HeaderBits /\ h.unseenInSpace
      /\ h.extended = g[a].extended /\ h.hasWeaks = g[a].weak
      /\ ~g[a].extended => h.size = g[a].size
  <2>1. PICK w : w = SeenBits(u, a)
    OBVIOUS
  <2>2. QED BY <1>3, <2>1, MovedHeader
<1>5. /\ [h EXCEPT !.hasWeaks = FALSE] \in HeaderBits
      /\ [h EXCEPT !.hasWeaks = FALSE].unseenInSpace = h.unseenInSpace
      /\ [h EXCEPT !.hasWeaks = FALSE].extended = h.extended
      /\ [h EXCEPT !.hasWeaks = FALSE].hasWeaks = FALSE
      /\ [h EXCEPT !.hasWeaks = FALSE].size = h.size
  BY <1>4 DEF HeaderBits
<1>6. g2[x].size = g[a].size /\ g2[x].extended = g[a].extended /\ g2[x].ephemeron = g[a].ephemeron
  BY <1>1, MovedExtent
<1>7. /\ x \in R => g2[x].weak = FALSE
      /\ x \notin R => g2[x].weak = g[a].weak
  <2>1. WeakUnlessRescued(g2, g, R, x, a)
    BY <1>1, MovedWeakness
  <2>2. QED BY <2>1 DEF WeakUnlessRescued
<1>8. PICK k : k = Value(m2[x - 2])
  OBVIOUS
<1>9. Is("bits", m2[x - 2]) /\ k = IF x \in R THEN [h EXCEPT !.hasWeaks = FALSE] ELSE h
  <2>1. \A y : Is("bits", Bits(y)) /\ Value(Bits(y)) = y
    BY Tags
  <2>2. CASE x \in R
    <3>1. m2[x - 2] = Bits([h EXCEPT !.hasWeaks = FALSE])
      BY <1>2, <1>3, <2>2
    <3>2. QED BY <1>8, <2>1, <2>2, <3>1
  <2>3. CASE x \notin R
    <3>1. m2[x - 2] = Bits(h)
      BY <1>2, <1>3, <2>3
    <3>2. QED BY <1>8, <2>1, <2>3, <3>1
  <2>4. QED BY <2>2, <2>3
<1>10. k \in HeaderBits /\ k.unseenInSpace /\ k.extended = g2[x].extended /\ k.hasWeaks = g2[x].weak
  <2>1. CASE x \in R
    <3>1. k = [h EXCEPT !.hasWeaks = FALSE]
      BY <1>9, <2>1
    <3>2. QED BY <1>4, <1>5, <1>6, <1>7, <2>1, <3>1
  <2>2. CASE x \notin R
    <3>1. k = h
      BY <1>9, <2>2
    <3>2. QED BY <1>4, <1>6, <1>7, <2>2, <3>1
  <2>3. QED BY <2>1, <2>2
<1>11. IF g2[x].extended
       THEN m2[x - 3] = Extension([size |-> g2[x].size, isEphemeron |-> g2[x].ephemeron])
       ELSE k.size = g2[x].size
  <2>1. CASE g[a].extended
    <3>1. IF g[a].extended
          THEN u[a - 3] = Extension([size |-> g[a].size, isEphemeron |-> g[a].ephemeron])
          ELSE Value(u[a - 2]).size = g[a].size
      BY HeaderWord
    <3>2. u[a - 3] = Extension([size |-> g[a].size, isEphemeron |-> g[a].ephemeron])
      BY <2>1, <3>1
    <3>3. QED BY <1>2, <1>6, <2>1, <3>2
  <2>2. CASE ~g[a].extended
    <3>1. k.size = h.size
      BY <1>5, <1>9
    <3>2. QED BY <1>4, <1>6, <2>2, <3>1
  <2>3. QED BY <2>1, <2>2
<1>12. QED BY <1>8, <1>9, <1>10, <1>11

LEMMA EndedFits ==
  ASSUME NEW u, NEW g, NEW on, NEW fn, Heap(u, g, on, fn), NEW M, MarksOf(g, M),
         NEW s, Settled(s, u, g, M), NEW m, Compacted(m, s, g, M, fn),
         NEW R, Rescuing(g, M, R), NEW m2, Ended(m2, m, R), NEW g2, MovedShapes(g2, g, M, R),
         NEW on2, on2 = Pos(g, M, fn)
  PROVE  Fits(m2, g2, on2, FromBase)
<1>1. Placement(g, on, fn) /\ Covered(g, M, fn)
  BY DEF Heap, Compacted
<1>2. ASSUME NEW x \in DOMAIN g2
      PROVE  /\ Is("bits", m2[x - 2]) /\ Value(m2[x - 2]).unseenInSpace
             /\ Value(m2[x - 2]).extended = g2[x].extended
             /\ Value(m2[x - 2]).hasWeaks = g2[x].weak
             /\ IF g2[x].extended
                THEN m2[x - 3] = Extension([size |-> g2[x].size, isEphemeron |-> g2[x].ephemeron])
                ELSE Value(m2[x - 2]).size = g2[x].size
  <2>1. PICK a \in DOMAIN g : a \in M /\ x = New(g, M, a)
    BY <1>2 DEF MovedShapes
  <2>2. /\ Is("bits", m2[x - 2]) /\ Value(m2[x - 2]) \in HeaderBits
        /\ Value(m2[x - 2]).unseenInSpace
        /\ Value(m2[x - 2]).extended = g2[x].extended
        /\ Value(m2[x - 2]).hasWeaks = g2[x].weak
        /\ IF g2[x].extended
           THEN m2[x - 3] = Extension([size |-> g2[x].size, isEphemeron |-> g2[x].ephemeron])
           ELSE Value(m2[x - 2]).size = g2[x].size
    BY <2>1, EndedHeader
  <2>3. QED BY <2>2
<1>3. ASSUME NEW y \in (OldBase + 2 .. on2) \cup (FromBase + 2 .. FromBase), Is("bits", m2[y - 2])
      PROVE  y \in DOMAIN g2
  <2>1. y \in Int /\ OldBase + 2 <= y /\ y <= on2 /\ on2 \in Nat /\ OldBase \in Nat
    <3>1. fn \in Nat /\ OldBase <= fn
      BY <1>1, Bounds DEF Placement
    <3>2. on2 \in Nat
      BY <1>1, <3>1, PosBelow
    <3>3. QED BY <1>3, <3>2, Bounds
  <2>2. PICK l : l = y - 2
    OBVIOUS
  <2>3. l \in Int /\ OldBase <= l /\ l < Pos(g, M, fn)
    BY <2>1, <2>2
  <2>4. PICK a \in DOMAIN g : a \in M /\ Pos(g, M, Start(g, a)) <= l /\ l < Pos(g, M, End(g, a))
    BY <1>1, <2>3 DEF Covered
  <2>5. PICK x : x = New(g, M, a)
    OBVIOUS
  <2>6. /\ x \in Nat /\ g[a].size \in Nat
        /\ x = Pos(g, M, Start(g, a)) + (IF g[a].extended THEN 3 ELSE 2)
        /\ x + g[a].size = Pos(g, M, End(g, a)) /\ Pos(g, M, Start(g, a)) \in Nat
    BY <1>1, <2>4, <2>5, NewPlace
  <2>7. g[a].extended => Is("extension", m2[x - 3])
    BY <2>4, <2>5, EndedObject
  <2>8. \A k \in Int : -1 <= k /\ k < g[a].size => ~Is("bits", m2[x + k])
    <3>1. SlotsMoved(u, g, M, m2, a, x)
      BY <2>4, <2>5, EndedObject
    <3>2. QED BY <3>1 DEF SlotsMoved
  <2>9. l = x - 2 \/ (g[a].extended /\ l = x - 3) \/ (-1 <= l - x /\ l - x < g[a].size /\ l - x \in Int
                                                     /\ x + (l - x) = l)
    BY <2>3, <2>4, <2>6
  <2>10. l = x - 2
    <3>1. ASSUME -1 <= l - x, l - x < g[a].size, l - x \in Int, x + (l - x) = l PROVE FALSE
      <4>1. PICK k \in Int : k = l - x /\ -1 <= k /\ k < g[a].size /\ x + k = l
        BY <3>1
      <4>2. ~Is("bits", m2[x + k])
        BY <2>8, <4>1
      <4>3. QED BY <1>3, <2>2, <4>1, <4>2
    <3>2. ASSUME g[a].extended, l = x - 3 PROVE FALSE
      <4>1. Is("extension", m2[l]) /\ Is("bits", m2[l])
        BY <1>3, <2>2, <2>7, <3>2
      <4>2. QED BY <4>1, OneTag
    <3>3. QED BY <2>9, <3>1, <3>2
  <2>11. y = x
    BY <2>1, <2>2, <2>6, <2>10
  <2>12. QED BY <2>4, <2>5, <2>11 DEF MovedShapes
<1>4. QED BY <1>2, <1>3 DEF Fits

LEMMA EndedLibrary ==
  ASSUME NEW u, NEW g, NEW on, NEW fn, Heap(u, g, on, fn), NEW M, MarksOf(g, M),
         NEW s, Settled(s, u, g, M), NEW m, Compacted(m, s, g, M, fn),
         NEW R, Rescuing(g, M, R), NEW m2, Ended(m2, m, R)
  PROVE  LibraryFits(m2)
<1>1. SUFFICES ASSUME NEW a \in LibraryObjects PROVE m2[a - 2] = u[a - 2]
  BY DEF Heap, LibraryFits
<1>2. PICK l : l = a - 2
  OBVIOUS
<1>3. l \in Location /\ l < OldBase
  BY <1>2, LibraryObject
<1>4. Is("bits", u[l])
  BY <1>2 DEF Heap, LibraryFits
<1>5. \A c \in DOMAIN g : u[l] # Oop(c)
  BY <1>4, Tags
<1>6. m2[l] = u[l]
  BY <1>3, <1>5, EndedRoot
<1>7. QED BY <1>2, <1>6

LEMMA EndedProper ==
  ASSUME NEW u, NEW g, NEW on, NEW fn, Heap(u, g, on, fn), NEW M, MarksOf(g, M),
         NEW s, Settled(s, u, g, M), NEW m, Compacted(m, s, g, M, fn),
         NEW R, Rescuing(g, M, R), NEW m2, Ended(m2, m, R), NEW g2, MovedShapes(g2, g, M, R)
  PROVE  \A l \in Location : Proper(m2[l])
<1>1. SUFFICES ASSUME NEW l \in Location PROVE Proper(m2[l])
  OBVIOUS
<1>2. CASE l + 2 \notin R
  BY <1>2 DEF Ended, Compacted
<1>3. CASE l + 2 \in R
  <2>1. PICK e \in DOMAIN g : e \in M /\ l + 2 = New(g, M, e)
    BY <1>3 DEF Rescuing
  <2>2. PICK x : x = New(g, M, e)
    OBVIOUS
  <2>3. Is("bits", m2[x - 2]) /\ Value(m2[x - 2]) \in HeaderBits
    <3>1. /\ Is("bits", m2[x - 2]) /\ Value(m2[x - 2]) \in HeaderBits
          /\ Value(m2[x - 2]).unseenInSpace
          /\ Value(m2[x - 2]).extended = g2[x].extended
          /\ Value(m2[x - 2]).hasWeaks = g2[x].weak
          /\ IF g2[x].extended
             THEN m2[x - 3] = Extension([size |-> g2[x].size, isEphemeron |-> g2[x].ephemeron])
             ELSE Value(m2[x - 2]).size = g2[x].size
      BY <2>1, <2>2, EndedHeader
    <3>2. QED BY <3>1
  <2>4. x - 2 = l
    BY <2>1, <2>2, Bounds
  <2>5. m2[l] = Bits([Value(m[l]) EXCEPT !.hasWeaks = FALSE])
    BY <1>3 DEF Ended
  <2>6. PICK h : h = [Value(m[l]) EXCEPT !.hasWeaks = FALSE]
    OBVIOUS
  <2>7. h \in HeaderBits
    BY <2>3, <2>4, <2>5, <2>6, Tags
  <2>8. QED BY <2>5, <2>6, <2>7, WordsMade
<1>4. QED BY <1>2, <1>3


LEMMA RenamedKnown ==
  ASSUME NEW u, NEW g, NEW on, NEW fn, Heap(u, g, on, fn), NEW M, NEW R, NEW g2, MovedShapes(g2, g, M, R),
         QueueArray \in M, NEW l \in Location, IsCell(g, l), l # QueueArray,
         NEW v, Renaming(g, M, u[l], v)
  PROVE  \E b \in Known(g2) : v = Oop(b) /\ (b = QueueArray => l = RescuedEphemerons)
<1>1. Placement(g, on, fn)
  BY DEF Heap
<1>2. PICK a \in Known(g) : u[l] = Oop(a) /\ (a = QueueArray => l = RescuedEphemerons)
  BY DEF Heap, CellsHold
<1>3. /\ \A c \in DOMAIN g : u[l] = Oop(c) => c \in M /\ v = Oop(New(g, M, c))
      /\ \A c : c \notin DOMAIN g /\ u[l] = Oop(c) => v = Oop(c)
  BY RenamedWord
<1>4. CASE a \in DOMAIN g
  <2>1. a \in M /\ v = Oop(New(g, M, a))
    BY <1>2, <1>3, <1>4
  <2>2. New(g, M, a) \in DOMAIN g2
    BY <1>4, <2>1 DEF MovedShapes
  <2>3. QueueArray \in DOMAIN g /\ New(g, M, QueueArray) = QueueArray
    BY <1>1, QueueStays DEF Placement
  <2>4. New(g, M, a) = QueueArray => a = QueueArray
    BY <1>1, <1>4, <2>1, <2>3, NewDiffers
  <2>5. QED BY <1>2, <2>1, <2>2, <2>4 DEF Known
<1>5. CASE a \notin DOMAIN g
  <2>1. v = Oop(a) /\ a \in LibraryObjects
    BY <1>2, <1>3, <1>5 DEF Known
  <2>2. QED BY <1>2, <2>1 DEF Known
<1>6. QED BY <1>4, <1>5

LEMMA EndedQueue ==
  ASSUME NEW u, NEW g, NEW on, NEW fn, Heap(u, g, on, fn), NEW M, MarksOf(g, M),
         NEW s, Settled(s, u, g, M), NEW m, Compacted(m, s, g, M, fn),
         NEW R, Rescuing(g, M, R), NEW m2, Ended(m2, m, R), NEW g2, MovedShapes(g2, g, M, R),
         QueueArray \in M
  PROVE  \E n \in 2 .. QueueSize + 2 :
           /\ m2[QueueArray] = Smi(n)
           /\ \A j \in 1 .. n - 2 : \E e \in DOMAIN g2 : m2[QueueArray + j] = Oop(e) /\ g2[e].ephemeron
<1>1. Placement(g, on, fn)
  BY DEF Heap
<1>2. /\ QueueArray \in DOMAIN g /\ g[QueueArray] = QueueShape
      /\ New(g, M, QueueArray) = QueueArray /\ QueueArray \in Nat /\ QueueSize \in Nat
  <2>1. QueueArray \in DOMAIN g /\ g[QueueArray] = QueueShape
    BY <1>1 DEF Placement
  <2>2. New(g, M, QueueArray) = QueueArray
    BY <1>1, QueueStays
  <2>3. QueueArray \in Nat /\ QueueSize \in Nat
    BY <1>1, KnownCells
  <2>4. QED BY <2>1, <2>2, <2>3
<1>3. g[QueueArray].size = QueueSize + 1
  BY <1>2 DEF QueueShape
<1>4. PICK q : q = QueueArray
  OBVIOUS
<1>5. \A k \in Int : -1 <= k /\ k < g[q].size =>
        q + k \in Location /\ IsCell(g, q + k) /\ Renaming(g, M, u[q + k], m2[q + k])
  <2>1. q \in DOMAIN g /\ q \in M /\ q = New(g, M, q)
    BY <1>2, <1>4
  <2>2. SlotsMoved(u, g, M, m2, q, q)
    BY <2>1, EndedObject
  <2>3. QED BY <2>2 DEF SlotsMoved
<1>6. PICK n \in 2 .. QueueSize + 2 :
        /\ u[q] = Smi(n)
        /\ \A j \in 1 .. n - 2 : \E e \in DOMAIN g : u[q + j] = Oop(e) /\ g[e].ephemeron
  BY <1>4 DEF Heap, CellsHold
<1>7. m2[q] = Smi(n)
  <2>1. q + 0 = q /\ 0 < g[q].size
    BY <1>2, <1>3, <1>4
  <2>2. Renaming(g, M, u[q], m2[q])
    BY <1>5, <2>1
  <2>3. \A c \in DOMAIN g : u[q] # Oop(c)
    BY <1>6, Tags
  <2>4. QED BY <1>6, <2>2, <2>3 DEF Renaming
<1>8. ASSUME NEW j \in 1 .. n - 2
      PROVE  \E e \in DOMAIN g2 : m2[q + j] = Oop(e) /\ g2[e].ephemeron
  <2>1. j \in Int /\ -1 <= j /\ j < g[q].size
    BY <1>2, <1>3, <1>4
  <2>2. Renaming(g, M, u[q + j], m2[q + j])
    BY <1>5, <2>1
  <2>3. PICK e \in DOMAIN g : u[q + j] = Oop(e) /\ g[e].ephemeron
    BY <1>6
  <2>4. e \in M /\ m2[q + j] = Oop(New(g, M, e))
    BY <2>2, <2>3 DEF Renaming
  <2>5. PICK x : x = New(g, M, e)
    OBVIOUS
  <2>6. x \in DOMAIN g2 /\ g2[x].ephemeron = g[e].ephemeron
    BY <1>1, <2>4, <2>5, MovedExtent
  <2>7. QED BY <2>3, <2>4, <2>5, <2>6
<1>9. QED BY <1>4, <1>7, <1>8

LEMMA EndedSlots ==
  ASSUME NEW u, NEW g, NEW on, NEW fn, Heap(u, g, on, fn), NEW M, MarksOf(g, M),
         NEW s, Settled(s, u, g, M), NEW m, Compacted(m, s, g, M, fn),
         NEW R, Rescuing(g, M, R), NEW m2, Ended(m2, m, R), NEW g2, MovedShapes(g2, g, M, R),
         QueueArray \in M, Association \in M,
         NEW l \in Location, l # QueueArray, NEW b \in Known(g2), l \in SlotsAt(g2, b)
  PROVE  \E c \in Known(g2) : m2[l] = Oop(c) /\ (c = QueueArray => l = RescuedEphemerons)
<1>1. Placement(g, on, fn)
  BY DEF Heap
<1>2. CASE b \in DOMAIN g2
  <2>1. PICK a \in DOMAIN g : a \in M /\ b = New(g, M, a)
    BY <1>2 DEF MovedShapes
  <2>2. b \in Nat /\ g2[b].size = g[a].size
    BY <1>1, <2>1, MovedExtent
  <2>3. g[a].size \in Nat /\ a \in Nat
    BY <1>1, Extents
  <2>4. PICK k \in Int : -1 <= k /\ k < g[a].size /\ l = b + k
    <3>1. l \in Int /\ b - 1 <= l /\ l <= b + g[a].size - 1
      BY <1>2, <2>2, <2>3 DEF SlotsAt, SizeAt
    <3>2. PICK k \in Int : k = l - b
      BY <2>2, <3>1
    <3>3. QED BY <2>2, <2>3, <3>1, <3>2
  <2>5. a + k \in Location /\ a + k \in SlotsAt(g, a) /\ IsCell(g, a + k) /\ Renaming(g, M, u[a + k], m2[l])
    <3>1. PICK x : x = New(g, M, a)
      OBVIOUS
    <3>2. /\ x + k \in Location /\ a + k \in Location /\ a + k \in SlotsAt(g, a)
          /\ IsCell(g, a + k) /\ Renaming(g, M, u[a + k], m2[x + k])
      BY <2>1, <2>4, <3>1, EndedSlot
    <3>3. b = x
      BY <2>1, <3>1
    <3>4. QED BY <2>4, <3>2, <3>3
  <2>6. PICK y : y = a + k
    OBVIOUS
  <2>7. y # QueueArray
    <3>1. SUFFICES ASSUME y = QueueArray PROVE FALSE
      OBVIOUS
    <3>2. QueueArray \in DOMAIN g /\ QueueArray \in SlotsAt(g, QueueArray) /\ New(g, M, QueueArray) = QueueArray
      <4>1. QueueArray + 0 \in SlotsAt(g, QueueArray) /\ QueueArray + 0 = QueueArray
        BY <1>1, KnownCells
      <4>2. QED BY <1>1, <4>1, QueueStays, KnownCells
    <3>3. a \in Known(g) /\ QueueArray \in Known(g)
      BY <3>2 DEF Known
    <3>4. a = QueueArray
      BY <1>1, <2>5, <2>6, <3>1, <3>2, <3>3, SlotIsCell
    <3>5. b = QueueArray /\ k = 0
      BY <2>1, <2>3, <2>6, <3>1, <3>2, <3>4
    <3>6. QED BY <2>2, <2>4, <3>5
  <2>8. PICK v : v = m2[l]
    OBVIOUS
  <2>9. PICK c \in Known(g2) : v = Oop(c) /\ (c = QueueArray => y = RescuedEphemerons)
    BY <2>5, <2>6, <2>7, <2>8, RenamedKnown
  <2>10. y # RescuedEphemerons
    <3>1. y \notin Roots
      BY <1>1, <2>5, <2>6, SlotIsCell DEF Known
    <3>2. RescuedEphemerons \in Roots
      BY Numbers DEF Roots
    <3>3. QED BY <3>1, <3>2
  <2>11. QED BY <2>8, <2>9, <2>10
<1>3. CASE b \notin DOMAIN g2
  <2>1. b \in LibraryObjects
    BY <1>3 DEF Known
  <2>2. b \notin DOMAIN g /\ b \in Known(g)
    <3>1. b \in {2, 4, 6} /\ \A a \in DOMAIN g : 12 <= a
      BY <1>1, <2>1, Numbers, Bounds, Extents
    <3>2. QED BY <2>1, <3>1 DEF Known
  <2>3. SlotsAt(g2, b) = SlotsAt(g, b)
    BY <1>3, <2>2 DEF SlotsAt, SizeAt
  <2>4. l < OldBase /\ l \notin Roots /\ IsCell(g, l)
    <3>1. b \in Nat /\ b <= 6 /\ b + SizeAt(g, b) - 1 <= 6
      <4>1. SizeAt(g, b) = IF b = Association THEN 1 ELSE 0
        BY <2>2 DEF SizeAt
      <4>2. b \in {2, 4, 6} /\ Association = 6
        BY <2>1, Numbers
      <4>3. CASE b = 6
        BY <4>1, <4>2, <4>3
      <4>4. CASE b \in {2, 4}
        BY <4>1, <4>2, <4>4
      <4>5. QED BY <4>2, <4>3, <4>4
    <3>2. l <= 6
      <4>1. l \in SlotsAt(g, b)
        BY <2>3
      <4>2. SizeAt(g, b) \in Nat
        BY <2>2 DEF SizeAt
      <4>3. QED BY <3>1, <4>1, <4>2 DEF SlotsAt
    <3>3. l \notin Roots
      BY <1>1, <2>2, <2>3, SlotIsCell
    <3>4. QED BY <2>2, <2>3, <3>2, <3>3, Bounds DEF IsCell
  <2>5. l # RescuedEphemerons
    BY <2>4, Numbers DEF Roots
  <2>6. Renaming(g, M, u[l], m2[l])
    <3>1. CASE b = Association
      <4>1. Everywhere(g, M, l)
        BY <2>3, <3>1 DEF Everywhere, Reached
      <4>2. QED BY <2>4, <4>1, EndedRoot
    <3>2. CASE b # Association
      <4>1. b \in {Nil, ResidueObject}
        BY <2>1, <3>2 DEF LibraryObjects
      <4>2. l = b - 1
        <5>1. SizeAt(g, b) = 0 /\ b \in Nat
          BY <2>1, <2>2, <3>2, LibraryObject DEF SizeAt
        <5>2. QED BY <2>3, <5>1 DEF SlotsAt
      <4>3. PICK d \in LibraryObjects : u[l] = Oop(d)
        BY <4>1, <4>2 DEF Heap, CellsHold
      <4>4. d \notin DOMAIN g
        <5>1. d \in {2, 4, 6} /\ \A a \in DOMAIN g : 12 <= a
          BY <1>1, Numbers, Bounds, Extents
        <5>2. QED BY <5>1
      <4>5. \A c \in DOMAIN g : u[l] # Oop(c)
        BY <4>3, <4>4, OopsDiffer
      <4>6. m2[l] = u[l]
        BY <2>4, <4>5, EndedRoot
      <4>7. QED BY <4>5, <4>6 DEF Renaming
    <3>3. QED BY <3>1, <3>2
  <2>7. PICK v : v = m2[l]
    OBVIOUS
  <2>8. QED BY <2>4, <2>5, <2>6, <2>7, RenamedKnown
<1>4. QED BY <1>2, <1>3

LEMMA EndedCells ==
  ASSUME NEW u, NEW g, NEW on, NEW fn, Heap(u, g, on, fn), NEW M, MarksOf(g, M),
         NEW s, Settled(s, u, g, M), NEW m, Compacted(m, s, g, M, fn),
         NEW R, Rescuing(g, M, R), NEW m2, Ended(m2, m, R), NEW g2, MovedShapes(g2, g, M, R),
         QueueArray \in M, Association \in M
  PROVE  CellsHold(m2, g2)
<1>1. Placement(g, on, fn)
  BY DEF Heap
<1>2. \A d \in LibraryObjects : \A c \in DOMAIN g : Oop(d) # Oop(c)
  <2>1. \A a \in DOMAIN g : 12 <= a
    BY <1>1, Bounds, Extents
  <2>2. QED BY <2>1, Numbers, OopsDiffer
<1>3. m2[WellKnownRoots] = Oop(Association)
  <2>1. PICK l \in Location : l = WellKnownRoots /\ l < OldBase
    BY <1>1, KnownCells, Numbers
  <2>2. u[l] = Oop(Association) /\ Association \in LibraryObjects
    BY <2>1 DEF Heap, CellsHold, LibraryObjects
  <2>3. m2[l] = u[l]
    BY <1>2, <2>1, <2>2, EndedRoot
  <2>4. QED BY <2>1, <2>2, <2>3
<1>4. ASSUME NEW l \in Roots PROVE l \in Location /\ l < OldBase /\ Renaming(g, M, u[l], m2[l])
  <2>1. l \in Location /\ l < OldBase
    BY <1>1, RootIsCell
  <2>2. Everywhere(g, M, l)
    BY Numbers DEF Roots, Everywhere, Reached
  <2>3. QED BY <2>1, <2>2, EndedRoot
<1>5. m2[RescuedEphemerons] = Oop(QueueArray)
  <2>1. RescuedEphemerons \in Roots
    BY Numbers DEF Roots
  <2>2. u[RescuedEphemerons] = Oop(QueueArray) /\ QueueArray \in DOMAIN g
    BY <1>1 DEF Heap, CellsHold, Placement
  <2>3. m2[RescuedEphemerons] = Oop(New(g, M, QueueArray))
    BY <1>4, <2>1, <2>2 DEF Renaming
  <2>4. QED BY <1>1, <2>3, QueueStays
<1>6. ASSUME NEW a \in {Nil, ResidueObject} PROVE \E b \in LibraryObjects : m2[a - 1] = Oop(b)
  <2>1. PICK b \in LibraryObjects : u[a - 1] = Oop(b)
    BY DEF Heap, CellsHold
  <2>2. PICK l \in Location : l = a - 1 /\ l < OldBase
    <3>1. a - 1 \in Location /\ a - 1 < OldBase
      BY <1>1, LibraryBehaviors, Numbers
    <3>2. QED BY <3>1
  <2>3. m2[l] = u[l]
    BY <1>2, <2>1, <2>2, EndedRoot
  <2>4. QED BY <2>1, <2>2, <2>3
<1>7. \E n \in 2 .. QueueSize + 2 :
        /\ m2[QueueArray] = Smi(n)
        /\ \A j \in 1 .. n - 2 : \E e \in DOMAIN g2 : m2[QueueArray + j] = Oop(e) /\ g2[e].ephemeron
  BY EndedQueue
<1>8. ASSUME NEW l \in Location, IsCell(g2, l), l # QueueArray
      PROVE  \E a \in Known(g2) : m2[l] = Oop(a) /\ (a = QueueArray => l = RescuedEphemerons)
  <2>1. CASE l \in Roots
    <3>1. Renaming(g, M, u[l], m2[l])
      BY <1>4, <2>1
    <3>2. IsCell(g, l)
      BY <2>1 DEF IsCell
    <3>3. PICK v : v = m2[l]
      OBVIOUS
    <3>4. QED BY <1>8, <3>1, <3>2, <3>3, RenamedKnown
  <2>2. CASE \E b \in Known(g2) : l \in SlotsAt(g2, b)
    <3>1. PICK b \in Known(g2) : l \in SlotsAt(g2, b)
      BY <2>2
    <3>2. QED BY <1>8, <3>1, EndedSlots
  <2>3. QED BY <1>8, <2>1, <2>2 DEF IsCell
<1>9. QED BY <1>3, <1>5, <1>6, <1>7, <1>8 DEF CellsHold

(* A collection ends with a heap.                                           *)
LEMMA EndedHeap ==
  ASSUME NEW u, NEW g, NEW on, NEW fn, Heap(u, g, on, fn), NEW M, MarksOf(g, M),
         NEW s, Settled(s, u, g, M), NEW m, Compacted(m, s, g, M, fn),
         NEW R, Rescuing(g, M, R), NEW m2, Ended(m2, m, R), NEW g2, MovedShapes(g2, g, M, R),
         QueueArray \in M, Association \in M, NEW on2, on2 = Pos(g, M, fn)
  PROVE  Heap(m2, g2, on2, FromBase)
<1>1. Placement(g, on, fn) /\ Covered(g, M, fn)
  BY DEF Heap, Compacted
<1>2. DOMAIN m2 = Location
  BY DEF Ended
<1>3. \A l \in Location : Proper(m2[l])
  BY EndedProper
<1>4. Placement(g2, on2, FromBase)
  BY <1>1, MovedPlacement
<1>5. Fits(m2, g2, on2, FromBase)
  BY EndedFits
<1>6. LibraryFits(m2)
  BY EndedLibrary
<1>7. CellsHold(m2, g2)
  BY EndedCells
<1>8. QED BY <1>2, <1>3, <1>4, <1>5, <1>6, <1>7 DEF Heap


-----------------------------------------------------------------------------
(* The objects that have moved, at x where names[x] was before, are what    *)
(* they were in the copy c, each slot renamed.                              *)
KeptBits(bits) == [bits EXCEPT !.inRememberedSet = FALSE, !.hasWeaks = FALSE]
OtherWord(w, on, names) ==
  IF Is("oop", w) /\ Value(w) \in OldBase .. on
  THEN IF Value(w) \in DOMAIN names THEN Oop(names[Value(w)]) ELSE Smi(0)
  ELSE w

EqualHeader(m, c, extended, x, a) ==
  /\ KeptBits(Value(m[x - 2])) = KeptBits(Value(c[a - 2]))
  /\ extended => m[x - 3] = c[a - 3]
EqualSlots(m, c, weak, size, on, names, x, a) ==
  \A k \in Int : -1 <= k /\ k < size =>
    c[a + k] = OtherWord(m[x + k], on, names) \/ (m[x + k] = Oop(ResidueObject) /\ weak)

EqualObjects(m, c, g, on, names) ==
  \A x \in DOMAIN names : x # QueueArray =>
    /\ x \in DOMAIN g
    /\ EqualHeader(m, c, g[x].extended, x, names[x])
    /\ EqualSlots(m, c, g[x].weak, g[x].size, on, names, x, names[x])

LEMMA EndedEqualHeader ==
  ASSUME NEW u, NEW g, NEW on, NEW fn, Heap(u, g, on, fn), NEW M, MarksOf(g, M),
         NEW s, Settled(s, u, g, M), NEW m, Compacted(m, s, g, M, fn),
         NEW R, Rescuing(g, M, R), NEW m2, Ended(m2, m, R),
         NEW c, Heap(c, g, on, fn), AllKept(c, g, u),
         NEW a \in DOMAIN g, a \in M, NEW x, x = New(g, M, a)
  PROVE  EqualHeader(m2, c, g[a].extended, x, a)
<1>1. /\ x \in R => m2[x - 2] = Bits([MovedBits(u, a) EXCEPT !.hasWeaks = FALSE])
      /\ x \notin R => m2[x - 2] = Bits(MovedBits(u, a))
      /\ g[a].extended => m2[x - 3] = u[a - 3]
  BY EndedObject
<1>2. PICK hu, hc, k : hu = Value(u[a - 2]) /\ hc = Value(c[a - 2]) /\ k = Value(m2[x - 2])
  OBVIOUS
<1>3. hu \in HeaderBits /\ hu.unseenInSpace = TRUE
  <2>1. Value(u[a - 2]) \in HeaderBits /\ Value(u[a - 2]).unseenInSpace
    BY HeaderWord
  <2>2. QED BY <1>2, <2>1 DEF HeaderBits
<1>4. hc \in HeaderBits /\ hc.unseenInSpace = TRUE /\ Is("bits", c[a - 2]) /\ a - 2 \in Location
  <2>1. Value(c[a - 2]) \in HeaderBits /\ Value(c[a - 2]).unseenInSpace
    BY HeaderWord
  <2>2. Is("bits", c[a - 2]) /\ a - 2 \in Location
    BY HeaderWord
  <2>3. QED BY <1>2, <2>1, <2>2 DEF HeaderBits
<1>5. [hu EXCEPT !.unseenInSpace = TRUE, !.inRememberedSet = FALSE]
        = [hc EXCEPT !.unseenInSpace = TRUE, !.inRememberedSet = FALSE]
  BY <1>2, <1>4 DEF AllKept, Kept
<1>6. KeptBits(hu) = KeptBits(hc)
  BY <1>3, <1>4, <1>5 DEF KeptBits, HeaderBits
<1>7. KeptBits(k) = KeptBits(hu)
  <2>1. \A y : Value(Bits(y)) = y
    BY Tags
  <2>2. MovedBits(u, a) = [hu EXCEPT !.inRememberedSet = FALSE]
    BY <1>2 DEF MovedBits
  <2>3. CASE x \in R
    <3>1. k = [[hu EXCEPT !.inRememberedSet = FALSE] EXCEPT !.hasWeaks = FALSE]
      BY <1>1, <1>2, <2>1, <2>2, <2>3
    <3>2. QED BY <1>3, <3>1 DEF KeptBits, HeaderBits
  <2>4. CASE x \notin R
    <3>1. k = [hu EXCEPT !.inRememberedSet = FALSE]
      BY <1>1, <1>2, <2>1, <2>2, <2>4
    <3>2. QED BY <1>3, <3>1 DEF KeptBits, HeaderBits
  <2>5. QED BY <2>3, <2>4
<1>8. ASSUME g[a].extended PROVE m2[x - 3] = c[a - 3]
  <2>1. IF g[a].extended
        THEN u[a - 3] = Extension([size |-> g[a].size, isEphemeron |-> g[a].ephemeron])
        ELSE Value(u[a - 2]).size = g[a].size
    BY HeaderWord
  <2>2. IF g[a].extended
        THEN c[a - 3] = Extension([size |-> g[a].size, isEphemeron |-> g[a].ephemeron])
        ELSE Value(c[a - 2]).size = g[a].size
    BY HeaderWord
  <2>3. QED BY <1>1, <1>8, <2>1, <2>2
<1>9. QED BY <1>2, <1>6, <1>7, <1>8 DEF EqualHeader

(* What a slot of an object other than the queue holds, before and after.   *)
LEMMA EqualWord ==
  ASSUME NEW u, NEW g, NEW on, NEW fn, Heap(u, g, on, fn), NEW M, NEW names,
         Renamed(g, M, names, fn, None),
         NEW l \in Location, IsCell(g, l), l # QueueArray, NEW v, Renaming(g, M, u[l], v),
         NEW on2, on2 = Pos(g, M, fn)
  PROVE  u[l] = OtherWord(v, on2, names)
<1>1. Placement(g, on, fn)
  BY DEF Heap
<1>2. PICK a \in Known(g) : u[l] = Oop(a)
  BY DEF Heap, CellsHold
<1>3. CASE a \in DOMAIN g
  <2>1. a \in M /\ v = Oop(New(g, M, a))
    BY <1>2, <1>3 DEF Renaming
  <2>2. New(g, M, a) \in DOMAIN names /\ names[New(g, M, a)] = a
    BY <1>1, <1>3, <2>1, AllNoted
  <2>3. New(g, M, a) \in OldBase .. on2
    <3>1. /\ New(g, M, a) \in Nat /\ OldBase + 2 <= New(g, M, a) /\ g[a].size \in Nat
          /\ New(g, M, a) + g[a].size <= on2
      BY <1>1, <1>3, <2>1, NewPlace
    <3>2. on2 \in Nat
      <4>1. fn \in Nat /\ OldBase <= fn
        BY <1>1, Bounds DEF Placement
      <4>2. QED BY <1>1, <4>1, PosBelow
    <3>3. QED BY <3>1, <3>2, Bounds
  <2>4. Is("oop", v) /\ Value(v) = New(g, M, a)
    BY <2>1, Tags
  <2>5. QED BY <1>2, <2>2, <2>3, <2>4 DEF OtherWord
<1>4. CASE a \notin DOMAIN g
  <2>1. \A d \in DOMAIN g : u[l] # Oop(d)
    BY <1>2, <1>4, OopsDiffer
  <2>2. v = Oop(a)
    BY <1>2, <2>1 DEF Renaming
  <2>3. a \notin OldBase .. on2
    <3>1. a \in LibraryObjects
      BY <1>4 DEF Known
    <3>2. QED BY <3>1, Numbers, Bounds
  <2>4. Value(v) = a
    BY <2>2, Tags
  <2>5. QED BY <1>2, <2>2, <2>3, <2>4 DEF OtherWord
<1>5. QED BY <1>3, <1>4

LEMMA EndedEqualSlots ==
  ASSUME NEW u, NEW g, NEW on, NEW fn, Heap(u, g, on, fn), NEW M, MarksOf(g, M),
         NEW s, Settled(s, u, g, M), NEW m, Compacted(m, s, g, M, fn),
         NEW R, Rescuing(g, M, R), NEW m2, Ended(m2, m, R), NEW g2, MovedShapes(g2, g, M, R),
         NEW c, Heap(c, g, on, fn), AllKept(c, g, u),
         NEW names, Renamed(g, M, names, fn, None), NEW on2, on2 = Pos(g, M, fn),
         NEW a \in DOMAIN g, a \in M, a # QueueArray, NEW x, x = New(g, M, a)
  PROVE  EqualSlots(m2, c, g2[x].weak, g[a].size, on2, names, x, a)
<1>0. Placement(g, on, fn)
  BY DEF Heap
<1>1. SUFFICES ASSUME NEW k \in Int, -1 <= k, k < g[a].size
               PROVE  \/ c[a + k] = OtherWord(m2[x + k], on2, names)
                      \/ (m2[x + k] = Oop(ResidueObject) /\ g2[x].weak)
  BY DEF EqualSlots
<1>2. /\ a + k \in Location /\ a + k \in SlotsAt(g, a)
      /\ IsCell(g, a + k) /\ Renaming(g, M, u[a + k], m2[x + k])
  BY <1>1, EndedSlot
<1>3. PICK l, v : l \in Location /\ l = a + k /\ v = m2[x + k]
  BY <1>2
<1>4. \A b \in DOMAIN g : l \in SlotsAt(g, b) => a = b
  <2>1. \A b \in Known(g) : l \in SlotsAt(g, b) => a = b
    BY <1>0, <1>2, <1>3, SlotIsCell DEF Known
  <2>2. QED BY <2>1 DEF Known
<1>5. l # QueueArray /\ ~(QueueArray <= l /\ l <= QueueArray + QueueSize)
  <2>1. SUFFICES ASSUME QueueArray <= l, l <= QueueArray + QueueSize PROVE FALSE
    BY <1>0, KnownCells
  <2>2. QueueArray \in Nat /\ QueueSize \in Nat /\ QueueArray \in DOMAIN g
    BY <1>0, KnownCells
  <2>3. PICK j \in 0 .. QueueSize : l = QueueArray + j
    <3>1. l - QueueArray \in 0 .. QueueSize /\ l = QueueArray + (l - QueueArray)
      BY <1>3, <2>1, <2>2, Bounds
    <3>2. QED BY <3>1
  <2>4. l \in SlotsAt(g, QueueArray)
    BY <1>0, <2>3, KnownCells
  <2>5. QED BY <1>4, <2>2, <2>4
<1>6. u[l] = c[l] \/ (InWeak(g, l) /\ u[l] = Oop(ResidueObject))
  <2>1. Is("oop", c[l]) \/ Is("smi", c[l])
    BY <1>2, <1>3, CellHolds DEF Heap
  <2>2. ~Is("bits", c[l])
    BY <2>1, OneTag
  <2>3. QED BY <1>3, <1>5, <2>2 DEF AllKept, Kept
<1>7. CASE u[l] = c[l]
  <2>1. u[l] = OtherWord(v, on2, names)
    BY <1>2, <1>3, <1>5, EqualWord
  <2>2. QED BY <1>3, <1>7, <2>1
<1>8. CASE InWeak(g, l) /\ u[l] = Oop(ResidueObject)
  <2>1. PICK b \in DOMAIN g : g[b].weak /\ ~g[b].ephemeron /\ b <= l /\ l < b + g[b].size
    BY <1>8 DEF InWeak
  <2>2. l \in SlotsAt(g, b)
    <3>1. b \in Nat /\ g[b].size \in Nat
      BY <1>0, Extents
    <3>2. QED BY <1>3, <2>1, <3>1, Bounds DEF SlotsAt, SizeAt
  <2>3. a = b
    BY <1>4, <2>2
  <2>4. x \notin R
    BY <1>0, <2>1, <2>3, QueueNotRescued
  <2>5. WeakUnlessRescued(g2, g, R, x, a)
    BY <1>0, MovedWeakness
  <2>6. g2[x].weak
    BY <2>1, <2>3, <2>4, <2>5 DEF WeakUnlessRescued
  <2>7. v = Oop(ResidueObject)
    <3>1. ResidueObject \notin DOMAIN g
      <4>1. \A d \in DOMAIN g : 12 <= d
        BY <1>0, Bounds, Extents
      <4>2. QED BY <4>1, Numbers
    <3>2. \A d \in DOMAIN g : u[l] # Oop(d)
      BY <1>8, <3>1, OopsDiffer
    <3>3. QED BY <1>2, <1>3, <1>8, <3>2 DEF Renaming
  <2>8. QED BY <1>3, <2>6, <2>7
<1>9. QED BY <1>6, <1>7, <1>8

LEMMA EndedEqual ==
  ASSUME NEW u, NEW g, NEW on, NEW fn, Heap(u, g, on, fn), NEW M, MarksOf(g, M),
         NEW s, Settled(s, u, g, M), NEW m, Compacted(m, s, g, M, fn),
         NEW R, Rescuing(g, M, R), NEW m2, Ended(m2, m, R), NEW g2, MovedShapes(g2, g, M, R),
         NEW c, Heap(c, g, on, fn), AllKept(c, g, u),
         NEW names, Renamed(g, M, names, fn, None), NEW on2, on2 = Pos(g, M, fn)
  PROVE  EqualObjects(m2, c, g2, on2, names)
<1>0. Placement(g, on, fn)
  BY DEF Heap
<1>1. SUFFICES ASSUME NEW x \in DOMAIN names, x # QueueArray
               PROVE  /\ x \in DOMAIN g2
                      /\ EqualHeader(m2, c, g2[x].extended, x, names[x])
                      /\ EqualSlots(m2, c, g2[x].weak, g2[x].size, on2, names, x, names[x])
  BY DEF EqualObjects
<1>2. PICK a \in DOMAIN g : a = names[x] /\ a \in M /\ x = New(g, M, a)
  BY <1>0, AllNoted
<1>3. a # QueueArray
  BY <1>0, <1>1, <1>2, QueueStays
<1>4. x \in DOMAIN g2 /\ g2[x].size = g[a].size /\ g2[x].extended = g[a].extended
  BY <1>0, <1>2, MovedExtent
<1>5. EqualHeader(m2, c, g[a].extended, x, a)
  BY <1>2, EndedEqualHeader
<1>6. EqualSlots(m2, c, g2[x].weak, g[a].size, on2, names, x, a)
  BY <1>2, <1>3, EndedEqualSlots
<1>7. QED BY <1>2, <1>4, <1>5, <1>6


-----------------------------------------------------------------------------
(* Collections of old space one after the other: between them there is a   *)
(* heap, and the collection that begins with a heap ends with one.         *)

(* What is queued at the end of compaction: ephemerons that were moved.     *)
LEMMA QueueMarked ==
  ASSUME NEW u, NEW g, NEW on, NEW fn, Heap(u, g, on, fn), NEW M, MarksOf(g, M),
         NEW s, Settled(s, u, g, M)
  PROVE  QueueArray \in M
<1>1. Placement(g, on, fn) /\ u[RescuedEphemerons] = Oop(QueueArray)
  BY DEF Heap, CellsHold
<1>2. QueueArray \in DOMAIN g /\ RescuedEphemerons \in Location
  BY <1>1, KnownCells
<1>3. Everywhere(g, M, RescuedEphemerons)
  BY Numbers DEF Everywhere, Reached
<1>4. QED BY <1>1, <1>2, <1>3 DEF Settled

LEMMA QueueMoved ==
  ASSUME NEW u, NEW g, NEW on, NEW fn, Heap(u, g, on, fn), NEW M, MarksOf(g, M),
         NEW s, Settled(s, u, g, M), Compacted(memory, s, g, M, fn)
  PROVE  Queue = QueueArray /\ Rescuing(g, M, Rescued)
<1>1. Placement(g, on, fn) /\ u[RescuedEphemerons] = Oop(QueueArray)
  BY DEF Heap, CellsHold
<1>2. /\ QueueArray \in DOMAIN g /\ RescuedEphemerons \in Location /\ RescuedEphemerons < OldBase
      /\ New(g, M, QueueArray) = QueueArray /\ QueueArray \in Nat /\ QueueSize \in Nat
      /\ QueueArray \in M
  <2>1. QueueArray \in DOMAIN g /\ RescuedEphemerons \in Location /\ QueueArray \in Nat /\ QueueSize \in Nat
    BY <1>1, KnownCells
  <2>2. New(g, M, QueueArray) = QueueArray
    BY <1>1, QueueStays
  <2>3. QueueArray \in M
    BY QueueMarked
  <2>4. RescuedEphemerons < OldBase
    BY Numbers
  <2>5. QED BY <2>1, <2>2, <2>3, <2>4
<1>3. g[QueueArray].size = QueueSize + 1
  BY <1>1 DEF Placement, QueueShape
<1>4. PICK q : q = QueueArray
  OBVIOUS
<1>5. memory[RescuedEphemerons] = Oop(q)
  <2>1. Everywhere(g, M, RescuedEphemerons)
    BY Numbers DEF Everywhere, Reached
  <2>2. Renaming(g, M, u[RescuedEphemerons], memory[RescuedEphemerons])
    BY <1>2, <2>1, MovedRoot
  <2>3. QED BY <1>1, <1>2, <1>4, <2>2 DEF Renaming
<1>6. Queue = q
  BY <1>5, Tags DEF Queue
<1>7. \A k \in Int : -1 <= k /\ k < g[q].size => Renaming(g, M, u[q + k], memory[q + k])
  <2>1. q \in DOMAIN g /\ q \in M /\ q = New(g, M, q)
    BY <1>2, <1>4
  <2>2. QED BY <2>1, MovedObject
<1>8. PICK n \in 2 .. QueueSize + 2 :
        /\ u[q] = Smi(n)
        /\ \A j \in 1 .. n - 2 : \E e \in DOMAIN g : u[q + j] = Oop(e) /\ g[e].ephemeron
  BY <1>4 DEF Heap, CellsHold
<1>9. memory[q] = Smi(n)
  <2>1. q + 0 = q /\ 0 < g[q].size
    BY <1>2, <1>3, <1>4
  <2>2. Renaming(g, M, u[q], memory[q])
    BY <1>7, <2>1
  <2>3. \A c \in DOMAIN g : u[q] # Oop(c)
    BY <1>8, Tags
  <2>4. QED BY <1>8, <2>2, <2>3 DEF Renaming
<1>10. RescuedCount = n - 2
  BY <1>6, <1>9, Tags DEF RescuedCount
<1>11. ASSUME NEW x \in Rescued
       PROVE  \E e \in DOMAIN g : e \in M /\ g[e].ephemeron /\ x = New(g, M, e)
  <2>1. PICK j \in 1 .. n - 2 : x = Value(memory[q + j])
    BY <1>6, <1>10 DEF Rescued
  <2>2. j \in Int /\ -1 <= j /\ j < g[q].size
    BY <1>2, <1>3, <1>4, <2>1
  <2>3. Renaming(g, M, u[q + j], memory[q + j])
    BY <1>7, <2>2
  <2>4. PICK e \in DOMAIN g : u[q + j] = Oop(e) /\ g[e].ephemeron
    BY <1>8
  <2>5. e \in M /\ memory[q + j] = Oop(New(g, M, e))
    BY <2>3, <2>4 DEF Renaming
  <2>6. Value(memory[q + j]) = New(g, M, e)
    BY <2>5, Tags
  <2>7. QED BY <2>1, <2>4, <2>5, <2>6
<1>12. QED BY <1>4, <1>6, <1>11 DEF Rescuing

-----------------------------------------------------------------------------
(* Between collections: the heap, and what the checker of equality keeps of *)
(* the last one.                                                            *)
QuietLabels == {"mutator", "unmarkRememberedSet"}
CopyOK(c) == DOMAIN c = Location /\ \A l \in Location : WordOK(c[l])
NamesOK(names) == DOMAIN names \subseteq Location /\ Range(names) \subseteq Location
Unscanned == scan \in ScanType /\ ~(scan.index < scan.limit) /\ stack = << >>
NothingWaits == ephemerons = << >> /\ unknowns = << >> /\ weakContainers = << >>

QuietInv(g) ==
  /\ pc \in QuietLabels /\ Unscanned /\ NothingWaits
  /\ Heap(memory, g, oldNextFree, fromNextFree)
  /\ rememberedSet \in Seq(Known(g))
  /\ i \in Nat \ {0} /\ buffer = OldBase /\ reference = None
  /\ auxNextFree \in OldBase .. FromBase
  /\ CopyOK(copy) /\ NamesOK(newToOld)
  /\ EqualObjects(memory, copy, g, oldNextFree, newToOld)
  /\ Undisturbed(g, memory)
  /\ pc = "unmarkRememberedSet" => copy = memory /\ newToOld = << >>

LEMMA HeapCopyOK ==
  ASSUME NEW c, NEW g, NEW on, NEW fn, Heap(c, g, on, fn)
  PROVE  CopyOK(c)
<1>1. DOMAIN c = Location /\ \A l \in Location : Proper(c[l])
  BY DEF Heap
<1>2. QED BY <1>1 DEF CopyOK, Proper, IsWord

LEMMA RenamedNamesOK ==
  ASSUME NEW g, NEW on, NEW fn, Placement(g, on, fn), NEW M, NEW names,
         Renamed(g, M, names, fn, None)
  PROVE  NamesOK(names)
<1>1. \A x \in DOMAIN names : names[x] \in DOMAIN g /\ names[x] \in M /\ x = New(g, M, names[x])
  BY AllNoted
<1>2. \A a \in DOMAIN g : a \in Location
  BY KnownObject DEF Known
<1>3. \A a \in DOMAIN g : a \in M => New(g, M, a) \in Location
  BY NewPlace
<1>4. DOMAIN names \subseteq Location
  BY <1>1, <1>3
<1>5. \A x \in DOMAIN names : names[x] \in Location
  BY <1>1, <1>2
<1>6. Range(names) \subseteq Location
  BY <1>5 DEF Range
<1>7. QED BY <1>4, <1>6 DEF NamesOK

LEMMA MovedNoEphemeron ==
  ASSUME NEW g, NEW on, NEW fn, Placement(g, on, fn), NEW M, NEW R, NEW g2, MovedShapes(g2, g, M, R),
         NoEphemeron(g)
  PROVE  NoEphemeron(g2)
<1>1. SUFFICES ASSUME NEW x \in DOMAIN g2 PROVE ~g2[x].ephemeron
  BY DEF NoEphemeron
<1>2. PICK a \in DOMAIN g : a \in M /\ x = New(g, M, a)
  BY DEF MovedShapes
<1>3. g2[x].ephemeron = g[a].ephemeron
  BY <1>2, MovedExtent
<1>4. QED BY <1>3 DEF NoEphemeron

(* The tombstone and the slots of the queue lead where they led.            *)
LEMMA EndedUndisturbed ==
  ASSUME NEW u, NEW g, NEW on, NEW fn, Heap(u, g, on, fn), NEW M, MarksOf(g, M),
         NEW s, Settled(s, u, g, M), NEW m, Compacted(m, s, g, M, fn),
         NEW R, Rescuing(g, M, R), NEW m2, Ended(m2, m, R), QueueArray \in M,
         NEW c, AllKept(c, g, u), LeadsNowhere(u), LeadsToNil(c)
  PROVE  LeadsNowhere(m2) /\ LeadsToNil(m2)
<1>1. Placement(g, on, fn)
  BY DEF Heap
<1>2. \A a \in DOMAIN g : a \in Nat /\ 12 <= a /\ OldBase + 2 <= a
  BY <1>1, Bounds, Extents, Numbers
<1>3. Nil \notin DOMAIN g /\ ResidueObject \notin DOMAIN g /\ \A b \in LibraryObjects : b \notin DOMAIN g
  BY <1>2, Numbers
<1>4. /\ QueueArray \in DOMAIN g /\ g[QueueArray].size = QueueSize + 1
      /\ New(g, M, QueueArray) = QueueArray /\ QueueArray \in Nat /\ QueueSize \in Nat
  <2>1. QueueArray \in DOMAIN g /\ g[QueueArray] = QueueShape
    BY <1>1 DEF Placement
  <2>2. New(g, M, QueueArray) = QueueArray
    BY <1>1, QueueStays
  <2>3. QED BY <1>1, <2>1, <2>2, KnownCells DEF QueueShape
<1>5. PICK q : q = QueueArray
  OBVIOUS
<1>6. \A k \in Int : -1 <= k /\ k < g[q].size => Renaming(g, M, u[q + k], m2[q + k])
  <2>1. q \in DOMAIN g /\ q \in M /\ q = New(g, M, q)
    BY <1>4, <1>5
  <2>2. SlotsMoved(u, g, M, m2, q, q)
    BY <2>1, EndedObject
  <2>3. QED BY <2>2 DEF SlotsMoved
<1>7. ASSUME NEW l \in {Nil - 1, ResidueObject - 1} PROVE m2[l] = u[l]
  <2>1. l \in Location /\ l < OldBase
    BY <1>1, Numbers, LibraryBehaviors
  <2>2. PICK b \in LibraryObjects : u[l] = Oop(b)
    BY DEF Heap, CellsHold
  <2>3. \A d \in DOMAIN g : u[l] # Oop(d)
    BY <1>3, <2>2, OopsDiffer
  <2>4. QED BY <2>1, <2>3, EndedRoot
<1>8. ASSUME NEW l \in QueueArray - 1 .. QueueArray + QueueSize, NEW a, m2[l] = Oop(a)
      PROVE  a \in LateObjects
  <2>1. PICK k \in Int : k = l - q
    BY <1>4, <1>5
  <2>2. -1 <= k /\ k < g[q].size /\ q + k = l
    BY <1>4, <1>5, <2>1
  <2>3. Renaming(g, M, u[l], m2[l])
    BY <1>6, <2>2
  <2>4. l \in LateSlots
    BY DEF LateSlots
  <2>5. CASE \E d \in DOMAIN g : u[l] = Oop(d)
    <3>1. PICK d \in DOMAIN g : u[l] = Oop(d)
      BY <2>5
    <3>2. d \in LateObjects
      BY <2>4, <3>1 DEF LeadsNowhere
    <3>3. d = QueueArray
      BY <1>3, <3>1, <3>2 DEF LateObjects
    <3>4. m2[l] = Oop(QueueArray)
      BY <1>4, <2>3, <3>1, <3>3 DEF Renaming
    <3>5. a = QueueArray
      BY <1>8, <3>4, OopsDiffer
    <3>6. QED BY <3>5 DEF LateObjects
  <2>6. CASE \A d \in DOMAIN g : u[l] # Oop(d)
    <3>1. u[l] = Oop(a)
      BY <1>8, <2>3, <2>6 DEF Renaming
    <3>2. QED BY <2>4, <3>1 DEF LeadsNowhere
  <2>7. QED BY <2>5, <2>6
<1>9. LeadsNowhere(m2)
  <2>1. SUFFICES ASSUME NEW l \in LateSlots, NEW a, m2[l] = Oop(a) PROVE a \in LateObjects
    BY DEF LeadsNowhere
  <2>2. CASE l \in {Nil - 1, ResidueObject - 1}
    <3>1. u[l] = Oop(a)
      BY <1>7, <2>1, <2>2
    <3>2. QED BY <3>1 DEF LeadsNowhere
  <2>3. CASE l \in QueueArray - 1 .. QueueArray + QueueSize
    BY <1>8, <2>1, <2>3
  <2>4. QED BY <2>1, <2>2, <2>3 DEF LateSlots
<1>10. LeadsToNil(m2)
  <2>1. PICK l : l = Association - 1
    OBVIOUS
  <2>2. l \in Location /\ l < OldBase /\ ~(QueueArray <= l) /\ l = 5
    BY <2>1, Numbers, Bounds
  <2>3. ~InWeak(g, l)
    <3>1. SUFFICES ASSUME InWeak(g, l) PROVE FALSE
      OBVIOUS
    <3>2. PICK a \in DOMAIN g : a <= l
      BY <1>2, <3>1 DEF InWeak
    <3>3. QED BY <1>2, <2>2, <3>2
  <2>4. c[l] = Oop(Nil)
    BY <2>1 DEF LeadsToNil
  <2>5. u[l] = Oop(Nil)
    BY <2>2, <2>3, <2>4, Tags DEF AllKept, Kept
  <2>6. \A d \in DOMAIN g : u[l] # Oop(d)
    BY <1>3, <2>5, OopsDiffer
  <2>7. m2[l] = u[l]
    BY <2>2, <2>6, EndedRoot
  <2>8. QED BY <2>1, <2>5, <2>7 DEF LeadsToNil
<1>11. QED BY <1>9, <1>10

(* The collection ends with a heap in which every object is equal to what   *)
(* it was before.                                                           *)
LEMMA CompactEndCollection ==
  ASSUME NEW g, NEW u, NEW M, NEW s, CompactInv(g, u, M, s), EndCollection
  PROVE  \E g2 : QuietInv(g2)'
<1>1. PICK fn : fn = fromNextFree
  OBVIOUS
<1>2. PICK on : on = oldNextFree
  OBVIOUS
<1>3. /\ Heap(u, g, on, fn) /\ Heap(copy, g, on, fn) /\ AllKept(copy, g, u)
      /\ Settled(s, u, g, M) /\ MarksOf(g, M) /\ Association \in M
      /\ Renamed(g, M, newToOld, fn, None) /\ Idle /\ reference = None
      /\ WeakTold(copy, g, u, M)
  BY <1>1, <1>2 DEF CompactInv, MarksOf
<1>4. /\ pc = "compactFrom" /\ ~IsBelowNextFree(NextObject)
      /\ oldNextFree' = auxNextFree /\ fromNextFree' = FromBase
      /\ buffer' = OldBase /\ pc' = "mutator"
      /\ UNCHANGED <<auxNextFree, rememberedSet, localVars, scanVars, i, reference, newToOld, copy>>
  BY DEF EndCollection
<1>5. buffer = fn
  BY <1>1, <1>4, CompactAtEnd DEF NextFree
<1>6. Compacted(memory, s, g, M, fn) /\ auxNextFree = Pos(g, M, fn)
  BY <1>5, CompactFacts
<1>7. PICK R : R = Rescued
  OBVIOUS
<1>8. Rescuing(g, M, R)
  BY <1>3, <1>6, <1>7, QueueMoved
<1>9. PICK m2 : m2 = memory'
  OBVIOUS
<1>10. Ended(m2, memory, R)
  BY <1>7, <1>9 DEF EndCollection, Ended
<1>11. Placement(g, on, fn)
  BY <1>3 DEF Heap
<1>12. PICK names : names = newToOld
  OBVIOUS
<1>13. Renamed(g, M, names, fn, None)
  BY <1>3, <1>12
<1>14. PICK g2 : g2 = [x \in DOMAIN names |-> IF x \in R THEN [g[names[x]] EXCEPT !.weak = FALSE]
                                             ELSE g[names[x]]]
  OBVIOUS
<1>15. MovedShapes(g2, g, M, R)
  BY <1>11, <1>13, <1>14, ShapesMoved
<1>16. PICK on2 : on2 = Pos(g, M, fn)
  OBVIOUS
<1>17. QueueArray \in M
  BY <1>3, QueueMarked
<1>18. Heap(m2, g2, on2, FromBase)
  BY <1>3, <1>6, <1>8, <1>10, <1>15, <1>16, <1>17, EndedHeap
<1>19. EqualObjects(m2, copy, g2, on2, names)
  BY <1>3, <1>6, <1>8, <1>10, <1>13, <1>15, <1>16, EndedEqual
<1>191. Undisturbed(g2, m2)
  <2>1. LeadsNowhere(u) /\ LeadsToNil(copy) => LeadsNowhere(m2) /\ LeadsToNil(m2)
    BY <1>3, <1>6, <1>8, <1>10, <1>17, EndedUndisturbed
  <2>2. NoEphemeron(g) => NoEphemeron(g2)
    BY <1>11, <1>15, MovedNoEphemeron
  <2>3. QED BY <1>3, <2>1, <2>2 DEF WeakTold, Undisturbed
<1>20. on2 \in OldBase .. FromBase
  BY <1>18 DEF Heap, Placement
<1>21. CopyOK(copy) /\ NamesOK(names)
  BY <1>3, <1>11, <1>13, HeapCopyOK, RenamedNamesOK
<1>22. /\ memory' = m2 /\ oldNextFree' = on2 /\ fromNextFree' = FromBase /\ newToOld' = names
       /\ auxNextFree' = on2
  BY <1>4, <1>6, <1>9, <1>12, <1>16
<1>23. Unscanned' /\ NothingWaits' /\ rememberedSet' = << >> /\ i' \in Nat \ {0} /\ reference' = None
  BY <1>3, <1>4 DEF Idle, Unscanned, NothingWaits, localVars, scanVars
<1>24. rememberedSet' \in Seq(Known(g2))
  BY <1>23
<1>25. pc' = "mutator" /\ pc' \in QuietLabels /\ buffer' = OldBase /\ copy' = copy
  BY <1>4 DEF QuietLabels
<1>26. QED
  <2>1. Heap(memory, g2, oldNextFree, fromNextFree)'
    BY <1>18, <1>22
  <2>2. EqualObjects(memory, copy, g2, oldNextFree, newToOld)'
    BY <1>19, <1>22, <1>25
  <2>3. CopyOK(copy)' /\ NamesOK(newToOld)'
    BY <1>21, <1>22, <1>25
  <2>8. Undisturbed(g2, memory)'
    BY <1>22, <1>191 DEF Undisturbed
  <2>4. QuietInv(g2)'
    BY <2>8, <1>20, <1>22, <1>23, <1>24, <1>25, <2>1, <2>2, <2>3 DEF QuietInv
  <2>5. QED BY <2>4


-----------------------------------------------------------------------------
(* What EqualChecker compares is in these words.                            *)
LEMMA QuietMovedObjectsEqual ==
  ASSUME NEW g, QuietInv(g)
  PROVE  MovedObjectsEqual
<1>1. /\ Heap(memory, g, oldNextFree, fromNextFree)
      /\ EqualObjects(memory, copy, g, oldNextFree, newToOld)
  BY DEF QuietInv
<1>2. Queue = QueueArray
  BY <1>1, Tags DEF Heap, CellsHold, Queue
<1>3. SUFFICES ASSUME NEW x \in DOMAIN newToOld, x # QueueArray
               PROVE  /\ HeaderEqual(x, newToOld[x])
                      /\ \A k \in -1 .. Size(x) - 1 : SlotEqual(x, newToOld[x], k)
  BY <1>2 DEF MovedObjectsEqual
<1>4. PICK a : a = newToOld[x]
  OBVIOUS
<1>5. /\ x \in DOMAIN g
      /\ EqualHeader(memory, copy, g[x].extended, x, a)
      /\ EqualSlots(memory, copy, g[x].weak, g[x].size, oldNextFree, newToOld, x, a)
  BY <1>1, <1>3, <1>4 DEF EqualObjects
<1>6. Placement(g, oldNextFree, fromNextFree)
  BY <1>1 DEF Heap
<1>7. g[x].size \in Nat
  BY <1>5, <1>6, Extents
<1>8. /\ Is("bits", memory[x - 2])
      /\ Value(memory[x - 2]).extended = g[x].extended /\ Value(memory[x - 2]).hasWeaks = g[x].weak
  BY <1>1, <1>5 DEF Heap, Fits
<1>9. BitsOf(x) = Value(memory[x - 2])
  BY DEF BitsOf, HeaderOf
<1>10. Size(x) = g[x].size
  <2>1. CASE g[x].extended
    <3>1. memory[x - 3] = Extension([size |-> g[x].size, isEphemeron |-> g[x].ephemeron])
      BY <1>1, <1>5, <2>1 DEF Heap, Fits
    <3>2. Value(memory[x - 3]).size = g[x].size
      BY <3>1, Tags
    <3>3. QED BY <1>8, <1>9, <2>1, <3>2 DEF Size, SizeIn, ExtensionOf
  <2>2. CASE ~g[x].extended
    <3>1. Value(memory[x - 2]).size = g[x].size
      BY <1>1, <1>5, <2>2 DEF Heap, Fits
    <3>2. QED BY <1>8, <1>9, <2>2, <3>1 DEF Size, SizeIn
  <2>3. QED BY <2>1, <2>2
<1>11. HeaderEqual(x, a)
  BY <1>5, <1>8, <1>9 DEF HeaderEqual, EqualHeader, KeptBits
<1>12. ASSUME NEW k \in -1 .. Size(x) - 1 PROVE SlotEqual(x, a, k)
  <2>1. k \in Int /\ -1 <= k /\ k < g[x].size
    BY <1>7, <1>10
  <2>2. \/ copy[a + k] = OtherWord(memory[x + k], oldNextFree, newToOld)
        \/ memory[x + k] = Oop(ResidueObject) /\ g[x].weak
    BY <1>5, <2>1 DEF EqualSlots
  <2>3. QED BY <1>8, <1>9, <2>2 DEF SlotEqual, OtherWord
<1>13. QED BY <1>4, <1>11, <1>12

-----------------------------------------------------------------------------
(* The program between collections writes roots and words of the queue.     *)
OfProgram(m2, m) ==
  \A l \in Location : m2[l] # m[l] => l \in RootLocations \/ l = QueueArray

LEMMA EqualUnlessWritten ==
  ASSUME NEW g, NEW on, NEW fn, Placement(g, on, fn), NEW m, NEW m2, OfProgram(m2, m), NEW c,
         NEW on2, NEW names, EqualObjects(m, c, g, on2, names)
  PROVE  EqualObjects(m2, c, g, on2, names)
<1>1. SUFFICES ASSUME NEW x \in DOMAIN names, x # QueueArray
               PROVE  /\ x \in DOMAIN g
                      /\ EqualHeader(m2, c, g[x].extended, x, names[x])
                      /\ EqualSlots(m2, c, g[x].weak, g[x].size, on2, names, x, names[x])
  BY DEF EqualObjects
<1>2. /\ x \in DOMAIN g
      /\ EqualHeader(m, c, g[x].extended, x, names[x])
      /\ EqualSlots(m, c, g[x].weak, g[x].size, on2, names, x, names[x])
  BY <1>1 DEF EqualObjects
<1>3. /\ x \in Nat /\ g[x].size \in Nat /\ SizeAt(g, x) = g[x].size
      /\ x - 2 \in Location /\ x - 3 \in Location
      /\ QueueArray \in Known(g) /\ x \in Known(g)
  <2>1. x \in Known(g) /\ QueueArray \in DOMAIN g
    BY <1>2, KnownCells DEF Known
  <2>2. x \in Nat /\ g[x].size \in Nat
    BY <1>2, Extents
  <2>3. SizeAt(g, x) = g[x].size /\ x - 2 \in Location /\ x - 3 \in Location
    BY <1>2, <2>1, KnownObject
  <2>4. QED BY <2>1, <2>2, <2>3 DEF Known
<1>31. QueueArray \in SlotsAt(g, QueueArray)
  <2>1. QueueArray + 0 \in SlotsAt(g, QueueArray) /\ QueueArray + 0 = QueueArray
    BY KnownCells, Numbers
  <2>2. QED BY <2>1
<1>4. \A l \in Location : l \in RootLocations \/ l = QueueArray => IsCell(g, l)
  BY <1>3, <1>31, Numbers DEF IsCell, RootLocations, Roots
<1>5. m2[x - 2] = m[x - 2] /\ (g[x].extended => m2[x - 3] = m[x - 3])
  <2>1. ~IsCell(g, x - 2)
    BY <1>2, CellApart
  <2>2. g[x].extended => ~IsCell(g, x - 3)
    BY <1>2, CellApart
  <2>3. QED BY <1>3, <1>4, <2>1, <2>2 DEF OfProgram
<1>6. ASSUME NEW k \in Int, -1 <= k, k < g[x].size PROVE m2[x + k] = m[x + k]
  <2>1. PICK l : l = x + k
    OBVIOUS
  <2>2. l \in SlotsAt(g, x)
    BY <1>3, <1>6, <2>1 DEF SlotsAt
  <2>3. l \in Location /\ l \notin Roots /\ l \notin SlotsAt(g, QueueArray)
    BY <1>1, <1>3, <2>2, SlotIsCell
  <2>4. l \notin RootLocations
    BY <2>3, Numbers DEF Roots, RootLocations
  <2>5. QED BY <1>31, <2>1, <2>3, <2>4 DEF OfProgram
<1>7. EqualHeader(m2, c, g[x].extended, x, names[x])
  BY <1>2, <1>5 DEF EqualHeader
<1>8. EqualSlots(m2, c, g[x].weak, g[x].size, on2, names, x, names[x])
  BY <1>2, <1>6 DEF EqualSlots
<1>9. QED BY <1>2, <1>7, <1>8

(* A root is given an object other than the queue. *)
RootWritten(g, m2, m, l) ==
  /\ DOMAIN m2 = Location
  /\ \E a \in Known(g) : a # QueueArray /\ m2[l] = Oop(a)
  /\ \A x \in Location : x # l => m2[x] = m[x]

LEMMA RootCell ==
  ASSUME NEW g, NEW on, NEW fn, Placement(g, on, fn), NEW l \in RootLocations
  PROVE  /\ l \in Location /\ IsCell(g, l) /\ l \in Roots /\ l # WellKnownRoots /\ l # RescuedEphemerons
         /\ l # Nil - 1 /\ l # ResidueObject - 1
         /\ \A j \in 0 .. QueueSize : l # QueueArray + j
<1>1. l \in Roots /\ l \in Int /\ l # WellKnownRoots /\ l # RescuedEphemerons /\ l # Nil - 1
      /\ l # ResidueObject - 1
  BY Numbers DEF Roots, RootLocations
<1>2. l \in Location /\ l < OldBase
  BY <1>1, RootIsCell
<1>3. \A j \in 0 .. QueueSize : l # QueueArray + j
  BY <1>1, <1>2, Numbers, Bounds
<1>4. QED BY <1>1, <1>2, <1>3 DEF IsCell

LEMMA RootWrittenCells ==
  ASSUME NEW u, NEW g, NEW on, NEW fn, Placement(g, on, fn), CellsHold(u, g),
         NEW l \in RootLocations, NEW u2, RootWritten(g, u2, u, l)
  PROVE  CellsHold(u2, g)
<1>1. /\ l \in Location /\ l # WellKnownRoots /\ l # RescuedEphemerons
      /\ l # Nil - 1 /\ l # ResidueObject - 1
      /\ \A j \in 0 .. QueueSize : l # QueueArray + j
  BY RootCell
<1>2. \A x \in Location : x # l => u2[x] = u[x]
  BY DEF RootWritten
<1>3. u2[WellKnownRoots] = Oop(Association) /\ u2[RescuedEphemerons] = Oop(QueueArray)
  BY <1>1, <1>2, KnownCells DEF CellsHold
<1>4. ASSUME NEW a \in {Nil, ResidueObject} PROVE \E b \in LibraryObjects : u2[a - 1] = Oop(b)
  <2>1. a - 1 \in Location /\ a - 1 # l
    BY <1>1, LibraryBehaviors
  <2>2. QED BY <1>2, <2>1 DEF CellsHold
<1>5. PICK n \in 2 .. QueueSize + 2 :
       /\ u[QueueArray] = Smi(n)
       /\ \A j \in 1 .. n - 2 : \E e \in DOMAIN g : u[QueueArray + j] = Oop(e) /\ g[e].ephemeron
  BY DEF CellsHold
<1>6. \A j \in 0 .. QueueSize : u2[QueueArray + j] = u[QueueArray + j]
  BY <1>1, <1>2, KnownCells
<1>7. u2[QueueArray] = Smi(n)
  <2>1. QueueArray \in Nat /\ QueueSize \in Nat
    BY KnownCells
  <2>2. 0 \in 0 .. QueueSize /\ QueueArray + 0 = QueueArray
    BY <2>1
  <2>3. QED BY <1>5, <1>6, <2>2
<1>8. \A j \in 1 .. n - 2 : \E e \in DOMAIN g : u2[QueueArray + j] = Oop(e) /\ g[e].ephemeron
  <2>1. QueueSize \in Nat
    BY KnownCells
  <2>2. \A j \in 1 .. n - 2 : j \in 0 .. QueueSize
    BY <1>5, <2>1
  <2>3. QED BY <1>5, <1>6, <2>2
<1>9. ASSUME NEW x \in Location, IsCell(g, x), x # QueueArray
      PROVE  \E a \in Known(g) : u2[x] = Oop(a) /\ (a = QueueArray => x = RescuedEphemerons)
  <2>1. CASE x = l
    BY <2>1 DEF RootWritten
  <2>2. CASE x # l
    <3>1. u2[x] = u[x]
      BY <1>2, <2>2
    <3>2. \E a \in Known(g) : u[x] = Oop(a) /\ (a = QueueArray => x = RescuedEphemerons)
      BY <1>9 DEF CellsHold
    <3>3. QED BY <3>1, <3>2
  <2>3. QED BY <2>1, <2>2
<1>10. QED
  <2>1. \E n2 \in 2 .. QueueSize + 2 :
       /\ u2[QueueArray] = Smi(n2)
       /\ \A j \in 1 .. n2 - 2 : \E e \in DOMAIN g : u2[QueueArray + j] = Oop(e) /\ g[e].ephemeron
    BY <1>7, <1>8
  <2>2. QED BY <1>3, <1>4, <1>9, <2>1 DEF CellsHold


(* The queue loses its newest entry. *)
LEMMA QueueShrunk ==
  ASSUME NEW u, NEW g, NEW on, NEW fn, Placement(g, on, fn), CellsHold(u, g),
         NEW n \in 3 .. QueueSize + 2, u[QueueArray] = Smi(n),
         NEW u2, u2[QueueArray] = Smi(n - 1),
         \A x \in Location : x # QueueArray => u2[x] = u[x]
  PROVE  CellsHold(u2, g)
<1>0. QueueSize \in Nat /\ QueueArray \in Nat /\ WellKnownRoots # QueueArray /\ RescuedEphemerons # QueueArray
      /\ Nil - 1 # QueueArray /\ ResidueObject - 1 # QueueArray
  BY Numbers
<1>1. u2[WellKnownRoots] = Oop(Association) /\ u2[RescuedEphemerons] = Oop(QueueArray)
  BY <1>0, KnownCells DEF CellsHold
<1>2. ASSUME NEW a \in {Nil, ResidueObject} PROVE \E b \in LibraryObjects : u2[a - 1] = Oop(b)
  <2>1. a - 1 \in Location /\ a - 1 # QueueArray
    BY <1>0, LibraryBehaviors
  <2>2. QED BY <2>1 DEF CellsHold
<1>3. PICK n0 \in 2 .. QueueSize + 2 :
       /\ u[QueueArray] = Smi(n0)
       /\ \A j \in 1 .. n0 - 2 : \E e \in DOMAIN g : u[QueueArray + j] = Oop(e) /\ g[e].ephemeron
  BY DEF CellsHold
<1>4. n0 = n
  <2>1. Value(Smi(n0)) = n0 /\ Value(Smi(n)) = n
    BY Tags
  <2>2. QED BY <1>3, <2>1
<1>5. ASSUME NEW j \in 1 .. (n - 1) - 2
      PROVE  \E e \in DOMAIN g : u2[QueueArray + j] = Oop(e) /\ g[e].ephemeron
  <2>1. j \in 1 .. n - 2 /\ j \in 0 .. QueueSize /\ QueueArray + j # QueueArray
    BY <1>0
  <2>2. QueueArray + j \in Location
    BY <2>1, KnownCells
  <2>3. u2[QueueArray + j] = u[QueueArray + j]
    BY <2>1, <2>2
  <2>4. QED BY <1>3, <1>4, <2>1, <2>3
<1>6. n - 1 \in 2 .. QueueSize + 2
  BY <1>0
<1>7. ASSUME NEW x \in Location, IsCell(g, x), x # QueueArray
      PROVE  \E a \in Known(g) : u2[x] = Oop(a) /\ (a = QueueArray => x = RescuedEphemerons)
  BY <1>7 DEF CellsHold
<1>8. QED
  <2>1. \E n2 \in 2 .. QueueSize + 2 :
       /\ u2[QueueArray] = Smi(n2)
       /\ \A j \in 1 .. n2 - 2 : \E e \in DOMAIN g : u2[QueueArray + j] = Oop(e) /\ g[e].ephemeron
    BY <1>5, <1>6
  <2>2. QED BY <1>1, <1>2, <1>7, <2>1 DEF CellsHold

LEMMA QueueNow ==
  ASSUME NEW g, NEW on, NEW fn, Heap(memory, g, on, fn)
  PROVE  /\ Queue = QueueArray
         /\ \E n \in 2 .. QueueSize + 2 :
              /\ memory[QueueArray] = Smi(n) /\ RescuedCount = n - 2
              /\ \A j \in 1 .. n - 2 : \E e \in DOMAIN g : memory[QueueArray + j] = Oop(e) /\ g[e].ephemeron
<1>1. Queue = QueueArray
  BY Tags DEF Heap, CellsHold, Queue
<1>2. PICK n \in 2 .. QueueSize + 2 :
       /\ memory[QueueArray] = Smi(n)
       /\ \A j \in 1 .. n - 2 : \E e \in DOMAIN g : memory[QueueArray + j] = Oop(e) /\ g[e].ephemeron
  BY DEF Heap, CellsHold
<1>3. RescuedCount = n - 2
  BY <1>1, <1>2, Tags DEF RescuedCount
<1>4. QED BY <1>1, <1>2, <1>3

LEMMA OperatedUndisturbed ==
  ASSUME NEW g, NEW on, NEW fn, NEW m, NEW m2, Heap(m2, g, on, fn), OfProgram(m2, m), Undisturbed(g, m)
  PROVE  Undisturbed(g, m2)
<1>1. SUFFICES ASSUME NoEphemeronPlaced
               PROVE  NoEphemeron(g) /\ LeadsNowhere(m2) /\ LeadsToNil(m2)
  BY DEF Undisturbed
<1>2. NoEphemeron(g) /\ LeadsNowhere(m) /\ LeadsToNil(m)
  BY <1>1 DEF Undisturbed
<1>3. PICK n : m2[QueueArray] = Smi(n)
  BY DEF Heap, CellsHold
<1>4. Placement(g, on, fn)
  BY DEF Heap
<1>5. ASSUME NEW l \in LateSlots, l # QueueArray PROVE m2[l] = m[l]
  <2>1. l \in Location
    BY LateSlotsIn
  <2>2. l \notin RootLocations
    <3>1. l \in {1, 3} \/ OldBase < l
      BY Numbers DEF LateSlots
    <3>2. QED BY <3>1, Numbers DEF RootLocations, LateSlots
  <2>3. QED BY <1>5, <2>1, <2>2 DEF OfProgram
<1>6. LeadsNowhere(m2)
  BY <1>2, <1>3, <1>5, Tags DEF LeadsNowhere
<1>7. LeadsToNil(m2)
  <2>1. Association - 1 \in Location /\ Association - 1 = 5
    BY Numbers, Bounds
  <2>2. Association - 1 \notin RootLocations /\ Association - 1 # QueueArray
    BY <2>1, Numbers DEF RootLocations
  <2>3. QED BY <1>2, <2>1, <2>2 DEF OfProgram, LeadsToNil
<1>8. QED BY <1>2, <1>6, <1>7

LEMMA QuietOperated ==
  ASSUME NEW g, QuietInv(g), Operated, pc = "mutator",
         Heap(memory', g, oldNextFree, fromNextFree), OfProgram(memory', memory)
  PROVE  QuietInv(g)'
<1>1. /\ Heap(memory, g, oldNextFree, fromNextFree)
      /\ EqualObjects(memory, copy, g, oldNextFree, newToOld)
  BY DEF QuietInv
<1>2. Placement(g, oldNextFree, fromNextFree)
  BY <1>1 DEF Heap
<1>3. PICK m2 : m2 = memory'
  OBVIOUS
<1>4. EqualObjects(m2, copy, g, oldNextFree, newToOld)
  BY <1>1, <1>2, <1>3, EqualUnlessWritten
<1>5. UNCHANGED <<oldNextFree, fromNextFree, auxNextFree, rememberedSet, ephemerons, unknowns,
                  weakContainers, stack, scan, i, buffer, reference, newToOld, pc, copy>>
  BY DEF Operated, spaceVars, localVars, scanVars, walkVars
<1>6. EqualObjects(memory, copy, g, oldNextFree, newToOld)' /\ Heap(memory, g, oldNextFree, fromNextFree)'
  BY <1>3, <1>4, <1>5
<1>7. Unscanned' /\ NothingWaits' /\ CopyOK(copy)' /\ NamesOK(newToOld)'
  BY <1>5 DEF QuietInv, Unscanned, NothingWaits
<1>8. Undisturbed(g, m2)
  BY <1>3, OperatedUndisturbed DEF QuietInv
<1>9. Undisturbed(g, memory)'
  BY <1>3, <1>8 DEF Undisturbed
<1>10. QED BY <1>5, <1>6, <1>7, <1>9 DEF QuietInv

LEMMA ProperRewritten ==
  ASSUME NEW g, NEW on, NEW fn, Placement(g, on, fn), NEW u, NEW u2, OfProgram(u2, u),
         CellsHold(u2, g)
  PROVE  \A l \in Location : u2[l] # u[l] =>
            IsCell(g, l) /\ (Is("oop", u2[l]) \/ Is("smi", u2[l])) /\ Proper(u2[l])
<1>1. SUFFICES ASSUME NEW l \in Location, u2[l] # u[l]
               PROVE IsCell(g, l) /\ (Is("oop", u2[l]) \/ Is("smi", u2[l])) /\ Proper(u2[l])
  OBVIOUS
<1>2. QueueArray \in Known(g)
  BY KnownCells DEF Known
<1>31. QueueArray \in SlotsAt(g, QueueArray)
  <2>1. QueueArray + 0 \in SlotsAt(g, QueueArray) /\ QueueArray + 0 = QueueArray
    BY KnownCells, Numbers
  <2>2. QED BY <2>1
<1>3. IsCell(g, l)
  BY <1>1, <1>2, <1>31, RootCell DEF OfProgram, IsCell
<1>4. CASE l = QueueArray
  <2>1. PICK n \in 2 .. QueueSize + 2 : u2[l] = Smi(n)
    BY <1>4 DEF CellsHold
  <2>2. QED BY <1>3, <2>1, Tags, WordsMade
<1>5. CASE l # QueueArray
  <2>1. PICK a \in Known(g) : u2[l] = Oop(a)
    BY <1>3, <1>5 DEF CellsHold
  <2>2. a \in Location
    BY KnownObject
  <2>3. QED BY <1>3, <2>1, <2>2, Tags, WordsMade
<1>6. QED BY <1>4, <1>5

LEMMA QuietDrop ==
  ASSUME NEW g, QuietInv(g), NEW l \in RootLocations, Drop(l)
  PROVE  QuietInv(g)'
<1>1. /\ Heap(memory, g, oldNextFree, fromNextFree) /\ pc = "mutator" /\ Operated
      /\ Placement(g, oldNextFree, fromNextFree) /\ CellsHold(memory, g) /\ DOMAIN memory = Location
  BY DEF QuietInv, Drop, MayOperate, Heap
<1>2. l \in Location
  BY <1>1, RootCell
<1>3. PICK m2 : m2 = memory'
  OBVIOUS
<1>4. m2 = [memory EXCEPT ![l] = Oop(Nil)]
  BY <1>3 DEF Drop
<1>5. DOMAIN m2 = Location /\ m2[l] = Oop(Nil) /\ \A x \in Location : x # l => m2[x] = memory[x]
  BY <1>1, <1>2, <1>4
<1>6. Nil \in Known(g) /\ Nil # QueueArray
  BY Numbers DEF Known
<1>7. RootWritten(g, m2, memory, l)
  BY <1>5, <1>6 DEF RootWritten
<1>8. CellsHold(m2, g)
  BY <1>1, <1>7, RootWrittenCells
<1>9. OfProgram(m2, memory)
  BY <1>5 DEF OfProgram
<1>10. Heap(m2, g, oldNextFree, fromNextFree)
  <2>1. \A x \in Location : m2[x] # memory[x] =>
            IsCell(g, x) /\ (Is("oop", m2[x]) \/ Is("smi", m2[x])) /\ Proper(m2[x])
    BY <1>1, <1>8, <1>9, ProperRewritten
  <2>2. QED BY <1>1, <1>5, <1>8, <2>1, HeapRewritten
<1>11. QED BY <1>1, <1>3, <1>9, <1>10, QuietOperated

LEMMA QuietTake ==
  ASSUME NEW g, QuietInv(g), NEW l \in RootLocations, Take(l)
  PROVE  QuietInv(g)'
<1>1. /\ Heap(memory, g, oldNextFree, fromNextFree) /\ pc = "mutator" /\ Operated /\ RescuedCount > 0
      /\ Placement(g, oldNextFree, fromNextFree) /\ CellsHold(memory, g) /\ DOMAIN memory = Location
  BY DEF QuietInv, Take, MayOperate, Heap
<1>2. PICK n \in 2 .. QueueSize + 2 :
        /\ memory[QueueArray] = Smi(n) /\ RescuedCount = n - 2
        /\ \A j \in 1 .. n - 2 : \E e \in DOMAIN g : memory[QueueArray + j] = Oop(e) /\ g[e].ephemeron
  BY <1>1, QueueNow
<1>3. Queue = QueueArray
  BY <1>1, QueueNow
<1>4. QueueSize \in Nat /\ QueueArray \in Location /\ QueueArray \in DOMAIN g /\ ~g[QueueArray].ephemeron
      /\ QueueArray \in Nat /\ QueueArray \in SlotsAt(g, QueueArray)
  <2>1. QueueSize \in Nat /\ QueueArray \in Location /\ QueueArray \in DOMAIN g /\ ~g[QueueArray].ephemeron
        /\ QueueArray \in Nat
    BY <1>1, KnownCells
  <2>2. QueueArray + 0 \in SlotsAt(g, QueueArray) /\ QueueArray + 0 = QueueArray
    BY <1>1, <2>1, KnownCells
  <2>3. QED BY <2>1, <2>2
<1>5. n \in 3 .. QueueSize + 2 /\ n - 2 \in 1 .. n - 2 /\ (n - 2) + 1 = n - 1
  BY <1>1, <1>2, <1>4
<1>6. PICK e \in DOMAIN g : memory[QueueArray + (n - 2)] = Oop(e) /\ g[e].ephemeron
  BY <1>2, <1>5
<1>7. e \in Known(g) /\ e # QueueArray
  BY <1>4, <1>6 DEF Known
<1>8. l \in Location /\ l # QueueArray
  <2>1. 0 \in 0 .. QueueSize /\ QueueArray + 0 = QueueArray
    BY <1>4
  <2>2. QED BY <1>1, <2>1, RootCell
<1>9. PICK m2 : m2 = memory'
  OBVIOUS
<1>10. m2 = [memory EXCEPT ![l] = Oop(e), ![QueueArray] = Smi(n - 1)]
  <2>1. m2 = [memory EXCEPT ![l] = memory[QueueArray + (n - 2)], ![QueueArray] = Smi((n - 2) + 1)]
    BY <1>2, <1>3, <1>9 DEF Take
  <2>2. QED BY <1>5, <1>6, <2>1
<1>11. PICK m1 : m1 = [memory EXCEPT ![l] = Oop(e)]
  OBVIOUS
<1>12. DOMAIN m1 = Location /\ m1[l] = Oop(e) /\ \A x \in Location : x # l => m1[x] = memory[x]
  BY <1>1, <1>8, <1>11
<1>13. /\ DOMAIN m2 = Location /\ m2[QueueArray] = Smi(n - 1)
       /\ \A x \in Location : x # QueueArray => m2[x] = m1[x]
  BY <1>1, <1>4, <1>8, <1>10, <1>11
<1>14. RootWritten(g, m1, memory, l)
  BY <1>7, <1>12 DEF RootWritten
<1>15. CellsHold(m1, g)
  BY <1>1, <1>14, RootWrittenCells
<1>16. m1[QueueArray] = Smi(n)
  BY <1>2, <1>4, <1>8, <1>12
<1>17. CellsHold(m2, g)
  BY <1>1, <1>5, <1>13, <1>15, <1>16, QueueShrunk
<1>18. OfProgram(m2, memory)
  BY <1>4, <1>12, <1>13 DEF OfProgram
<1>19. Heap(m2, g, oldNextFree, fromNextFree)
  <2>1. \A x \in Location : m2[x] # memory[x] =>
            IsCell(g, x) /\ (Is("oop", m2[x]) \/ Is("smi", m2[x])) /\ Proper(m2[x])
    BY <1>1, <1>17, <1>18, ProperRewritten
  <2>2. QED BY <1>1, <1>13, <1>17, <2>1, HeapRewritten
<1>20. QED BY <1>1, <1>9, <1>18, <1>19, QuietOperated

LEMMA QuietStartCollection ==
  ASSUME NEW g, QuietInv(g), StartCollection
  PROVE  QuietInv(g)'
<1>1. /\ copy' = memory /\ newToOld' = << >> /\ pc' = "unmarkRememberedSet" /\ i' = 1
      /\ UNCHANGED <<memory, spaceVars, rememberedSet, localVars, scanVars, buffer, reference>>
  BY DEF StartCollection, GoTo
<1>2. UNCHANGED <<memory, oldNextFree, fromNextFree, auxNextFree, rememberedSet, ephemerons, unknowns,
                  weakContainers, stack, scan, buffer, reference>>
  BY <1>1 DEF spaceVars, localVars, scanVars
<1>3. Heap(memory, g, oldNextFree, fromNextFree)
  BY DEF QuietInv
<1>4. CopyOK(memory)
  BY <1>3, HeapCopyOK
<1>5. NamesOK(<< >>) /\ EqualObjects(memory, memory, g, oldNextFree, << >>)
  BY DEF NamesOK, EqualObjects, Range
<1>6. Heap(memory, g, oldNextFree, fromNextFree)' /\ CopyOK(copy)' /\ NamesOK(newToOld)'
      /\ EqualObjects(memory, copy, g, oldNextFree, newToOld)'
  BY <1>1, <1>2, <1>3, <1>4, <1>5
<1>7. Unscanned' /\ NothingWaits' /\ pc' \in QuietLabels /\ i' \in Nat \ {0}
  BY <1>1, <1>2 DEF QuietInv, Unscanned, NothingWaits, QuietLabels
<1>8. Undisturbed(g, memory)'
  BY <1>2 DEF QuietInv, Undisturbed
<1>9. QED BY <1>1, <1>2, <1>6, <1>7, <1>8 DEF QuietInv


-----------------------------------------------------------------------------
(* unmarkRememberedSet and unseeWellKnownObjects change flags of objects,   *)
(* so that marking begins with the heap, of which nothing is explored.      *)
Unflagged(h, a, unmarked) ==
  [h EXCEPT !.inRememberedSet = @ /\ a \notin unmarked,
            !.unseenInSpace = @ /\ a \notin LibraryObjects]

SameButFlags(h2, h) ==
  [h2 EXCEPT !.unseenInSpace = TRUE, !.inRememberedSet = FALSE]
    = [h EXCEPT !.unseenInSpace = TRUE, !.inRememberedSet = FALSE]

LEMMA UnflaggedBits ==
  ASSUME NEW h \in HeaderBits, NEW a, NEW unmarked, NEW h2, h2 = Unflagged(h, a, unmarked)
  PROVE  /\ h2 \in HeaderBits /\ h2.extended = h.extended /\ h2.hasWeaks = h.hasWeaks
         /\ h2.size = h.size
         /\ a \in LibraryObjects => ~h2.unseenInSpace
         /\ a \notin LibraryObjects => h2.unseenInSpace = h.unseenInSpace
         /\ SameButFlags(h2, h)
<1>1. PICK p \in BOOLEAN, q \in BOOLEAN :
        p = (h.inRememberedSet /\ a \notin unmarked) /\ q = (h.unseenInSpace /\ a \notin LibraryObjects)
  BY Zenon DEF HeaderBits
<1>2. h2 = [h EXCEPT !.inRememberedSet = p, !.unseenInSpace = q]
  BY <1>1, Zenon DEF Unflagged
<1>3. /\ h2 \in HeaderBits /\ h2.extended = h.extended /\ h2.hasWeaks = h.hasWeaks
      /\ h2.size = h.size /\ h2.unseenInSpace = q
      /\ SameButFlags(h2, h)
  BY <1>2 DEF HeaderBits, SameButFlags
<1>4. h.unseenInSpace \in BOOLEAN
  BY DEF HeaderBits
<1>5. /\ a \in LibraryObjects => ~q
      /\ a \notin LibraryObjects => q = h.unseenInSpace
  BY <1>1, <1>4, Zenon
<1>6. QED BY <1>3, <1>5, Zenon

FlagsReset(m2, m, unmarked) ==
  /\ DOMAIN m2 = Location
  /\ \A l \in Location :
       m2[l] = IF l + 2 \in unmarked \cup LibraryObjects
               THEN Bits(Unflagged(Value(m[l]), l + 2, unmarked)) ELSE m[l]

(* The word at a location: header bits with other flags, or what it was.    *)
FlagsOnly(m2, m, l) ==
  \/ m2[l] = m[l] /\ l + 2 \notin LibraryObjects
  \/ /\ Is("bits", m[l]) /\ Is("bits", m2[l]) /\ Value(m[l]) \in HeaderBits
     /\ Value(m2[l]) \in HeaderBits /\ m2[l] = Bits(Value(m2[l]))
     /\ Value(m2[l]).extended = Value(m[l]).extended /\ Value(m2[l]).hasWeaks = Value(m[l]).hasWeaks
     /\ Value(m2[l]).size = Value(m[l]).size
     /\ l + 2 \in LibraryObjects => ~Value(m2[l]).unseenInSpace
     /\ l + 2 \notin LibraryObjects => Value(m2[l]).unseenInSpace = Value(m[l]).unseenInSpace
     /\ SameButFlags(Value(m2[l]), Value(m[l]))

LEMMA KnownHeader ==
  ASSUME NEW u, NEW g, NEW on, NEW fn, Heap(u, g, on, fn), NEW a \in Known(g)
  PROVE  a - 2 \in Location /\ Is("bits", u[a - 2]) /\ Value(u[a - 2]) \in HeaderBits
<1>1. CASE a \in DOMAIN g
  <2>1. a - 2 \in Location /\ Is("bits", u[a - 2]) /\ Value(u[a - 2]) \in HeaderBits
    BY <1>1, HeaderWord
  <2>2. QED BY <2>1
<1>2. CASE a \in LibraryObjects
  <2>1. a - 2 \in Location
    BY <1>2, LibraryObject
  <2>2. Is("bits", u[a - 2]) /\ IsWord(u[a - 2])
    BY <1>2, <2>1 DEF Heap, LibraryFits, Proper
  <2>3. QED BY <2>1, <2>2, Tagged
<1>3. QED BY <1>1, <1>2 DEF Known

LEMMA FlagsOnlyReset ==
  ASSUME NEW u, NEW g, NEW on, NEW fn, Heap(u, g, on, fn), NEW unmarked, MarksOf(g, unmarked),
         NEW u2, FlagsReset(u2, u, unmarked), NEW l \in Location
  PROVE  FlagsOnly(u2, u, l)
<1>1. PICK a : a = l + 2
  OBVIOUS
<1>2. CASE a \in unmarked \cup LibraryObjects
  <2>1. a \in Known(g)
    BY <1>2 DEF MarksOf, Known
  <2>2. a - 2 = l
    BY <1>1, Bounds
  <2>3. Is("bits", u[l]) /\ Value(u[l]) \in HeaderBits
    BY <2>1, <2>2, KnownHeader
  <2>4. PICK h : h = Value(u[l])
    OBVIOUS
  <2>5. PICK h2 : h2 = Unflagged(h, a, unmarked)
    OBVIOUS
  <2>6. /\ h2 \in HeaderBits /\ h2.extended = h.extended /\ h2.hasWeaks = h.hasWeaks
        /\ h2.size = h.size
        /\ a \in LibraryObjects => ~h2.unseenInSpace
        /\ a \notin LibraryObjects => h2.unseenInSpace = h.unseenInSpace
        /\ SameButFlags(h2, h)
    <3>1. h \in HeaderBits
      BY <2>3, <2>4
    <3>2. QED BY <2>5, <3>1, UnflaggedBits
  <2>7. u2[l] = Bits(h2)
    BY <1>1, <1>2, <2>4, <2>5 DEF FlagsReset
  <2>8. Is("bits", u2[l]) /\ Value(u2[l]) = h2
    BY <2>7, Tags
  <2>9. QED BY <1>1, <2>3, <2>4, <2>6, <2>7, <2>8 DEF FlagsOnly
<1>3. CASE a \notin unmarked \cup LibraryObjects
  <2>1. u2[l] = u[l]
    BY <1>1, <1>3 DEF FlagsReset
  <2>2. QED BY <1>1, <1>3, <2>1 DEF FlagsOnly
<1>4. QED BY <1>2, <1>3

LEMMA FlagsProper ==
  ASSUME NEW u, NEW g, NEW on, NEW fn, Heap(u, g, on, fn), NEW u2,
         \A l \in Location : FlagsOnly(u2, u, l)
  PROVE  /\ \A l \in Location : Proper(u2[l])
         /\ \A l \in Location : ~Is("bits", u[l]) => u2[l] = u[l]
<1>1. ASSUME NEW l \in Location PROVE Proper(u2[l])
  <2>1. CASE u2[l] = u[l]
    BY <2>1 DEF Heap
  <2>2. CASE u2[l] # u[l]
    <3>1. Value(u2[l]) \in HeaderBits /\ u2[l] = Bits(Value(u2[l]))
      BY <2>2 DEF FlagsOnly
    <3>2. QED BY <3>1, WordsMade
  <2>3. QED BY <2>1, <2>2
<1>2. \A l \in Location : ~Is("bits", u[l]) => u2[l] = u[l]
  BY DEF FlagsOnly
<1>3. QED BY <1>1, <1>2

LEMMA FlagsFit ==
  ASSUME NEW u, NEW g, NEW on, NEW fn, Heap(u, g, on, fn), NEW u2,
         \A l \in Location : FlagsOnly(u2, u, l)
  PROVE  Fits(u2, g, on, fn)
<1>1. Placement(g, on, fn)
  BY DEF Heap
<1>2. \A l \in Location : ~Is("bits", u[l]) => u2[l] = u[l]
  BY FlagsProper
<1>3. ASSUME NEW a \in DOMAIN g
      PROVE  /\ Is("bits", u2[a - 2])
             /\ Value(u2[a - 2]).unseenInSpace
             /\ Value(u2[a - 2]).extended = g[a].extended
             /\ Value(u2[a - 2]).hasWeaks = g[a].weak
             /\ IF g[a].extended
                THEN u2[a - 3] = Extension([size |-> g[a].size, isEphemeron |-> g[a].ephemeron])
                ELSE Value(u2[a - 2]).size = g[a].size
  <2>1. /\ a \in Nat /\ a - 2 \in Location /\ a - 3 \in Location /\ a - 2 + 2 = a
        /\ Is("bits", u[a - 2]) /\ ~Is("oop", u[a - 2]) /\ ~Is("link", u[a - 2])
        /\ ~Is("extension", u[a - 2])
        /\ Value(u[a - 2]) \in HeaderBits /\ u[a - 2] = Bits(Value(u[a - 2]))
        /\ Value(u[a - 2]).unseenInSpace
        /\ Value(u[a - 2]).extended = g[a].extended /\ Value(u[a - 2]).hasWeaks = g[a].weak
        /\ IF g[a].extended
           THEN u[a - 3] = Extension([size |-> g[a].size, isEphemeron |-> g[a].ephemeron])
           ELSE Value(u[a - 2]).size = g[a].size
    BY <1>3, HeaderWord
  <2>2. a \notin LibraryObjects
    <3>1. OldBase + 2 <= a
      BY <1>1, <1>3, Extents
    <3>2. QED BY <3>1, LibraryObject, Bounds
  <2>3. FlagsOnly(u2, u, a - 2)
    BY <2>1
  <2>4. /\ Is("bits", u2[a - 2]) /\ Value(u2[a - 2]).unseenInSpace
        /\ Value(u2[a - 2]).extended = g[a].extended /\ Value(u2[a - 2]).hasWeaks = g[a].weak
        /\ Value(u2[a - 2]).size = Value(u[a - 2]).size
    <3>1. CASE u2[a - 2] = u[a - 2]
      BY <2>1, <3>1
    <3>2. CASE u2[a - 2] # u[a - 2]
      BY <2>1, <2>2, <2>3, <3>2 DEF FlagsOnly
    <3>3. QED BY <3>1, <3>2
  <2>5. g[a].extended => u2[a - 3] = u[a - 3]
    <3>1. \A x : ~Is("bits", Extension(x))
      BY Tags
    <3>2. QED BY <1>2, <2>1, <3>1
  <2>6. QED BY <2>1, <2>4, <2>5
<1>4. ASSUME NEW a \in (OldBase + 2 .. on) \cup (FromBase + 2 .. fn), Is("bits", u2[a - 2])
      PROVE  a \in DOMAIN g
  <2>1. a - 2 \in Location
    BY <1>1, Bounds DEF Placement
  <2>2. Is("bits", u[a - 2])
    BY <1>2, <1>4, <2>1
  <2>3. QED BY <2>2 DEF Heap, Fits
<1>5. QED BY <1>3, <1>4 DEF Fits

LEMMA FlagsHeap ==
  ASSUME NEW u, NEW g, NEW on, NEW fn, Heap(u, g, on, fn), NEW u2, DOMAIN u2 = Location,
         \A l \in Location : FlagsOnly(u2, u, l)
  PROVE  /\ Heap(u2, g, on, fn)
         /\ \A a \in LibraryObjects : ~Value(u2[a - 2]).unseenInSpace
         /\ AllKept(u, g, u2)
<1>1. Placement(g, on, fn) /\ CellsHold(u, g) /\ LibraryFits(u)
  BY DEF Heap
<1>2. \A l \in Location : ~Is("bits", u[l]) => u2[l] = u[l]
  BY FlagsProper
<1>3. ASSUME NEW a \in LibraryObjects
      PROVE  /\ Is("bits", u2[a - 2]) /\ ~Value(u2[a - 2]).unseenInSpace
             /\ ~Value(u2[a - 2]).extended /\ ~Value(u2[a - 2]).hasWeaks
             /\ Value(u2[a - 2]).size = IF a = Association THEN 1 ELSE 0
  <2>1. a - 2 \in Location /\ a - 2 + 2 = a
    BY <1>3, LibraryObject
  <2>2. FlagsOnly(u2, u, a - 2)
    BY <2>1
  <2>3. /\ ~Value(u[a - 2]).extended /\ ~Value(u[a - 2]).hasWeaks
        /\ Value(u[a - 2]).size = IF a = Association THEN 1 ELSE 0
    BY <1>1, <1>3 DEF LibraryFits
  <2>4. QED BY <1>3, <2>1, <2>2, <2>3 DEF FlagsOnly
<1>4. LibraryFits(u2)
  BY <1>3 DEF LibraryFits
<1>5. CellsHold(u2, g)
  <2>1. ASSUME NEW l \in Location, IsCell(g, l) PROVE u2[l] = u[l]
    <3>1. Is("oop", u[l]) \/ Is("smi", u[l])
      BY <1>1, <2>1, CellHolds
    <3>2. ~Is("bits", u[l])
      BY <3>1, OneTag
    <3>3. QED BY <1>2, <3>2
  <2>2. QED BY <1>1, <2>1, CellsKept
<1>6. \A l \in Location : Proper(u2[l])
  BY FlagsProper
<1>7. Fits(u2, g, on, fn)
  BY FlagsFit
<1>8. AllKept(u, g, u2)
  <2>1. ASSUME NEW l \in Location PROVE Kept(u, g, l, u2[l])
    <3>1. FlagsOnly(u2, u, l)
      OBVIOUS
    <3>2. QED BY <3>1 DEF FlagsOnly, Kept, SameButFlags
  <2>2. QED BY <2>1 DEF AllKept
<1>9. QED BY <1>1, <1>3, <1>4, <1>5, <1>6, <1>7, <1>8 DEF Heap


LEMMA NothingToScan ==
  ASSUME Unscanned
  PROVE  /\ \A l \in Int : ~Ahead(scan, l)
         /\ \A l \in Int : ~InScans(scan, << >>, l)
<1>1. scan.index \in Int /\ scan.limit \in Nat /\ scan.scanned \in Nat /\ ~(scan.index < scan.limit)
  BY ScanFields DEF Unscanned
<1>2. \A l \in Int : ~Ahead(scan, l)
  BY <1>1 DEF Ahead
<1>3. QED BY <1>2 DEF InScans

LEMMA NothingAccounted ==
  ASSUME NEW g, Unscanned
  PROVE  Accounted(g, {}, scan, << >>, << >>, << >>, << >>, 1, 1, {})
<1>1. From(<< >>, 1) = {} /\ << >> \in Seq(Location) /\ Distinct(<< >>)
  BY DEF From, Distinct
<1>2. WaitSet(<< >>, << >>, << >>, 1, 1) = {}
  BY <1>1 DEF WaitSet
<1>3. Queues(g, {}, << >>, << >>, << >>, 1, 1)
  BY <1>1 DEF Queues
<1>4. /\ \A l \in Int : ~Ahead(scan, l)
      /\ \A l \in Int : ~InScans(scan, << >>, l)
  BY NothingToScan
<1>5. \A l : ~InWaiting(g, {}, l)
  BY DEF InWaiting
<1>6. Divided(g, {}, scan, << >>, {})
  BY <1>4, <1>5 DEF Divided, Unscanned
<1>7. Todo(g, scan, << >>, {}) = {}
  BY <1>4, <1>5, Bounds DEF Todo
<1>8. QED BY <1>2, <1>3, <1>6, <1>7 DEF Accounted

(* How often there were collections and operations of the program. *)
Counters ==
  rescan \in BOOLEAN /\ collections \in 0 .. MaxCollections /\ ops \in 0 .. MaxOps

(* Until a first collection looks at it, the queue leads to nothing.        *)
FirstQueue ==
  /\ pc # "mutator" => collections # 0
  /\ collections = 0 \/ (collections = 1 /\ pc = "unmarkRememberedSet")
       => Leads(memory, {}, LateSlots)

LEMMA FlagsLead ==
  ASSUME NEW u, NEW m, NEW S, \A l \in S : l \in Location, NEW M, Leads(m, M, S),
         \A l \in Location : FlagsOnly(u, m, l)
  PROVE  Leads(u, M, S)
<1>1. ASSUME NEW l \in S, NEW a, u[l] = Oop(a) PROVE a \in M \cup LateObjects
  <2>1. FlagsOnly(u, m, l) /\ ~Is("bits", u[l])
    BY <1>1, Tags
  <2>2. u[l] = m[l]
    BY <2>1 DEF FlagsOnly
  <2>3. QED BY <1>1, <2>2 DEF Leads
<1>2. QED BY <1>1 DEF Leads

LEMMA FlagsWeakAlike ==
  ASSUME NEW m, NEW g, NEW on, NEW fn, Heap(m, g, on, fn), NEW u, \A l \in Location : FlagsOnly(u, m, l)
  PROVE  WeakAlike(g, m, u)
<1>1. SUFFICES ASSUME NEW l \in Location, InWeak(g, l) PROVE u[l] = m[l]
  BY DEF WeakAlike
<1>2. PICK a \in DOMAIN g : a <= l /\ l < a + g[a].size
  BY <1>1 DEF InWeak
<1>3. a \in Nat /\ g[a].size \in Nat /\ l \in Int
  BY Extents, Bounds DEF Heap
<1>4. l \in SlotsAt(g, a) /\ a \in Known(g)
  BY <1>2, <1>3 DEF SlotsAt, SizeAt, Known
<1>5. Is("oop", m[l]) \/ Is("smi", m[l])
  BY <1>4, CellHolds DEF IsCell, Heap
<1>6. FlagsOnly(u, m, l)
  OBVIOUS
<1>7. QED BY <1>5, <1>6, OneTag DEF FlagsOnly

LEMMA QuietUnmarkRememberedSet ==
  ASSUME NEW g, QuietInv(g), FirstQueue, Counters, UnmarkRememberedSet
  PROVE  \E u, L, M, T : MarkInv(g, u, L, M, T)'
<1>1. /\ pc = "unmarkRememberedSet" /\ pc' = "followWellKnownObjects" /\ i' = 1
      /\ rememberedSet' = << >> /\ auxNextFree' = OldBase
      /\ UNCHANGED <<oldNextFree, fromNextFree, localVars, scanVars, walkVars, historyVars>>
  BY DEF UnmarkRememberedSet, At, GoTo
<1>2. UNCHANGED <<oldNextFree, fromNextFree, ephemerons, unknowns, weakContainers, stack, scan, buffer,
                  reference, newToOld, copy>>
  BY <1>1 DEF localVars, scanVars, walkVars, historyVars
<1>3. /\ Heap(memory, g, oldNextFree, fromNextFree) /\ Unscanned /\ NothingWaits
      /\ rememberedSet \in Seq(Known(g)) /\ buffer = OldBase /\ reference = None
      /\ copy = memory /\ newToOld = << >>
  BY <1>1 DEF QuietInv
<1>4. MarksOf(g, Unmarked)
  <2>1. Len(rememberedSet) \in Nat /\ \A j \in 1 .. Len(rememberedSet) : rememberedSet[j] \in Known(g)
    BY <1>3
  <2>2. \A j \in 1 .. Len(rememberedSet) - 1 : rememberedSet[j] \in Known(g)
    BY <2>1
  <2>3. QED BY <2>2 DEF MarksOf, Unmarked
<1>5. PICK u : u = memory'
  OBVIOUS
<1>6. PICK um : um = Unmarked
  OBVIOUS
<1>7. FlagsReset(u, memory, um)
  <2>1. u = [l \in Location |->
       LET a == l + 2
       IN  IF a \in um \cup LibraryObjects
           THEN Bits([Value(memory[l]) EXCEPT !.inRememberedSet = @ /\ a \notin um,
                                              !.unseenInSpace = @ /\ a \notin LibraryObjects])
           ELSE memory[l]]
    BY <1>5, <1>6, Zenon DEF UnmarkRememberedSet
  <2>2. QED BY <2>1, Zenon DEF FlagsReset, Unflagged
<1>8. \A l \in Location : FlagsOnly(u, memory, l)
  BY <1>3, <1>4, <1>6, <1>7, FlagsOnlyReset
<1>9. /\ Heap(u, g, oldNextFree, fromNextFree)
      /\ \A a \in LibraryObjects : ~Value(u[a - 2]).unseenInSpace
      /\ AllKept(memory, g, u)
  <2>1. DOMAIN u = Location
    BY <1>7 DEF FlagsReset
  <2>2. QED BY <1>3, <1>8, <2>1, FlagsHeap
<1>10. PICK L : L = [a \in DOMAIN g |-> << >>]
  OBVIOUS
<1>11. Threads(u, u, g, L) /\ Explored(u, g, L, {}, WellKnownRoots, {})
  BY <1>9, <1>10, NothingExplored
<1>12. Accounted(g, {}, scan, << >>, << >>, << >>, << >>, 1, 1, {})
  BY <1>3, NothingAccounted
<1>13. NextRoot' = WellKnownRoots /\ FirstUnknown' = 1 /\ FirstWeak' = 1
  BY <1>1 DEF NextRoot, FirstUnknown, FirstWeak
<1>14. /\ ephemerons' = << >> /\ unknowns' = << >> /\ weakContainers' = << >> /\ stack' = << >>
       /\ scan' = scan /\ copy' = memory
  BY <1>2, <1>3 DEF Unscanned, NothingWaits
<1>15. Accounted(g, {}, scan, stack, ephemerons, unknowns, weakContainers, FirstUnknown, FirstWeak, {})'
  BY <1>12, <1>13, <1>14
<1>16. /\ Heap(u, g, oldNextFree, fromNextFree)' /\ Heap(copy, g, oldNextFree, fromNextFree)'
       /\ AllKept(copy, g, u)' /\ Threads(memory, u, g, L)'
       /\ Explored(u, g, L, {}, NextRoot, {})'
  BY <1>2, <1>3, <1>5, <1>9, <1>11, <1>13, <1>14
<1>17. /\ pc' \in MarkLabels /\ i' \in Nat \ {0} /\ pc' # "addRescued" /\ pc' # "rescueEphemeron"
       /\ buffer' = OldBase /\ reference' = None /\ newToOld' = << >> /\ auxNextFree' = OldBase
       /\ rememberedSet' = << >>
  BY <1>1, <1>2, <1>3 DEF MarkLabels
<1>18. ((collections <= 1 \/ NoEphemeronPlaced)
           => Narrow(copy, g, pc, u, {}, scan, stack, ephemerons, weakContainers))'
  <2>1. SUFFICES ASSUME collections <= 1 \/ NoEphemeronPlaced
                 PROVE  Narrow(memory, g, pc', u, {}, scan', stack', ephemerons', weakContainers')
    BY <1>1, <1>14 DEF historyVars
  <2>2. \A l \in LateSlots : l \in Location
    BY LateSlotsIn
  <2>3. NoEphemeronPlaced => NoEphemeron(g) /\ LeadsNowhere(memory) /\ LeadsToNil(memory)
    BY DEF QuietInv, Undisturbed
  <2>4. Leads(memory, {}, LateSlots)
    <3>1. CASE NoEphemeronPlaced
      BY <2>3, <3>1 DEF LeadsNowhere, Leads
    <3>2. CASE collections <= 1
      <4>1. collections # 0 /\ collections \in Nat
        BY <1>1 DEF FirstQueue, Counters
      <4>2. collections = 1
        BY <3>2, <4>1
      <4>3. QED BY <1>1, <4>2 DEF FirstQueue
    <3>3. QED BY <2>1, <3>1, <3>2
  <2>5. Leads(u, {}, LateSlots)
    BY <1>8, <2>2, <2>4, FlagsLead
  <2>6. LeadsNowhere(memory) => LeadsNowhere(u)
    <3>1. SUFFICES ASSUME LeadsNowhere(memory), NEW l \in LateSlots, NEW a, u[l] = Oop(a)
                   PROVE  a \in LateObjects
      BY DEF LeadsNowhere
    <3>2. Is("oop", u[l]) /\ FlagsOnly(u, memory, l)
      BY <1>8, <2>2, <3>1, Tags
    <3>3. u[l] = memory[l]
      BY <3>2, OneTag DEF FlagsOnly
    <3>4. QED BY <3>1, <3>3 DEF LeadsNowhere
  <2>7. WeakAlike(g, memory, u)
    BY <1>3, <1>8, FlagsWeakAlike
  <2>8. NoEphemeronPlaced => NoEphemeron(g) /\ Entombed(pc', memory, g, u, {})
    BY <1>1, <2>3, <2>6, <2>7 DEF Entombed, LateLabels
  <2>9. QED BY <1>1, <2>5, <2>8 DEF Narrow, LateLabels
<1>19. MarkInv(g, u, L, {}, {})'
  BY <1>14, <1>15, <1>16, <1>17, <1>18 DEF MarkInv
<1>20. QED BY <1>19


-----------------------------------------------------------------------------
(* The phases of a collection follow each other.  A collection goes through *)
(* them as long as nothing that waits is found when the queue is followed:  *)
(* MarkAndCompactGC.cpp:150 does.                                           *)
Phase(g) ==
  \/ QuietInv(g)
  \/ \E u, L, M, T : MarkInv(g, u, L, M, T)
  \/ \E u, L, M, n : WalkInv(g, u, L, M, n)
  \/ \E u, M, s : CompactInv(g, u, M, s)

LEMMA NotScanning ==
  ASSUME Unscanned
  PROVE  ~FollowCountStartingAt
<1>1. ~(scan.index < scan.limit) /\ stack = << >>
  BY DEF Unscanned
<1>2. QED
  BY <1>1 DEF FollowCountStartingAt, IgnoreSmallInteger, IgnoreSeenInLibrary, FollowInLibrary, ThreadSeen,
              ThreadAndFollow, ResumeScan, LooksAtReference

(* The step of a phase is told by where doCollect is. *)
LEMMA StepsAt ==
  /\ UnmarkRememberedSet => pc = "unmarkRememberedSet"
  /\ StartCollection => pc = "mutator"
  /\ \A l : Drop(l) \/ Take(l) => pc = "mutator"
  /\ FollowWellKnownObjects \/ FollowStack \/ FollowExtraRoots \/ FollowRescuedEphemerons
       \/ RescueEphemerons \/ FixWeakContainer \/ WeakContainersFixed
       => pc \in MarkLabels \ {"setNewPositions"}
  /\ StartUnthreading \/ UpdateReference \/ EndUnthreading \/ SkipUnseen \/ OldPositionsSet
       => pc \in PlanLabels /\ ~Traversing
  /\ PrepareForCompact => pc = "setNewPositionsInFrom"
  /\ CompactObject \/ OldCompacted => pc \in {"compact", "compactFrom"}
  /\ EndCollection => pc = "compactFrom"
<1>1. UnmarkRememberedSet => pc = "unmarkRememberedSet"
  BY DEF UnmarkRememberedSet, At
<1>2. StartCollection => pc = "mutator"
  BY DEF StartCollection
<1>3. \A l : Drop(l) \/ Take(l) => pc = "mutator"
  BY DEF Drop, Take, MayOperate
<1>4. FollowWellKnownObjects \/ FollowStack \/ FollowExtraRoots \/ FollowRescuedEphemerons
       => pc \in MarkLabels \ {"setNewPositions"}
  BY DEF FollowWellKnownObjects, FollowStack, FollowExtraRoots, FollowRescuedEphemerons, FollowRoots, At,
         MarkLabels
<1>5. RescueEphemerons => pc \in MarkLabels \ {"setNewPositions"}
  BY DEF RescueEphemerons, LookForEphemerons, FollowEphemeron, CollectUnknown, Rescan, RescueUnknowns,
         RescueEphemeron, AddRescued, UnknownsRescued, EphemeronsDecided, At, MarkLabels
<1>6. FixWeakContainer \/ WeakContainersFixed => pc \in MarkLabels \ {"setNewPositions"}
  BY DEF FixWeakContainer, WeakContainersFixed, At, MarkLabels
<1>7. StartUnthreading \/ UpdateReference \/ EndUnthreading \/ SkipUnseen \/ OldPositionsSet
       => pc \in PlanLabels /\ ~Traversing
  BY DEF StartUnthreading, UpdateReference, EndUnthreading, SkipUnseen, OldPositionsSet, Positioning,
         PlanLabels
<1>8. PrepareForCompact => pc = "setNewPositionsInFrom"
  BY DEF PrepareForCompact
<1>9. CompactObject \/ OldCompacted => pc \in {"compact", "compactFrom"}
  BY DEF CompactObject, OldCompacted, Compacting
<1>10. EndCollection => pc = "compactFrom"
  BY DEF EndCollection
<1>11. QED BY <1>1, <1>2, <1>3, <1>4, <1>5, <1>6, <1>7, <1>8, <1>9, <1>10

LEMMA QuietNext ==
  ASSUME NEW g, QuietInv(g), FirstQueue, Counters, Next
  PROVE  Phase(g)'
<1>1. pc \in QuietLabels /\ Unscanned
  BY DEF QuietInv
<1>2. ~FollowCountStartingAt
  BY <1>1, NotScanning
<1>3. CASE \E l \in RootLocations : Drop(l) \/ Take(l)
  BY <1>3, QuietDrop, QuietTake DEF Phase
<1>4. CASE StartCollection
  BY <1>4, QuietStartCollection DEF Phase
<1>5. CASE UnmarkRememberedSet
  BY <1>5, QuietUnmarkRememberedSet DEF Phase
<1>6. ASSUME Collector, ~UnmarkRememberedSet PROVE FALSE
  <2>1. pc \notin MarkLabels /\ pc \notin PlanLabels /\ pc \notin {"compact", "compactFrom"}
    BY <1>1 DEF QuietLabels, MarkLabels, PlanLabels
  <2>2. "setNewPositionsInFrom" \in PlanLabels
    BY DEF PlanLabels
  <2>3. QED BY <1>2, <1>6, <2>1, <2>2, StepsAt DEF Collector, SetNewPositionsAndCompact
<1>7. QED BY <1>3, <1>4, <1>5, <1>6 DEF Next

LEMMA WalkNext ==
  ASSUME NEW g, NEW u, NEW L, NEW M, NEW n, WalkInv(g, u, L, M, n), Next
  PROVE  Phase(g)'
<1>1. pc \in PlanLabels /\ Idle
  BY DEF WalkInv
<1>2. ~FollowCountStartingAt
  BY <1>1, NotScanning DEF Idle, Unscanned
<1>3. CASE SkipUnseen
  <2>1. WalkInv(g, u, L, M, n)'
    BY <1>3, WalkSkipUnseen
  <2>2. QED BY <2>1 DEF Phase
<1>4. CASE StartUnthreading
  <2>1. WalkInv(g, u, L, M, n)'
    BY <1>4, WalkStartUnthreading
  <2>2. QED BY <2>1 DEF Phase
<1>5. CASE UpdateReference
  <2>1. \E n2 : WalkInv(g, u, L, M, n2)'
    BY <1>5, WalkUpdateReference
  <2>2. QED BY <2>1 DEF Phase
<1>6. CASE EndUnthreading
  <2>1. \E n2 : WalkInv(g, u, L, M, n2)'
    BY <1>6, WalkEndUnthreading
  <2>2. QED BY <2>1 DEF Phase
<1>7. CASE OldPositionsSet
  <2>1. WalkInv(g, u, L, M, n)'
    BY <1>7, WalkOldPositionsSet
  <2>2. QED BY <2>1 DEF Phase
<1>8. CASE PrepareForCompact
  <2>1. \E s : CompactInv(g, u, M, s)'
    BY <1>8, WalkPrepareForCompact
  <2>2. QED BY <2>1 DEF Phase
<1>9. pc # "mutator" /\ pc # "unmarkRememberedSet" /\ pc \notin {"compact", "compactFrom"}
      /\ pc \notin MarkLabels \ {"setNewPositions"} /\ pc # "compactFrom"
  BY <1>1 DEF PlanLabels, MarkLabels
<1>10. QED
  BY <1>2, <1>3, <1>4, <1>5, <1>6, <1>7, <1>8, <1>9, StepsAt
     DEF Next, Collector, SetNewPositionsAndCompact

LEMMA MarkNext ==
  ASSUME NEW g, NEW u, NEW L, NEW M, NEW T, MarkInv(g, u, L, M, T), NothingFoundLate, Next
  PROVE  Phase(g)'
<1>1. pc \in MarkLabels
  BY DEF MarkInv
<1>2. CASE MarkStep
  <2>1. \E u2, L2, M2, T2 : MarkInv(g, u2, L2, M2, T2)'
    BY <1>2, MarkKeepsInv
  <2>2. QED BY <2>1 DEF Phase
<1>3. CASE pc = "setNewPositions" /\ ~Traversing
  <2>1. ephemerons = << >> /\ weakContainers = << >>
    BY <1>3 DEF NothingFoundLate
  <2>2. PICK n : WalkInv(g, u, L, M, n)
    BY <1>3, <2>1, WalkInvBegins
  <2>3. QED BY <2>2, WalkNext
<1>4. ASSUME Next, ~MarkStep, ~(pc = "setNewPositions" /\ ~Traversing) PROVE FALSE
  <2>1. /\ pc # "mutator" /\ pc # "unmarkRememberedSet" /\ pc \notin {"compact", "compactFrom"}
        /\ pc # "setNewPositionsInFrom" /\ ~(pc \in PlanLabels /\ ~Traversing)
    BY <1>1, <1>4 DEF PlanLabels, MarkLabels
  <2>2. pc # "compactFrom"
    BY <2>1
  <2>3. QED BY <1>4, <2>1, <2>2, StepsAt DEF Next, Collector, SetNewPositionsAndCompact, MarkStep
<1>5. QED BY <1>2, <1>3, <1>4

LEMMA CompactNext ==
  ASSUME NEW g, NEW u, NEW M, NEW s, CompactInv(g, u, M, s), Next
  PROVE  Phase(g)' \/ EndCollection
<1>1. pc \in {"compact", "compactFrom"} /\ Idle
  BY DEF CompactInv
<1>2. ~FollowCountStartingAt
  BY <1>1, NotScanning DEF Idle, Unscanned
<1>3. CASE CompactObject
  <2>1. CompactInv(g, u, M, s)'
    BY <1>3, CompactCompactObject
  <2>2. QED BY <2>1 DEF Phase
<1>4. CASE OldCompacted
  <2>1. CompactInv(g, u, M, s)'
    BY <1>4, CompactOldCompacted
  <2>2. QED BY <2>1 DEF Phase
<1>5. pc # "mutator" /\ pc # "unmarkRememberedSet" /\ pc \notin MarkLabels \ {"setNewPositions"}
      /\ pc \notin PlanLabels /\ pc # "setNewPositionsInFrom"
  BY <1>1 DEF PlanLabels, MarkLabels
<1>6. QED
  BY <1>2, <1>3, <1>4, <1>5, StepsAt DEF Next, Collector, SetNewPositionsAndCompact


LEMMA PhaseKept ==
  ASSUME NEW g, Phase(g), UNCHANGED vars
  PROVE  Phase(g)'
<1>1. UNCHANGED <<memory, oldNextFree, fromNextFree, auxNextFree, rememberedSet, ephemerons, unknowns,
                  weakContainers, stack, scan, rescan, i, buffer, reference, newToOld, pc, copy, seen,
                  collections, ops>>
  BY DEF vars, spaceVars, localVars, scanVars, walkVars, historyVars
<1>2. QuietInv(g) => QuietInv(g)'
  BY <1>1 DEF QuietInv, Unscanned, NothingWaits
<1>3. ASSUME NEW u, NEW L, NEW M, NEW T, MarkInv(g, u, L, M, T) PROVE MarkInv(g, u, L, M, T)'
  BY <1>1, <1>3 DEF MarkInv, NextRoot, FirstUnknown, FirstWeak
<1>4. ASSUME NEW u, NEW L, NEW M, NEW n, WalkInv(g, u, L, M, n) PROVE WalkInv(g, u, L, M, n)'
  BY <1>1, <1>4 DEF WalkInv, Idle, Base, NextFree
<1>5. ASSUME NEW u, NEW M, NEW s, CompactInv(g, u, M, s) PROVE CompactInv(g, u, M, s)'
  BY <1>1, <1>5 DEF CompactInv, Idle, Base, NextFree
<1>6. QED BY <1>2, <1>3, <1>4, <1>5 DEF Phase

LEMMA CountersKept ==
  ASSUME Counters, [Next]_vars
  PROVE  Counters'
<1>1. MaxCollections \in Nat /\ MaxOps \in Nat
  BY NumbersAssumption
<1>2. ASSUME Operated, MayOperate PROVE Counters'
  BY <1>1, <1>2 DEF Counters, Operated, MayOperate
<1>3. ASSUME StartCollection PROVE Counters'
  BY <1>1, <1>3 DEF Counters, StartCollection
<1>4. CASE UNCHANGED <<rescan, collections, ops>>
  BY <1>4 DEF Counters
<1>5. CASE UnmarkRememberedSet
  BY <1>5 DEF Counters, UnmarkRememberedSet, historyVars
<1>6. CASE FollowWellKnownObjects \/ FollowStack \/ FollowExtraRoots \/ FollowRescuedEphemerons
  BY <1>6 DEF Counters, FollowWellKnownObjects, FollowStack, FollowExtraRoots, FollowRescuedEphemerons,
              FollowRoots, historyVars
<1>7. CASE FollowCountStartingAt
  BY <1>7 DEF Counters, FollowCountStartingAt, IgnoreSmallInteger, IgnoreSeenInLibrary, FollowInLibrary,
              ThreadSeen, ThreadAndFollow, ResumeScan, FollowStep, historyVars
<1>8. CASE RescueEphemerons
  <2>1. UNCHANGED <<collections, ops>>
    BY <1>8 DEF RescueEphemerons, LookForEphemerons, FollowEphemeron, CollectUnknown, Rescan,
                RescueUnknowns, RescueEphemeron, AddRescued, UnknownsRescued, EphemeronsDecided,
                RescueStep, historyVars
  <2>2. rescan' \in {rescan, TRUE, FALSE}
    BY <1>8 DEF RescueEphemerons, LookForEphemerons, FollowEphemeron, CollectUnknown, Rescan,
                RescueUnknowns, RescueEphemeron, AddRescued, UnknownsRescued, EphemeronsDecided
  <2>3. QED BY <2>1, <2>2 DEF Counters
<1>9. CASE FixWeakContainer \/ WeakContainersFixed
  BY <1>9 DEF Counters, FixWeakContainer, WeakContainersFixed, historyVars
<1>10. CASE SetNewPositionsAndCompact
  <2>1. WalkStep
    BY <1>10 DEF SetNewPositionsAndCompact, StartUnthreading, UpdateReference, EndUnthreading, SkipUnseen,
                 OldPositionsSet, PrepareForCompact, CompactObject, OldCompacted, WalkFrom
  <2>2. QED BY <2>1 DEF Counters, WalkStep, historyVars
<1>11. CASE EndCollection
  BY <1>11 DEF Counters, EndCollection
<1>12. CASE UNCHANGED vars
  BY <1>12 DEF Counters, vars, historyVars
<1>13. CASE \E l \in RootLocations : Drop(l) \/ Take(l)
  <2>1. Operated /\ MayOperate
    BY <1>13 DEF Drop, Take
  <2>2. QED BY <1>2, <2>1
<1>14. QED
  BY <1>3, <1>5, <1>6, <1>7, <1>8, <1>9, <1>10, <1>11, <1>12, <1>13 DEF Next, Collector

LEMMA CollectorSteps ==
  ASSUME Collector
  PROVE  /\ collections' = collections
         /\ (FollowCountStartingAt /\ pc' = pc) \/ pc' # "unmarkRememberedSet"
<1>1. CASE UnmarkRememberedSet
  BY <1>1 DEF UnmarkRememberedSet, GoTo, historyVars
<1>2. CASE FollowWellKnownObjects \/ FollowStack \/ FollowExtraRoots \/ FollowRescuedEphemerons
  BY <1>2 DEF FollowWellKnownObjects, FollowStack, FollowExtraRoots, FollowRescuedEphemerons,
              FollowRoots, GoTo, historyVars
<1>3. CASE FollowCountStartingAt
  BY <1>3 DEF FollowCountStartingAt, IgnoreSmallInteger, IgnoreSeenInLibrary, FollowInLibrary,
              ThreadSeen, ThreadAndFollow, ResumeScan, FollowStep, historyVars
<1>4. CASE RescueEphemerons
  <2>1. collections' = collections
    BY <1>4 DEF RescueEphemerons, LookForEphemerons, FollowEphemeron, CollectUnknown, Rescan,
                RescueUnknowns, RescueEphemeron, AddRescued, UnknownsRescued, EphemeronsDecided,
                RescueStep, historyVars
  <2>2. pc' # "unmarkRememberedSet"
    BY <1>4 DEF RescueEphemerons, LookForEphemerons, FollowEphemeron, CollectUnknown, Rescan,
                RescueUnknowns, RescueEphemeron, AddRescued, UnknownsRescued, EphemeronsDecided,
                GoTo, At
  <2>3. QED BY <2>1, <2>2
<1>5. CASE FixWeakContainer \/ WeakContainersFixed
  BY <1>5 DEF FixWeakContainer, WeakContainersFixed, GoTo, At, historyVars
<1>6. CASE SetNewPositionsAndCompact
  <2>1. WalkStep
    BY <1>6 DEF SetNewPositionsAndCompact, StartUnthreading, UpdateReference, EndUnthreading, SkipUnseen,
                OldPositionsSet, PrepareForCompact, CompactObject, OldCompacted, WalkFrom
  <2>2. pc' # "unmarkRememberedSet"
    BY <1>6 DEF SetNewPositionsAndCompact, StartUnthreading, UpdateReference, EndUnthreading, SkipUnseen,
                OldPositionsSet, PrepareForCompact, CompactObject, OldCompacted, WalkFrom,
                Positioning, Compacting
  <2>3. QED BY <2>1, <2>2 DEF WalkStep, historyVars
<1>7. CASE EndCollection
  BY <1>7 DEF EndCollection
<1>8. QED BY <1>1, <1>2, <1>3, <1>4, <1>5, <1>6, <1>7 DEF Collector

LEMMA CollectionsCounted ==
  ASSUME Counters, [Next]_vars
  PROVE  collections \in Nat /\ collections' \in Nat /\ collections <= collections'
<1>1. collections \in Nat /\ collections' \in Nat
  BY CountersKept, NumbersAssumption DEF Counters
<1>2. collections' = collections \/ collections' = collections + 1
  <2>1. StartCollection => collections' = collections + 1
    BY DEF StartCollection
  <2>2. \A l : Drop(l) \/ Take(l) => collections' = collections
    BY DEF Drop, Take, Operated
  <2>3. UNCHANGED vars => collections' = collections
    BY DEF vars, historyVars
  <2>4. QED BY <2>1, <2>2, <2>3, CollectorSteps DEF Next
<1>3. QED BY <1>1, <1>2

LEMMA FirstQueueOperated ==
  ASSUME NEW g, QuietInv(g), FirstQueue, NEW l \in RootLocations, Drop(l) \/ Take(l)
  PROVE  FirstQueue'
<1>1. /\ Heap(memory, g, oldNextFree, fromNextFree) /\ pc = "mutator"
      /\ pc' = pc /\ collections' = collections
      /\ Placement(g, oldNextFree, fromNextFree) /\ DOMAIN memory = Location
  BY DEF QuietInv, Drop, Take, MayOperate, Operated, Heap
<1>2. Queue = QueueArray
  BY <1>1, QueueNow
<1>3. l \in Location /\ l \notin LateSlots /\ QueueArray \in Location
  BY <1>1, KnownCells, RootCell, Numbers, Bounds DEF LateSlots, RootLocations
<1>4. \A x \in LateSlots : memory'[x] = memory[x] \/ x = QueueArray
  <2>1. \A x \in LateSlots : x \in Location
    BY LateSlotsIn
  <2>2. QED BY <1>1, <1>2, <1>3, <2>1 DEF Drop, Take
<1>5. memory'[QueueArray] = memory[QueueArray] \/ \E n : memory'[QueueArray] = Smi(n)
  <2>1. l # QueueArray
    <3>1. QueueArray \in Nat /\ QueueSize \in Nat
      BY <1>1, KnownCells
    <3>2. QueueArray \in LateSlots
      BY <3>1 DEF LateSlots
    <3>3. QED BY <1>3, <3>2
  <2>2. CASE Drop(l)
    <3>1. memory' = [memory EXCEPT ![l] = Oop(Nil)]
      BY <2>2 DEF Drop
    <3>2. QED BY <1>1, <1>3, <2>1, <3>1
  <2>3. CASE Take(l)
    <3>1. PICK w, n : memory' = [memory EXCEPT ![l] = w, ![QueueArray] = Smi(n)]
      BY <1>2, <2>3 DEF Take
    <3>2. memory'[QueueArray] = Smi(n)
      BY <1>1, <1>3, <2>1, <3>1
    <3>3. QED BY <3>2
  <2>4. QED BY <2>2, <2>3
<1>6. Leads(memory, {}, LateSlots) => Leads(memory', {}, LateSlots)
  BY <1>4, <1>5, Tags DEF Leads
<1>7. QED BY <1>1, <1>6 DEF FirstQueue

LEMMA FirstQueueKept ==
  ASSUME NEW g, Phase(g), FirstQueue, Counters, [Next]_vars
  PROVE  FirstQueue'
<1>1. CASE UNCHANGED vars
  BY <1>1 DEF FirstQueue, vars, spaceVars, localVars, scanVars, walkVars, historyVars
<1>2. CASE \E l \in RootLocations : Drop(l) \/ Take(l)
  <2>1. QuietInv(g)
    <3>1. pc = "mutator"
      BY <1>2, StepsAt
    <3>2. QED BY <3>1 DEF Phase, MarkInv, MarkLabels, WalkInv, PlanLabels, CompactInv
  <2>2. QED BY <1>2, <2>1, FirstQueueOperated
<1>3. CASE StartCollection
  <2>1. /\ pc = "mutator" /\ pc' = "unmarkRememberedSet" /\ collections' = collections + 1
        /\ memory' = memory /\ collections \in Nat
    BY <1>3, NumbersAssumption DEF StartCollection, GoTo, Counters
  <2>2. QED BY <2>1 DEF FirstQueue
<1>4. CASE Collector
  <2>1. FollowCountStartingAt => pc \notin QuietLabels
    BY NotScanning DEF Phase, QuietInv, MarkInv, MarkLabels, WalkInv, PlanLabels, CompactInv, QuietLabels
  <2>2. pc # "mutator"
    BY <1>4, <2>1, StepsAt DEF Collector, SetNewPositionsAndCompact, MarkLabels, PlanLabels, QuietLabels
  <2>3. collections' = collections /\ pc' # "unmarkRememberedSet"
    BY <1>4, <2>1, CollectorSteps DEF QuietLabels
  <2>4. QED BY <2>2, <2>3 DEF FirstQueue
<1>5. QED BY <1>1, <1>2, <1>3, <1>4 DEF Next

(* The inductive invariant: some heap is being collected, or there is one.  *)
CycleInv == Counters /\ FirstQueue /\ \E g : Phase(g)

LEMMA CycleNext ==
  ASSUME CycleInv, NothingFoundLate, [Next]_vars
  PROVE  CycleInv'
<1>1. Counters'
  BY CountersKept DEF CycleInv
<1>2. PICK g : Phase(g)
  BY DEF CycleInv
<1>3. SUFFICES \E g2 : Phase(g2)'
  <2>1. FirstQueue'
    BY <1>2, FirstQueueKept DEF CycleInv
  <2>2. QED BY <1>1, <2>1 DEF CycleInv
<1>4. CASE UNCHANGED vars
  BY <1>2, <1>4, PhaseKept
<1>5. CASE Next
  <2>1. CASE QuietInv(g)
    BY <1>2, <1>5, <2>1, QuietNext DEF CycleInv
  <2>2. CASE \E u, L, M, T : MarkInv(g, u, L, M, T)
    BY <1>2, <1>5, <2>2, MarkNext
  <2>3. CASE \E u, L, M, n : WalkInv(g, u, L, M, n)
    BY <1>2, <1>5, <2>3, WalkNext
  <2>4. CASE \E u, M, s : CompactInv(g, u, M, s)
    <3>1. PICK u, M, s : CompactInv(g, u, M, s)
      BY <2>4
    <3>2. CASE EndCollection
      <4>1. PICK g2 : QuietInv(g2)'
        BY <3>1, <3>2, CompactEndCollection
      <4>2. QED BY <4>1 DEF Phase
    <3>3. CASE Phase(g)'
      BY <1>2, <3>3
    <3>4. QED BY <1>5, <3>1, <3>2, <3>3, CompactNext
  <2>5. QED BY <1>2, <2>1, <2>2, <2>3, <2>4 DEF Phase
<1>6. QED BY <1>4, <1>5


-----------------------------------------------------------------------------
(* The types in each phase.                                                 *)
Words(m) == DOMAIN m = Location /\ \A l \in Location : WordOK(m[l])

LEMMA HeapWords ==
  ASSUME NEW c, NEW g, NEW on, NEW fn, Heap(c, g, on, fn)
  PROVE  Words(c)
<1>1. CopyOK(c)
  BY HeapCopyOK
<1>2. QED BY <1>1 DEF CopyOK, Words

LEMMA LinkOK ==
  ASSUME NEW l \in Location
  PROVE  WordOK(Link(l)) /\ WordOK(Oop(l))
BY WordsMade DEF IsWord

LEMMA ThreadedWords ==
  ASSUME NEW u, NEW g, NEW on, NEW fn, Heap(u, g, on, fn), NEW m, NEW L, Threads(m, u, g, L)
  PROVE  Words(m)
<1>1. DOMAIN m = Location /\ Lists(u, g, L)
  BY DEF Threads
<1>2. \A l \in Location : WordOK(u[l])
  BY HeapWords DEF Words
<1>3. \A a \in DOMAIN g : \A j \in 1 .. Len(L[a]) : L[a][j] \in Location
  BY <1>1, Listed
<1>4. ASSUME NEW l \in Location PROVE WordOK(m[l])
  <2>1. CASE m[l] = u[l]
    BY <1>2, <2>1
  <2>2. CASE \E a \in DOMAIN g : \E j \in 1 .. Len(L[a]) : l = a - 2 /\ j = Len(L[a]) /\ m[l] = Link(L[a][j])
    BY <1>3, <2>2, LinkOK
  <2>3. CASE \E a \in DOMAIN g : \E j \in 1 .. Len(L[a]) :
               l = L[a][j] /\ j = 1 /\ m[l] = u[a - 2] /\ ~Is("link", m[l])
    <3>1. PICK a \in DOMAIN g : m[l] = u[a - 2]
      BY <2>3
    <3>2. a - 2 \in Location
      BY HeaderWord
    <3>3. QED BY <1>2, <3>1, <3>2
  <2>4. CASE \E a \in DOMAIN g : \E j \in 1 .. Len(L[a]) :
               l = L[a][j] /\ 2 <= j /\ m[l] = Link(L[a][j - 1])
    <3>0. PICK a \in DOMAIN g : \E j \in 1 .. Len(L[a]) : 2 <= j /\ m[l] = Link(L[a][j - 1])
      BY <2>4
    <3>1. PICK j \in 1 .. Len(L[a]) : 2 <= j /\ m[l] = Link(L[a][j - 1])
      BY <3>0
    <3>2. Len(L[a]) \in Nat
      BY <1>1, Listed
    <3>3. j - 1 \in 1 .. Len(L[a])
      BY <3>1, <3>2
    <3>4. L[a][j - 1] \in Location
      BY <1>3, <3>3
    <3>5. QED BY <3>1, <3>4, LinkOK
  <2>5. QED
    <3>1. \/ ~Is("link", m[l]) /\ m[l] = u[l] /\ ~OnList(L, l) /\ ~HeadsList(L, l)
          \/ \E a \in DOMAIN g : \E j \in 1 .. Len(L[a]) :
               l = a - 2 /\ j = Len(L[a]) /\ m[l] = Link(L[a][j])
          \/ \E a \in DOMAIN g : \E j \in 1 .. Len(L[a]) :
               l = L[a][j] /\ j = 1 /\ m[l] = u[a - 2] /\ ~Is("link", m[l])
          \/ \E a \in DOMAIN g : \E j \in 1 .. Len(L[a]) :
               l = L[a][j] /\ 2 <= j /\ m[l] = Link(L[a][j - 1])
      BY ThreadedWord
    <3>2. QED BY <2>1, <2>2, <2>3, <2>4, <3>1
<1>5. QED BY <1>1, <1>4 DEF Words

LEMMA SeenWord ==
  ASSUME NEW u, NEW g, NEW on, NEW fn, Heap(u, g, on, fn), NEW a \in DOMAIN g
  PROVE  WordOK(SeenBits(u, a)) /\ WordOK(u[a - 2])
<1>1. Value(u[a - 2]) \in HeaderBits /\ a - 2 \in Location
  BY HeaderWord
<1>2. [Value(u[a - 2]) EXCEPT !.unseenInSpace = FALSE] \in HeaderBits
  BY <1>1 DEF HeaderBits
<1>3. WordOK(SeenBits(u, a))
  BY <1>2, WordsMade DEF SeenBits, Proper, IsWord
<1>4. WordOK(u[a - 2])
  BY <1>1, HeapWords DEF Words
<1>5. QED BY <1>3, <1>4

LEMMA WalkedWords ==
  ASSUME NEW u, NEW g, NEW on, NEW fn, Heap(u, g, on, fn), NEW L, Lists(u, g, L), NEW M,
         \A a \in DOMAIN g : a \in M <=> L[a] # << >>,
         NEW n, NEW b, NEW m, Walked(m, u, g, L, M, n, b)
  PROVE  Words(m)
<1>1. Placement(g, on, fn)
  BY DEF Heap
<1>2. \A l \in Location : WordOK(u[l])
  BY HeapWords DEF Words
<1>3. \A a \in DOMAIN g : \A j \in 1 .. Len(L[a]) : L[a][j] \in Location
  BY Listed
<1>4. DOMAIN L = DOMAIN g
  BY DEF Lists
<1>5. ASSUME NEW l \in Location PROVE WordOK(m[l])
  <2>1. CASE OnList(L, l)
    <3>0. PICK a \in DOMAIN g : InList(L, a, l)
      BY <1>4, <2>1 DEF OnList
    <3>1. PICK j \in 1 .. Len(L[a]) : l = L[a][j]
      BY <3>0 DEF InList
    <3>2. Len(L[a]) \in Nat /\ L[a] # << >>
      <4>1. Len(L[a]) \in Nat /\ (L[a] # << >> <=> 1 <= Len(L[a]))
        BY Listed
      <4>2. QED BY <3>1, <4>1
    <3>3. New(g, M, a) \in Location
      <4>1. a \in M
        BY <3>2
      <4>2. QED BY <1>1, <4>1, NewPlace
    <3>4. m[l] = IF j > n[a] THEN Oop(New(g, M, a))
                 ELSE IF j = 1 THEN u[a - 2] ELSE Link(L[a][j - 1])
      BY <3>1 DEF Walked, SlotsLeft
    <3>5. CASE j > n[a]
      BY <3>3, <3>4, <3>5, LinkOK
    <3>6. CASE ~(j > n[a]) /\ j = 1
      BY <3>4, <3>6, SeenWord
    <3>7. CASE ~(j > n[a]) /\ j # 1
      <4>1. j - 1 \in 1 .. Len(L[a])
        BY <3>1, <3>2, <3>7
      <4>2. L[a][j - 1] \in Location
        BY <1>3, <4>1
      <4>3. m[l] = Link(L[a][j - 1])
        BY <3>4, <3>7
      <4>4. QED BY <4>2, <4>3, LinkOK
    <3>8. QED BY <3>5, <3>6, <3>7
  <2>2. CASE HeadsList(L, l)
    <3>1. PICK a \in DOMAIN g : a = l + 2 /\ L[a] # << >>
      BY <1>4, <2>2 DEF HeadsList
    <3>2. a - 2 = l
      BY <3>1, Bounds
    <3>3. m[l] = IF Start(g, a) < b THEN SeenBits(u, a) ELSE Link(L[a][Len(L[a])])
      BY <3>1, <3>2 DEF Walked, HeadersLeft
    <3>4. Len(L[a]) \in 1 .. Len(L[a])
      <4>1. Len(L[a]) \in Nat /\ (L[a] # << >> <=> 1 <= Len(L[a]))
        BY Listed
      <4>2. QED BY <3>1, <4>1
    <3>5. L[a][Len(L[a])] \in Location
      BY <1>3, <3>4
    <3>6. QED BY <3>3, <3>5, LinkOK, SeenWord
  <2>3. CASE ~OnList(L, l) /\ ~HeadsList(L, l)
    BY <1>2, <2>3 DEF Walked, OthersLeft
  <2>4. QED BY <2>1, <2>2, <2>3
<1>6. QED BY <1>5 DEF Words, Walked

LEMMA NotedNamesOK ==
  ASSUME NEW g, NEW on, NEW fn, Placement(g, on, fn), NEW M, NEW names, NEW b, NEW ref,
         Renamed(g, M, names, b, ref)
  PROVE  NamesOK(names)
<1>1. ASSUME NEW x \in DOMAIN names PROVE x \in Location /\ names[x] \in Location
  <2>1. PICK a : Noted(g, M, b, ref, a) /\ x = New(g, M, a)
    BY DEF Renamed
  <2>2. names[x] = a /\ a \in DOMAIN g /\ a \in M
    BY <2>1 DEF Renamed, Noted
  <2>3. x \in Location
    BY <2>1, <2>2, NewPlace
  <2>4. a \in Location
    BY <2>2, KnownObject DEF Known
  <2>5. QED BY <2>2, <2>3, <2>4
<1>2. QED BY <1>1 DEF NamesOK, Range

(* TypeOK, but for the counters. *)
Typed ==
  /\ Words(memory) /\ Words(copy)
  /\ oldNextFree \in OldBase .. FromBase /\ fromNextFree \in FromBase .. FromEnd
  /\ auxNextFree \in OldBase .. FromBase
  /\ rememberedSet \in Seq(Location) /\ ephemerons \in Seq(Location)
  /\ unknowns \in Seq(Location) /\ weakContainers \in Seq(Location)
  /\ scan \in ScanType /\ stack \in Seq(ScanType) /\ i \in Nat \ {0}
  /\ buffer \in Location /\ reference \in Location \cup {None}
  /\ NamesOK(newToOld)

LEMMA TypedIsTypeOK ==
  ASSUME Typed, Counters
  PROVE  TypeOK
BY DEF Typed, Counters, TypeOK, Words, NamesOK

LEMMA HeapBounds ==
  ASSUME NEW c, NEW g, NEW on, NEW fn, Heap(c, g, on, fn)
  PROVE  /\ on \in OldBase .. FromBase /\ fn \in FromBase .. FromEnd
         /\ OldBase \in Location /\ OldBase \in OldBase .. FromBase
<1>1. on \in OldBase .. FromBase /\ fn \in FromBase .. FromEnd
  BY DEF Heap, Placement
<1>2. OldBase \in Location /\ OldBase \in OldBase .. FromBase
  BY Bounds
<1>3. QED BY <1>1, <1>2

LEMMA NoObjectsTyped ==
  ASSUME Idle
  PROVE  /\ rememberedSet \in Seq(Location) /\ ephemerons \in Seq(Location)
         /\ unknowns \in Seq(Location) /\ weakContainers \in Seq(Location)
         /\ scan \in ScanType /\ stack \in Seq(ScanType) /\ i \in Nat \ {0}
BY DEF Idle

LEMMA QuietTyped ==
  ASSUME NEW g, QuietInv(g)
  PROVE  Typed
<1>1. /\ Heap(memory, g, oldNextFree, fromNextFree) /\ CopyOK(copy)
      /\ Unscanned /\ NothingWaits /\ rememberedSet \in Seq(Known(g))
      /\ i \in Nat \ {0} /\ buffer = OldBase /\ reference = None
      /\ auxNextFree \in OldBase .. FromBase /\ NamesOK(newToOld)
  BY DEF QuietInv
<1>2. Placement(g, oldNextFree, fromNextFree)
  BY <1>1 DEF Heap
<1>3. \A a \in Known(g) : a \in Location
  BY <1>2, KnownObject
<1>4. rememberedSet \in Seq(Location)
  BY <1>1, <1>3
<1>5. Words(memory) /\ Words(copy)
  BY <1>1, HeapWords DEF CopyOK, Words
<1>6. /\ oldNextFree \in OldBase .. FromBase /\ fromNextFree \in FromBase .. FromEnd
      /\ OldBase \in Location
  BY <1>1, HeapBounds
<1>7. QED BY <1>1, <1>4, <1>5, <1>6 DEF Typed, Unscanned, NothingWaits

LEMMA MarkTyped ==
  ASSUME NEW g, NEW u, NEW L, NEW M, NEW T, MarkInv(g, u, L, M, T)
  PROVE  Typed
<1>1. /\ Heap(u, g, oldNextFree, fromNextFree) /\ Heap(copy, g, oldNextFree, fromNextFree)
      /\ Threads(memory, u, g, L) /\ i \in Nat \ {0}
      /\ Accounted(g, M, scan, stack, ephemerons, unknowns, weakContainers, FirstUnknown, FirstWeak, T)
      /\ buffer = OldBase /\ reference = None /\ newToOld = << >> /\ auxNextFree = OldBase
      /\ rememberedSet = << >>
  BY DEF MarkInv
<1>2. Words(memory) /\ Words(copy)
  BY <1>1, ThreadedWords, HeapWords
<1>3. /\ oldNextFree \in OldBase .. FromBase /\ fromNextFree \in FromBase .. FromEnd
      /\ OldBase \in Location /\ OldBase \in OldBase .. FromBase
  BY <1>1, HeapBounds
<1>4. /\ ephemerons \in Seq(Location) /\ unknowns \in Seq(Location) /\ weakContainers \in Seq(Location)
      /\ scan \in ScanType /\ stack \in Seq(ScanType)
  BY <1>1 DEF Accounted, Queues, Divided
<1>5. NamesOK(newToOld) /\ rememberedSet \in Seq(Location)
  BY <1>1 DEF NamesOK, Range
<1>6. QED BY <1>1, <1>2, <1>3, <1>4, <1>5 DEF Typed

LEMMA WalkTyped ==
  ASSUME NEW g, NEW u, NEW L, NEW M, NEW n, WalkInv(g, u, L, M, n)
  PROVE  Typed
<1>1. /\ Heap(u, g, oldNextFree, fromNextFree) /\ Heap(copy, g, oldNextFree, fromNextFree)
      /\ Idle /\ auxNextFree = Pos(g, M, buffer) /\ pc \in PlanLabels
  BY DEF WalkInv
<1>2. /\ Placement(g, oldNextFree, fromNextFree)
      /\ Lists(u, g, L) /\ L \in [DOMAIN g -> Seq(Location)]
      /\ Walked(memory, u, g, L, M, n, buffer) /\ Turn(g, L, M, n, buffer, reference)
      /\ Renamed(g, M, newToOld, buffer, reference) /\ Standing(g, buffer, Base, NextFree)
      /\ \A a \in DOMAIN g : a \in M <=> L[a] # << >>
  BY WalkFacts
<1>3. Words(memory) /\ Words(copy)
  BY <1>1, <1>2, WalkedWords, HeapWords
<1>4. /\ oldNextFree \in OldBase .. FromBase /\ fromNextFree \in FromBase .. FromEnd
  BY <1>1, HeapBounds
<1>5. buffer \in Nat /\ buffer \in Location /\ OldBase <= buffer /\ buffer <= fromNextFree
  <2>1. pc \in {"setNewPositions", "setNewPositionsInFrom", "compact", "compactFrom"}
    BY <1>1 DEF PlanLabels
  <2>2. QED BY <1>2, <2>1, StandingSpace
<1>6. auxNextFree \in OldBase .. FromBase
  <2>1. /\ Pos(g, M, buffer) \in Nat /\ OldBase <= Pos(g, M, buffer)
        /\ buffer <= fromNextFree => Pos(g, M, buffer) <= FromBase
    BY <1>2, <1>5, PosBelow
  <2>2. QED BY <1>1, <1>5, <2>1, Bounds
<1>7. reference \in Location \cup {None}
  BY <1>2, TurnAt
<1>8. NamesOK(newToOld)
  BY <1>2, NotedNamesOK
<1>9. QED BY <1>1, <1>3, <1>4, <1>5, <1>6, <1>7, <1>8, NoObjectsTyped DEF Typed

LEMMA CompactTyped ==
  ASSUME NEW g, NEW u, NEW M, NEW s, CompactInv(g, u, M, s)
  PROVE  Typed
<1>1. /\ Heap(u, g, oldNextFree, fromNextFree) /\ Heap(copy, g, oldNextFree, fromNextFree)
      /\ Idle /\ auxNextFree = Pos(g, M, buffer) /\ pc \in {"compact", "compactFrom"}
      /\ reference = None /\ Compacted(memory, s, g, M, buffer)
      /\ Renamed(g, M, newToOld, fromNextFree, None) /\ Standing(g, buffer, Base, NextFree)
  BY DEF CompactInv
<1>2. Placement(g, oldNextFree, fromNextFree)
  BY <1>1 DEF Heap
<1>3. Words(memory) /\ Words(copy)
  BY <1>1, HeapWords DEF Compacted, Words, Proper, IsWord
<1>4. /\ oldNextFree \in OldBase .. FromBase /\ fromNextFree \in FromBase .. FromEnd
  BY <1>1, HeapBounds
<1>5. buffer \in Nat /\ buffer \in Location /\ OldBase <= buffer /\ buffer <= fromNextFree
  <2>1. pc \in {"setNewPositions", "setNewPositionsInFrom", "compact", "compactFrom"}
    BY <1>1
  <2>2. QED BY <1>1, <1>2, <2>1, StandingSpace
<1>6. auxNextFree \in OldBase .. FromBase
  <2>1. /\ Pos(g, M, buffer) \in Nat /\ OldBase <= Pos(g, M, buffer)
        /\ buffer <= fromNextFree => Pos(g, M, buffer) <= FromBase
    BY <1>2, <1>5, PosBelow
  <2>2. QED BY <1>1, <1>5, <2>1, Bounds
<1>7. NamesOK(newToOld)
  BY <1>1, <1>2, NotedNamesOK
<1>8. QED BY <1>1, <1>3, <1>4, <1>5, <1>6, <1>7, NoObjectsTyped DEF Typed


-----------------------------------------------------------------------------
(* At first there is a heap: the objects of the shapes given, one behind    *)
(* the other, behind the array of the queue.                                *)
PlacedShapes == [a \in PlacedObjects \cup {QueueArray} |-> ShapeOf(a)]

LEMMA OldPlaced ==
  ASSUME NEW a \in PlacedOld
  PROVE  /\ a - QueueEnd \in DOMAIN OldShapes /\ ShapeOf(a) = OldShapes[a - QueueEnd]
         /\ a \in Nat /\ ShapeOf(a) \in Shape
         /\ QueueEnd <= a - HeaderSize(ShapeOf(a)) /\ a + ShapeOf(a).size <= OldEnd
         /\ a - HeaderSize(ShapeOf(a)) = QueueEnd + Start(OldShapes, a - QueueEnd)
         /\ a + ShapeOf(a).size = QueueEnd + End(OldShapes, a - QueueEnd)
         /\ HeaderSize(ShapeOf(a)) \in {2, 3}
         /\ a \notin PlacedYoung /\ a # QueueArray /\ a \notin LibraryObjects
<1>1. PICK k \in DOMAIN OldShapes : a = QueueEnd + k
  BY DEF PlacedOld
<1>2. /\ WordsOf(OldShapes) \in Nat
      /\ k \in Nat /\ OldShapes[k].size \in Nat
      /\ HeaderSize(OldShapes[k]) \in {2, 3} /\ 0 <= Start(OldShapes, k)
      /\ End(OldShapes, k) <= WordsOf(OldShapes)
  BY ShapesAssumption, WordsOfLayout
<1>3. QueueEnd \in Nat /\ OldBase + 3 <= QueueEnd /\ QueueArray < QueueEnd /\ 10 <= OldBase /\ OldBase \in Nat
  BY Numbers, SpaceSizes
<1>4. a - QueueEnd = k
  BY <1>1, <1>2, <1>3
<1>6. OldEnd \in Nat /\ FromBase \in Nat /\ OldEnd <= FromBase /\ OldEnd - QueueEnd = WordsOf(OldShapes)
  BY SpaceSizes
<1>7. Start(OldShapes, k) = k - HeaderSize(OldShapes[k]) /\ End(OldShapes, k) = k + OldShapes[k].size
  BY DEF Start, End
<1>8. OldShapes[k] \in Shape
  BY ShapesAssumption DEF IsLayout
<1>10. a \notin LibraryObjects /\ a # Association /\ a \notin {Nil, ResidueObject} /\ a # QueueArray
         /\ a \in Nat
  BY <1>1, <1>2, <1>3, Numbers
<1>11. a \notin PlacedYoung
  <2>1. SUFFICES ASSUME NEW j \in DOMAIN YoungShapes, a = FromBase + j PROVE FALSE
    BY DEF PlacedYoung
  <2>2. j \in Nat /\ HeaderSize(YoungShapes[j]) \in {2, 3} /\ 0 <= Start(YoungShapes, j)
    BY ShapesAssumption, WordsOfLayout
  <2>3. Start(YoungShapes, j) = j - HeaderSize(YoungShapes[j])
    BY DEF Start
  <2>4. j >= 2
    BY <2>2, <2>3
  <2>5. k <= WordsOf(OldShapes)
    BY <1>2, <1>7
  <2>6. QueueEnd + k <= OldEnd
    BY <2>5, <1>2, <1>3, <1>6
  <2>7. QED BY <2>1, <2>4, <2>6, <2>2, <1>1, <1>6
<1>5. ShapeOf(a) = OldShapes[k]
  <2>1. ShapeOf(a) = OldShapes[a - QueueEnd]
    BY <1>10, <1>11 DEF ShapeOf
  <2>2. QED BY <2>1, <1>4
<1>9. /\ QueueEnd <= a - HeaderSize(ShapeOf(a)) /\ a + ShapeOf(a).size <= OldEnd
      /\ a - HeaderSize(ShapeOf(a)) = QueueEnd + Start(OldShapes, k)
      /\ a + ShapeOf(a).size = QueueEnd + End(OldShapes, k)
      /\ a \in Nat /\ a # QueueArray
  BY <1>1, <1>2, <1>3, <1>5, <1>6, <1>7
<1>12. QED BY <1>2, <1>4, <1>5, <1>8, <1>9, <1>10, <1>11

LEMMA YoungPlaced ==
  ASSUME NEW a \in PlacedYoung
  PROVE  /\ a - FromBase \in DOMAIN YoungShapes /\ ShapeOf(a) = YoungShapes[a - FromBase]
         /\ a \in Nat /\ ShapeOf(a) \in Shape
         /\ FromBase <= a - HeaderSize(ShapeOf(a)) /\ a + ShapeOf(a).size <= FromEnd
         /\ a - HeaderSize(ShapeOf(a)) = FromBase + Start(YoungShapes, a - FromBase)
         /\ a + ShapeOf(a).size = FromBase + End(YoungShapes, a - FromBase)
         /\ HeaderSize(ShapeOf(a)) \in {2, 3}
         /\ a \notin PlacedOld /\ a # QueueArray /\ a \notin LibraryObjects
<1>1. PICK k \in DOMAIN YoungShapes : a = FromBase + k
  BY DEF PlacedYoung
<1>2. /\ k \in Nat /\ YoungShapes[k].size \in Nat
      /\ HeaderSize(YoungShapes[k]) \in {2, 3} /\ 0 <= Start(YoungShapes, k)
      /\ End(YoungShapes, k) <= WordsOf(YoungShapes) /\ WordsOf(YoungShapes) \in Nat
  BY ShapesAssumption, WordsOfLayout
<1>3. /\ FromBase \in Nat /\ FromEnd \in Nat /\ FromEnd - FromBase = WordsOf(YoungShapes)
      /\ OldBase + 3 <= FromBase /\ 10 <= OldBase /\ OldBase \in Nat
  BY SpaceSizes, Bounds
<1>4. a - FromBase = k
  BY <1>1, <1>2, <1>3
<1>5. a \notin PlacedOld
  BY OldPlaced
<1>7. Start(YoungShapes, k) = k - HeaderSize(YoungShapes[k]) /\ End(YoungShapes, k) = k + YoungShapes[k].size
  BY DEF Start, End
<1>8. YoungShapes[k] \in Shape
  BY ShapesAssumption DEF IsLayout
<1>10. a # QueueArray
  BY <1>1, <1>2, <1>3, <1>7, Numbers
<1>11. a \notin LibraryObjects /\ a # Association /\ a \notin {Nil, ResidueObject}
  BY <1>1, <1>2, <1>3, Numbers
<1>6. ShapeOf(a) = YoungShapes[k]
  <2>1. ShapeOf(a) = YoungShapes[a - FromBase]
    BY <1>5, <1>10, <1>11 DEF ShapeOf
  <2>2. QED BY <2>1, <1>4
<1>9. /\ FromBase <= a - HeaderSize(ShapeOf(a)) /\ a + ShapeOf(a).size <= FromEnd
      /\ a - HeaderSize(ShapeOf(a)) = FromBase + Start(YoungShapes, k)
      /\ a + ShapeOf(a).size = FromBase + End(YoungShapes, k)
      /\ a \in Nat
  BY <1>1, <1>2, <1>3, <1>6, <1>7
<1>12. QED BY <1>2, <1>4, <1>5, <1>6, <1>8, <1>9, <1>10, <1>11

LEMMA QueuePlaced ==
  /\ ShapeOf(QueueArray) = QueueShape /\ QueueShape \in Shape /\ HeaderSize(QueueShape) = 2
  /\ QueueArray \in Nat /\ QueueArray - 2 = OldBase /\ QueueArray + QueueShape.size = QueueEnd
  /\ QueueArray \notin LibraryObjects /\ QueueArray \notin PlacedObjects
  /\ QueueShape.size \in Nat /\ ~QueueShape.weak /\ ~QueueShape.ephemeron /\ ~QueueShape.extended
<1>1. QueueSize \in Nat /\ QueueArray = OldBase + 2 /\ QueueEnd = QueueArray + QueueSize + 1
      /\ OldBase \in Nat /\ 10 <= OldBase
  BY Numbers, Bounds
<1>2. QueueArray \notin PlacedOld /\ QueueArray \notin PlacedYoung
  BY OldPlaced, YoungPlaced
<1>3. QueueShape \in Shape /\ HeaderSize(QueueShape) = 2 /\ QueueShape.size = QueueSize + 1
      /\ ~QueueShape.weak /\ ~QueueShape.ephemeron /\ ~QueueShape.extended
  BY <1>1 DEF QueueShape, Shape, HeaderSize
<1>4. QueueArray \notin LibraryObjects /\ QueueArray # Association /\ QueueArray \notin {Nil, ResidueObject}
  BY <1>1, Numbers
<1>5. ShapeOf(QueueArray) = QueueShape
  BY <1>2, <1>4 DEF ShapeOf
<1>6. QED BY <1>1, <1>2, <1>3, <1>4, <1>5 DEF PlacedObjects

LEMMA LibraryPlaced ==
  ASSUME NEW a \in LibraryObjects
  PROVE  /\ ShapeOf(a) \in Shape /\ ~ShapeOf(a).extended /\ ~ShapeOf(a).weak
         /\ ShapeOf(a).size = IF a = Association THEN 1 ELSE 0
         /\ a \notin PlacedObjects /\ a # QueueArray
<1>0. a \notin PlacedOld
  BY OldPlaced
<1>9. a \notin PlacedYoung
  BY YoungPlaced
<1>1. a \notin PlacedOld /\ a \notin PlacedYoung /\ a # QueueArray
  BY <1>0, <1>9, QueuePlaced
<1>2. a = Association \/ (a \in {Nil, ResidueObject} /\ a # Association)
  <2>1. a \in {Nil, ResidueObject, Association}
    BY DEF LibraryObjects
  <2>2. Association \notin {Nil, ResidueObject}
    BY Numbers
  <2>3. QED BY <2>1, <2>2
<1>3. /\ a = Association => ShapeOf(a) = [QueueShape EXCEPT !.size = 1]
      /\ a # Association => ShapeOf(a) = [QueueShape EXCEPT !.size = 0]
  <2>1. Association \notin {Nil, ResidueObject}
    BY Numbers
  <2>2. QED BY <1>1, <1>2, <2>1 DEF ShapeOf
<1>4. [QueueShape EXCEPT !.size = 1] \in Shape /\ [QueueShape EXCEPT !.size = 0] \in Shape
  BY DEF QueueShape, Shape
<1>5. QED BY <1>1, <1>3, <1>4 DEF QueueShape, PlacedObjects


(* What a word of the first memory is: the value of an arm whose guard      *)
(* holds.                                                                   *)
Enlarged(a) == Extension([size |-> ShapeOf(a).size, isEphemeron |-> ShapeOf(a).ephemeron])
Stored(l) == \E a \in PlacedObjects : HoldsStored(a, l)
Unset(l) ==
  /\ l # WellKnownRoots /\ l # RescuedEphemerons /\ l # QueueArray
  /\ l + 2 \notin InitialObjects /\ ~(l + 3 \in PlacedObjects /\ ShapeOf(l + 3).extended)

LEMMA MemoryWord ==
  ASSUME NEW contents, NEW roots, NEW remembered, NEW l \in Location,
         NEW m, m = MemoryOf(contents, roots, remembered)
  PROVE  \/ l \in DOMAIN roots /\ m[l] = Oop(roots[l])
         \/ l = WellKnownRoots /\ m[l] = Oop(Association)
         \/ l = RescuedEphemerons /\ m[l] = Oop(QueueArray)
         \/ l = QueueArray /\ m[l] = Smi(2)
         \/ l + 2 \in InitialObjects /\ m[l] = Bits(InitialBits(l + 2, remembered))
         \/ l + 3 \in PlacedObjects /\ ShapeOf(l + 3).extended /\ m[l] = Enlarged(l + 3)
         \/ \E a \in PlacedObjects : HoldsStored(a, l) /\ m[l] = Oop(contents[a][l - a])
         \/ l \notin DOMAIN roots /\ Unset(l) /\ ~Stored(l) /\ m[l] = Oop(Nil)
<1>1. m[l] = CASE l \in DOMAIN roots      -> Oop(roots[l])
       [] l = WellKnownRoots      -> Oop(Association)
       [] l = RescuedEphemerons   -> Oop(QueueArray)
       [] l = QueueArray          -> Smi(2)
       [] l + 2 \in InitialObjects -> Bits(InitialBits(l + 2, remembered))
       [] l + 3 \in PlacedObjects /\ ShapeOf(l + 3).extended -> Enlarged(l + 3)
       [] Stored(l)
            -> LET a == CHOOSE a \in PlacedObjects : HoldsStored(a, l) IN Oop(contents[a][l - a])
       [] OTHER -> Oop(Nil)
  BY DEF MemoryOf, Enlarged, Stored
<1>2. \/ l \in DOMAIN roots /\ m[l] = Oop(roots[l])
      \/ l = WellKnownRoots /\ m[l] = Oop(Association)
      \/ l = RescuedEphemerons /\ m[l] = Oop(QueueArray)
      \/ l = QueueArray /\ m[l] = Smi(2)
      \/ l + 2 \in InitialObjects /\ m[l] = Bits(InitialBits(l + 2, remembered))
      \/ l + 3 \in PlacedObjects /\ ShapeOf(l + 3).extended /\ m[l] = Enlarged(l + 3)
      \/ Stored(l) /\ m[l] = LET a == CHOOSE a \in PlacedObjects : HoldsStored(a, l) IN Oop(contents[a][l - a])
      \/ l \notin DOMAIN roots /\ Unset(l) /\ ~Stored(l) /\ m[l] = Oop(Nil)
  BY <1>1 DEF Unset
<1>3. CASE Stored(l) /\ m[l] = LET a == CHOOSE a \in PlacedObjects : HoldsStored(a, l) IN Oop(contents[a][l - a])
  <2>1. PICK a : a = CHOOSE b \in PlacedObjects : HoldsStored(b, l)
    OBVIOUS
  <2>2. a \in PlacedObjects /\ HoldsStored(a, l)
    BY <2>1, <1>3 DEF Stored
  <2>3. m[l] = Oop(contents[a][l - a])
    BY <2>1, <1>3
  <2>4. QED BY <2>2, <2>3
<1>4. QED BY <1>2, <1>3

(* Where the objects are. *)
LEMMA ObjectPlaced ==
  ASSUME NEW a \in DOMAIN PlacedShapes
  PROVE  /\ a \in Nat /\ ShapeOf(a) \in Shape /\ PlacedShapes[a] = ShapeOf(a)
         /\ Start(PlacedShapes, a) = a - HeaderSize(ShapeOf(a))
         /\ End(PlacedShapes, a) = a + ShapeOf(a).size
         /\ HeaderSize(ShapeOf(a)) \in {2, 3} /\ ShapeOf(a).size \in Nat
         /\ a \notin LibraryObjects
         /\ \/ OldBase <= Start(PlacedShapes, a) /\ End(PlacedShapes, a) <= OldEnd /\ a \notin PlacedYoung
            \/ FromBase <= Start(PlacedShapes, a) /\ End(PlacedShapes, a) <= FromEnd /\ a \in PlacedYoung
         /\ ShapeOf(a).ephemeron => ShapeOf(a).extended /\ ShapeOf(a).size > 0
<1>1. a \in PlacedOld \/ a \in PlacedYoung \/ a = QueueArray
  BY DEF PlacedShapes, PlacedObjects
<1>2. PlacedShapes[a] = ShapeOf(a)
  BY DEF PlacedShapes
<1>3. Start(PlacedShapes, a) = a - HeaderSize(ShapeOf(a)) /\ End(PlacedShapes, a) = a + ShapeOf(a).size
  BY <1>2 DEF Start, End
<1>4. /\ OldBase \in Nat /\ OldBase <= QueueEnd /\ QueueEnd <= OldEnd /\ FromBase \in Nat /\ OldEnd \in Nat
      /\ FromEnd \in Nat /\ QueueEnd \in Nat
  BY SpaceSizes, Numbers
<1>5. ASSUME a \in PlacedOld
      PROVE  /\ a \in Nat /\ ShapeOf(a) \in Shape /\ a \notin LibraryObjects
             /\ HeaderSize(ShapeOf(a)) \in {2, 3} /\ ShapeOf(a).size \in Nat
             /\ QueueEnd <= a - HeaderSize(ShapeOf(a)) /\ a + ShapeOf(a).size <= OldEnd /\ a \notin PlacedYoung
             /\ ShapeOf(a).ephemeron => ShapeOf(a).extended /\ ShapeOf(a).size > 0
  <2>1. /\ a \in Nat /\ ShapeOf(a) \in Shape /\ a \notin LibraryObjects
        /\ HeaderSize(ShapeOf(a)) \in {2, 3}
        /\ QueueEnd <= a - HeaderSize(ShapeOf(a)) /\ a + ShapeOf(a).size <= OldEnd /\ a \notin PlacedYoung
        /\ a - QueueEnd \in DOMAIN OldShapes /\ ShapeOf(a) = OldShapes[a - QueueEnd]
    BY <1>5, OldPlaced
  <2>2. ShapeOf(a).ephemeron => ShapeOf(a).extended /\ ShapeOf(a).size > 0
    BY <2>1, ShapesAssumption DEF IsLayout
  <2>3. ShapeOf(a).size \in Nat
    BY <2>1 DEF Shape
  <2>4. QED BY <2>1, <2>2, <2>3
<1>6. ASSUME a \in PlacedYoung
      PROVE  /\ a \in Nat /\ ShapeOf(a) \in Shape /\ a \notin LibraryObjects
             /\ HeaderSize(ShapeOf(a)) \in {2, 3} /\ ShapeOf(a).size \in Nat
             /\ FromBase <= a - HeaderSize(ShapeOf(a)) /\ a + ShapeOf(a).size <= FromEnd
             /\ ShapeOf(a).ephemeron => ShapeOf(a).extended /\ ShapeOf(a).size > 0
  <2>1. /\ a \in Nat /\ ShapeOf(a) \in Shape /\ a \notin LibraryObjects
        /\ HeaderSize(ShapeOf(a)) \in {2, 3}
        /\ FromBase <= a - HeaderSize(ShapeOf(a)) /\ a + ShapeOf(a).size <= FromEnd
        /\ a - FromBase \in DOMAIN YoungShapes /\ ShapeOf(a) = YoungShapes[a - FromBase]
    BY <1>6, YoungPlaced
  <2>2. ShapeOf(a).ephemeron => ShapeOf(a).extended /\ ShapeOf(a).size > 0
    BY <2>1, ShapesAssumption DEF IsLayout
  <2>3. ShapeOf(a).size \in Nat
    BY <2>1 DEF Shape
  <2>4. QED BY <2>1, <2>2, <2>3
<1>7. CASE a \in PlacedOld
  BY <1>2, <1>3, <1>4, <1>5, <1>7
<1>8. CASE a \in PlacedYoung
  BY <1>2, <1>3, <1>4, <1>6, <1>8
<1>9. CASE a = QueueArray
  <2>1. a \notin PlacedYoung
    BY <1>9, QueuePlaced DEF PlacedObjects
  <2>2. /\ a \in Nat /\ ShapeOf(a) \in Shape /\ a \notin LibraryObjects
        /\ HeaderSize(ShapeOf(a)) = 2 /\ ShapeOf(a).size \in Nat
        /\ a - 2 = OldBase /\ a + ShapeOf(a).size = QueueEnd /\ ~ShapeOf(a).ephemeron
    BY <1>9, QueuePlaced
  <2>3. QED BY <1>2, <1>3, <1>4, <2>1, <2>2
<1>10. QED BY <1>1, <1>7, <1>8, <1>9


(* In one space an object ends where the next one begins or before.         *)
LEMMA PlacedInOrder ==
  ASSUME NEW a \in DOMAIN PlacedShapes, NEW b \in DOMAIN PlacedShapes, a < b
  PROVE  End(PlacedShapes, a) <= Start(PlacedShapes, b)
<1>1. \A x \in DOMAIN PlacedShapes : x \in PlacedOld \/ x \in PlacedYoung \/ x = QueueArray
  BY DEF PlacedShapes, PlacedObjects
<1>2. /\ OldBase \in Nat /\ OldBase <= QueueEnd /\ QueueEnd <= OldEnd /\ FromBase \in Nat /\ OldEnd \in Nat
      /\ FromEnd \in Nat /\ QueueEnd \in Nat /\ OldEnd <= FromBase
  BY SpaceSizes, Numbers
<1>3. /\ a \in Nat /\ Start(PlacedShapes, a) = a - HeaderSize(ShapeOf(a))
      /\ End(PlacedShapes, a) = a + ShapeOf(a).size
      /\ HeaderSize(ShapeOf(a)) \in {2, 3} /\ ShapeOf(a).size \in Nat
  BY ObjectPlaced
<1>4. /\ b \in Nat /\ Start(PlacedShapes, b) = b - HeaderSize(ShapeOf(b))
      /\ End(PlacedShapes, b) = b + ShapeOf(b).size
      /\ HeaderSize(ShapeOf(b)) \in {2, 3} /\ ShapeOf(b).size \in Nat
  BY ObjectPlaced
<1>5. CASE a \in PlacedOld /\ b \in PlacedOld
  <2>1. PICK j \in DOMAIN OldShapes : j = a - QueueEnd /\ End(PlacedShapes, a) = QueueEnd + End(OldShapes, j)
                                      /\ End(OldShapes, j) \in Nat
    <3>2. \A x \in DOMAIN OldShapes : End(OldShapes, x) \in Nat
      BY ShapesAssumption, WordsOfLayout DEF End
    <3>3. QED BY <3>2, <1>5, <1>3, OldPlaced
  <2>2. PICK k \in DOMAIN OldShapes : k = b - QueueEnd /\ Start(PlacedShapes, b) = QueueEnd + Start(OldShapes, k)
                                      /\ Start(OldShapes, k) \in Nat
    <3>2. \A x \in DOMAIN OldShapes : Start(OldShapes, x) \in Nat
      BY ShapesAssumption, WordsOfLayout DEF Start
    <3>3. QED BY <3>2, <1>5, <1>4, OldPlaced
  <2>3. j < k
    BY <2>1, <2>2, <1>2, <1>3, <1>4
  <2>4. End(OldShapes, j) <= Start(OldShapes, k)
    BY <2>3, ShapesAssumption DEF IsLayout
  <2>5. QED BY <2>1, <2>2, <2>4, <1>2
<1>6. CASE a \in PlacedYoung /\ b \in PlacedYoung
  <2>1. PICK j \in DOMAIN YoungShapes : j = a - FromBase /\ End(PlacedShapes, a) = FromBase + End(YoungShapes, j)
                                        /\ End(YoungShapes, j) \in Nat
    <3>2. \A x \in DOMAIN YoungShapes : End(YoungShapes, x) \in Nat
      BY ShapesAssumption, WordsOfLayout DEF End
    <3>3. QED BY <3>2, <1>6, <1>3, YoungPlaced
  <2>2. PICK k \in DOMAIN YoungShapes : k = b - FromBase /\ Start(PlacedShapes, b) = FromBase + Start(YoungShapes, k)
                                        /\ Start(YoungShapes, k) \in Nat
    <3>2. \A x \in DOMAIN YoungShapes : Start(YoungShapes, x) \in Nat
      BY ShapesAssumption, WordsOfLayout DEF Start
    <3>3. QED BY <3>2, <1>6, <1>4, YoungPlaced
  <2>3. j < k
    BY <2>1, <2>2, <1>2, <1>3, <1>4
  <2>4. End(YoungShapes, j) <= Start(YoungShapes, k)
    BY <2>3, ShapesAssumption DEF IsLayout
  <2>5. QED BY <2>1, <2>2, <2>4, <1>2
<1>7. \A x \in PlacedOld : QueueEnd <= x - HeaderSize(ShapeOf(x)) /\ x + ShapeOf(x).size <= OldEnd
  BY OldPlaced
<1>8. \A x \in PlacedYoung : FromBase <= x - HeaderSize(ShapeOf(x)) /\ x + ShapeOf(x).size <= FromEnd
  BY YoungPlaced
<1>9. QueueArray - HeaderSize(ShapeOf(QueueArray)) = OldBase /\ QueueArray + ShapeOf(QueueArray).size = QueueEnd
  BY QueuePlaced
<1>10. CASE a = QueueArray \/ (a \in PlacedOld /\ b \in PlacedYoung)
  BY <1>1, <1>2, <1>3, <1>4, <1>7, <1>8, <1>9, <1>10
<1>11. ~(a \in PlacedYoung /\ b \notin PlacedYoung) /\ ~(b = QueueArray)
  BY <1>1, <1>2, <1>3, <1>4, <1>7, <1>8, <1>9
<1>12. QED BY <1>1, <1>5, <1>6, <1>10, <1>11

(* There is no gap. *)
LEMMA PlacedClosely ==
  ASSUME NEW a \in DOMAIN PlacedShapes
  PROVE  \/ a \notin PlacedYoung /\ End(PlacedShapes, a) = OldEnd
         \/ a \in PlacedYoung /\ End(PlacedShapes, a) = FromEnd
         \/ \E b \in DOMAIN PlacedShapes : Start(PlacedShapes, b) = End(PlacedShapes, a)
<1>1. a \in PlacedOld \/ a \in PlacedYoung \/ a = QueueArray
  BY DEF PlacedShapes, PlacedObjects
<1>2. /\ QueueEnd \in Nat /\ OldEnd \in Nat /\ OldEnd - QueueEnd = WordsOf(OldShapes)
      /\ FromBase \in Nat /\ FromEnd \in Nat /\ FromEnd - FromBase = WordsOf(YoungShapes)
      /\ WordsOf(OldShapes) \in Nat /\ WordsOf(YoungShapes) \in Nat
  <2>1. WordsOf(OldShapes) \in Nat /\ WordsOf(YoungShapes) \in Nat
    BY ShapesAssumption, WordsOfLayout
  <2>2. QED BY <2>1, SpaceSizes, Numbers
<1>3. ASSUME NEW k \in DOMAIN OldShapes
      PROVE  /\ QueueEnd + k \in PlacedOld /\ QueueEnd + k \in DOMAIN PlacedShapes
             /\ Start(PlacedShapes, QueueEnd + k) = QueueEnd + Start(OldShapes, k)
  <2>1. PICK b : b = QueueEnd + k
    OBVIOUS
  <2>2. b \in PlacedOld
    BY <2>1 DEF PlacedOld
  <2>3. b \in DOMAIN PlacedShapes
    BY <2>2 DEF PlacedShapes, PlacedObjects
  <2>4. b - QueueEnd = k
    BY <2>1, <1>2, ShapesAssumption, WordsOfLayout
  <2>5. b - HeaderSize(ShapeOf(b)) = QueueEnd + Start(OldShapes, k)
    BY <2>2, <2>4, OldPlaced
  <2>6. QED BY <2>1, <2>2, <2>3, <2>5, ObjectPlaced
<1>4. ASSUME NEW k \in DOMAIN YoungShapes
      PROVE  /\ FromBase + k \in DOMAIN PlacedShapes
             /\ Start(PlacedShapes, FromBase + k) = FromBase + Start(YoungShapes, k)
  <2>1. PICK b : b = FromBase + k
    OBVIOUS
  <2>2. b \in PlacedYoung
    BY <2>1 DEF PlacedYoung
  <2>3. b \in DOMAIN PlacedShapes
    BY <2>2 DEF PlacedShapes, PlacedObjects
  <2>4. b - FromBase = k
    BY <2>1, <1>2, ShapesAssumption, WordsOfLayout
  <2>5. b - HeaderSize(ShapeOf(b)) = FromBase + Start(YoungShapes, k)
    BY <2>2, <2>4, YoungPlaced
  <2>6. QED BY <2>1, <2>3, <2>5, ObjectPlaced
<1>5. ASSUME NEW e \in Ends(OldShapes)
      PROVE  e = WordsOf(OldShapes) \/ \E b \in DOMAIN PlacedShapes : Start(PlacedShapes, b) = QueueEnd + e
  <2>1. e = WordsOf(OldShapes) \/ \E k \in DOMAIN OldShapes : Start(OldShapes, k) = e
    BY ShapesAssumption DEF IsLayout
  <2>2. QED BY <2>1, <1>3
<1>6. ASSUME NEW e \in Ends(YoungShapes)
      PROVE  e = WordsOf(YoungShapes) \/ \E b \in DOMAIN PlacedShapes : Start(PlacedShapes, b) = FromBase + e
  <2>1. e = WordsOf(YoungShapes) \/ \E k \in DOMAIN YoungShapes : Start(YoungShapes, k) = e
    BY ShapesAssumption DEF IsLayout
  <2>2. QED BY <2>1, <1>4
<1>7. End(PlacedShapes, a) = a + ShapeOf(a).size
  BY ObjectPlaced
<1>8. CASE a \in PlacedOld
  <2>1. PICK e \in Ends(OldShapes) : End(PlacedShapes, a) = QueueEnd + e
    <3>1. PICK k \in DOMAIN OldShapes : a + ShapeOf(a).size = QueueEnd + End(OldShapes, k)
      BY <1>8, OldPlaced
    <3>2. QED BY <3>1, <1>7 DEF Ends
  <2>2. e = WordsOf(OldShapes) => End(PlacedShapes, a) = OldEnd
    BY <2>1, <1>2
  <2>3. a \notin PlacedYoung
    BY <1>8, OldPlaced
  <2>4. QED BY <2>1, <2>2, <2>3, <1>5
<1>9. CASE a \in PlacedYoung
  <2>1. PICK e \in Ends(YoungShapes) : End(PlacedShapes, a) = FromBase + e
    <3>1. PICK k \in DOMAIN YoungShapes : a + ShapeOf(a).size = FromBase + End(YoungShapes, k)
      BY <1>9, YoungPlaced
    <3>2. QED BY <3>1, <1>7 DEF Ends
  <2>2. e = WordsOf(YoungShapes) => End(PlacedShapes, a) = FromEnd
    BY <2>1, <1>2
  <2>3. QED BY <2>1, <2>2, <1>6, <1>9
<1>10. CASE a = QueueArray
  <2>1. 0 \in Ends(OldShapes)
    BY DEF Ends
  <2>2. End(PlacedShapes, a) = QueueEnd + 0 /\ a \notin PlacedYoung
    BY <1>10, <1>7, <1>2, QueuePlaced DEF PlacedObjects
  <2>3. 0 = WordsOf(OldShapes) => End(PlacedShapes, a) = OldEnd
    BY <2>2, <1>2
  <2>4. 0 = WordsOf(OldShapes) \/ \E b \in DOMAIN PlacedShapes : Start(PlacedShapes, b) = QueueEnd + 0
    BY <2>1, <1>5
  <2>5. QED BY <2>2, <2>3, <2>4
<1>11. QED BY <1>1, <1>8, <1>9, <1>10

LEMMA FirstPlacement ==
  Placement(PlacedShapes, OldEnd, FromEnd)
<1>1. /\ OldEnd \in Nat /\ OldBase \in Nat /\ OldBase <= OldEnd /\ OldEnd <= FromBase /\ FromBase \in Nat
      /\ FromBase <= FromEnd /\ FromEnd \in Nat /\ FromBase - OldEnd = FromEnd - FromBase
      /\ FromEnd - FromBase = WordsOf(YoungShapes)
  BY SpaceSizes, Numbers
<1>2. OldEnd \in OldBase .. FromBase /\ FromEnd \in FromBase .. FromEnd /\ OldEnd + FromEnd <= 2 * FromBase
  BY <1>1
<1>3. ASSUME NEW a \in DOMAIN PlacedShapes
      PROVE  /\ a \in Int /\ PlacedShapes[a] \in Shape
             /\ \/ OldBase <= Start(PlacedShapes, a) /\ End(PlacedShapes, a) <= OldEnd
                \/ FromBase <= Start(PlacedShapes, a) /\ End(PlacedShapes, a) <= FromEnd
             /\ PlacedShapes[a].ephemeron => PlacedShapes[a].extended /\ PlacedShapes[a].size > 0
  BY ObjectPlaced
<1>4. \A a, b \in DOMAIN PlacedShapes : a < b => End(PlacedShapes, a) <= Start(PlacedShapes, b)
  BY PlacedInOrder
<1>5. FromEnd = FromBase \/ \E a \in DOMAIN PlacedShapes : Start(PlacedShapes, a) = FromBase
  <2>1. 0 \in Ends(YoungShapes)
    BY DEF Ends
  <2>2. 0 = WordsOf(YoungShapes) \/ \E k \in DOMAIN YoungShapes : Start(YoungShapes, k) = 0
    BY <2>1, ShapesAssumption DEF IsLayout
  <2>3. CASE 0 = WordsOf(YoungShapes)
    BY <2>3, <1>1
  <2>4. ASSUME NEW k \in DOMAIN YoungShapes, Start(YoungShapes, k) = 0
        PROVE  \E a \in DOMAIN PlacedShapes : Start(PlacedShapes, a) = FromBase
    <3>1. PICK b : b = FromBase + k
      OBVIOUS
    <3>2. b \in PlacedYoung
      BY <3>1 DEF PlacedYoung
    <3>3. b \in DOMAIN PlacedShapes
      BY <3>2 DEF PlacedShapes, PlacedObjects
    <3>4. b - FromBase = k
      BY <3>1, <1>1, ShapesAssumption, WordsOfLayout
    <3>5. b - HeaderSize(ShapeOf(b)) = FromBase + Start(YoungShapes, k)
      BY <3>2, <3>4, YoungPlaced
    <3>6. QED BY <3>3, <3>5, <2>4, <1>1, ObjectPlaced
  <2>5. QED BY <2>2, <2>3, <2>4
<1>6. ASSUME NEW a \in DOMAIN PlacedShapes
      PROVE  \/ End(PlacedShapes, a) = IF End(PlacedShapes, a) <= OldEnd THEN OldEnd ELSE FromEnd
             \/ \E b \in DOMAIN PlacedShapes : Start(PlacedShapes, b) = End(PlacedShapes, a)
  <2>1. /\ a \in PlacedYoung => FromBase <= Start(PlacedShapes, a)
        /\ Start(PlacedShapes, a) = a - HeaderSize(ShapeOf(a)) /\ HeaderSize(ShapeOf(a)) \in {2, 3}
        /\ End(PlacedShapes, a) = a + ShapeOf(a).size /\ ShapeOf(a).size \in Nat /\ a \in Nat
    BY ObjectPlaced
  <2>2. a \in PlacedYoung => ~(End(PlacedShapes, a) <= OldEnd)
    BY <2>1, <1>1
  <2>3. a \notin PlacedYoung /\ End(PlacedShapes, a) = OldEnd => End(PlacedShapes, a) <= OldEnd
    BY <1>1
  <2>4. QED BY <2>2, <2>3, PlacedClosely
<1>7. QueueArray \in DOMAIN PlacedShapes /\ PlacedShapes[QueueArray] = QueueShape
  BY QueuePlaced DEF PlacedShapes
<1>8. QED BY <1>2, <1>3, <1>4, <1>5, <1>6, <1>7 DEF Placement


(* The contents the first memory may have. *)
FirstContents(contents, roots, remembered) ==
  /\ contents \in [PlacedObjects -> [StoredSlots -> PlacedObjects \cup {Nil}]]
  /\ roots \in [RootLocations \cup {Association} -> PlacedObjects \cup {Nil}]
  /\ remembered \subseteq PlacedOld \cup {Association}

LEMMA FirstObjects ==
  /\ DOMAIN PlacedShapes = PlacedObjects \cup {QueueArray}
  /\ Known(PlacedShapes) = InitialObjects
  /\ \A a \in PlacedObjects \cup {Nil} : a \in Known(PlacedShapes) /\ a # QueueArray
<1>1. DOMAIN PlacedShapes = PlacedObjects \cup {QueueArray}
  BY DEF PlacedShapes
<1>2. Nil \in LibraryObjects
  BY DEF LibraryObjects
<1>3. Nil # QueueArray /\ QueueArray \notin PlacedObjects
  BY <1>2, QueuePlaced
<1>4. QED BY <1>1, <1>2, <1>3 DEF Known, InitialObjects

(* The header bits of an object. *)
LEMMA FirstBits ==
  ASSUME NEW a \in InitialObjects, NEW remembered
  PROVE  /\ InitialBits(a, remembered) \in HeaderBits
         /\ a \in DOMAIN PlacedShapes =>
              /\ InitialBits(a, remembered).unseenInSpace
              /\ InitialBits(a, remembered).extended = PlacedShapes[a].extended
              /\ InitialBits(a, remembered).hasWeaks = PlacedShapes[a].weak
              /\ ~PlacedShapes[a].extended => InitialBits(a, remembered).size = PlacedShapes[a].size
         /\ a \in LibraryObjects =>
              /\ ~InitialBits(a, remembered).extended /\ ~InitialBits(a, remembered).hasWeaks
              /\ InitialBits(a, remembered).size = IF a = Association THEN 1 ELSE 0
<1>1. a \in DOMAIN PlacedShapes \/ a \in LibraryObjects
  BY FirstObjects DEF InitialObjects
<1>2. a \in DOMAIN PlacedShapes => a \notin LibraryObjects /\ ShapeOf(a) \in Shape /\ PlacedShapes[a] = ShapeOf(a)
  BY ObjectPlaced
<1>3. a \in LibraryObjects => /\ ShapeOf(a) \in Shape /\ ~ShapeOf(a).extended /\ ~ShapeOf(a).weak
                              /\ ShapeOf(a).size = IF a = Association THEN 1 ELSE 0
  BY LibraryPlaced
<1>4. HashOf(a) \in Nat
  <2>1. CASE a \in PlacedObjects
    <3>1. {b \in PlacedObjects : b <= a} \subseteq 0 .. a
      <4>1. \A b \in PlacedObjects : b \in Nat
        BY ObjectPlaced, FirstObjects
      <4>2. QED BY <4>1, <2>1
    <3>2. a \in Nat
      BY <2>1, ObjectPlaced, FirstObjects
    <3>3. IsFiniteSet(0 .. a)
      BY <3>2, FS_Interval
    <3>4. IsFiniteSet({b \in PlacedObjects : b <= a})
      BY <3>1, <3>3, FS_Subset
    <3>5. Cardinality({b \in PlacedObjects : b <= a}) \in Nat
      BY <3>4, FS_CardinalityType
    <3>6. QED BY <2>1, <3>5 DEF HashOf
  <2>2. QED BY <2>1 DEF HashOf
<1>5. PICK shape : shape = ShapeOf(a)
  OBVIOUS
<1>6. shape \in Shape
  BY <1>1, <1>2, <1>3, <1>5
<1>7. InitialBits(a, remembered) =
        [hash |-> HashOf(a), size |-> IF shape.extended THEN 4 ELSE shape.size,
         extended |-> shape.extended, hasWeaks |-> shape.weak,
         unseenInSpace |-> a \notin LibraryObjects, inRememberedSet |-> a \in remembered]
  BY <1>5 DEF InitialBits
<1>8. PICK n \in Nat : n = IF shape.extended THEN 4 ELSE shape.size
  BY <1>6 DEF Shape
<1>9. shape.extended \in BOOLEAN /\ shape.weak \in BOOLEAN
  BY <1>6 DEF Shape
<1>10. InitialBits(a, remembered) \in HeaderBits
  BY <1>4, <1>7, <1>8, <1>9 DEF HeaderBits
<1>11. /\ InitialBits(a, remembered).unseenInSpace = (a \notin LibraryObjects)
       /\ InitialBits(a, remembered).extended = shape.extended
       /\ InitialBits(a, remembered).hasWeaks = shape.weak
       /\ ~shape.extended => InitialBits(a, remembered).size = shape.size
  BY <1>7
<1>12. QED BY <1>1, <1>2, <1>3, <1>5, <1>10, <1>11

(* No two arms of MemoryOf apply to a location of a header.                 *)
LEMMA HeaderPlaced ==
  ASSUME NEW a \in InitialObjects
  PROVE  /\ a - 2 \in Location /\ a - 2 + 2 = a
         /\ a - 2 \notin RootLocations \cup {Association}
         /\ a - 2 # WellKnownRoots /\ a - 2 # RescuedEphemerons /\ a - 2 # QueueArray
         /\ ~(a - 2 + 3 \in PlacedObjects /\ ShapeOf(a - 2 + 3).extended)
         /\ ~Stored(a - 2)
<1>1. a \in Known(PlacedShapes)
  BY FirstObjects
<1>2. Placement(PlacedShapes, OldEnd, FromEnd)
  BY FirstPlacement
<1>3. a \in Nat /\ a - 2 \in Location
  <2>1. a \in DOMAIN PlacedShapes \/ a \in LibraryObjects
    BY <1>1 DEF Known
  <2>2. a \in DOMAIN PlacedShapes => a \in Nat /\ a - 2 \in Location
    BY <1>1, <1>2, KnownObject
  <2>3. a \in LibraryObjects => a \in Nat /\ a - 2 \in Location
    BY LibraryObject
  <2>4. QED BY <2>1, <2>2, <2>3
<1>4. a - 2 + 2 = a
  BY <1>3
<1>5. \A l \in Roots : l # a - 2
  <2>1. \A l \in Roots : l + 2 \notin DOMAIN PlacedShapes /\ l + 2 \notin LibraryObjects
    BY <1>2, RootIsCell
  <2>2. QED BY <2>1, <1>1, <1>4 DEF Known
<1>6. \A b \in Known(PlacedShapes) : a - 2 \notin SlotsAt(PlacedShapes, b)
  <2>1. SUFFICES ASSUME NEW b \in Known(PlacedShapes), NEW l \in SlotsAt(PlacedShapes, b), l = a - 2 PROVE FALSE
    OBVIOUS
  <2>2. l + 2 \notin DOMAIN PlacedShapes /\ l + 2 \notin LibraryObjects
    BY <1>2, SlotIsCell
  <2>3. QED BY <2>1, <2>2, <1>1, <1>4 DEF Known
<1>7. \A b \in PlacedObjects : ShapeOf(b).extended => a - 2 # b - 3
  <2>1. SUFFICES ASSUME NEW b \in PlacedObjects, ShapeOf(b).extended, a - 2 = b - 3 PROVE FALSE
    OBVIOUS
  <2>2. b \in DOMAIN PlacedShapes /\ PlacedShapes[b] = ShapeOf(b)
    BY FirstObjects, ObjectPlaced
  <2>3. /\ b \in Nat /\ Start(PlacedShapes, b) = b - 3 /\ b <= End(PlacedShapes, b) /\ End(PlacedShapes, b) \in Nat
        /\ OldBase <= b - 3
    <3>1. b \in Nat /\ PlacedShapes[b].size \in Nat
          /\ Start(PlacedShapes, b) = b - (IF PlacedShapes[b].extended THEN 3 ELSE 2)
          /\ End(PlacedShapes, b) = b + PlacedShapes[b].size /\ OldBase <= Start(PlacedShapes, b)
      BY <2>2, <1>2, Extents
    <3>2. QED BY <3>1, <2>1, <2>2
  <2>4. CASE a \in LibraryObjects
    BY <2>4, <2>1, <2>3, LibraryObject, Bounds
  <2>5. CASE a \in DOMAIN PlacedShapes
    <3>1. a \in Nat /\ PlacedShapes[a].size \in Nat
          /\ Start(PlacedShapes, a) = a - (IF PlacedShapes[a].extended THEN 3 ELSE 2)
          /\ End(PlacedShapes, a) = a + PlacedShapes[a].size
      BY <2>5, <1>2, Extents
    <3>2. a < b => End(PlacedShapes, a) <= Start(PlacedShapes, b)
      BY <2>5, <2>2, PlacedInOrder
    <3>3. a = b - 1
      BY <2>1, <2>3, <3>1
    <3>4. QED BY <3>1, <3>2, <3>3, <2>3
  <2>6. QED BY <2>4, <2>5, <1>1 DEF Known
<1>8. ~(a - 2 + 3 \in PlacedObjects /\ ShapeOf(a - 2 + 3).extended)
  <2>1. SUFFICES ASSUME NEW b \in PlacedObjects, ShapeOf(b).extended, b = a - 2 + 3 PROVE FALSE
    OBVIOUS
  <2>2. a - 2 = b - 3
    BY <2>1, <1>3
  <2>3. QED BY <2>1, <2>2, <1>7
<1>9. ~Stored(a - 2)
  <2>1. SUFFICES ASSUME NEW b \in PlacedObjects, HoldsStored(b, a - 2) PROVE FALSE
    BY DEF Stored
  <2>2. b \in DOMAIN PlacedShapes /\ PlacedShapes[b] = ShapeOf(b) /\ b \in Nat /\ ShapeOf(b).size \in Nat
    BY FirstObjects, ObjectPlaced
  <2>3. SizeAt(PlacedShapes, b) = ShapeOf(b).size
    BY <2>2 DEF SizeAt
  <2>4. a - 2 \in SlotsAt(PlacedShapes, b)
    BY <2>1, <2>2, <2>3, <1>3 DEF HoldsStored, SlotsAt
  <2>5. QED BY <2>4, <2>2, <1>6 DEF Known
<1>10. a - 2 \notin RootLocations \cup {Association} /\ a - 2 # WellKnownRoots /\ a - 2 # RescuedEphemerons
  <2>1. \A l \in RootLocations \cup {WellKnownRoots, RescuedEphemerons} : l \in Roots
    BY Numbers DEF RootLocations, Roots
  <2>2. Association \in SlotsAt(PlacedShapes, Association) /\ Association \in Known(PlacedShapes)
    <3>1. Association \in LibraryObjects
      BY DEF LibraryObjects
    <3>2. Association \notin DOMAIN PlacedShapes
      BY <3>1, ObjectPlaced
    <3>3. SizeAt(PlacedShapes, Association) = 1 /\ Association \in Nat
      BY <3>2, Numbers DEF SizeAt
    <3>4. QED BY <3>1, <3>3 DEF SlotsAt, Known
  <2>3. QED BY <2>1, <2>2, <1>5, <1>6
<1>11. a - 2 # QueueArray
  <2>1. QueueArray \in DOMAIN PlacedShapes /\ QueueArray \in Nat
    BY FirstObjects, QueuePlaced
  <2>2. SizeAt(PlacedShapes, QueueArray) = QueueShape.size /\ 0 < QueueShape.size /\ QueueShape.size \in Nat
    BY <2>1, QueuePlaced, ObjectPlaced, Numbers DEF SizeAt, QueueShape
  <2>3. QueueArray \in SlotsAt(PlacedShapes, QueueArray)
    BY <2>1, <2>2 DEF SlotsAt
  <2>4. QED BY <2>1, <2>3, <1>6 DEF Known
<1>12. QED BY <1>3, <1>4, <1>8, <1>9, <1>10, <1>11


LEMMA CellPlaced ==
  ASSUME NEW l, IsCell(PlacedShapes, l)
  PROVE  /\ l \in Location /\ l + 2 \notin InitialObjects
         /\ ~(l + 3 \in PlacedObjects /\ ShapeOf(l + 3).extended)
         /\ \A a \in PlacedObjects : ShapeOf(a).extended => l # a - 3
<1>1. Placement(PlacedShapes, OldEnd, FromEnd)
  BY FirstPlacement
<1>2. \/ l \in Roots
      \/ \E a \in Known(PlacedShapes) : l \in SlotsAt(PlacedShapes, a)
  BY DEF IsCell
<1>3. /\ l \in Nat /\ l \in Location
      /\ l + 2 \notin DOMAIN PlacedShapes /\ l + 2 \notin LibraryObjects
      /\ \A b \in DOMAIN PlacedShapes : PlacedShapes[b].extended => l # b - 3
  <2>1. CASE l \in Roots
    BY <2>1, <1>1, RootIsCell
  <2>2. ASSUME NEW a \in Known(PlacedShapes), l \in SlotsAt(PlacedShapes, a)
        PROVE  /\ l \in Nat /\ l \in Location
               /\ l + 2 \notin DOMAIN PlacedShapes /\ l + 2 \notin LibraryObjects
               /\ \A b \in DOMAIN PlacedShapes : PlacedShapes[b].extended => l # b - 3
    BY <2>2, <1>1, SlotIsCell
  <2>3. QED BY <2>1, <2>2, <1>2
<1>4. l + 2 \notin InitialObjects
  BY <1>3, FirstObjects DEF InitialObjects
<1>5. \A b \in PlacedObjects : b \in DOMAIN PlacedShapes /\ PlacedShapes[b] = ShapeOf(b) /\ b \in Nat
  BY FirstObjects, ObjectPlaced
<1>6. \A b \in PlacedObjects : ShapeOf(b).extended => l # b - 3
  BY <1>3, <1>5
<1>7. ASSUME l + 3 \in PlacedObjects, ShapeOf(l + 3).extended PROVE FALSE
  <2>1. PICK b \in PlacedObjects : b = l + 3
    BY <1>7
  <2>2. l = b - 3
    BY <2>1, <1>3
  <2>3. QED BY <2>1, <2>2, <1>6, <1>7
<1>8. QED BY <1>3, <1>4, <1>6, <1>7

LEMMA CellsPlaced ==
  /\ \A l \in RootLocations \cup {Association, WellKnownRoots, RescuedEphemerons, QueueArray} :
       IsCell(PlacedShapes, l)
  /\ \A l \in Location : Stored(l) => IsCell(PlacedShapes, l)
<1>1. \A l \in RootLocations \cup {WellKnownRoots, RescuedEphemerons} : IsCell(PlacedShapes, l)
  BY Numbers DEF RootLocations, Roots, IsCell
<1>2. IsCell(PlacedShapes, Association)
  <2>1. Association \in LibraryObjects
    BY DEF LibraryObjects
  <2>2. Association \notin DOMAIN PlacedShapes
    BY <2>1, ObjectPlaced
  <2>3. SizeAt(PlacedShapes, Association) = 1 /\ Association \in Nat
    BY <2>2, Numbers DEF SizeAt
  <2>4. QED BY <2>1, <2>3 DEF SlotsAt, Known, IsCell
<1>3. IsCell(PlacedShapes, QueueArray)
  <2>1. QueueArray \in DOMAIN PlacedShapes /\ QueueArray \in Nat
    BY FirstObjects, QueuePlaced
  <2>2. SizeAt(PlacedShapes, QueueArray) = QueueShape.size /\ 0 < QueueShape.size /\ QueueShape.size \in Nat
    BY <2>1, QueuePlaced, ObjectPlaced, Numbers DEF SizeAt, QueueShape
  <2>3. QED BY <2>1, <2>2 DEF SlotsAt, Known, IsCell
<1>4. ASSUME NEW l \in Location, Stored(l) PROVE IsCell(PlacedShapes, l)
  <2>1. PICK b \in PlacedObjects : HoldsStored(b, l)
    BY <1>4 DEF Stored
  <2>2. b \in DOMAIN PlacedShapes /\ PlacedShapes[b] = ShapeOf(b) /\ b \in Nat /\ ShapeOf(b).size \in Nat
    BY FirstObjects, ObjectPlaced
  <2>3. SizeAt(PlacedShapes, b) = ShapeOf(b).size /\ l \in Nat
    BY <2>2, Bounds DEF SizeAt
  <2>4. l \in SlotsAt(PlacedShapes, b)
    BY <2>1, <2>2, <2>3 DEF HoldsStored, SlotsAt
  <2>5. QED BY <2>2, <2>4 DEF Known, IsCell
<1>5. QED BY <1>1, <1>2, <1>3, <1>4

LEMMA FirstHeader ==
  ASSUME NEW contents, NEW roots, NEW remembered, FirstContents(contents, roots, remembered),
         NEW m, m = MemoryOf(contents, roots, remembered), NEW a \in InitialObjects
  PROVE  m[a - 2] = Bits(InitialBits(a, remembered))
<1>1. PICK l : l = a - 2
  OBVIOUS
<1>2. /\ l \in Location /\ l + 2 = a
      /\ l \notin RootLocations \cup {Association}
      /\ l # WellKnownRoots /\ l # RescuedEphemerons /\ l # QueueArray
      /\ ~(l + 3 \in PlacedObjects /\ ShapeOf(l + 3).extended)
      /\ ~Stored(l)
  BY <1>1, HeaderPlaced
<1>3. l \notin DOMAIN roots
  BY <1>2 DEF FirstContents
<1>4. ~Unset(l) /\ \A b \in PlacedObjects : ~HoldsStored(b, l)
  BY <1>2 DEF Unset, Stored
<1>5. l + 2 \in InitialObjects /\ m[l] = Bits(InitialBits(l + 2, remembered))
  BY <1>2, <1>3, <1>4, MemoryWord
<1>6. QED BY <1>1, <1>2, <1>5

LEMMA FirstExtension ==
  ASSUME NEW contents, NEW roots, NEW remembered, FirstContents(contents, roots, remembered),
         NEW m, m = MemoryOf(contents, roots, remembered), NEW a \in PlacedObjects, ShapeOf(a).extended
  PROVE  m[a - 3] = Enlarged(a)
<1>1. PICK l : l = a - 3
  OBVIOUS
<1>2. a \in DOMAIN PlacedShapes /\ PlacedShapes[a] = ShapeOf(a) /\ a \in Nat
  BY FirstObjects, ObjectPlaced
<1>3. l \in Location /\ l + 3 = a
  BY <1>1, <1>2, FirstPlacement, KnownObject DEF Known
<1>4. ~IsCell(PlacedShapes, l)
  BY <1>1, CellPlaced
<1>5. /\ l \notin RootLocations \cup {Association}
      /\ l # WellKnownRoots /\ l # RescuedEphemerons /\ l # QueueArray /\ ~Stored(l)
  BY <1>3, <1>4, CellsPlaced
<1>6. l \notin DOMAIN roots
  BY <1>5 DEF FirstContents
<1>7. ~Unset(l) /\ \A b \in PlacedObjects : ~HoldsStored(b, l)
  BY <1>3, <1>5 DEF Unset, Stored
<1>8. l + 2 \notin InitialObjects
  <2>1. SUFFICES ASSUME NEW b \in InitialObjects, b = l + 2 PROVE FALSE
    OBVIOUS
  <2>2. ~(b - 2 + 3 \in PlacedObjects /\ ShapeOf(b - 2 + 3).extended)
    BY HeaderPlaced
  <2>3. b - 2 + 3 = a
    BY <2>1, <1>1, <1>2
  <2>4. QED BY <2>2, <2>3
<1>9. m[l] = Enlarged(l + 3)
  BY <1>3, <1>5, <1>6, <1>7, <1>8, MemoryWord
<1>10. QED BY <1>1, <1>3, <1>9

(* A cell holds a reference, except the first slot of the queue. *)
LEMMA FirstCell ==
  ASSUME NEW contents, NEW roots, NEW remembered, FirstContents(contents, roots, remembered),
         NEW m, m = MemoryOf(contents, roots, remembered), NEW l, IsCell(PlacedShapes, l)
  PROVE  /\ l # QueueArray => \E a \in InitialObjects : m[l] = Oop(a) /\ (a = QueueArray => l = RescuedEphemerons)
         /\ l = WellKnownRoots => m[l] = Oop(Association)
         /\ l = RescuedEphemerons => m[l] = Oop(QueueArray)
         /\ l = QueueArray => m[l] = Smi(2)
         /\ l = Nil - 1 \/ l = ResidueObject - 1 => m[l] = Oop(Nil)
<1>1. /\ l \in Location /\ l + 2 \notin InitialObjects
      /\ ~(l + 3 \in PlacedObjects /\ ShapeOf(l + 3).extended)
  BY CellPlaced
<1>2. \/ l \in DOMAIN roots /\ m[l] = Oop(roots[l])
      \/ l = WellKnownRoots /\ m[l] = Oop(Association)
      \/ l = RescuedEphemerons /\ m[l] = Oop(QueueArray)
      \/ l = QueueArray /\ m[l] = Smi(2)
      \/ \E a \in PlacedObjects : HoldsStored(a, l) /\ m[l] = Oop(contents[a][l - a])
      \/ l \notin DOMAIN roots /\ Unset(l) /\ ~Stored(l) /\ m[l] = Oop(Nil)
  BY <1>1, MemoryWord
<1>3. DOMAIN roots = RootLocations \cup {Association}
  BY DEF FirstContents
<1>4. /\ WellKnownRoots \notin DOMAIN roots /\ RescuedEphemerons \notin DOMAIN roots
      /\ QueueArray \notin DOMAIN roots /\ Nil - 1 \notin DOMAIN roots /\ ResidueObject - 1 \notin DOMAIN roots
      /\ WellKnownRoots # RescuedEphemerons /\ WellKnownRoots # QueueArray /\ RescuedEphemerons # QueueArray
      /\ \A x \in {Nil, ResidueObject} : x - 1 # WellKnownRoots /\ x - 1 # RescuedEphemerons /\ x - 1 # QueueArray
  BY <1>3, Numbers DEF RootLocations
<1>5. ASSUME NEW a \in PlacedObjects, HoldsStored(a, l)
      PROVE  /\ l # WellKnownRoots /\ l # RescuedEphemerons /\ l # QueueArray
             /\ l # Nil - 1 /\ l # ResidueObject - 1
             /\ contents[a][l - a] \in PlacedObjects \cup {Nil}
  <2>1. a \in DOMAIN PlacedShapes /\ PlacedShapes[a] = ShapeOf(a) /\ a \in Nat /\ ShapeOf(a).size \in Nat
        /\ a \notin LibraryObjects /\ a # QueueArray
    BY FirstObjects, ObjectPlaced
  <2>2. SizeAt(PlacedShapes, a) = ShapeOf(a).size /\ l \in Nat
    BY <2>1, <1>1, Bounds DEF SizeAt
  <2>3. l \in SlotsAt(PlacedShapes, a)
    BY <1>5, <2>1, <2>2 DEF HoldsStored, SlotsAt
  <2>4. /\ l \notin Roots /\ \A b \in Known(PlacedShapes) : l \in SlotsAt(PlacedShapes, b) => a = b
    BY <2>1, <2>3, FirstPlacement, SlotIsCell DEF Known
  <2>5. l # WellKnownRoots /\ l # RescuedEphemerons
    BY <2>4, Numbers DEF Roots
  <2>6. ASSUME NEW b \in {Nil, ResidueObject}, l = b - 1 PROVE FALSE
    <3>1. b \in LibraryObjects /\ b \in Nat /\ b # Association
      BY <2>6, Numbers DEF LibraryObjects
    <3>2. SizeAt(PlacedShapes, b) \in Nat /\ b \in Known(PlacedShapes)
      BY <3>1, FirstPlacement, KnownObject DEF Known
    <3>3. l \in SlotsAt(PlacedShapes, b)
      BY <2>6, <3>1, <3>2 DEF SlotsAt
    <3>4. QED BY <2>1, <2>4, <3>1, <3>2, <3>3
  <2>7. l # QueueArray
    <3>1. QueueArray \in DOMAIN PlacedShapes /\ QueueArray \in Nat
      BY FirstObjects, QueuePlaced
    <3>2. SizeAt(PlacedShapes, QueueArray) = QueueShape.size /\ 0 < QueueShape.size /\ QueueShape.size \in Nat
      BY <3>1, QueuePlaced, ObjectPlaced, Numbers DEF SizeAt, QueueShape
    <3>3. QueueArray \in SlotsAt(PlacedShapes, QueueArray)
      BY <3>1, <3>2 DEF SlotsAt
    <3>4. QED BY <3>1, <3>3, <2>1, <2>4 DEF Known
  <2>8. contents[a][l - a] \in PlacedObjects \cup {Nil}
    <3>1. contents[a] \in [StoredSlots -> PlacedObjects \cup {Nil}]
      BY DEF FirstContents
    <3>2. l - a \in StoredSlots
      BY <1>5 DEF HoldsStored
    <3>3. QED BY <3>1, <3>2
  <2>9. QED BY <2>5, <2>6, <2>7, <2>8
<1>6. \A x \in PlacedObjects \cup {Nil} : x \in InitialObjects /\ x # QueueArray
  BY FirstObjects
<1>7. Association \in InitialObjects /\ Association # QueueArray /\ QueueArray \in InitialObjects
  BY Numbers DEF InitialObjects, LibraryObjects
<1>8. CASE l \in DOMAIN roots /\ m[l] = Oop(roots[l])
  <2>1. roots[l] \in PlacedObjects \cup {Nil}
    BY <1>8 DEF FirstContents
  <2>2. QED BY <2>1, <1>4, <1>6, <1>8
<1>9. CASE \E a \in PlacedObjects : HoldsStored(a, l) /\ m[l] = Oop(contents[a][l - a])
  <2>1. PICK a \in PlacedObjects : HoldsStored(a, l) /\ m[l] = Oop(contents[a][l - a])
    BY <1>9
  <2>2. QED BY <2>1, <1>5, <1>6
<1>10. CASE l \notin DOMAIN roots /\ Unset(l) /\ ~Stored(l) /\ m[l] = Oop(Nil)
  BY <1>6, <1>10 DEF Unset
<1>11. CASE l = WellKnownRoots /\ m[l] = Oop(Association)
  BY <1>4, <1>7, <1>11
<1>12. CASE l = RescuedEphemerons /\ m[l] = Oop(QueueArray)
  BY <1>4, <1>7, <1>12
<1>13. CASE l = QueueArray /\ m[l] = Smi(2)
  BY <1>4, <1>7, <1>13
<1>14. QED BY <1>2, <1>8, <1>9, <1>10, <1>11, <1>12, <1>13


LEMMA FirstProper ==
  ASSUME NEW contents, NEW roots, NEW remembered, FirstContents(contents, roots, remembered),
         NEW m, m = MemoryOf(contents, roots, remembered), NEW l \in Location
  PROVE  /\ Proper(m[l])
         /\ Is("bits", m[l]) => l + 2 \in InitialObjects
<1>1. CASE IsCell(PlacedShapes, l)
  <2>1. /\ l # QueueArray => \E a \in InitialObjects : m[l] = Oop(a)
        /\ l = QueueArray => m[l] = Smi(2)
    BY <1>1, FirstCell
  <2>2. \A a \in InitialObjects : a \in Location
    BY FirstObjects, FirstPlacement, KnownObject
  <2>3. Proper(Smi(2)) /\ \A a \in InitialObjects : Proper(Oop(a))
    BY <2>2, WordsMade, Numbers
  <2>4. Proper(m[l])
    BY <2>1, <2>3
  <2>5. ~Is("bits", m[l])
    BY <2>1, Tags
  <2>6. QED BY <2>4, <2>5
<1>2. CASE ~IsCell(PlacedShapes, l)
  <2>1. /\ l \notin RootLocations \cup {Association}
        /\ l # WellKnownRoots /\ l # RescuedEphemerons /\ l # QueueArray /\ ~Stored(l)
    BY <1>2, CellsPlaced
  <2>2. l \notin DOMAIN roots
    BY <2>1 DEF FirstContents
  <2>3. \A a \in PlacedObjects : ~HoldsStored(a, l)
    BY <2>1 DEF Stored
  <2>4. \/ l + 2 \in InitialObjects /\ m[l] = Bits(InitialBits(l + 2, remembered))
        \/ l + 3 \in PlacedObjects /\ ShapeOf(l + 3).extended /\ m[l] = Enlarged(l + 3)
        \/ m[l] = Oop(Nil)
    BY <2>1, <2>2, <2>3, MemoryWord
  <2>5. CASE l + 2 \in InitialObjects /\ m[l] = Bits(InitialBits(l + 2, remembered))
    <3>1. InitialBits(l + 2, remembered) \in HeaderBits
      BY <2>5, FirstBits
    <3>2. QED BY <2>5, <3>1, WordsMade
  <2>6. CASE l + 3 \in PlacedObjects /\ m[l] = Enlarged(l + 3)
    <3>1. PICK shape \in Shape : shape = ShapeOf(l + 3)
      BY <2>6, FirstObjects, ObjectPlaced
    <3>2. PICK e \in [size : Nat, isEphemeron : BOOLEAN] : e = [size |-> shape.size, isEphemeron |-> shape.ephemeron]
      BY DEF Shape
    <3>3. m[l] = Extension(e)
      BY <2>6, <3>1, <3>2 DEF Enlarged
    <3>4. Proper(m[l])
      BY <3>3, WordsMade
    <3>5. ~Is("bits", m[l])
      BY <3>3, Tags
    <3>6. QED BY <3>4, <3>5
  <2>7. CASE m[l] = Oop(Nil)
    <3>1. Nil \in Location
      BY Numbers, Bounds
    <3>2. QED BY <2>7, <3>1, WordsMade, Tags
  <2>8. QED BY <2>4, <2>5, <2>6, <2>7
<1>3. QED BY <1>1, <1>2

LEMMA FirstHeap ==
  ASSUME NEW contents, NEW roots, NEW remembered, FirstContents(contents, roots, remembered),
         NEW m, m = MemoryOf(contents, roots, remembered)
  PROVE  Heap(m, PlacedShapes, OldEnd, FromEnd)
<1>1. DOMAIN m = Location
  BY DEF MemoryOf
<1>2. \A l \in Location : Proper(m[l])
  BY FirstProper
<1>3. Placement(PlacedShapes, OldEnd, FromEnd)
  BY FirstPlacement
<1>4. Fits(m, PlacedShapes, OldEnd, FromEnd)
  <2>1. ASSUME NEW a \in DOMAIN PlacedShapes
        PROVE  /\ Is("bits", m[a - 2])
               /\ Value(m[a - 2]).unseenInSpace
               /\ Value(m[a - 2]).extended = PlacedShapes[a].extended
               /\ Value(m[a - 2]).hasWeaks = PlacedShapes[a].weak
               /\ ~PlacedShapes[a].extended => Value(m[a - 2]).size = PlacedShapes[a].size
    <3>1. a \in InitialObjects
      BY FirstObjects DEF Known
    <3>2. m[a - 2] = Bits(InitialBits(a, remembered))
      BY <3>1, FirstHeader
    <3>3. Is("bits", m[a - 2]) /\ Value(m[a - 2]) = InitialBits(a, remembered)
      BY <3>2, Tags
    <3>4. QED BY <3>1, <3>3, FirstBits
  <2>2. ASSUME NEW a \in DOMAIN PlacedShapes, PlacedShapes[a].extended
        PROVE  m[a - 3] = Extension([size |-> PlacedShapes[a].size, isEphemeron |-> PlacedShapes[a].ephemeron])
    <3>1. a # QueueArray /\ PlacedShapes[a] = ShapeOf(a)
      BY <2>2, ObjectPlaced, QueuePlaced
    <3>2. a \in PlacedObjects /\ ShapeOf(a).extended
      BY <2>2, <3>1, FirstObjects
    <3>3. m[a - 3] = Enlarged(a)
      BY <3>2, FirstExtension
    <3>4. QED BY <3>1, <3>3 DEF Enlarged
  <2>3. ASSUME NEW a \in (OldBase + 2 .. OldEnd) \cup (FromBase + 2 .. FromEnd), Is("bits", m[a - 2])
        PROVE  a \in DOMAIN PlacedShapes
    <3>1. OldBase \in Nat /\ 10 <= OldBase /\ OldEnd \in Nat /\ OldEnd <= FromBase /\ FromBase <= FromEnd
          /\ FromBase \in Nat /\ FromEnd \in Nat /\ OldBase <= FromBase
      BY SpaceSizes, Bounds
    <3>2. PICK l \in Location : l = a - 2 /\ l + 2 = a /\ a > 6
      BY <3>1, Bounds
    <3>3. a \in InitialObjects
      BY <3>2, <2>3, FirstProper
    <3>4. a \notin LibraryObjects
      BY <3>2, Numbers
    <3>5. QED BY <3>3, <3>4, FirstObjects DEF Known
  <2>4. QED BY <2>1, <2>2, <2>3 DEF Fits
<1>5. LibraryFits(m)
  <2>1. ASSUME NEW a \in LibraryObjects
        PROVE  /\ Is("bits", m[a - 2])
               /\ ~Value(m[a - 2]).extended /\ ~Value(m[a - 2]).hasWeaks
               /\ Value(m[a - 2]).size = IF a = Association THEN 1 ELSE 0
    <3>1. a \in InitialObjects
      BY DEF InitialObjects
    <3>2. m[a - 2] = Bits(InitialBits(a, remembered))
      BY <3>1, FirstHeader
    <3>3. Is("bits", m[a - 2]) /\ Value(m[a - 2]) = InitialBits(a, remembered)
      BY <3>2, Tags
    <3>4. QED BY <3>1, <3>3, FirstBits
  <2>2. QED BY <2>1 DEF LibraryFits
<1>6. CellsHold(m, PlacedShapes)
  <2>1. m[WellKnownRoots] = Oop(Association) /\ m[RescuedEphemerons] = Oop(QueueArray)
        /\ m[QueueArray] = Smi(2)
    BY FirstCell, CellsPlaced
  <2>2. \A a \in {Nil, ResidueObject} : \E b \in LibraryObjects : m[a - 1] = Oop(b)
    <3>1. ASSUME NEW a \in {Nil, ResidueObject} PROVE m[a - 1] = Oop(Nil)
      <4>1. a \in LibraryObjects /\ a \in Nat
        BY Numbers DEF LibraryObjects
      <4>2. SizeAt(PlacedShapes, a) \in Nat
        BY <4>1, FirstPlacement, KnownObject DEF Known
      <4>3. PICK l : l = a - 1
        OBVIOUS
      <4>4. IsCell(PlacedShapes, l)
        BY <4>1, <4>2, <4>3 DEF IsCell, Known, SlotsAt
      <4>5. l = Nil - 1 \/ l = ResidueObject - 1
        BY <4>3
      <4>6. m[l] = Oop(Nil)
        BY <4>4, <4>5, FirstCell
      <4>7. QED BY <4>3, <4>6
    <3>2. Nil \in LibraryObjects
      BY DEF LibraryObjects
    <3>3. QED BY <3>1, <3>2
  <2>3. \E n \in 2 .. QueueSize + 2 :
          /\ m[QueueArray] = Smi(n)
          /\ \A j \in 1 .. n - 2 : \E e \in DOMAIN PlacedShapes : m[QueueArray + j] = Oop(e) /\ PlacedShapes[e].ephemeron
    <3>1. 2 \in 2 .. QueueSize + 2 /\ \A j \in 1 .. 2 - 2 : FALSE
      BY Numbers
    <3>2. QED BY <2>1, <3>1
  <2>4. \A l \in Location : IsCell(PlacedShapes, l) /\ l # QueueArray =>
          \E a \in Known(PlacedShapes) : m[l] = Oop(a) /\ (a = QueueArray => l = RescuedEphemerons)
    BY FirstCell, FirstObjects
  <2>5. QED BY <2>1, <2>2, <2>3, <2>4 DEF CellsHold
<1>7. QED BY <1>1, <1>2, <1>3, <1>4, <1>5, <1>6 DEF Heap


-----------------------------------------------------------------------------
LEMMA FirstLeads ==
  ASSUME NEW contents, NEW roots, NEW remembered, FirstContents(contents, roots, remembered),
         NEW m, m = MemoryOf(contents, roots, remembered)
  PROVE  Leads(m, {}, LateSlots)
<1>1. SUFFICES ASSUME NEW l \in LateSlots, NEW x, m[l] = Oop(x)
               PROVE  x \in {} \cup LateObjects
  BY DEF Leads
<1>2. CASE l \in {Nil - 1, ResidueObject - 1}
  <2>1. PICK b \in {Nil, ResidueObject} : l = b - 1
    BY <1>2
  <2>2. b \in LibraryObjects /\ b \in Nat
    BY Numbers DEF LibraryObjects
  <2>3. SizeAt(PlacedShapes, b) \in Nat /\ b \in Known(PlacedShapes)
    BY <2>2, FirstPlacement, KnownObject DEF Known
  <2>4. l \in SlotsAt(PlacedShapes, b)
    BY <2>1, <2>2, <2>3 DEF SlotsAt
  <2>5. IsCell(PlacedShapes, l)
    BY <2>3, <2>4 DEF IsCell
  <2>6. m[l] = Oop(Nil)
    BY <1>2, <2>5, FirstCell
  <2>7. x = Nil
    <3>1. Value(Oop(x)) = x /\ Value(Oop(Nil)) = Nil
      BY Tags
    <3>2. QED BY <1>1, <2>6, <3>1
  <2>8. QED BY <2>7 DEF LateObjects
<1>3. CASE l \in QueueArray - 1 .. QueueArray + QueueSize
  <2>1. QueueArray \in DOMAIN PlacedShapes /\ QueueArray \in Nat /\ QueueArray \in Known(PlacedShapes)
        /\ l \in Int /\ l > RescuedEphemerons /\ RescuedEphemerons \in Nat
    BY <1>3, FirstObjects, QueuePlaced, Numbers DEF Known
  <2>2. SizeAt(PlacedShapes, QueueArray) = QueueSize + 1 /\ QueueSize \in Nat
    BY <2>1, QueuePlaced, ObjectPlaced, Numbers DEF SizeAt, QueueShape
  <2>3. l \in SlotsAt(PlacedShapes, QueueArray)
    BY <1>3, <2>1, <2>2 DEF SlotsAt
  <2>4. /\ l \in Location /\ l + 2 \notin InitialObjects
        /\ ~(l + 3 \in PlacedObjects /\ ShapeOf(l + 3).extended)
    <3>1. IsCell(PlacedShapes, l)
      BY <2>1, <2>3 DEF IsCell
    <3>2. QED BY <3>1, CellPlaced
  <2>5. \/ l \in DOMAIN roots /\ m[l] = Oop(roots[l])
        \/ l = WellKnownRoots /\ m[l] = Oop(Association)
        \/ l = RescuedEphemerons /\ m[l] = Oop(QueueArray)
        \/ l = QueueArray /\ m[l] = Smi(2)
        \/ \E a \in PlacedObjects : HoldsStored(a, l) /\ m[l] = Oop(contents[a][l - a])
        \/ l \notin DOMAIN roots /\ Unset(l) /\ ~Stored(l) /\ m[l] = Oop(Nil)
    BY <2>4, MemoryWord
  <2>6. l \notin DOMAIN roots /\ l # WellKnownRoots /\ l # RescuedEphemerons
    <3>1. DOMAIN roots = RootLocations \cup {Association}
      BY DEF FirstContents
    <3>2. QED BY <2>1, <3>1, Numbers DEF RootLocations
  <2>7. ASSUME NEW a \in PlacedObjects, HoldsStored(a, l) PROVE FALSE
    <3>1. a \in DOMAIN PlacedShapes /\ PlacedShapes[a] = ShapeOf(a) /\ a \in Nat
          /\ ShapeOf(a).size \in Nat /\ a # QueueArray
      BY FirstObjects, ObjectPlaced
    <3>2. SizeAt(PlacedShapes, a) = ShapeOf(a).size
      BY <3>1 DEF SizeAt
    <3>3. l \in SlotsAt(PlacedShapes, a)
      BY <2>1, <2>7, <3>1, <3>2 DEF HoldsStored, SlotsAt
    <3>4. \A b \in Known(PlacedShapes) : l \in SlotsAt(PlacedShapes, b) => a = b
      BY <3>1, <3>3, FirstPlacement, SlotIsCell DEF Known
    <3>5. QED BY <2>1, <2>3, <3>1, <3>4
  <2>8. QED BY <1>1, <2>5, <2>6, <2>7, Tags DEF LateObjects
<1>4. QED BY <1>2, <1>3 DEF LateSlots

LEMMA FirstAssociation ==
  ASSUME NEW contents, NEW roots, NEW remembered, FirstContents(contents, roots, remembered),
         NEW m, m = MemoryOf(contents, roots, remembered)
  PROVE  LeadsToNil(m)
<1>1. PICK l : l = Association - 1
  OBVIOUS
<1>2. l = 5 /\ Association \in LibraryObjects /\ Association \in Nat
  BY <1>1, Numbers DEF LibraryObjects
<1>3. SizeAt(PlacedShapes, Association) \in Nat /\ Association \in Known(PlacedShapes)
  BY <1>2, FirstPlacement, KnownObject DEF Known
<1>4. l \in SlotsAt(PlacedShapes, Association)
  BY <1>1, <1>2, <1>3 DEF SlotsAt
<1>5. /\ l \in Location /\ l + 2 \notin InitialObjects
      /\ ~(l + 3 \in PlacedObjects /\ ShapeOf(l + 3).extended)
  <2>1. IsCell(PlacedShapes, l)
    BY <1>3, <1>4 DEF IsCell
  <2>2. QED BY <2>1, CellPlaced
<1>6. \/ l \in DOMAIN roots /\ m[l] = Oop(roots[l])
      \/ l = WellKnownRoots /\ m[l] = Oop(Association)
      \/ l = RescuedEphemerons /\ m[l] = Oop(QueueArray)
      \/ l = QueueArray /\ m[l] = Smi(2)
      \/ \E a \in PlacedObjects : HoldsStored(a, l) /\ m[l] = Oop(contents[a][l - a])
      \/ l \notin DOMAIN roots /\ Unset(l) /\ ~Stored(l) /\ m[l] = Oop(Nil)
  BY <1>5, MemoryWord
<1>7. l \notin DOMAIN roots /\ l # WellKnownRoots /\ l # RescuedEphemerons /\ l # QueueArray
  <2>1. DOMAIN roots = RootLocations \cup {Association}
    BY DEF FirstContents
  <2>2. QED BY <1>2, <2>1, Numbers DEF RootLocations
<1>8. ASSUME NEW a \in PlacedObjects, HoldsStored(a, l) PROVE FALSE
  <2>1. a \in DOMAIN PlacedShapes /\ PlacedShapes[a] = ShapeOf(a) /\ a \in Nat /\ ShapeOf(a).size \in Nat
        /\ a \notin LibraryObjects
    BY FirstObjects, ObjectPlaced
  <2>2. SizeAt(PlacedShapes, a) = ShapeOf(a).size
    BY <2>1 DEF SizeAt
  <2>3. l \in SlotsAt(PlacedShapes, a)
    BY <1>2, <1>8, <2>1, <2>2 DEF HoldsStored, SlotsAt
  <2>4. \A b \in Known(PlacedShapes) : l \in SlotsAt(PlacedShapes, b) => a = b
    BY <1>5, <2>1, <2>3, FirstPlacement, SlotIsCell DEF Known
  <2>5. QED BY <1>2, <1>3, <1>4, <2>1, <2>4
<1>9. QED BY <1>1, <1>6, <1>7, <1>8 DEF LeadsToNil

(* The invariant of the cycle.  It holds of every heap of the shapes given. *)
LEMMA CycleInit ==
  ASSUME Init
  PROVE  CycleInv
<1>1. PICK contents \in [PlacedObjects -> [StoredSlots -> PlacedObjects \cup {Nil}]],
           roots \in [RootLocations \cup {Association} -> PlacedObjects \cup {Nil}] :
        LET remembered ==
              {a \in PlacedOld : RefersToYoung(contents, a)}
                \cup IF roots[Association] \in PlacedYoung THEN {Association} ELSE {}
        IN  /\ memory = MemoryOf(contents, roots, remembered)
            /\ rememberedSet \in SetToSeqs(remembered)
  BY DEF Init
<1>2. PICK remembered : /\ remembered \subseteq PlacedOld \cup {Association}
                        /\ memory = MemoryOf(contents, roots, remembered)
                        /\ rememberedSet \in SetToSeqs(remembered)
  BY <1>1
<1>3. FirstContents(contents, roots, remembered)
  BY <1>2 DEF FirstContents
<1>4. fromNextFree = FromEnd /\ oldNextFree = OldEnd
  <2>1. WordsOf(YoungShapes) \in Nat
    BY ShapesAssumption, WordsOfLayout
  <2>2. QED BY <2>1, SpaceSizes DEF Init
<1>5. Heap(memory, PlacedShapes, oldNextFree, fromNextFree)
  BY <1>2, <1>3, <1>4, FirstHeap
<1>6. rememberedSet \in Seq(Known(PlacedShapes))
  <2>1. remembered \subseteq Known(PlacedShapes)
    <3>1. Association \in LibraryObjects
      BY DEF LibraryObjects
    <3>2. PlacedOld \subseteq DOMAIN PlacedShapes
      BY DEF PlacedShapes, PlacedObjects
    <3>3. QED BY <1>2, <3>1, <3>2 DEF Known
  <2>2. \A a \in remembered : a \in 0 .. FromEnd + 2
    BY <2>1, <1>5, KnownObject, Bounds DEF Heap
  <2>3. IsFiniteSet(0 .. FromEnd + 2)
    BY Bounds, FS_Interval
  <2>4. Cardinality(remembered) \in Nat
    <3>1. remembered \subseteq 0 .. FromEnd + 2
      BY <2>2
    <3>2. IsFiniteSet(remembered)
      BY <2>3, <3>1, FS_Subset
    <3>3. QED BY <3>2, FS_CardinalityType
  <2>5. rememberedSet \in [1 .. Cardinality(remembered) -> remembered]
    BY <1>2 DEF SetToSeqs
  <2>6. QED BY <2>1, <2>4, <2>5
<1>7. Unscanned
  <2>1. Frame \in Location /\ Frame = 8
    BY Numbers, Bounds
  <2>2. stack = << >> /\ scan = [scanned |-> Frame, index |-> 0, limit |-> 0]
    BY DEF Init, NoScan, Scan
  <2>3. scan \in ScanType /\ ~(scan.index < scan.limit)
    BY <2>1, <2>2 DEF ScanType
  <2>4. QED BY <2>2, <2>3 DEF Unscanned
<1>8. NothingWaits
  BY DEF Init, NothingWaits
<1>9. /\ i = 1 /\ pc = "mutator" /\ buffer = OldBase /\ reference = None /\ auxNextFree = OldBase
      /\ newToOld = << >> /\ copy = memory /\ rescan = FALSE /\ collections = 0 /\ ops = 0
  BY DEF Init
<1>10. auxNextFree \in OldBase .. FromBase
  BY <1>9, Bounds
<1>11. CopyOK(copy)
  BY <1>5, <1>9, HeapCopyOK
<1>12. DOMAIN newToOld = {} /\ Range(newToOld) = {}
  BY <1>9 DEF Range
<1>13. NamesOK(newToOld)
  BY <1>12 DEF NamesOK
<1>14. EqualObjects(memory, copy, PlacedShapes, oldNextFree, newToOld)
  BY <1>12 DEF EqualObjects
<1>15. ASSUME NoEphemeronPlaced PROVE NoEphemeron(PlacedShapes)
  <2>1. ASSUME NEW a \in DOMAIN PlacedShapes PROVE ~PlacedShapes[a].ephemeron
    <3>1. PlacedShapes[a] = ShapeOf(a) /\ (a \in PlacedOld \/ a \in PlacedYoung \/ a = QueueArray)
      BY ObjectPlaced, FirstObjects DEF PlacedObjects
    <3>2. CASE a \in PlacedOld
      BY <1>15, <3>1, <3>2, OldPlaced DEF NoEphemeronPlaced
    <3>3. CASE a \in PlacedYoung
      BY <1>15, <3>1, <3>3, YoungPlaced DEF NoEphemeronPlaced
    <3>4. CASE a = QueueArray
      BY <3>1, <3>4, QueuePlaced
    <3>5. QED BY <3>1, <3>2, <3>3, <3>4
  <2>2. QED BY <2>1 DEF NoEphemeron
<1>16. Undisturbed(PlacedShapes, memory)
  <2>1. Leads(memory, {}, LateSlots)
    BY <1>2, <1>3, FirstLeads
  <2>2. LeadsNowhere(memory)
    BY <2>1 DEF Leads, LeadsNowhere
  <2>3. LeadsToNil(memory)
    BY <1>2, <1>3, FirstAssociation
  <2>4. QED BY <1>15, <2>2, <2>3 DEF Undisturbed
<1>161. QuietInv(PlacedShapes)
  BY <1>5, <1>6, <1>7, <1>8, <1>9, <1>10, <1>11, <1>13, <1>14, <1>16 DEF QuietInv, QuietLabels
<1>17. Counters
  <2>1. 0 \in 0 .. MaxCollections /\ 0 \in 0 .. MaxOps
    BY NumbersAssumption
  <2>2. rescan \in BOOLEAN
    BY <1>9
  <2>3. QED BY <1>9, <2>1, <2>2 DEF Counters
<1>18. FirstQueue
  BY <1>2, <1>3, <1>9, FirstLeads DEF FirstQueue
<1>19. QED BY <1>161, <1>17, <1>18 DEF CycleInv, Phase


(* What it says of the properties, in each of the four phases.              *)
LEMMA QuietSays ==
  ASSUME NEW g, QuietInv(g)
  PROVE  Typed /\ NoSlotThreadedTwice /\ ThreadsUndoable /\ CompactsAsPlanned /\ MovedObjectsEqual
<1>1. NoSlotThreadedTwice
  BY DEF QuietInv, Unscanned, NoSlotThreadedTwice
<1>2. ~Marking /\ ~Compacting
  BY DEF QuietInv, QuietLabels, Marking, Compacting
<1>3. QED BY <1>1, <1>2, QuietTyped, QuietMovedObjectsEqual DEF ThreadsUndoable, CompactsAsPlanned

LEMMA MarkSays ==
  ASSUME NEW g, NEW u, NEW L, NEW M, NEW T, MarkInv(g, u, L, M, T)
  PROVE  Typed /\ NoSlotThreadedTwice /\ ThreadsUndoable /\ CompactsAsPlanned /\ MovedObjectsEqual
<1>1. ~Compacting /\ pc # "mutator"
  BY DEF MarkInv, MarkLabels, Compacting
<1>2. NoSlotThreadedTwice /\ ThreadsUndoable
  BY MarkNoSlotThreadedTwice, MarkThreadsUndoable
<1>3. Typed
  BY MarkTyped
<1>4. QED BY <1>1, <1>2, <1>3 DEF CompactsAsPlanned, MovedObjectsEqual

LEMMA WalkSays ==
  ASSUME NEW g, NEW u, NEW L, NEW M, NEW n, WalkInv(g, u, L, M, n)
  PROVE  Typed /\ NoSlotThreadedTwice /\ ThreadsUndoable /\ CompactsAsPlanned /\ MovedObjectsEqual
<1>1. ~Compacting /\ ~Marking /\ pc # "mutator" /\ ~(scan.index < scan.limit)
  BY DEF WalkInv, Idle, PlanLabels, Compacting, Marking
<1>2. Typed
  BY WalkTyped
<1>3. QED BY <1>1, <1>2 DEF NoSlotThreadedTwice, ThreadsUndoable, CompactsAsPlanned, MovedObjectsEqual

LEMMA CompactSays ==
  ASSUME NEW g, NEW u, NEW M, NEW s, CompactInv(g, u, M, s)
  PROVE  Typed /\ NoSlotThreadedTwice /\ ThreadsUndoable /\ CompactsAsPlanned /\ MovedObjectsEqual
<1>1. ~Marking /\ pc # "mutator" /\ ~(scan.index < scan.limit)
  BY DEF CompactInv, Idle, Marking
<1>2. Typed /\ CompactsAsPlanned
  BY CompactTyped, CompactInvPlanned
<1>3. QED BY <1>1, <1>2 DEF NoSlotThreadedTwice, ThreadsUndoable, MovedObjectsEqual

LEMMA CycleSays ==
  ASSUME CycleInv
  PROVE  TypeOK /\ NoSlotThreadedTwice /\ ThreadsUndoable /\ CompactsAsPlanned /\ MovedObjectsEqual
<1>1. PICK g : Phase(g)
  BY DEF CycleInv
<1>2. Typed /\ NoSlotThreadedTwice /\ ThreadsUndoable /\ CompactsAsPlanned /\ MovedObjectsEqual
  BY <1>1, QuietSays, MarkSays, WalkSays, CompactSays DEF Phase
<1>3. TypeOK
  BY <1>2, TypedIsTypeOK DEF CycleInv
<1>4. QED BY <1>2, <1>3

(* Nothing is found late in a first collection, whose queue is its own, nor *)
(* in a heap without ephemerons, where the queue stays empty.               *)
LEMMA NoneLate ==
  ASSUME CycleInv, collections <= 1 \/ NoEphemeronPlaced
  PROVE  NothingFoundLate
<1>1. PICK g : Phase(g)
  BY DEF CycleInv
<1>2. ASSUME NEW u, NEW L, NEW M, NEW T, MarkInv(g, u, L, M, T), pc = "setNewPositions"
      PROVE  weakContainers = << >> /\ ephemerons = << >>
  BY <1>2 DEF MarkInv, Narrow, LateLabels
<1>3. (\E u, L, M, T : MarkInv(g, u, L, M, T)) => NothingFoundLate
  BY <1>2 DEF NothingFoundLate
<1>4. QuietInv(g) => NothingFoundLate
  BY DEF QuietInv, QuietLabels, NothingFoundLate
<1>5. (\E u, L, M, n : WalkInv(g, u, L, M, n)) => NothingFoundLate
  BY DEF WalkInv, Idle, NothingFoundLate
<1>6. (\E u, M, s : CompactInv(g, u, M, s)) => NothingFoundLate
  BY DEF CompactInv, Idle, NothingFoundLate
<1>7. QED BY <1>1, <1>3, <1>4, <1>5, <1>6 DEF Phase

-----------------------------------------------------------------------------
(* The theorems.  NothingFoundLate is what the code does not guarantee of   *)
(* a heap with weak objects; run stale_weak shows the loss.                 *)

THEOREM CycleInvariant ==
  Spec /\ []NothingFoundLate => []CycleInv
<1>1. Init => CycleInv
  BY CycleInit
<1>2. CycleInv /\ NothingFoundLate /\ [Next]_vars => CycleInv'
  BY CycleNext
<1>3. QED BY <1>1, <1>2, PTL DEF Spec

(* The variables keep their types through every phase of the collections.   *)
THEOREM CompactorTypeCorrect ==
  Spec /\ []NothingFoundLate => []TypeOK
<1>1. CycleInv => TypeOK
  BY CycleSays
<1>2. QED BY <1>1, CycleInvariant, PTL

(* followCountStartingAt never reads a slot it has threaded already: no     *)
(* slot is in two lists, however deep the recursion and whatever waits in   *)
(* the queues of ephemerons and weak objects.                               *)
THEOREM NoSlotIsThreadedTwice ==
  Spec /\ []NothingFoundLate => []NoSlotThreadedTwice
<1>1. CycleInv => NoSlotThreadedTwice
  BY CycleSays
<1>2. QED BY <1>1, CycleInvariant, PTL

(* While the collector marks, the heap of before can be read out of the     *)
(* lists: _threadWithAt loses no word.                                      *)
THEOREM ThreadingLosesNothing ==
  Spec /\ []NothingFoundLate => []ThreadsUndoable
<1>1. CycleInv => ThreadsUndoable
  BY CycleSays
<1>2. QED BY <1>1, CycleInvariant, PTL

(* compact puts each object where setNewPositions said it would be, and     *)
(* never over one that still has to be moved.                               *)
THEOREM CompactionFollowsPlan ==
  Spec /\ []NothingFoundLate => []CompactsAsPlanned
<1>1. CycleInv => CompactsAsPlanned
  BY CycleSays
<1>2. QED BY <1>1, CycleInvariant, PTL

(* What EqualChecker asserts of a compaction: every object is what it was,  *)
(* and refers to what it referred to.                                       *)
THEOREM CompactionKeepsObjects ==
  Spec /\ []NothingFoundLate => []MovedObjectsEqual
<1>1. CycleInv => MovedObjectsEqual
  BY CycleSays
<1>2. QED BY <1>1, CycleInvariant, PTL

(* In a heap without ephemerons nothing is found late, so that there all of *)
(* this holds of every behavior, whatever else is weak.                     *)
THEOREM CompactionWithoutEphemerons ==
  ASSUME NoEphemeronPlaced
  PROVE  Spec => [](/\ NothingFoundLate /\ TypeOK /\ NoSlotThreadedTwice /\ ThreadsUndoable
                    /\ CompactsAsPlanned /\ MovedObjectsEqual)
<1>1. Init => CycleInv
  BY CycleInit
<1>2. CycleInv => NothingFoundLate
  BY NoneLate
<1>3. CycleInv /\ [Next]_vars => CycleInv'
  BY <1>2, CycleNext
<1>4. CycleInv => /\ NothingFoundLate /\ TypeOK /\ NoSlotThreadedTwice /\ ThreadsUndoable
                  /\ CompactsAsPlanned /\ MovedObjectsEqual
  BY <1>2, CycleSays
<1>5. QED BY <1>1, <1>3, <1>4, PTL DEF Spec

UntilSecond == Counters /\ (collections <= 1 => CycleInv)

(* With weak objects and ephemerons all of it holds of a first collection,  *)
(* from the heap it begins with to the one it leaves: what it finds through *)
(* the queue is only what it has queued itself.                             *)
THEOREM FirstCollection ==
  Spec => [](collections <= 1 => /\ NothingFoundLate /\ TypeOK /\ NoSlotThreadedTwice
                                 /\ ThreadsUndoable /\ CompactsAsPlanned /\ MovedObjectsEqual)
<1>1. Init => UntilSecond
  BY CycleInit DEF CycleInv, UntilSecond
<1>2. ASSUME UntilSecond, [Next]_vars PROVE UntilSecond'
  <2>1. Counters /\ Counters'
    BY <1>2, CountersKept DEF UntilSecond
  <2>2. ASSUME collections' <= 1 PROVE CycleInv'
    <3>1. collections <= 1
      BY <1>2, <2>1, <2>2, CollectionsCounted
    <3>2. CycleInv
      BY <1>2, <3>1 DEF UntilSecond
    <3>3. QED BY <1>2, <3>1, <3>2, NoneLate, CycleNext
  <2>3. QED BY <2>1, <2>2 DEF UntilSecond
<1>3. UntilSecond => (collections <= 1 => /\ NothingFoundLate /\ TypeOK /\ NoSlotThreadedTwice
                                          /\ ThreadsUndoable /\ CompactsAsPlanned /\ MovedObjectsEqual)
  BY NoneLate, CycleSays DEF UntilSecond
<1>4. QED BY <1>1, <1>2, <1>3, PTL DEF Spec

=============================================================================
