------------------------------ MODULE MCHeapGC ------------------------------
(***************************************************************************)
(* Scavenges of every heap of a few shapes, instead of the heaps a short   *)
(* program builds.  A shape gives the kinds of the objects in from space,  *)
(* the slots in which the heap has references and how much the program may *)
(* do afterwards; Old gives the kinds of the objects in old space.  What   *)
(* they and the temporaries refer to is any of them.  The remembered set   *)
(* is what the write barrier made of it.                                   *)
(***************************************************************************)
EXTENDS MCGenerationalGC

CONSTANTS Heaps, Old, Holders

(* The objects fit in the spaces and have the slots that are used.          *)
ASSUME HeapsAssumption ==
  /\ Old \in Seq({"plain", "weak", "ephemeron"}) /\ Len(Old) <= OldSize
  /\ \A heap \in Heaps :
       /\ heap.young \in Seq({"plain", "weak", "ephemeron"}) /\ Len(heap.young) <= SemiSize
       /\ heap.stored \subseteq -1 .. NumSlots - 1
       /\ heap.operations \in 0 .. MaxOps

(* Shapes, for the configurations. *)
Heap(young, stored, operations) == [young |-> young, stored |-> stored, operations |-> operations]
TwoKeys == Heap(<<"ephemeron", "ephemeron", "plain", "plain">>, {0, 1}, 0)
OneKey == Heap(<<"ephemeron", "ephemeron", "plain">>, {0}, 2)
TwoEphemerons == {TwoKeys, OneKey}
OneEphemeron == {Heap(<<"ephemeron", "plain">>, {0}, 0)}
OnePlain == <<"plain">>
NoObjects == << >>

YoungAddress(heap) == NewBase1 .. NewBase1 + Len(heap.young) - 1
OldAddress == OldBase .. OldBase + Len(Old) - 1
KindIn(heap, a) ==
  IF a \in OldAddress THEN Old[a - OldBase + 1] ELSE heap.young[a - NewBase1 + 1]
HashOf(a) == IF a \in OldAddress THEN SemiSize + 1 + a - OldBase ELSE a

HeapHeader(a, kind, second, remembered) ==
  [FreeHeader EXCEPT !.hash = HashOf(a),
                     !.secondGeneration = second,
                     !.inRememberedSet = remembered,
                     !.hasWeaks = (kind # "plain"),
                     !.isEphemeron = (kind = "ephemeron")]

(* Symmetry: new objects of one kind are interchangeable, since from space  *)
(* is never walked in the order of addresses.  The temporaries name them in *)
(* that order.                                                              *)
NamedInOrder(heap, temporaries) ==
  \A r \in DOMAIN temporaries, a \in YoungAddress(heap) :
    a < temporaries[r] /\ temporaries[r] \in YoungAddress(heap)
                       /\ KindIn(heap, a) = KindIn(heap, temporaries[r])
      => \E q \in 0 .. r - 1 : temporaries[q] = a

(* The objects of the kinds in Holders refer to any object. *)
HeapInit ==
  \E heap \in Heaps, second \in BOOLEAN :
  LET InHeap == YoungAddress(heap) \cup OldAddress
      Holding == {a \in InHeap : KindIn(heap, a) \in Holders}
  IN
  /\ \E refs \in [Holding -> [heap.stored -> InHeap \cup {Nil}]],
       temporaries \in [0 .. NumRoots - 1 -> InHeap] :
    LET remembered == {a \in OldAddress \cap Holding :
                        \E k \in heap.stored : refs[a][k] \in YoungAddress(heap)}
    IN  /\ NamedInOrder(heap, temporaries)
        /\ header = [a \in Address |->
                      IF a \in InHeap THEN HeapHeader(a, KindIn(heap, a), second, a \in remembered)
                                      ELSE FreeHeader]
        /\ slots = [a \in Address |->
                     CASE a \in Holding -> [k \in SlotIndex(a) |-> IF k \in heap.stored
                                                                   THEN refs[a][k] ELSE Nil]
                       [] a = Stack -> [k \in SlotIndex(a) |-> IF k = -1 THEN Nil ELSE temporaries[k]]
                       [] OTHER -> EmptySlots(a)]
        /\ rememberedSet = SetToSeq(remembered)
        /\ Len(rememberedSet) <= RememberedSize
  /\ detached = << >>
  /\ fromSpace = [NewSpace(NewBase1, SemiSize) EXCEPT !.nextFree = NewBase1 + Len(heap.young)]
  /\ toSpace = NewSpace(NewBase2, SemiSize)
  /\ oldSpace = [NewSpace(OldBase, OldSize) EXCEPT !.nextFree = OldBase + Len(Old)]
  /\ literalsReferences = << >> /\ classCheckReferences = << >> /\ nativizedMethods = << >>
  /\ lookupCache = Nil
  /\ rescuedCount = 0
  /\ vm = [globalCacheHasPointersToFrom |-> FALSE,
           anyCompiledMethodInFromSpace |-> FALSE,
           anyNativizedCompiledMethodInFromSpace |-> FALSE]
  /\ ephemerons = << >> /\ unknowns = << >> /\ weakContainers = << >>
  /\ stack = << >> /\ scan = NoScan
  /\ rescan = FALSE /\ anyRescued = FALSE
  /\ i = 1 /\ pc = "mutator"
  /\ seen = View
  /\ ops = MaxOps - heap.operations

HeapSpec == HeapInit /\ [][Next]_vars
FairHeapSpec == HeapInit /\ [][Next]_vars /\ WF_vars(Collector)

(* What the program notices of a scavenge, from any of these heaps.        *)
StepsOfObjectMemory == [][Program!Next]_(Program!vars)

After == INSTANCE ObjectMemory WITH
  Identities <- 1 .. SemiSize + OldSize,
  SlotNames  <- -1 .. NumSlots - 1,
  Roots      <- 0 .. NumRoots - 1,
  Offsets    <- 0 .. NumOffsets - 1,
  graph      <- View.graph,
  roots      <- View.roots,
  code       <- View.code,
  rescued    <- View.rescued

(* A scavenge of new objects leaves no garbage: a weak slot, an ephemeron   *)
(* whose key died or a dead object does not keep anything alive, whatever   *)
(* the order in which the traversal met them.                               *)
NothingFloats ==
  pc = "cleanRememberedSet" =>
    \A id \in {header[a].hash : a \in ObjectsIn(fromSpace)} : ~After!Dying(id)

(* A rescued ephemeron is queued once, as the tests expect of a rescue.     *)
RescuedOnce ==
  pc = "mutator" =>
    \A j, k \in 1 .. rescuedCount :
      slots[RescuedArray][j] = slots[RescuedArray][k] => j = k
=============================================================================
