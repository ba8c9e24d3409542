----------------------------- MODULE ObjectHeap -----------------------------
(***************************************************************************)
(* One heap, in the format of its bits, under both collectors in turn.     *)
(*                                                                         *)
(* GenerationalGC and MarkAndCompactGC model the collectors step by step,  *)
(* each on a heap of its own, with headers that are records.  Here the     *)
(* order of their traversals is left open, as a set of slots yet to be     *)
(* followed, and everything they ask of an object or do to it goes through *)
(* ObjectFormat: what one of them leaves in headers and sets is what the   *)
(* other one finds.                                                        *)
(***************************************************************************)
EXTENDS ObjectFormat, Sequences, TLC

CONSTANTS
  Heaps,           \* the objects in from space at the beginning: sequences of shapes
  NewShapes,       \* shapes of the objects the program allocates
  Temporaries,     \* addresses of the temporaries
  QueueCells,      \* addresses of the entries of rescuedEphemerons, in order
  LibraryBase, OldBase, NewBase, NewSize,   \* where the spaces are
  ArraySize,       \* size of a new array
  MaxCollections, MaxArrays, MaxOps         \* bounds

Shape == [extended : BOOLEAN, flags : SUBSET {Weak, Bytes, ZeroTerminated, Generation},
          ephemeron : BOOLEAN, size : Nat]

ASSUME ShapesAssumption == Heaps \subseteq Seq(Shape) /\ NewShapes \subseteq Shape

(* nil, the residue object and the empty array, in a library. *)
Nil == LibraryBase + 8
ResidueObject == LibraryBase + 16
EmptyArray == LibraryBase + 24
Library == {Nil, ResidueObject, EmptyArray}

Limit == NewBase + 2 * NewSize
Address == WordsBetween(0, Limit + 16)
Spaces == {"from", "to", "old"}

VARIABLES
  memory,
  base, nextFree,     \* of the three spaces
  auxNextFree,        \* of auxSpace, which begins where old space does
  remembered,         \* the remembered set
  contents,           \* of an array of the collectors
  pending,            \* slots yet to be followed
  weakContainers, ephemerons,
  space, next,        \* the space that is walked, and its next header
  shapes,             \* history: what the program has allocated, by identity hash
  objects,            \* history: header |-> object, in from space and old space
  moved,              \* history: object |-> its copy
  threads,            \* history: object |-> the slots in its list
  seen,               \* history: what the program sees, at the end of a collection
  collections, arrays, ops,
  pc

spaceVars == <<base, nextFree, auxNextFree>>
listVars == <<pending, weakContainers, ephemerons>>
walkVars == <<space, next>>
boundVars == <<collections, arrays, ops>>
historyVars == <<shapes, objects, moved, threads, seen>>
vars == <<memory, spaceVars, remembered, contents, listVars, walkVars, historyVars, boundVars, pc>>

-----------------------------------------------------------------------------
End(s) == IF s = "old" THEN NewBase ELSE base[s] + NewSize

(* GCSpace::includes: small integers are never in a space. *)
Includes(s, word) ==
  ~IsSmallInteger(word) /\ base[s] <= NumberOf(word) /\ NumberOf(word) <= End(s)
ArenaIncludes(word) == Includes("old", word) \/ Includes("from", word)

ObjectsIn(s) == {objects[h] : h \in {h \in DOMAIN objects : base[s] <= h /\ h < nextFree[s]}}
Slots(o, first, count) == {Slot(o, first + k) : k \in 0 .. count - 1}

(* A new object: its words at the address buffer. *)
HeaderOf(shape) == IF shape.extended THEN 16 ELSE 8
SlotsOf(shape) == IF Bytes \in shape.flags THEN (shape.size + 3) \div 4 ELSE shape.size
EndOf(shape, buffer) == buffer + HeaderOf(shape) + 4 * SlotsOf(shape)

HashBits(hash) == {b + 8 : b \in WordOf(hash)}
FlagsOf(shape) == {UnseenInSpace} \cup shape.flags \cup IF shape.extended THEN {Extended} ELSE {}

NewObject(shape, hash, buffer, slots) ==
  LET o == buffer + HeaderOf(shape)
      size == IF shape.extended THEN 4 ELSE shape.size
  IN  [a \in WordsBetween(buffer, EndOf(shape, buffer)) |->
         CASE a = Basic(o)              -> WordOf(size) \cup HashBits(hash) \cup FlagsOf(shape)
           [] a = o - 4                 -> WordOf(Nil)
           [] a = ExtendedHeader(o)     -> WordOf(4) \cup (FlagsOf(shape) \ {Weak})
                                             \cup IF shape.ephemeron THEN {Weak} ELSE {}
           [] a = ExtendedHeader(o) + 4 -> WordOf(shape.size)
           [] OTHER                     -> slots[(a - o) \div 4]]

NilSlots == [k \in 0 .. 3 |-> WordOf(Nil)]

-----------------------------------------------------------------------------
(* What the program sees, in the terms of ObjectMemory. *)
HashOf(o) == NumberOf({b - 8 : b \in memory[Basic(o)] \cap 8 .. 23})
ProgramObjects == {o \in ObjectsIn("old") \cup ObjectsIn("from") : HashOf(o) # 0}
ObjectWith(hash) == CHOOSE o \in ProgramObjects : HashOf(o) = hash

Identity(word) ==
  CASE word = WordOf(Nil)           -> 0
    [] word = WordOf(ResidueObject) -> -1
    [] ~IsSmallInteger(word) /\ NumberOf(word) \in ProgramObjects -> HashOf(NumberOf(word))
    [] OTHER                        -> -2

KindOf(o) ==
  CASE IsActiveEphemeron(memory, o) -> "ephemeron"
    [] HasWeaks(memory, o)          -> "weak"
    [] OTHER                        -> "plain"

SlotNames == -1 .. 1
Queued == {j \in DOMAIN QueueCells : ~IsSmallInteger(memory[QueueCells[j]])}

View ==
  [graph |-> [hash \in {HashOf(o) : o \in ProgramObjects} |->
                LET o == ObjectWith(hash)
                IN  [kind |-> KindOf(o),
                     slots |-> [k \in SlotNames |->
                        IF k < PointersSize(memory, o) - 1 THEN Identity(memory[Slot(o, k)]) ELSE 0]]],
   roots |-> [r \in Temporaries |-> Identity(memory[r])],
   rescued |-> [j \in Queued |-> Identity(memory[QueueCells[j]])]]

-----------------------------------------------------------------------------
(* The heap at the beginning.  Slots, but for bytes, refer to any object or *)
(* hold nil; bytes hold what looks like a reference to the first object.    *)
(* The first temporary holds any of these.  Objects of the library have     *)
(* the mark of an earlier compaction.                                       *)
Headers(heap) ==
  LET header[j \in 1 .. Len(heap) + 1] ==
        IF j = 1 THEN NewBase ELSE EndOf(heap[j - 1], header[j - 1])
  IN  header

(* What bytes hold: the address of the first of the objects. *)
Payload == WordOf(NewBase + 8)

Init ==
  /\ \E heap \in Heaps :
       LET header == Headers(heap)
           oop(j) == header[j] + HeaderOf(heap[j])
           Values == {WordOf(oop(j)) : j \in DOMAIN heap} \cup {WordOf(Nil)}
           SlotOf(j, values, k) == IF Bytes \in heap[j].flags THEN Payload ELSE values[j][k]
       IN  \E values \in [DOMAIN heap -> [0 .. 1 -> Values]], first \in Values :
             /\ \A j \in DOMAIN heap, k \in 0 .. 1 :
                  SlotsOf(heap[j]) <= k \/ Bytes \in heap[j].flags => values[j][k] = WordOf(Nil)
             /\ memory =
                  [a \in Address |->
                     CASE a = Min(Temporaries) -> first
                       [] a \in Temporaries -> WordOf(Nil)
                       [] a \in {o - 8 : o \in Library} -> {UnseenInSpace}
                       [] a \in {o - 4 : o \in Library} -> WordOf(Nil)
                       [] \E j \in DOMAIN heap : header[j] <= a /\ a < header[j + 1] ->
                            LET j == CHOOSE j \in DOMAIN heap : header[j] <= a /\ a < header[j + 1]
                            IN  NewObject(heap[j], j, header[j],
                                          [k \in 0 .. 1 |-> SlotOf(j, values, k)])[a]
                       [] OTHER -> {0}]
             /\ nextFree = [s \in Spaces |-> CASE s = "from" -> header[Len(heap) + 1]
                                               [] s = "to"   -> NewBase + NewSize
                                               [] s = "old"  -> OldBase]
             /\ objects = [h \in {header[j] : j \in DOMAIN heap} |->
                             oop(CHOOSE j \in DOMAIN heap : header[j] = h)]
       /\ shapes = heap
  /\ base = [s \in Spaces |-> CASE s = "from" -> NewBase
                                [] s = "to"   -> NewBase + NewSize
                                [] s = "old"  -> OldBase]
  /\ auxNextFree = OldBase
  /\ remembered = {}
  /\ contents = EmptyArray
  /\ pending = {} /\ weakContainers = {} /\ ephemerons = {}
  /\ space = "old" /\ next = OldBase
  /\ moved = << >> /\ threads = << >>
  /\ seen = View
  /\ collections = 0 /\ arrays = 0 /\ ops = 0
  /\ pc = "program"

-----------------------------------------------------------------------------
(* The program between collections. *)
Operated ==
  /\ pc = "program" /\ ops < MaxOps /\ ops' = ops + 1
  /\ UNCHANGED <<base, auxNextFree, contents, listVars, walkVars, moved, threads,
                 collections, arrays, pc>>
  /\ seen' = View'

Allocate(shape, r) ==
  LET buffer == nextFree["from"]
      o == buffer + HeaderOf(shape)
  IN  /\ EndOf(shape, buffer) <= End("from")
      /\ memory' = (r :> WordOf(o)) @@ NewObject(shape, Len(shapes) + 1, buffer, NilSlots) @@ memory
      /\ nextFree' = [nextFree EXCEPT !["from"] = EndOf(shape, buffer)]
      /\ objects' = (buffer :> o) @@ objects
      /\ shapes' = Append(shapes, shape)
      /\ UNCHANGED remembered
      /\ Operated

(* A store, with the write barrier. *)
Store(r, v) ==
  LET o == NumberOf(memory[r])
      stored == [memory EXCEPT ![o] = memory[v]]
      remember == Includes("old", memory[r]) /\ Includes("from", memory[v])
                    /\ ~Has(memory, o, InRememberedSet)
  IN  /\ Identity(memory[r]) > 0
      /\ PointersSize(memory, o) > 1
      /\ memory' = IF remember THEN Set(stored, o, InRememberedSet) ELSE stored
      /\ remembered' = IF remember THEN remembered \cup {o} ELSE remembered
      /\ UNCHANGED <<nextFree, objects, shapes>>
      /\ Operated

Drop(r) ==
  /\ memory' = [memory EXCEPT ![r] = WordOf(Nil)]
  /\ UNCHANGED <<nextFree, remembered, objects, shapes>>
  /\ Operated

-----------------------------------------------------------------------------
(* Arrays of the collectors are allocated in old space: emptyReserving, and *)
(* growth at any time of a traversal.                                       *)

(* Mutant: emptyReserving leaves the mark of the library. *)
ReservingUnmarked(m, buffer) == ShallowCopyGrowingTo(m, EmptyArray, buffer, ArraySize, Nil)

EmptyReserving(m, buffer) ==
  BeUnseenInSpaceFull(ShallowCopyGrowingTo(m, EmptyArray, buffer, ArraySize, Nil), buffer + 16)

ArrayEnd(buffer, size) == buffer + 16 + 4 * size

GrowArray ==
  LET buffer == nextFree["old"]
      size == 2 * Size(memory, contents)
  IN  /\ pc \in {"scavenge", "mark"}
      /\ arrays < MaxArrays /\ arrays' = arrays + 1
      /\ size > 0
      /\ memory' = ShallowCopyGrowingTo(memory, contents, buffer, size, Nil)
      /\ nextFree' = [nextFree EXCEPT !["old"] = ArrayEnd(buffer, size)]
      /\ contents' = buffer + 16
      /\ objects' = (buffer :> buffer + 16) @@ objects
      /\ UNCHANGED <<base, auxNextFree, remembered, listVars, walkVars, shapes, moved, threads,
                     seen, collections, ops, pc>>

-----------------------------------------------------------------------------
(* What both traversals do.  Slots they do nothing with are left out of     *)
(* pending; rememberIfWeak tells weak containers and ephemerons.            *)
ToFrom(m, slots) == {a \in slots : Includes("from", m[a])}
ToObjects(m, slots) == {a \in slots : ~IsSmallInteger(m[a])}

Told(m, os) ==
  /\ ephemerons' = ephemerons \cup {o \in os : HasWeaks(m, o) /\ IsActiveEphemeron(m, o)}
  /\ weakContainers' = weakContainers \cup {o \in os : HasWeaks(m, o) /\ ~IsActiveEphemeron(m, o)}

StrongSlots(m, o) == Slots(o, -1, StrongPointersSize(m, o))

Roots == Temporaries \cup {QueueCells[j] : j \in Queued}

TraversalUnchanged ==
  UNCHANGED <<base, auxNextFree, contents, walkVars, shapes, seen, boundVars, pc>>

(* checkReachablePropertyOf, of either collector. *)
HasLiveKey(e) ==
  LET key == memory[e]
  IN  \/ IsSmallInteger(key)
      \/ pc = "scavenge" /\ (Has(memory, NumberOf(key), UnseenInSpace) => ~Includes("from", key))
      \/ pc = "mark" /\ (IF ArenaIncludes(key) THEN HasBeenSeenInSpace(memory, NumberOf(key))
                                               ELSE HasBeenSeenInLibrary(memory, NumberOf(key)))

(* rescueEphemerons: when no key is alive, all that are left are queued.    *)
FollowEphemerons ==
  LET alive == {e \in ephemerons : HasLiveKey(e)}
      chosen == IF alive # {} THEN alive ELSE ephemerons
      slots == UNION {Slots(e, 0, ExtendedSize(memory, e)) : e \in chosen}
  IN  /\ pc \in {"scavenge", "mark"}
      /\ pending = {} /\ ephemerons # {}
      /\ pending' = IF pc = "scavenge" THEN ToFrom(memory, slots) ELSE ToObjects(memory, slots)
      /\ ephemerons' = ephemerons \ chosen
      /\ \/ /\ alive # {} /\ UNCHANGED memory
         \/ /\ alive = {}
            /\ \E order \in [1 .. Cardinality(chosen) -> chosen] :
                 /\ \A e \in chosen : \E j \in DOMAIN order : order[j] = e
                 /\ memory' = [a \in {QueueCells[Cardinality(Queued) + j] : j \in DOMAIN order} |->
                                 WordOf(order[CHOOSE j \in DOMAIN order :
                                                a = QueueCells[Cardinality(Queued) + j]])] @@ memory
      /\ UNCHANGED <<nextFree, remembered, weakContainers, objects, moved, threads>>
      /\ TraversalUnchanged

(* makeRescuedEphemeronsNonWeak *)
MadeNonWeak(m) ==
  LET queue == {NumberOf(m[QueueCells[j]]) : j \in Queued}
  IN  UnsetAll(m, queue, Weak)

-----------------------------------------------------------------------------
(* The scavenger. *)
RefersTo(s, o) == \E a \in Slots(o, -1, PointersSize(memory, o)) : Includes(s, memory[a])

StartScavenge ==
  LET kept == {o \in remembered : ~Includes("from", WordOf(o)) /\ RefersTo("from", o)}
  IN  /\ pc = "program" /\ collections < MaxCollections
      /\ memory' = UnsetAll(memory, remembered \ kept, InRememberedSet)
      /\ remembered' = kept
      /\ pending' = ToFrom(memory, Roots \cup UNION {StrongSlots(memory, o) : o \in kept})
      /\ Told(memory, kept)
      /\ moved' = << >>
      /\ collections' = collections + 1
      /\ pc' = "scavenge"
      /\ UNCHANGED <<spaceVars, contents, walkVars, shapes, objects, threads, seen,
                     arrays, ops>>

Following(slot) == pc = "scavenge" /\ slot \in pending /\ UNCHANGED threads /\ TraversalUnchanged

FollowProxy(slot) ==
  LET o == NumberOf(memory[slot])
  IN  /\ Following(slot)
      /\ IsProxy(memory, o)
      /\ memory' = [memory EXCEPT ![slot] = Proxee(memory, o)]
      /\ pending' = pending \ {slot}
      /\ UNCHANGED <<nextFree, remembered, weakContainers, ephemerons, objects, moved>>

(* moveToOldOrTo: objects that were moved before go to old space, and into  *)
(* the remembered set.                                                      *)
Move(slot) ==
  LET o == NumberOf(memory[slot])
      old == Has(memory, o, Generation)
      to == IF old THEN "old" ELSE "to"
      buffer == nextFree[to]
      copy == buffer + HeaderSizeInBytes(memory, o)
      aged == IF old THEN memory ELSE Set(memory, o, Generation)
      copied == SetProxee(ShallowCopy(aged, o, buffer), o, WordOf(copy))
      held == IF old THEN Set(copied, copy, InRememberedSet) ELSE copied
  IN  /\ Following(slot)
      /\ ~IsProxy(memory, o)
      /\ memory' = [held EXCEPT ![slot] = WordOf(copy)]
      /\ nextFree' = [nextFree EXCEPT ![to] = copy + SizeInBytes(aged, o)]
      /\ remembered' = IF old THEN remembered \cup {copy} ELSE remembered
      /\ pending' = (pending \ {slot}) \cup ToFrom(held, StrongSlots(held, copy))
      /\ Told(held, {copy})
      /\ moved' = (o :> copy) @@ moved
      /\ objects' = (buffer :> copy) @@ objects

(* Mutant: the referent is taken for dead. *)
AllTombstones(m) ==
  [a \in ToFrom(m, UNION {Slots(o, 0, Size(memory, o)) : o \in weakContainers}) |->
     WordOf(ResidueObject)] @@ m

(* fixReferencesOrSetTombstone, for all weak containers. *)
FixedWeaks(m) ==
  LET slots == UNION {Slots(o, 0, Size(memory, o)) : o \in weakContainers}
  IN  [a \in ToFrom(m, slots) |-> LET o == NumberOf(m[a])
                                  IN  IF IsProxy(m, o) THEN Proxee(m, o) ELSE WordOf(ResidueObject)] @@ m

(* makeRescuedEphemeronsNonWeak, fixWeakContainers, flipSpaces and          *)
(* cleanRememberedSet; the emptied space is cleared.                        *)
FlipSpaces ==
  /\ pc = "scavenge" /\ pending = {} /\ ephemerons = {}
  /\ memory' = [a \in WordsBetween(base["from"], End("from")) |-> {0}] @@ FixedWeaks(MadeNonWeak(memory))
  /\ base' = [base EXCEPT !["from"] = base["to"], !["to"] = base["from"]]
  /\ nextFree' = [nextFree EXCEPT !["from"] = nextFree["to"], !["to"] = base["from"]]
  /\ objects' = [h \in DOMAIN objects \ base["from"] .. End("from") - 1 |-> objects[h]]
  /\ weakContainers' = {}
  /\ remembered' = {o \in remembered : ~Includes("from", WordOf(o))}
  /\ moved' = << >>
  /\ pc' = "program"
  /\ seen' = View'
  /\ UNCHANGED <<auxNextFree, contents, pending, ephemerons, walkVars, shapes, threads, boundVars>>

-----------------------------------------------------------------------------
(* The compactor. *)

(* unmarkRememberedSet, where the last object keeps its flag, with the new  *)
(* remembered set, initAuxSpace and unseeWellKnownObjects.                  *)
StartCompaction(last) ==
  LET buffer == nextFree["old"]
      unmarked == UnsetAll(memory, remembered \ {last}, InRememberedSet)
  IN  /\ pc = "program" /\ collections < MaxCollections /\ arrays < MaxArrays
      /\ last \in remembered \/ (remembered = {} /\ last = Nil)
      /\ memory' = UnsetAll(EmptyReserving(unmarked, buffer), Library, UnseenInSpace)
      /\ contents' = buffer + 16
      /\ objects' = (buffer :> buffer + 16) @@ objects
      /\ nextFree' = [nextFree EXCEPT !["old"] = ArrayEnd(buffer, ArraySize)]
      /\ auxNextFree' = base["old"]
      /\ remembered' = {}
      /\ pending' = ToObjects(memory, Temporaries)
      /\ moved' = << >> /\ threads' = << >>
      /\ collections' = collections + 1 /\ arrays' = arrays + 1
      /\ pc' = "mark"
      /\ UNCHANGED <<base, weakContainers, ephemerons, walkVars, shapes, seen, ops>>

Marking(slot) ==
  /\ pc \in {"mark", "queue"} /\ slot \in pending
  /\ UNCHANGED <<nextFree, remembered, objects, moved>>
  /\ TraversalUnchanged

ThreadOf(o) == IF o \in DOMAIN threads THEN threads[o] ELSE {}

(* The slot is threaded; the first time, those of the object follow. *)
MarkInArena(slot) ==
  LET o == NumberOf(memory[slot])
      found == IF HasBeenSeenInSpace(memory, o) THEN {} ELSE {o}
  IN  /\ Marking(slot)
      /\ \A a \in pending : ArenaIncludes(memory[a])
      /\ memory' = ThreadWithAt(memory, o, slot)
      /\ pending' = (pending \ {slot}) \cup ToObjects(memory, UNION {StrongSlots(memory, p) : p \in found})
      /\ Told(memory, found)
      /\ threads' = (o :> {slot} \cup ThreadOf(o)) @@ threads

(* All of these slots at a time, and first: they are independent of the     *)
(* arena.                                                                   *)
MarkInLibrary ==
  LET slots == {slot \in pending : ~ArenaIncludes(memory[slot])}
      found == {o \in {NumberOf(memory[slot]) : slot \in slots} : ~HasBeenSeenInLibrary(memory, o)}
  IN  /\ pc \in {"mark", "queue"} /\ slots # {}
      /\ memory' = [a \in {Basic(o) : o \in found} |-> memory[a] \cup {UnseenInSpace}] @@ memory
      /\ pending' = (pending \ slots) \cup ToObjects(memory, UNION {StrongSlots(memory, o) : o \in found})
      /\ Told(memory, found)
      /\ UNCHANGED <<nextFree, remembered, objects, moved, threads>>
      /\ TraversalUnchanged

(* fixReferencesOrSetTombstone: weak slots are threaded too. *)
FixWeakContainer(o) ==
  LET slots == Slots(o, 0, UnthreadedSize(memory, o))
      Reached(word) == IF ArenaIncludes(word) THEN HasBeenSeenInSpace(memory, NumberOf(word))
                                              ELSE HasBeenSeenInLibrary(memory, NumberOf(word))
  IN  /\ pc = "mark" /\ pending = {} /\ ephemerons = {}
      /\ o \in weakContainers
      /\ memory' = [a \in {a \in ToObjects(memory, slots) : ~Reached(memory[a])} |-> WordOf(ResidueObject)]
                      @@ memory
      /\ pending' = ToObjects(memory', slots)
      /\ weakContainers' = weakContainers \ {o}
      /\ UNCHANGED <<nextFree, remembered, ephemerons, objects, moved, threads>>
      /\ TraversalUnchanged

FollowRescuedEphemerons ==
  /\ pc = "mark" /\ pending = {} /\ ephemerons = {} /\ weakContainers = {}
  /\ pending' = ToObjects(memory, {QueueCells[j] : j \in Queued})
  /\ pc' = "queue"
  /\ UNCHANGED <<memory, spaceVars, remembered, contents, weakContainers, ephemerons, walkVars,
                 historyVars, boundVars>>

StartWalks ==
  /\ pc = "queue" /\ pending = {}
  /\ space' = "old" /\ next' = base["old"]
  /\ pc' = "setNewPositions"
  /\ threads' = << >>
  /\ UNCHANGED <<memory, spaceVars, remembered, contents, listVars, shapes, objects, moved, seen,
                 boundVars>>

WalkUnchanged ==
  UNCHANGED <<base, nextFree, remembered, contents, listVars, shapes, objects, threads, seen,
              boundVars>>

BelowNextFree(o) == o <= nextFree[space] + 1

(* setNewPositions, one object a step. *)
SetNewPosition ==
  LET header == UnthreadedHeaderSizeInBytes(memory, next)
      o == next + header
      position == auxNextFree + header
      thread == Thread(memory, o)
      found == [a \in thread.slots |-> WordOf(position)]
                 @@ (Basic(o) :> thread.bits \ {UnseenInSpace}) @@ memory
  IN  /\ pc = "setNewPositions" /\ BelowNextFree(o)
      /\ \/ /\ HasBeenSeenInSpace(memory, o)
            /\ memory' = found
            /\ auxNextFree' = position + SizeInBytes(found, o)
            /\ next' = o + SizeInBytes(found, o)
         \/ /\ ~HasBeenSeenInSpace(memory, o)
            /\ next' = o + SizeInBytes(memory, o)
            /\ UNCHANGED <<memory, auxNextFree>>
      /\ UNCHANGED <<space, moved, pc>>
      /\ WalkUnchanged

(* compact, one object a step. *)
CompactObject ==
  LET o == HeaderToObject(memory, next)
      copy == auxNextFree + HeaderSizeInBytes(memory, o)
  IN  /\ pc = "compact" /\ BelowNextFree(o)
      /\ \/ /\ HasBeenSeenInSpace(memory, o)
            /\ memory' = Set(ShallowCopy(memory, o, auxNextFree), copy, UnseenInSpace)
            /\ auxNextFree' = copy + SizeInBytes(memory, o)
            /\ moved' = (o :> copy) @@ moved
         \/ ~HasBeenSeenInSpace(memory, o) /\ UNCHANGED <<memory, auxNextFree, moved>>
      /\ next' = o + SizeInBytes(memory, o)
      /\ UNCHANGED <<space, pc>>
      /\ WalkUnchanged

(* The end of a walk: from old space to from space, and from the first pair *)
(* of walks to the second.                                                  *)
WalkedOn ==
  LET o == next + (IF pc = "compact" THEN HeaderToObject(memory, next) - next
                                     ELSE UnthreadedHeaderSizeInBytes(memory, next))
  IN  /\ pc \in {"setNewPositions", "compact"} /\ ~BelowNextFree(o)
      /\ space = "old" \/ pc = "setNewPositions"
      /\ space' = IF space = "old" THEN "from" ELSE "old"
      /\ next' = base[space']
      /\ pc' = IF space = "old" THEN pc ELSE "compact"
      /\ auxNextFree' = IF pc' = pc THEN auxNextFree ELSE base["old"]
      /\ UNCHANGED <<memory, moved>>
      /\ WalkUnchanged

(* Where the headers of the objects that were moved are now. *)
Kept == {h \in DOMAIN objects : objects[h] \in DOMAIN moved}
PositionOf(h) == h + moved[objects[h]] - objects[h]

(* updateOldSpace, makeRescuedEphemeronsNonWeak, allocateArrays, resetFrom; *)
(* free memory is cleared.                                                  *)
EndCompaction ==
  LET reserved == EmptyReserving(MadeNonWeak(memory), auxNextFree)
      end == ArrayEnd(auxNextFree, ArraySize)
  IN  /\ pc = "compact" /\ space = "from" /\ ~BelowNextFree(HeaderToObject(memory, next))
      /\ memory' = [a \in WordsBetween(end, Limit + 16) |-> {0}] @@ reserved
      /\ contents' = auxNextFree + 16
      /\ objects' = (auxNextFree :> auxNextFree + 16) @@
                       [a \in {PositionOf(h) : h \in Kept} |->
                          moved[objects[CHOOSE h \in Kept : PositionOf(h) = a]]]
      /\ nextFree' = [nextFree EXCEPT !["old"] = end, !["from"] = base["from"]]
      /\ moved' = << >>
      /\ pc' = "program"
      /\ UNCHANGED <<base, auxNextFree, remembered, listVars, walkVars, shapes, threads, boundVars>>
      /\ seen' = View'

Next ==
  \/ \E shape \in NewShapes, r \in Temporaries : Allocate(shape, r)
  \/ \E r, v \in Temporaries : Store(r, v)
  \/ \E r \in Temporaries : Drop(r)
  \/ GrowArray
  \/ FollowEphemerons
  \/ StartScavenge
  \/ \E slot \in pending : FollowProxy(slot) \/ Move(slot) \/ MarkInArena(slot)
  \/ MarkInLibrary
  \/ FlipSpaces
  \/ \E last \in remembered \cup {Nil} : StartCompaction(last)
  \/ \E o \in weakContainers : FixWeakContainer(o)
  \/ FollowRescuedEphemerons
  \/ StartWalks
  \/ SetNewPosition
  \/ CompactObject
  \/ WalkedOn
  \/ EndCompaction

Spec == Init /\ [][Next]_vars

-----------------------------------------------------------------------------
TypeOK ==
  /\ memory \in [Address -> Word]
  /\ base \in [Spaces -> Address] /\ nextFree \in [Spaces -> Address] /\ auxNextFree \in Address
  /\ contents \in Address
  /\ remembered \subseteq Address /\ pending \subseteq Address
  /\ weakContainers \subseteq Address /\ ephemerons \subseteq Address
  /\ space \in Spaces /\ next \in Address
  /\ pc \in {"program", "scavenge", "mark", "queue", "setNewPositions", "compact"}

(* Whoever walks over a space meets the objects that are there, one after   *)
(* the other: the sizes are right, and a header is told from the beginning  *)
(* of a longer one, also where a list of slots starts in it, the arrays of  *)
(* the collectors included.                                                 *)
WalksMeetObjects ==
  /\ pc = "program" =>
       \A s \in {"old", "from"} :
         LET Met == {h \in DOMAIN objects : base[s] <= h /\ h < nextFree[s]}
         IN  /\ base[s] \in Met \cup {nextFree[s]}
             /\ \A h \in Met : /\ HeaderToObject(memory, h) = objects[h]
                              /\ objects[h] + SizeInBytes(memory, objects[h]) \in Met \cup {nextFree[s]}
  /\ pc \in {"setNewPositions", "compact"} =>
       /\ next \in DOMAIN objects \cup {nextFree[space]}
       /\ \A h \in DOMAIN objects :
            base[space] <= next /\ next <= h /\ h < nextFree[space] =>
              objects[h] = IF pc = "compact" THEN HeaderToObject(memory, h)
                                             ELSE h + UnthreadedHeaderSizeInBytes(memory, h)

(* An object keeps the format it was allocated with: its kind of header,    *)
(* flags and size, and bytes keep what is in them, whatever it looks like.  *)
FormatsKept ==
  pc = "program" =>
    \A o \in ProgramObjects :
      LET shape == shapes[HashOf(o)]
      IN  /\ IsExtended(memory, o) = shape.extended
          /\ Size(memory, o) = shape.size - Zero(memory, o)
          /\ \A flag \in {Bytes, ZeroTerminated} : Has(memory, o, flag) = (flag \in shape.flags)
          /\ shape.extended => HasExt(memory, o, Weak) = shape.ephemeron
          /\ Bytes \in shape.flags =>
               \A a \in Slots(o, 0, SlotsOf(shape)) : memory[a] \in {Payload, WordOf(Nil)}

(* During a traversal the header tells which objects were reached: in the   *)
(* scavenger by where they were moved to, in the compactor by the slots     *)
(* that refer to them, and the size of a threaded object is still known.    *)
ReachedObjectsTold ==
  /\ pc = "scavenge" =>
       \A o \in ObjectsIn("from") :
         /\ IsProxy(memory, o) = (o \in DOMAIN moved)
         /\ o \in DOMAIN moved => Proxee(memory, o) = WordOf(moved[o])
  /\ pc \in {"mark", "queue"} =>
       \A o \in ObjectsIn("from") \cup ObjectsIn("old") :
         /\ HasBeenSeenInSpace(memory, o) = (o \in DOMAIN threads)
         /\ o \in DOMAIN threads =>
              /\ Thread(memory, o).slots = threads[o]
              /\ LET bits == Thread(memory, o).bits
                     hash == NumberOf({b - 8 : b \in bits \cap 8 .. 23})
                 IN  hash # 0 => UnthreadedSize(memory, o) = shapes[hash].size

(* What one collection leaves to the next, of either kind: old objects that *)
(* refer to from space are in the remembered set, and their flags say so.   *)
RememberedForNext ==
  pc = "program" =>
    \A o \in ObjectsIn("old") :
      /\ Has(memory, o, InRememberedSet) = (o \in remembered)
      /\ RefersTo("from", o) => o \in remembered
=============================================================================
