-------------------------- MODULE MarkAndCompactGC --------------------------
(***************************************************************************)
(* The collector of old space: MarkAndCompactGC together with the part of  *)
(* GarbageCollector it inherits.                                           *)
(*                                                                         *)
(* It has no room for forwarding addresses and no table of moves.  While   *)
(* it marks, it threads: the slots that refer to an object are linked into *)
(* a list that starts in the header of the object and ends with what that  *)
(* header held.  When the new position of the object is known the list is  *)
(* walked, each slot gets the new position and the header its bits back.   *)
(* Then the objects slide to the beginning of old space, those of from     *)
(* space after them.                                                       *)
(*                                                                         *)
(* So this module is about words: memory is one function from locations to *)
(* words, objects have headers of different sizes in it, and what a word   *)
(* means depends on how far the collection is.  A step is one iteration of *)
(* a loop of the code, except where iterations do not depend on each       *)
(* other.                                                                  *)
(***************************************************************************)
EXTENDS Integers, SequencesExt

CONSTANTS
  OldShapes,       \* the objects in old space at the beginning: offset |-> shape
  YoungShapes,     \* those in from space
  NumTemporaries,  \* temporaries in the stack frame
  QueueSize,       \* bound: entries of rescuedEphemerons
  StoredSlots,     \* slots that refer to any object at the beginning
  MaxCollections,  \* bound: collections
  MaxOps           \* bound: operations of the program

(* Shapes of objects: slots and the flags that decide about a header.       *)
Shape == [size : Nat, extended : BOOLEAN, weak : BOOLEAN, ephemeron : BOOLEAN]

ASSUME NumbersAssumption ==
  /\ NumTemporaries \in Nat /\ QueueSize \in Nat
  /\ MaxCollections \in Nat /\ MaxOps \in Nat
ASSUME StoredSlotsAssumption == StoredSlots \subseteq Nat \cup {-1}

-----------------------------------------------------------------------------
(* Layout.  An object is known by the location of its slot 0; its behavior  *)
(* is one before, its header bits two, and the size of an extended object   *)
(* is in a third word before these.                                         *)
HeaderSize(shape) == IF shape.extended THEN 3 ELSE 2
Start(shapes, k) == k - HeaderSize(shapes[k])
End(shapes, k) == k + shapes[k].size
Ends(shapes) == {0} \cup {End(shapes, k) : k \in DOMAIN shapes}
WordsOf(shapes) == CHOOSE n \in Ends(shapes) : \A end \in Ends(shapes) : end <= n

(* In a space the objects are one behind the other.                         *)
IsLayout(shapes) ==
  /\ DOMAIN shapes \subseteq Nat
  /\ \A k \in DOMAIN shapes :
       /\ shapes[k] \in Shape /\ Start(shapes, k) >= 0
       /\ shapes[k].ephemeron => shapes[k].extended /\ shapes[k].weak /\ shapes[k].size > 0
  /\ \A j, k \in DOMAIN shapes : j < k => End(shapes, j) <= Start(shapes, k)
  /\ WordsOf(shapes) \in Ends(shapes)
  /\ \A end \in Ends(shapes) :
       \/ end = WordsOf(shapes)
       \/ end < WordsOf(shapes) /\ \E k \in DOMAIN shapes : Start(shapes, k) = end

ASSUME ShapesAssumption == IsLayout(OldShapes) /\ IsLayout(YoungShapes)

(* Objects of the libraries: nil, the residue object and an association.    *)
Nil == 2
ResidueObject == 4
Association == 6
LibraryObjects == {Nil, ResidueObject, Association}

(* Roots: vm.wellKnownRoots, the frame of the running method, vm.extraRoots *)
(* and the collector's rescuedEphemerons.contents.                          *)
WellKnownRoots == 7
Frame == 8
ExtraRoots == Frame + NumTemporaries
RescuedEphemerons == ExtraRoots + 1
RootLocations == Frame .. ExtraRoots

(* The contents of rescuedEphemerons, an array: the first of old space.     *)
QueueShape == [size |-> QueueSize + 1, extended |-> FALSE, weak |-> FALSE, ephemeron |-> FALSE]

OldBase == RescuedEphemerons + 1
QueueArray == OldBase + 2
QueueEnd == QueueArray + QueueSize + 1
OldEnd == QueueEnd + WordsOf(OldShapes)
FromBase == OldEnd + WordsOf(YoungShapes)
FromEnd == FromBase + WordsOf(YoungShapes)
Location == 0 .. FromEnd + 2

PlacedOld == {QueueEnd + k : k \in DOMAIN OldShapes}
PlacedYoung == {FromBase + k : k \in DOMAIN YoungShapes}
PlacedObjects == PlacedOld \cup PlacedYoung

None == -1   \* no location

VARIABLES
  memory,          \* location |-> word
  oldNextFree,     \* oldSpace.nextFree
  fromNextFree,    \* fromSpace.nextFree
  auxNextFree,     \* auxSpace.nextFree: auxSpace begins where old space does
  rememberedSet,   \* objects that may refer to from space
  ephemerons, unknowns, weakContainers,
  stack,           \* suspended scans
  scan,            \* the scan of followCountStartingAt
  rescan,          \* local of rescueEphemerons
  i,               \* index of the loop being executed
  buffer,          \* header of the next object of the space being walked
  reference,       \* slot whose turn it is in the list of an object
  pc,              \* where doCollect is
  newToOld,        \* new position |-> old one, kept by EqualChecker
  copy,            \* memory before the collection, kept by EqualChecker
  seen,            \* history: what the program sees, at the end of a collection
  collections, ops

spaceVars == <<oldNextFree, fromNextFree, auxNextFree>>
localVars == <<ephemerons, unknowns, weakContainers>>
scanVars == <<stack, scan>>
walkVars == <<buffer, reference, newToOld>>
historyVars == <<copy, seen, collections, ops>>
vars == <<memory, spaceVars, rememberedSet, localVars, scanVars, rescan, i, walkVars, pc,
          historyVars>>

-----------------------------------------------------------------------------
(* Words.  What a word is can be told from its low bit, once a header word  *)
(* is rotated: links point to slots, which are even, and header bits that   *)
(* may be threaded have the lowest flag, unseenInSpace, set.                *)
Oop(a) == <<"oop", a>>
Smi(n) == <<"smi", n>>
Link(l) == <<"link", l>>
Bits(h) == <<"bits", h>>
Extension(e) == <<"extension", e>>

Is(tag, word) == word[1] = tag
Value(word) == word[2]

HeaderOf(a) == memory[a - 2]
BitsOf(a) == Value(HeaderOf(a))
ExtensionOf(a) == Value(memory[a - 3])

(* Mutant: from space is forgotten. *)
OldSpaceIncludes(a) == OldBase <= a /\ a <= OldEnd

ArenaIncludes(a) == OldBase <= a /\ a <= FromEnd

(* _hasBeenSeenInLibrary: the flag is set, in bits that were not replaced   *)
(* by a link.  _hasBeenSeenInSpace is its negation.                         *)
HasBeenSeenInLibrary(a) == Is("bits", HeaderOf(a)) /\ BitsOf(a).unseenInSpace
HasBeenSeenInSpace(a) == ~HasBeenSeenInLibrary(a)

HasBeenSeen(a) == IF ArenaIncludes(a) THEN HasBeenSeenInSpace(a) ELSE HasBeenSeenInLibrary(a)

(* _size, also of an object whose bits are somewhere else.                  *)
SizeIn(bits, a) == IF bits.extended THEN ExtensionOf(a).size ELSE bits.size

Size(a) == SizeIn(BitsOf(a), a)

(* Mutant: weak slots are counted. *)
SizeWithWeakSlots(a) == 1 + Size(a)

StrongPointersSize(a) == IF BitsOf(a).hasWeaks THEN 1 ELSE 1 + Size(a)

IsActiveEphemeron(a) ==
  BitsOf(a).hasWeaks /\ BitsOf(a).extended /\ ExtensionOf(a).isEphemeron

(* The bits at the end of the list that starts at a location.               *)
BitsAfter[l \in Location] ==
  IF Is("link", memory[l]) THEN BitsAfter[Value(memory[l])] ELSE Value(memory[l])

UnthreadedSize(a) == SizeIn(BitsAfter[a - 2], a)

(* Mutant: the slot after the one scanned is threaded. *)
ThreadedAfter(a, l) == [memory EXCEPT ![l + 1] = HeaderOf(a), ![a - 2] = Link(l + 1)]

(* _threadWithAt *)
Threaded(a, l) == [memory EXCEPT ![l] = HeaderOf(a), ![a - 2] = Link(l)]

WithBits(a, bits) == [memory EXCEPT ![a - 2] = Bits(bits)]

(* The array of rescued ephemerons: slot 0 holds its size as VMArray does.  *)
Queue == Value(memory[RescuedEphemerons])
RescuedCount == Value(memory[Queue]) - 2
Rescued == {Value(memory[Queue + j]) : j \in 1 .. RescuedCount}

Traversing == scan.index < scan.limit \/ stack # << >>
At(label) == pc = label /\ ~Traversing
GoTo(label) == pc' = label /\ i' = 1

(* followCountStartingAt(scanned, size, base) *)
Scan(scanned, size, base) ==
  [scanned |-> scanned, index |-> base - 1, limit |-> base - 1 + size]
NoScan == Scan(Frame, 0, 1)

-----------------------------------------------------------------------------
(* What the program sees, in the terms of ObjectMemory: the objects by      *)
(* their hash, its temporaries, the extra root and the association, and the *)
(* queue.                                                                   *)
ObjectsBelow(base, nextFree) ==
  {a \in base + 2 .. nextFree : Is("bits", memory[a - 2])} \ {Queue}
ProgramObjects == ObjectsBelow(OldBase, oldNextFree) \cup ObjectsBelow(FromBase, fromNextFree)

Identity(word) ==
  CASE Is("oop", word) /\ Value(word) \in ProgramObjects -> BitsOf(Value(word)).hash
    [] Is("oop", word) /\ Value(word) = ResidueObject    -> -1
    [] Is("oop", word) /\ Value(word) = Nil              -> 0
    [] OTHER                                             -> -2

KindOf(a) ==
  CASE ~BitsOf(a).hasWeaks   -> "plain"
    [] IsActiveEphemeron(a)  -> "ephemeron"
    [] OTHER                 -> "weak"

NumSlots ==
  CHOOSE n \in {s.size : s \in Range(OldShapes) \cup Range(YoungShapes)} :
    \A s \in Range(OldShapes) \cup Range(YoungShapes) : s.size <= n

ObjectWith(hash) == CHOOSE a \in ProgramObjects : BitsOf(a).hash = hash

View ==
  [graph |-> [h \in {BitsOf(a).hash : a \in ProgramObjects} |->
                LET a == ObjectWith(h)
                IN  [kind  |-> KindOf(a),
                     slots |-> [k \in -1 .. NumSlots - 1 |->
                                  IF k < Size(a) THEN Identity(memory[a + k]) ELSE 0]]],
   roots |-> [l \in RootLocations \cup {Association} |-> Identity(memory[l])],
   rescued |-> [j \in 1 .. RescuedCount |-> Identity(memory[Queue + j])]]

-----------------------------------------------------------------------------
(* Every heap of the given shapes: stored slots and roots refer to any      *)
(* object or to nil.  The write barrier has put the objects that refer to   *)
(* from space in the remembered set, the association among them.            *)
ShapeOf(a) ==
  CASE a \in PlacedOld             -> OldShapes[a - QueueEnd]
    [] a \in PlacedYoung           -> YoungShapes[a - FromBase]
    [] a = QueueArray              -> QueueShape
    [] a = Association             -> [QueueShape EXCEPT !.size = 1]
    [] a \in {Nil, ResidueObject}  -> [QueueShape EXCEPT !.size = 0]

HashOf(a) == IF a \in PlacedObjects THEN Cardinality({b \in PlacedObjects : b <= a}) ELSE 0

(* Objects of libraries are marked before a collection, until they are      *)
(* unseen.                                                                  *)
InitialBits(a, remembered) ==
  LET shape == ShapeOf(a)
  IN  [hash |-> HashOf(a), size |-> IF shape.extended THEN 4 ELSE shape.size,
       extended |-> shape.extended, hasWeaks |-> shape.weak,
       unseenInSpace |-> a \notin LibraryObjects, inRememberedSet |-> a \in remembered]

InitialObjects == PlacedObjects \cup LibraryObjects \cup {QueueArray}

(* Memory with contents in the stored slots of the objects and in roots.    *)
HoldsStored(a, l) == l - a \in StoredSlots /\ -1 <= l - a /\ l - a < ShapeOf(a).size

MemoryOf(contents, roots, remembered) ==
  [l \in Location |->
     CASE l \in DOMAIN roots      -> Oop(roots[l])
       [] l = WellKnownRoots      -> Oop(Association)
       [] l = RescuedEphemerons   -> Oop(QueueArray)
       [] l = QueueArray          -> Smi(2)
       [] l + 2 \in InitialObjects -> Bits(InitialBits(l + 2, remembered))
       [] l + 3 \in PlacedObjects /\ ShapeOf(l + 3).extended
            -> Extension([size |-> ShapeOf(l + 3).size, isEphemeron |-> ShapeOf(l + 3).ephemeron])
       [] \E a \in PlacedObjects : HoldsStored(a, l)
            -> LET a == CHOOSE a \in PlacedObjects : HoldsStored(a, l) IN Oop(contents[a][l - a])
       [] OTHER -> Oop(Nil)]

RefersToYoung(contents, a) ==
  \E k \in StoredSlots : k < ShapeOf(a).size /\ contents[a][k] \in PlacedYoung

Init ==
  /\ \E contents \in [PlacedObjects -> [StoredSlots -> PlacedObjects \cup {Nil}]],
        roots \in [RootLocations \cup {Association} -> PlacedObjects \cup {Nil}] :
       LET remembered ==
             {a \in PlacedOld : RefersToYoung(contents, a)}
               \cup IF roots[Association] \in PlacedYoung THEN {Association} ELSE {}
       IN  /\ \A a \in PlacedObjects, k \in StoredSlots :
                k >= ShapeOf(a).size => contents[a][k] = Nil
           /\ memory = MemoryOf(contents, roots, remembered)
           /\ rememberedSet \in SetToSeqs(remembered)
  /\ oldNextFree = OldEnd
  /\ fromNextFree = FromBase + WordsOf(YoungShapes)
  /\ auxNextFree = OldBase
  /\ ephemerons = << >> /\ unknowns = << >> /\ weakContainers = << >>
  /\ stack = << >> /\ scan = NoScan
  /\ rescan = FALSE
  /\ i = 1
  /\ buffer = OldBase /\ reference = None /\ newToOld = << >>
  /\ pc = "mutator"
  /\ copy = memory
  /\ seen = View
  /\ collections = 0 /\ ops = 0

-----------------------------------------------------------------------------
(* Between collections the program drops a temporary or takes the newest    *)
(* entry of the queue.                                                      *)
MayOperate == pc = "mutator" /\ ops < MaxOps

Operated ==
  /\ ops' = ops + 1
  /\ UNCHANGED <<spaceVars, rememberedSet, localVars, scanVars, rescan, i, walkVars, pc, copy,
                 collections>>
  /\ seen' = View'

Drop(l) ==
  /\ MayOperate
  /\ memory' = [memory EXCEPT ![l] = Oop(Nil)]
  /\ Operated

Take(l) ==
  /\ MayOperate
  /\ RescuedCount > 0
  /\ memory' = [memory EXCEPT ![l] = memory[Queue + RescuedCount], ![Queue] = Smi(RescuedCount + 1)]
  /\ Operated

(* markAndCompactArena, up to doCollect: EqualChecker copies the memory.    *)
StartCollection ==
  /\ pc = "mutator"
  /\ collections < MaxCollections
  /\ collections' = collections + 1
  /\ copy' = memory
  /\ newToOld' = << >>
  /\ GoTo("unmarkRememberedSet")
  /\ UNCHANGED <<memory, spaceVars, rememberedSet, localVars, scanVars, rescan, buffer,
                 reference, seen, ops>>

(* unmarkRememberedSet stops before the last of the objects.                *)
Unmarked == {rememberedSet[j] : j \in 1 .. Len(rememberedSet) - 1}

(* unmarkRememberedSet, initAuxSpace, unseeWellKnownObjects and the objects *)
(* of the libraries; the caches of the host, which are not modelled, are    *)
(* flushed.                                                                 *)
UnmarkRememberedSet ==
  /\ At("unmarkRememberedSet")
  /\ memory' = [l \in Location |->
       LET a == l + 2
       IN  IF a \in Unmarked \cup LibraryObjects
           THEN Bits([Value(memory[l]) EXCEPT !.inRememberedSet = @ /\ a \notin Unmarked,
                                              !.unseenInSpace = @ /\ a \notin LibraryObjects])
           ELSE memory[l]]
  /\ rememberedSet' = << >>
  /\ auxNextFree' = OldBase
  /\ GoTo("followWellKnownObjects")
  /\ UNCHANGED <<oldNextFree, fromNextFree, localVars, scanVars, rescan, walkVars, historyVars>>

-----------------------------------------------------------------------------
(* followAll: the roots. *)
FollowRoots(label, location, size, next) ==
  /\ At(label)
  /\ scan' = Scan(location, size, 1)
  /\ GoTo(next)
  /\ UNCHANGED <<memory, spaceVars, rememberedSet, localVars, stack, rescan, walkVars, historyVars>>

FollowWellKnownObjects == FollowRoots("followWellKnownObjects", WellKnownRoots, 1, "followStack")
FollowStack == FollowRoots("followStack", Frame, NumTemporaries, "followExtraRoots")
FollowExtraRoots == FollowRoots("followExtraRoots", ExtraRoots, 1, "rescueEphemerons")

(* What was found through the queue of earlier collections is followed      *)
(* last.                                                                    *)
FollowRescuedEphemerons ==
  FollowRoots("followRescuedEphemerons", RescuedEphemerons, 1, "setNewPositions")

-----------------------------------------------------------------------------
(* followCountStartingAt. *)
FollowStep ==
  UNCHANGED <<spaceVars, rememberedSet, unknowns, rescan, i, walkVars, pc, historyVars>>

(* The slot looked at, and the scan after it. *)
Looked == scan.scanned + scan.index
Advanced == [scan EXCEPT !.index = @ + 1]

LooksAtReference == scan.index < scan.limit /\ Is("oop", memory[Looked])
Found == Value(memory[Looked])

(* addWeakContainer *)
RememberIfWeak(object) ==
  /\ ephemerons' = IF IsActiveEphemeron(object) THEN Append(ephemerons, object) ELSE ephemerons
  /\ weakContainers' = IF BitsOf(object).hasWeaks /\ ~IsActiveEphemeron(object)
                       THEN Append(weakContainers, object) ELSE weakContainers

(* The rest of what is scanned is suspended, the object found is next.      *)
Descend(object) ==
  /\ stack' = IF Advanced.index < scan.limit THEN Append(stack, Advanced) ELSE stack
  /\ RememberIfWeak(object)
  /\ scan' = Scan(object, StrongPointersSize(object), 0)

IgnoreSmallInteger ==
  /\ scan.index < scan.limit
  /\ Is("smi", memory[Looked])
  /\ scan' = Advanced
  /\ FollowStep
  /\ UNCHANGED <<memory, stack, ephemerons, weakContainers>>

IgnoreSeenInLibrary ==
  /\ LooksAtReference
  /\ ~ArenaIncludes(Found) /\ HasBeenSeenInLibrary(Found)
  /\ scan' = Advanced
  /\ FollowStep
  /\ UNCHANGED <<memory, stack, ephemerons, weakContainers>>

FollowInLibrary ==
  /\ LooksAtReference
  /\ ~ArenaIncludes(Found) /\ ~HasBeenSeenInLibrary(Found)
  /\ Descend(Found)
  /\ memory' = WithBits(Found, [BitsOf(Found) EXCEPT !.unseenInSpace = TRUE])
  /\ FollowStep

(* An object is threaded with every slot that refers to it, its own slots   *)
(* are followed the first time.                                             *)
ThreadSeen ==
  /\ LooksAtReference
  /\ ArenaIncludes(Found) /\ HasBeenSeenInSpace(Found)
  /\ memory' = Threaded(Found, Looked)
  /\ scan' = Advanced
  /\ FollowStep
  /\ UNCHANGED <<stack, ephemerons, weakContainers>>

ThreadAndFollow ==
  /\ LooksAtReference
  /\ ArenaIncludes(Found) /\ ~HasBeenSeenInSpace(Found)
  /\ Descend(Found)
  /\ memory' = Threaded(Found, Looked)
  /\ FollowStep

ResumeScan ==
  /\ scan.index >= scan.limit
  /\ stack # << >>
  /\ scan' = Last(stack)
  /\ stack' = Front(stack)
  /\ FollowStep
  /\ UNCHANGED <<memory, ephemerons, weakContainers>>

FollowCountStartingAt ==
  \/ IgnoreSmallInteger \/ IgnoreSeenInLibrary \/ FollowInLibrary
  \/ ThreadSeen \/ ThreadAndFollow \/ ResumeScan

-----------------------------------------------------------------------------
(* rescueEphemerons, as in the scavenger: the ephemerons found are looked   *)
(* at again as long as one of them had a key that was reached; those left   *)
(* are queued.                                                              *)
RescueStep ==
  UNCHANGED <<spaceVars, rememberedSet, weakContainers, stack, walkVars, historyVars>>

(* Mutant: the marks of keys are taken for those of libraries. *)
KeyReachedInLibrary(ephemeron) ==
  LET key == memory[ephemeron] IN Is("oop", key) => HasBeenSeenInLibrary(Value(key))

(* checkReachablePropertyOf *)
KeyReached(ephemeron) ==
  LET key == memory[ephemeron] IN Is("oop", key) => HasBeenSeen(Value(key))

(* Mutant: the local keeps its value. *)
LookWithoutReset ==
  /\ At("rescueEphemerons")
  /\ ephemerons # << >>
  /\ GoTo("collectUnknowns")
  /\ RescueStep
  /\ UNCHANGED <<memory, ephemerons, unknowns, scan, rescan>>

LookForEphemerons ==
  /\ At("rescueEphemerons")
  /\ ephemerons # << >>
  /\ rescan' = FALSE
  /\ GoTo("collectUnknowns")
  /\ RescueStep
  /\ UNCHANGED <<memory, ephemerons, unknowns, scan>>

(* Mutant: one pass over the ephemerons. *)
FollowWithoutRescan ==
  LET ephemeron == Last(ephemerons)
  IN  /\ At("collectUnknowns")
      /\ ephemerons # << >>
      /\ KeyReached(ephemeron)
      /\ ephemerons' = Front(ephemerons)
      /\ scan' = Scan(ephemeron, ExtensionOf(ephemeron).size, 1)
      /\ RescueStep
      /\ UNCHANGED <<memory, unknowns, rescan, i, pc>>

FollowEphemeron ==
  LET ephemeron == Last(ephemerons)
  IN  /\ At("collectUnknowns")
      /\ ephemerons # << >>
      /\ KeyReached(ephemeron)
      /\ ephemerons' = Front(ephemerons)
      /\ scan' = Scan(ephemeron, ExtensionOf(ephemeron).size, 1)
      /\ rescan' = TRUE
      /\ RescueStep
      /\ UNCHANGED <<memory, unknowns, i, pc>>

CollectUnknown ==
  /\ At("collectUnknowns")
  /\ ephemerons # << >>
  /\ ~KeyReached(Last(ephemerons))
  /\ ephemerons' = Front(ephemerons)
  /\ unknowns' = Append(unknowns, Last(ephemerons))
  /\ RescueStep
  /\ UNCHANGED <<memory, scan, rescan, i, pc>>

Rescan ==
  /\ At("collectUnknowns")
  /\ ephemerons = << >>
  /\ rescan
  /\ ephemerons' = unknowns
  /\ unknowns' = << >>
  /\ GoTo("rescueEphemerons")
  /\ RescueStep
  /\ UNCHANGED <<memory, scan, rescan>>

RescueUnknowns ==
  /\ At("collectUnknowns")
  /\ ephemerons = << >>
  /\ ~rescan
  /\ GoTo("rescueEphemeron")
  /\ RescueStep
  /\ UNCHANGED <<memory, ephemerons, unknowns, scan, rescan>>

RescueEphemeron ==
  /\ At("rescueEphemeron")
  /\ i <= Len(unknowns)
  /\ scan' = Scan(unknowns[i], ExtensionOf(unknowns[i]).size, 1)
  /\ pc' = "addRescued"
  /\ RescueStep
  /\ UNCHANGED <<memory, ephemerons, unknowns, rescan, i>>

(* The contents of the queue have room: they do not grow in the model.      *)
AddRescued ==
  /\ At("addRescued")
  /\ RescuedCount < QueueSize
  /\ memory' = [memory EXCEPT ![Queue + RescuedCount + 1] = Oop(unknowns[i]),
                              ![Queue] = Smi(RescuedCount + 3)]
  /\ i' = i + 1
  /\ pc' = "rescueEphemeron"
  /\ RescueStep
  /\ UNCHANGED <<ephemerons, unknowns, scan, rescan>>

UnknownsRescued ==
  /\ At("rescueEphemeron")
  /\ i > Len(unknowns)
  /\ unknowns' = << >>
  /\ GoTo("rescueEphemerons")
  /\ RescueStep
  /\ UNCHANGED <<memory, ephemerons, scan, rescan>>

(* someEphemeronsRescued does nothing here. *)
EphemeronsDecided ==
  /\ At("rescueEphemerons")
  /\ ephemerons = << >>
  /\ GoTo("fixWeakContainers")
  /\ RescueStep
  /\ UNCHANGED <<memory, ephemerons, unknowns, scan, rescan>>

RescueEphemerons ==
  \/ LookForEphemerons \/ FollowEphemeron \/ CollectUnknown \/ Rescan
  \/ RescueUnknowns \/ RescueEphemeron \/ AddRescued \/ UnknownsRescued \/ EphemeronsDecided

-----------------------------------------------------------------------------
(* The size of a weak container, whose header is threaded by now.           *)
WeakSize(container) ==
  IF ArenaIncludes(container) THEN UnthreadedSize(container) ELSE Size(container)

(* Mutant: the slots are not followed. *)
FixWithoutFollowing ==
  LET container == weakContainers[i]
      dead == {l \in container .. container + WeakSize(container) - 1 :
                 Is("oop", memory[l]) /\ ~HasBeenSeen(Value(memory[l]))}
  IN  /\ At("fixWeakContainers")
      /\ i <= Len(weakContainers)
      /\ memory' = [l \in Location |-> IF l \in dead THEN Oop(ResidueObject) ELSE memory[l]]
      /\ i' = i + 1
      /\ UNCHANGED <<spaceVars, rememberedSet, localVars, scanVars, rescan, walkVars, pc, historyVars>>

(* fixReferencesOrSetTombstone: what was not seen is replaced, then the     *)
(* slots are threaded like any others.                                      *)
FixWeakContainer ==
  LET container == weakContainers[i]
      dead == {l \in container .. container + WeakSize(container) - 1 :
                 Is("oop", memory[l]) /\ ~HasBeenSeen(Value(memory[l]))}
  IN  /\ At("fixWeakContainers")
      /\ i <= Len(weakContainers)
      /\ memory' = [l \in Location |-> IF l \in dead THEN Oop(ResidueObject) ELSE memory[l]]
      /\ scan' = Scan(container, WeakSize(container), 1)
      /\ i' = i + 1
      /\ UNCHANGED <<spaceVars, rememberedSet, localVars, stack, rescan, walkVars, pc, historyVars>>

(* Mutant: the containers stay. *)
FixedWithoutReset ==
  /\ At("fixWeakContainers")
  /\ i > Len(weakContainers)
  /\ GoTo("followRescuedEphemerons")
  /\ UNCHANGED <<memory, spaceVars, rememberedSet, localVars, scanVars, rescan, walkVars, historyVars>>

WeakContainersFixed ==
  /\ At("fixWeakContainers")
  /\ i > Len(weakContainers)
  /\ weakContainers' = << >>
  /\ GoTo("followRescuedEphemerons")
  /\ UNCHANGED <<memory, spaceVars, rememberedSet, ephemerons, unknowns, scanVars, rescan,
                 walkVars, historyVars>>

-----------------------------------------------------------------------------
(* setNewPositions and compact walk the objects of old space, then those of *)
(* from space.                                                              *)
Positioning == pc \in {"setNewPositions", "setNewPositionsInFrom"} /\ ~Traversing
Compacting == pc \in {"compact", "compactFrom"}
NextFree == IF pc \in {"setNewPositions", "compact"} THEN oldNextFree ELSE fromNextFree

(* _unthreadedHeaderSizeInBytes: a link or basic bits are a basic header.   *)
UnthreadedHeaderSize == IF Is("extension", memory[buffer]) THEN 3 ELSE 2

(* The object whose header is at buffer. *)
NextObject == buffer + UnthreadedHeaderSize
IsBelowNextFree(object) == object <= NextFree

(* Where the next object will be. *)
NewPosition == auxNextFree + UnthreadedHeaderSize

WalkStep ==
  UNCHANGED <<oldNextFree, fromNextFree, rememberedSet, localVars, scanVars, rescan, i, historyVars>>

(* Initially, and after each space. *)
WalkFrom(base, label) ==
  /\ buffer' = base
  /\ pc' = label
  /\ WalkStep
  /\ UNCHANGED <<memory, auxNextFree, reference, newToOld>>

StartUnthreading ==
  /\ Positioning /\ reference = None
  /\ IsBelowNextFree(NextObject)
  /\ HasBeenSeenInSpace(NextObject)
  /\ reference' = Value(HeaderOf(NextObject))
  /\ newToOld' = [a \in DOMAIN newToOld \cup {NewPosition} |->
                    IF a = NewPosition THEN NextObject ELSE newToOld[a]]
  /\ WalkStep
  /\ UNCHANGED <<memory, auxNextFree, buffer, pc>>

(* One slot of the list is given the new position; it tells the next one. *)
UpdateReference ==
  /\ Positioning /\ reference # None
  /\ Is("link", memory[reference])
  /\ memory' = [memory EXCEPT ![reference] = Oop(NewPosition)]
  /\ reference' = Value(memory[reference])
  /\ WalkStep
  /\ UNCHANGED <<auxNextFree, buffer, newToOld, pc>>

(* Mutant: the header is left unseen. *)
UnthreadForgettingMark ==
  /\ Positioning /\ reference # None
  /\ ~Is("link", memory[reference])
  /\ LET bits == Value(memory[reference])
     IN  /\ memory' = [memory EXCEPT ![reference] = Oop(NewPosition),
                                     ![NextObject - 2] = Bits(bits)]
         /\ auxNextFree' = NewPosition + SizeIn(bits, NextObject)
         /\ buffer' = NextObject + SizeIn(bits, NextObject)
  /\ reference' = None
  /\ WalkStep
  /\ UNCHANGED <<newToOld, pc>>

(* The last slot of the list holds the header bits. *)
EndUnthreading ==
  /\ Positioning /\ reference # None
  /\ ~Is("link", memory[reference])
  /\ LET bits == Value(memory[reference])
     IN  /\ memory' = [memory EXCEPT ![reference] = Oop(NewPosition),
                                     ![NextObject - 2] = Bits([bits EXCEPT !.unseenInSpace = FALSE])]
         /\ auxNextFree' = NewPosition + SizeIn(bits, NextObject)
         /\ buffer' = NextObject + SizeIn(bits, NextObject)
  /\ reference' = None
  /\ WalkStep
  /\ UNCHANGED <<newToOld, pc>>

SkipUnseen ==
  /\ Positioning /\ reference = None
  /\ IsBelowNextFree(NextObject)
  /\ ~HasBeenSeenInSpace(NextObject)
  /\ buffer' = NextObject + Size(NextObject)
  /\ WalkStep
  /\ UNCHANGED <<memory, auxNextFree, reference, newToOld, pc>>

OldPositionsSet ==
  /\ pc = "setNewPositions" /\ ~Traversing /\ reference = None
  /\ ~IsBelowNextFree(NextObject)
  /\ WalkFrom(FromBase, "setNewPositionsInFrom")

(* Mutant: auxSpace is not reset. *)
PrepareWithoutReset ==
  /\ pc = "setNewPositionsInFrom" /\ reference = None
  /\ ~IsBelowNextFree(NextObject)
  /\ buffer' = OldBase
  /\ pc' = "compact"
  /\ WalkStep
  /\ UNCHANGED <<memory, auxNextFree, reference, newToOld>>

(* prepareForCompact resets auxSpace. *)
PrepareForCompact ==
  /\ pc = "setNewPositionsInFrom" /\ reference = None
  /\ ~IsBelowNextFree(NextObject)
  /\ buffer' = OldBase
  /\ auxNextFree' = OldBase
  /\ pc' = "compact"
  /\ WalkStep
  /\ UNCHANGED <<memory, reference, newToOld>>

(* shallowCopy forgets the remembered flag, compact the mark. *)
CopiedBits(bits) == [bits EXCEPT !.inRememberedSet = FALSE, !.unseenInSpace = TRUE]

CompactObject ==
  /\ Compacting
  /\ IsBelowNextFree(NextObject)
  /\ LET size == UnthreadedHeaderSize + Size(NextObject)
     IN  /\ buffer' = buffer + size
         /\ IF HasBeenSeenInSpace(NextObject)
            THEN /\ memory' = [l \in Location |->
                      CASE l = NewPosition - 2 -> Bits(CopiedBits(BitsOf(NextObject)))
                        [] l \in auxNextFree .. auxNextFree + size - 1 /\ l # NewPosition - 2
                             -> memory[l - auxNextFree + buffer]
                        [] OTHER -> memory[l]]
                 /\ auxNextFree' = auxNextFree + size
            ELSE UNCHANGED <<memory, auxNextFree>>
  /\ WalkStep
  /\ UNCHANGED <<reference, newToOld, pc>>

OldCompacted ==
  /\ pc = "compact"
  /\ ~IsBelowNextFree(NextObject)
  /\ WalkFrom(FromBase, "compactFrom")

(* updateOldSpace, makeRescuedEphemeronsNonWeak, updateNativeRescued-       *)
(* Ephemerons, resetFrom.  The arrays of the host, which are dropped and    *)
(* allocated anew, take no room here.                                       *)
EndCollection ==
  /\ pc = "compactFrom"
  /\ ~IsBelowNextFree(NextObject)
  /\ oldNextFree' = auxNextFree
  /\ fromNextFree' = FromBase
  /\ memory' = [l \in Location |->
       IF l + 2 \in Rescued THEN Bits([Value(memory[l]) EXCEPT !.hasWeaks = FALSE]) ELSE memory[l]]
  /\ buffer' = OldBase
  /\ pc' = "mutator"
  /\ UNCHANGED <<auxNextFree, rememberedSet, localVars, scanVars, rescan, i, reference, newToOld,
                 copy, collections, ops>>
  /\ seen' = View'

SetNewPositionsAndCompact ==
  \/ StartUnthreading \/ UpdateReference \/ EndUnthreading \/ SkipUnseen \/ OldPositionsSet
  \/ PrepareForCompact \/ CompactObject \/ OldCompacted

Collector ==
  \/ UnmarkRememberedSet
  \/ FollowWellKnownObjects \/ FollowStack \/ FollowExtraRoots
  \/ FollowCountStartingAt
  \/ RescueEphemerons
  \/ FixWeakContainer \/ WeakContainersFixed
  \/ FollowRescuedEphemerons
  \/ SetNewPositionsAndCompact
  \/ EndCollection

Next ==
  \/ \E l \in RootLocations : Drop(l) \/ Take(l)
  \/ StartCollection
  \/ Collector

Spec == Init /\ [][Next]_vars
FairSpec == Spec /\ WF_vars(Collector)

-----------------------------------------------------------------------------
(* Properties. *)
HeaderBits ==
  [hash : Nat, size : Nat, extended : BOOLEAN, hasWeaks : BOOLEAN,
   unseenInSpace : BOOLEAN, inRememberedSet : BOOLEAN]

WordOK(word) ==
  \/ Is("oop", word) /\ Value(word) \in Location
  \/ Is("smi", word) /\ Value(word) \in 2 .. QueueSize + 2
  \/ Is("link", word) /\ Value(word) \in Location
  \/ Is("bits", word) /\ Value(word) \in HeaderBits
  \/ Is("extension", word) /\ Value(word) \in [size : Nat, isEphemeron : BOOLEAN]

ScanType == [scanned : Location, index : Nat \cup {-1}, limit : Nat]

(* The types of the variables of MarkAndCompactGC. *)
TypeOK ==
  /\ DOMAIN memory = Location /\ \A l \in Location : WordOK(memory[l])
  /\ DOMAIN copy = Location /\ \A l \in Location : WordOK(copy[l])
  /\ oldNextFree \in OldBase .. FromBase
  /\ fromNextFree \in FromBase .. FromEnd
  /\ auxNextFree \in OldBase .. FromBase
  /\ \A objects \in {rememberedSet, ephemerons, unknowns, weakContainers} :
       objects \in Seq(Location)
  /\ scan \in ScanType /\ stack \in Seq(ScanType)
  /\ rescan \in BOOLEAN /\ i \in Nat \ {0}
  /\ buffer \in Location /\ reference \in Location \cup {None}
  /\ DOMAIN newToOld \subseteq Location /\ Range(newToOld) \subseteq Location
  /\ collections \in 0 .. MaxCollections /\ ops \in 0 .. MaxOps

(* followCountStartingAt looks at every slot at most once: what it reads is *)
(* a reference or a small integer, never a link or the bits that threading  *)
(* has put in place of a reference.                                         *)
NoSlotThreadedTwice ==
  scan.index < scan.limit => Is("oop", memory[Looked]) \/ Is("smi", memory[Looked])

Marking ==
  pc \in {"followWellKnownObjects", "followStack", "followExtraRoots",
          "rescueEphemerons", "collectUnknowns", "rescueEphemeron", "addRescued",
          "fixWeakContainers", "followRescuedEphemerons"}

(* The slots on the list that goes through a location, after it.            *)
ListedAfter[l \in Location] ==
  IF Is("link", memory[l])
  THEN {Value(memory[l])} \cup ListedAfter[Value(memory[l])]
  ELSE {}

CopiedObjects ==
  {a \in (OldBase + 2 .. oldNextFree) \cup (FromBase + 2 .. fromNextFree) : Is("bits", copy[a - 2])}

(* The word that would be at a location if every list was undone. *)
Undone(l) ==
  IF \E a \in CopiedObjects : l \in ListedAfter[a - 2]
  THEN Oop(CHOOSE a \in CopiedObjects : l \in ListedAfter[a - 2])
  ELSE IF Is("link", memory[l]) THEN Bits(BitsAfter[l]) ELSE memory[l]

(* A slot of a weak object, or a word of the queue, before the collection.  *)
(* The slots of ephemerons never become tombstones.                         *)
InWeakObject(l) ==
  \E a \in CopiedObjects :
    LET bits == Value(copy[a - 2])
    IN  /\ bits.hasWeaks
        /\ IF bits.extended
           THEN ~Value(copy[a - 3]).isEphemeron /\ l \in a .. a - 1 + Value(copy[a - 3]).size
           ELSE l \in a .. a - 1 + bits.size
InQueue(l) == l - Value(copy[RescuedEphemerons]) \in 0 .. QueueSize

(* What may become of a word until the collection begins to move objects:   *)
(* header bits change their flags, slots of weak objects become tombstones. *)
KeptAt(l, now) ==
  LET before == copy[l]
  IN  IF Is("bits", before)
      THEN /\ Is("bits", now)
           /\ [Value(now) EXCEPT !.unseenInSpace = TRUE, !.inRememberedSet = FALSE]
                = [Value(before) EXCEPT !.unseenInSpace = TRUE, !.inRememberedSet = FALSE]
      ELSE \/ now = before
           \/ InQueue(l)
           \/ InWeakObject(l) /\ now = Oop(ResidueObject)

(* Nothing is lost while references and header bits wander through the      *)
(* lists: undoing the lists gives back the memory as EqualChecker copied it *)
(* before the collection, but for flags, tombstones in weak objects and     *)
(* the queue.                                                               *)
ThreadsUndoable == Marking => \A l \in Location : KeptAt(l, Undone(l))

(* compact makes a second walk and finds the objects where setNewPositions  *)
(* said they would be, and never copies over an object it has not moved.    *)
CompactsAsPlanned ==
  Compacting /\ IsBelowNextFree(NextObject) /\ HasBeenSeenInSpace(NextObject)
    => /\ NewPosition \in DOMAIN newToOld
       /\ newToOld[NewPosition] = NextObject
       /\ NewPosition <= NextObject

(* The queue of rescued ephemerons is followed when the weak containers are *)
(* fixed and the ephemerons are decided: a weak object or an ephemeron that *)
(* is met only then is never looked at.  What one collection queues it has  *)
(* followed; what an earlier one has queued may come too late.              *)
NothingFoundLate ==
  pc = "setNewPositions" => weakContainers = << >> /\ ephemerons = << >>

(* EqualChecker::checkSlotsOf. *)
SlotEqual(new, old, k) ==
  LET word == memory[new + k]
      other == IF Is("oop", word) /\ Value(word) \in OldBase .. oldNextFree
               THEN IF Value(word) \in DOMAIN newToOld THEN Oop(newToOld[Value(word)]) ELSE Smi(0)
               ELSE word
  IN  copy[old + k] = other \/ (word = Oop(ResidueObject) /\ BitsOf(new).hasWeaks)

(* EqualChecker::checkHeaderBits. *)
HeaderEqual(new, old) ==
  LET Kept(bits) == [bits EXCEPT !.inRememberedSet = FALSE, !.hasWeaks = FALSE]
  IN  /\ Is("bits", memory[new - 2])
      /\ Kept(BitsOf(new)) = Kept(Value(copy[old - 2]))
      /\ BitsOf(new).extended => memory[new - 3] = copy[old - 3]

(* What EqualChecker::current.checkAllEqual asserts once the arena is       *)
(* compacted: a moved object is equal to what it was, each of its slots     *)
(* refers to the object it referred to, wherever that is now, or to a       *)
(* tombstone.  The queue is left out: it may have grown.  Like the checker, *)
(* it does not see references into from space.                              *)
MovedObjectsEqual ==
  pc = "mutator" => \A a \in DOMAIN newToOld \ {Queue} :
    /\ HeaderEqual(a, newToOld[a])
    /\ \A k \in -1 .. Size(a) - 1 : SlotEqual(a, newToOld[a], k)
=============================================================================
