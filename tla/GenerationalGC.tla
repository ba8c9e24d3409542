--------------------------- MODULE GenerationalGC ---------------------------
(***************************************************************************)
(* The scavenger: GenerationalGC together with the part of                 *)
(* GarbageCollector it inherits, and the host program whose objects it     *)
(* moves.                                                                  *)
(*                                                                         *)
(* The program runs ("mutator"); at any allocation it may call             *)
(* collect(), which runs to the end before the program continues.  Inside  *)
(* a collection a step is one iteration of a loop of the code: one slot    *)
(* scanned, one ephemeron looked at, one entry purged.  The loops over the *)
(* rescued ephemerons and over the weak containers, whose iterations do    *)
(* not depend on each other, are a step each.                              *)
(*                                                                         *)
(* Addresses are integers, as in the code, and an object takes one of      *)
(* them: sizes do not matter to the collector, only which of the spaces    *)
(* an address lies in.  The arrays the code scans or fills that are not    *)
(* objects of the program (the stack frame, the native code, the contents  *)
(* of rescuedEphemerons) have addresses outside of the new spaces.         *)
(***************************************************************************)
EXTENDS Integers, SequencesExt

CONSTANTS
  SemiSize,     \* objects that fit in each of the two new spaces
  OldSize,      \* bound: objects that fit in old space
  RememberedSize,  \* entries the array of the remembered set has room for
  NumSlots,     \* slots of an object, besides its behavior
  NumRoots,     \* temporaries in the stack frame
  RescuedSize,  \* bound: entries of rescuedEphemerons
  NumOffsets,   \* places of the native code that refer to objects
  Kinds,        \* kinds of the objects the program creates
  StoredSlots,  \* slots the program writes
  MaxOps        \* bound: operations of the program

ASSUME SizesAssumption ==
  /\ SemiSize \in Nat \ {0}
  /\ OldSize \in Nat \ {0}
  /\ RememberedSize \in Nat \ {0}
  /\ NumSlots \in Nat \ {0}
  /\ NumRoots \in Nat \ {0}
  /\ RescuedSize \in Nat
  /\ NumOffsets \in Nat
  /\ MaxOps \in Nat
ASSUME KindsAssumption == Kinds \subseteq {"plain", "weak", "ephemeron"}
ASSUME StoredSlotsAssumption == StoredSlots \subseteq -1 .. NumSlots - 1

(* Objects of the library, never collected by a scavenge. *)
Nil == 0
Tombstone == -1       \* memory->residueObject

(* What the collector scans besides objects. *)
Stack == -2           \* the frame of the running method
RescuedArray == -3    \* rescuedEphemerons.contents
CodeCache == -4       \* the native code

NewBase1 == 1
NewBase2 == SemiSize + 1
OldBase == 2 * SemiSize + 1
Address == CodeCache .. OldBase + OldSize - 1

VARIABLES
  header,       \* address |-> header of the object there
  slots,        \* address |-> slots of the object there
  fromSpace,    \* new space in use
  toSpace,      \* new space the survivors are copied to
  oldSpace,     \* space the objects are tenured to
  rememberedSet,         \* old objects that may refer to new ones
  detached,              \* what the host still has of it once its array has grown
  literalsReferences,    \* native code that may refer to new objects
  classCheckReferences,  \* native code that refers to classes
  nativizedMethods,      \* methods with native code
  lookupCache,           \* the method cache of the host, one entry of it
  rescuedCount,          \* rescuedEphemerons.size()
  vm,                    \* flags the host keeps for the collector
  ephemerons,            \* ephemerons found and not yet decided
  unknowns,              \* ephemerons whose key was not reached so far
  weakContainers,        \* weak objects found
  stack,                 \* suspended scans
  scan,                  \* the scan of followCountStartingAt
  rescan, anyRescued,    \* locals of rescueEphemerons
  i,                     \* index of the loop being executed
  pc,                    \* where doCollect is
  seen,                  \* history: what the program sees; a collection does not show
                         \* until it ends
  ops                    \* operations the program has done

heapVars == <<header, slots>>
spaceVars == <<fromSpace, toSpace, oldSpace>>
hostVars == <<literalsReferences, classCheckReferences, nativizedMethods, lookupCache, vm>>
localVars == <<ephemerons, unknowns, weakContainers>>
scanVars == <<stack, scan>>
controlVars == <<rescan, anyRescued, i, pc>>
vars == <<heapVars, spaceVars, rememberedSet, detached, hostVars, rescuedCount, localVars, scanVars,
          controlVars, seen, ops>>

-----------------------------------------------------------------------------
(* Objects.  A header that was overwritten with a forwarding address by     *)
(* _setProxee has a proxee different from Nil; its other fields are not     *)
(* read any more.                                                           *)
Header == [hash : Nat, secondGeneration : BOOLEAN, inRememberedSet : BOOLEAN,
           hasWeaks : BOOLEAN, isEphemeron : BOOLEAN, proxee : Address]

FreeHeader == [hash |-> 0, secondGeneration |-> FALSE, inRememberedSet |-> FALSE,
               hasWeaks |-> FALSE, isEphemeron |-> FALSE, proxee |-> Nil]

(* _size() *)
Size(a) ==
  CASE a = Stack -> NumRoots
    [] a = RescuedArray -> RescuedSize + 1
    [] a = CodeCache -> NumOffsets
    [] OTHER -> NumSlots

SlotIndex(a) == -1 .. Size(a) - 1
EmptySlots(a) == [k \in SlotIndex(a) |-> Nil]

(* Mutant: forwarding addresses are not recognised. *)
ProxiesOverlooked(a) == FALSE

IsProxy(a) == header[a].proxee # Nil

(* Mutant: weak slots are counted. *)
SizeWithWeakSlots(a) == 1 + Size(a)

(* _strongPointersSize(): of weak objects only the behavior is scanned. *)
StrongPointersSize(a) == IF header[a].hasWeaks THEN 1 ELSE 1 + Size(a)

(* Spaces. *)
Space == [base : Address, nextFree : Nat, limit : Nat]
Includes(space, a) == space.base <= a /\ a < space.limit
ObjectsIn(space) == space.base .. space.nextFree - 1

ArenaIncludes(a) == Includes(fromSpace, a)

(* Mutant: weak slots are left out. *)
IsReferredByStrongly(space, a) ==
  \E k \in -1 .. StrongPointersSize(a) - 2 : Includes(space, slots[a][k])

(* GCSpace::isReferredBy looks at every slot, the weak ones too. *)
IsReferredBy(space, a) == \E k \in SlotIndex(a) : Includes(space, slots[a][k])

HasToPurge(a) == ArenaIncludes(a) \/ ~IsReferredBy(fromSpace, a)

(* followCountStartingAt has slots left to scan, here or on its stack. *)
Traversing == scan.index < scan.limit \/ stack # << >>

NoScan == [objects |-> Stack, index |-> 0, limit |-> 0]

(* The step of doCollect that is executed, between two traversals. *)
At(label) == pc = label /\ ~Traversing
GoTo(label) == pc' = label /\ i' = 1

-----------------------------------------------------------------------------
(* What the program sees: its objects, known by their identity hash. *)
ProgramObjects == ObjectsIn(fromSpace) \cup ObjectsIn(oldSpace)

Identity(v) == IF v \in ProgramObjects THEN header[v].hash ELSE v

KindOf(a) ==
  CASE ~header[a].hasWeaks -> "plain"
    [] header[a].hasWeaks /\ ~header[a].isEphemeron -> "weak"
    [] OTHER -> "ephemeron"

ObjectWith(hash) == CHOOSE a \in ProgramObjects : header[a].hash = hash

View ==
  [graph   |-> [h \in {header[a].hash : a \in ProgramObjects} |->
                  [kind  |-> KindOf(ObjectWith(h)),
                   slots |-> [k \in -1 .. NumSlots - 1 |->
                                Identity(slots[ObjectWith(h)][k])]]],
   roots   |-> [r \in 0 .. NumRoots - 1 |-> Identity(slots[Stack][r])],
   code    |-> [o \in 0 .. NumOffsets - 1 |-> Identity(slots[CodeCache][o])],
   rescued |-> [j \in 1 .. rescuedCount |-> Identity(slots[RescuedArray][j])]]

EmptyView == [graph |-> << >>, roots |-> [r \in 0 .. NumRoots - 1 |-> Nil],
              code |-> [o \in 0 .. NumOffsets - 1 |-> Nil], rescued |-> << >>]

-----------------------------------------------------------------------------
(* The program. *)
NewSpace(base, size) == [base |-> base, nextFree |-> base, limit |-> base + size]

Init ==
  /\ header = [a \in Address |-> FreeHeader]
  /\ slots = [a \in Address |-> EmptySlots(a)]
  /\ fromSpace = NewSpace(NewBase1, SemiSize)
  /\ toSpace = NewSpace(NewBase2, SemiSize)
  /\ oldSpace = NewSpace(OldBase, OldSize)
  /\ rememberedSet = << >> /\ detached = << >>
  /\ literalsReferences = << >>
  /\ classCheckReferences = << >>
  /\ nativizedMethods = << >>
  /\ lookupCache = Nil
  /\ rescuedCount = 0
  /\ vm = [globalCacheHasPointersToFrom |-> FALSE,
           anyCompiledMethodInFromSpace |-> FALSE,
           anyNativizedCompiledMethodInFromSpace |-> FALSE]
  /\ ephemerons = << >> /\ unknowns = << >> /\ weakContainers = << >>
  /\ stack = << >>
  /\ scan = NoScan
  /\ rescan = FALSE /\ anyRescued = FALSE
  /\ i = 1
  /\ pc = "mutator"
  /\ seen = EmptyView
  /\ ops = 0

Operation ==
  /\ pc = "mutator"
  /\ ops < MaxOps
  /\ ops' = ops + 1
  /\ UNCHANGED <<localVars, scanVars, controlVars>>

HashInUse(h) == \E a \in ProgramObjects : header[a].hash = h

(* A new object in from space, referred to by a temporary. *)
Allocate(kind, hash, r) ==
  LET new == fromSpace.nextFree
  IN  /\ Operation
      /\ new < fromSpace.limit
      /\ ~HashInUse(hash) /\ \A h \in 1 .. hash - 1 : HashInUse(h)
      /\ header' = [header EXCEPT ![new] =
                      [FreeHeader EXCEPT !.hash = hash,
                                         !.hasWeaks = (kind # "plain"),
                                         !.isEphemeron = (kind = "ephemeron")]]
      /\ slots' = [slots EXCEPT ![new] = EmptySlots(new), ![Stack][r] = new]
      /\ fromSpace' = [fromSpace EXCEPT !.nextFree = new + 1]
      /\ UNCHANGED <<toSpace, oldSpace, rememberedSet, detached, hostVars, rescuedCount>>

(* The write barrier of the host: an old object that gets a reference to a  *)
(* new one enters the remembered set, unless its flag says it is there.     *)
(* How the host makes room in a full set is not in this repository: its     *)
(* program stops there.                                                     *)
WriteBarrier(a, v) ==
  IF Includes(oldSpace, a) /\ Includes(fromSpace, v) /\ ~header[a].inRememberedSet
  THEN /\ Len(rememberedSet) < RememberedSize
       /\ header' = [header EXCEPT ![a].inRememberedSet = TRUE]
       /\ rememberedSet' = Append(rememberedSet, a)
       /\ UNCHANGED detached
  ELSE UNCHANGED <<header, rememberedSet, detached>>

(* The object of a temporary gets the value of another one, or nil. *)
Store(r, k, v) ==
  LET a == slots[Stack][r]
  IN  /\ Operation
      /\ a \in ProgramObjects
      /\ slots' = [slots EXCEPT ![a][k] = v]
      /\ WriteBarrier(a, v)
      /\ UNCHANGED <<spaceVars, hostVars, rescuedCount>>

SetTemporary(r, v) ==
  /\ Operation
  /\ slots' = [slots EXCEPT ![Stack][r] = v]
  /\ UNCHANGED <<header, spaceVars, rememberedSet, detached, hostVars>>

Load(r, k, q) ==
  /\ slots[Stack][r] \in ProgramObjects
  /\ SetTemporary(q, slots[slots[Stack][r]][k])
  /\ UNCHANGED rescuedCount

Drop(r) ==
  /\ slots[Stack][r] # Nil
  /\ SetTemporary(r, Nil)
  /\ UNCHANGED rescuedCount

(* The program takes a rescued ephemeron out of the queue, with pop(). *)
Take(r) ==
  /\ rescuedCount > 0
  /\ SetTemporary(r, slots[RescuedArray][rescuedCount])
  /\ rescuedCount' = rescuedCount - 1

(* Native code is generated that refers to an object. *)
EmbedLiteral(o, r) ==
  LET literal == slots[Stack][r]
  IN  /\ Operation
      /\ slots[CodeCache][o] = Nil
      /\ literal \in ProgramObjects
      /\ slots' = [slots EXCEPT ![CodeCache][o] = literal]
      /\ literalsReferences' =
           IF Includes(fromSpace, literal)
           THEN Append(literalsReferences, [literal |-> literal, offset |-> o])
           ELSE literalsReferences
      /\ UNCHANGED <<header, spaceVars, rememberedSet, detached, classCheckReferences,
                     nativizedMethods, lookupCache, vm, rescuedCount>>

(* Native code is generated that checks for a class. *)
EmbedClassCheck(o, r) ==
  LET class == slots[Stack][r]
  IN  /\ Operation
      /\ slots[CodeCache][o] = Nil
      /\ class \in ProgramObjects
      /\ slots' = [slots EXCEPT ![CodeCache][o] = class]
      /\ classCheckReferences' = Append(classCheckReferences, o)
      /\ vm' = [vm EXCEPT !.anyCompiledMethodInFromSpace = @ \/ Includes(fromSpace, class)]
      /\ UNCHANGED <<header, spaceVars, rememberedSet, detached, literalsReferences,
                     nativizedMethods, lookupCache, rescuedCount>>

(* A method gets native code. *)
Nativize(r) ==
  LET method == slots[Stack][r]
  IN  /\ Operation
      /\ NumOffsets > 0
      /\ method \in ProgramObjects
      /\ method \notin ToSet(nativizedMethods)
      /\ nativizedMethods' = Append(nativizedMethods, method)
      /\ vm' = [vm EXCEPT !.anyNativizedCompiledMethodInFromSpace =
                            @ \/ Includes(fromSpace, method)]
      /\ UNCHANGED <<heapVars, spaceVars, rememberedSet, detached, literalsReferences,
                     classCheckReferences, lookupCache, rescuedCount>>

(* The host caches the result of a method lookup. *)
FillLookupCache(r) ==
  LET method == slots[Stack][r]
  IN  /\ Operation
      /\ NumOffsets > 0
      /\ method \in ProgramObjects
      /\ lookupCache' = method
      /\ vm' = [vm EXCEPT !.globalCacheHasPointersToFrom = @ \/ Includes(fromSpace, method)]
      /\ UNCHANGED <<heapVars, spaceVars, rememberedSet, detached, literalsReferences,
                     classCheckReferences, nativizedMethods, rescuedCount>>

Mutator ==
  /\ \/ \E kind \in Kinds, hash \in 1 .. SemiSize + OldSize, r \in 0 .. NumRoots - 1 :
          Allocate(kind, hash, r)
     \/ \E r, q \in 0 .. NumRoots - 1, k \in StoredSlots : Store(r, k, slots[Stack][q])
     \/ \E r \in 0 .. NumRoots - 1, k \in StoredSlots : Store(r, k, Nil)
     \/ \E r, q \in 0 .. NumRoots - 1, k \in StoredSlots : Load(r, k, q)
     \/ \E r \in 0 .. NumRoots - 1 : Drop(r)
     \/ \E r \in 0 .. NumRoots - 1 : Take(r)
     \/ \E o \in 0 .. NumOffsets - 1, r \in 0 .. NumRoots - 1 : EmbedLiteral(o, r)
     \/ \E o \in 0 .. NumOffsets - 1, r \in 0 .. NumRoots - 1 : EmbedClassCheck(o, r)
     \/ \E r \in 0 .. NumRoots - 1 : Nativize(r)
     \/ \E r \in 0 .. NumRoots - 1 : FillLookupCache(r)
  /\ seen' = View'

-----------------------------------------------------------------------------
(* The set the collector adds to grows when its array is full (VMArray).    *)
(* The host is not told of the new array: it keeps the full one.            *)
Attached == detached = << >>

GrowWhenFull ==
  detached' = IF Attached /\ Len(rememberedSet) >= RememberedSize THEN rememberedSet ELSE detached

(* Moving objects.  An object that is copied gets the address of its copy   *)
(* in the place of its header.                                              *)

(* The next free cell of the space gets a copy of the object.               *)
CopyTo(object, copy, flags) ==
  header' = [header EXCEPT ![copy] = flags, ![object].proxee = copy]

(* Mutant: holdReferenceTo is not called. *)
MoveToOldUnremembered(object) ==
  LET copy == oldSpace.nextFree
  IN  /\ copy < oldSpace.limit
      /\ CopyTo(object, copy, [header[object] EXCEPT !.inRememberedSet = FALSE])
      /\ oldSpace' = [oldSpace EXCEPT !.nextFree = copy + 1]
      /\ UNCHANGED <<fromSpace, toSpace, rememberedSet, detached>>

(* shallowCopy clears the flag of the copy, holdReferenceTo sets it.        *)
MoveToOldSpace(object) ==
  LET copy == oldSpace.nextFree
  IN  /\ copy < oldSpace.limit
      /\ CopyTo(object, copy, [header[object] EXCEPT !.inRememberedSet = TRUE])
      /\ oldSpace' = [oldSpace EXCEPT !.nextFree = copy + 1]
      /\ rememberedSet' = Append(rememberedSet, copy)
      /\ GrowWhenFull
      /\ UNCHANGED <<fromSpace, toSpace>>

MoveToToSpace(object) ==
  LET copy == toSpace.nextFree
  IN  /\ copy < toSpace.limit
      /\ CopyTo(object, copy, [header[object] EXCEPT !.secondGeneration = TRUE,
                                                     !.inRememberedSet = FALSE])
      /\ toSpace' = [toSpace EXCEPT !.nextFree = copy + 1]
      /\ UNCHANGED <<fromSpace, oldSpace, rememberedSet, detached>>

MoveToOldOrTo(object) ==
  IF header[object].secondGeneration THEN MoveToOldSpace(object) ELSE MoveToToSpace(object)

Destination(object) ==
  IF header[object].secondGeneration THEN oldSpace.nextFree ELSE toSpace.nextFree

(* Mutant: the test of the flag is inverted. *)
HoldWhenFlagged(a) ==
  IF header[a].inRememberedSet
  THEN /\ header' = [header EXCEPT ![a].inRememberedSet = TRUE]
       /\ rememberedSet' = Append(rememberedSet, a)
       /\ GrowWhenFull
  ELSE UNCHANGED <<header, rememberedSet, detached>>

HoldReferenceTo(a) ==
  IF header[a].inRememberedSet
  THEN UNCHANGED <<header, rememberedSet, detached>>
  ELSE /\ header' = [header EXCEPT ![a].inRememberedSet = TRUE]
       /\ rememberedSet' = Append(rememberedSet, a)
       /\ GrowWhenFull

(* Mutant: only ephemerons are told. *)
RememberEphemerons(original, object) ==
  /\ ephemerons' = IF KindOf(original) = "ephemeron" THEN Append(ephemerons, object)
                                                     ELSE ephemerons
  /\ UNCHANGED <<unknowns, weakContainers>>

(* Tells the weak objects among those found, known by the flags they had    *)
(* before they moved.                                                       *)
RememberIfWeak(original, object) ==
  LET kind == KindOf(original)
  IN  /\ ephemerons' = IF kind = "ephemeron" THEN Append(ephemerons, object) ELSE ephemerons
      /\ weakContainers' = IF kind = "weak" THEN Append(weakContainers, object)
                                            ELSE weakContainers
      /\ UNCHANGED unknowns

-----------------------------------------------------------------------------
(* followCountStartingAt: the scan of the slots from scan.index up to       *)
(* scan.limit, which goes into each object it moves at once.                *)
(* Mutants: the last slot is not scanned; the one behind it is. *)
ScanButLast(a, start, size) ==
  scan' = [objects |-> a, index |-> start - 1, limit |-> start - 2 + size]

ScanOneMore(a, start, size) ==
  scan' = [objects |-> a, index |-> start - 1, limit |-> start + size]

ScanFrom(a, start, size) ==
  scan' = [objects |-> a, index |-> start - 1, limit |-> start - 1 + size]

Scanned == slots[scan.objects][scan.index]

Scanning ==
  /\ scan.index < scan.limit
  /\ UNCHANGED <<hostVars, rescuedCount, controlVars, seen, ops>>

Advanced == [scan EXCEPT !.index = @ + 1]

ScanOutside ==
  /\ Scanning
  /\ ~ArenaIncludes(Scanned)
  /\ scan' = Advanced
  /\ UNCHANGED <<heapVars, spaceVars, rememberedSet, detached, localVars, stack>>

ScanProxy ==
  /\ Scanning
  /\ ArenaIncludes(Scanned)
  /\ IsProxy(Scanned)
  /\ slots' = [slots EXCEPT ![scan.objects][scan.index] = header[Scanned].proxee]
  /\ scan' = Advanced
  /\ UNCHANGED <<header, spaceVars, rememberedSet, detached, localVars, stack>>

ScanCopy ==
  LET object == Scanned
      moved  == Destination(object)
  IN  /\ Scanning
      /\ ArenaIncludes(object)
      /\ ~IsProxy(object)
      /\ stack' = IF Advanced.index < Advanced.limit THEN Append(stack, Advanced) ELSE stack
      /\ MoveToOldOrTo(object)
      /\ slots' = [slots EXCEPT ![moved] = slots[object], ![scan.objects][scan.index] = moved]
      /\ RememberIfWeak(object, moved)
      /\ ScanFrom(moved, 0, StrongPointersSize(object))

ScanPop ==
  /\ scan.index >= scan.limit
  /\ stack # << >>
  /\ scan' = Last(stack)
  /\ stack' = Front(stack)
  /\ UNCHANGED <<heapVars, spaceVars, rememberedSet, detached, hostVars, rescuedCount, localVars,
                 controlVars, seen, ops>>

FollowCountStartingAt == ScanOutside \/ ScanProxy \/ ScanCopy \/ ScanPop

-----------------------------------------------------------------------------
(* doCollect, in the order of its calls. *)

StartScavenge ==
  /\ At("mutator")
  /\ ephemerons' = << >> /\ unknowns' = << >> /\ weakContainers' = << >>
  /\ stack' = << >>
  /\ GoTo("purgeLiteralsReferences")
  /\ UNCHANGED <<heapVars, spaceVars, rememberedSet, detached, hostVars, rescuedCount, scan,
                 rescan, anyRescued, seen, ops>>

(* The end of a loop that only goes on to the next call. *)
Proceed(here, next) ==
  /\ At(here)
  /\ GoTo(next)
  /\ UNCHANGED <<heapVars, spaceVars, rememberedSet, detached, hostVars, rescuedCount, localVars,
                 scanVars, rescan, anyRescued, seen, ops>>

(* The loops that purge an array write the elements that are kept over its  *)
(* beginning: here the others are taken out, and i is the next to look at.  *)
PurgeLiteral ==
  /\ At("purgeLiteralsReferences")
  /\ i <= Len(literalsReferences)
  /\ IF ArenaIncludes(literalsReferences[i].literal)
     THEN i' = i + 1 /\ UNCHANGED literalsReferences
     ELSE literalsReferences' = RemoveAt(literalsReferences, i) /\ UNCHANGED i
  /\ UNCHANGED <<heapVars, spaceVars, rememberedSet, detached, classCheckReferences,
                 nativizedMethods, lookupCache, vm, rescuedCount, localVars, scanVars, rescan,
                 anyRescued, pc, seen, ops>>

LiteralsReferencesPurged ==
  i > Len(literalsReferences) /\ Proceed("purgeLiteralsReferences", "purgeRememberedSet")

(* Mutant: the flag is left set. *)
FlagKept(a) == header

(* _beNotInRememberedSet *)
NotInRememberedSet(a) == [header EXCEPT ![a].inRememberedSet = FALSE]

PurgeRemembered ==
  LET object == rememberedSet[i]
  IN  /\ At("purgeRememberedSet")
      /\ i <= Len(rememberedSet)
      /\ IF HasToPurge(object)
         THEN /\ header' = NotInRememberedSet(object)
              /\ rememberedSet' = RemoveAt(rememberedSet, i)
              /\ UNCHANGED i
         ELSE i' = i + 1 /\ UNCHANGED <<header, rememberedSet>>
      /\ UNCHANGED <<detached, slots, spaceVars, hostVars, rescuedCount, localVars, scanVars,
                     rescan, anyRescued, pc, seen, ops>>

RememberedSetPurged ==
  i > Len(rememberedSet) /\ Proceed("purgeRememberedSet", "followCodeCacheReferences")

ClearGlobalLookupCache ==
  /\ At("followCodeCacheReferences")
  /\ lookupCache' = IF vm.globalCacheHasPointersToFrom THEN Nil ELSE lookupCache
  /\ vm' = [vm EXCEPT !.globalCacheHasPointersToFrom = FALSE]
  /\ GoTo(IF vm.anyCompiledMethodInFromSpace THEN "moveClassCheckReferences"
                                             ELSE "checkNativizedMethods")
  /\ UNCHANGED <<heapVars, spaceVars, rememberedSet, detached, literalsReferences,
                 classCheckReferences, nativizedMethods, rescuedCount, localVars, scanVars,
                 rescan, anyRescued, seen, ops>>

(* Code can only refer to old objects: those in from space are moved there, *)
(* whatever their generation, and entered in the remembered set so that     *)
(* their slots are scanned later.                                           *)
ToBeMoved(object) == ArenaIncludes(object) /\ ~IsProxy(object)

(* Mutant: an object that was moved before is referred to where it was. *)
TenuredIfMovedNow(object) == IF ToBeMoved(object) THEN oldSpace.nextFree ELSE object

Tenured(object) ==
  CASE ToBeMoved(object)                             -> oldSpace.nextFree
    [] ArenaIncludes(object) /\ IsProxy(object)      -> header[object].proxee
    [] OTHER                                         -> object

Tenure(object) ==
  IF ToBeMoved(object) THEN MoveToOldSpace(object)
                       ELSE UNCHANGED <<header, spaceVars, rememberedSet, detached>>

SlotsWithTenured(object) ==
  IF ToBeMoved(object) THEN [slots EXCEPT ![oldSpace.nextFree] = slots[object]] ELSE slots

Iterate == i' = i + 1 /\ UNCHANGED <<pc, rescan, anyRescued, rescuedCount, localVars, scanVars,
                                     lookupCache, vm, seen, ops>>

MoveClassCheckReference ==
  LET offset == classCheckReferences[i]
      object == slots[CodeCache][offset]
  IN  /\ At("moveClassCheckReferences")
      /\ i <= Len(classCheckReferences)
      /\ Tenure(object)
      /\ slots' = [SlotsWithTenured(object) EXCEPT ![CodeCache][offset] = Tenured(object)]
      /\ Iterate
      /\ UNCHANGED <<classCheckReferences, literalsReferences, nativizedMethods>>

ClassCheckReferencesMoved ==
  /\ At("moveClassCheckReferences")
  /\ i > Len(classCheckReferences)
  /\ vm' = [vm EXCEPT !.anyCompiledMethodInFromSpace = FALSE]
  /\ GoTo("checkNativizedMethods")
  /\ UNCHANGED <<heapVars, spaceVars, rememberedSet, detached, literalsReferences,
                 classCheckReferences, nativizedMethods, lookupCache, rescuedCount,
                 localVars, scanVars, rescan, anyRescued, seen, ops>>

CheckNativizedMethods ==
  /\ At("checkNativizedMethods")
  /\ vm' = [vm EXCEPT !.anyNativizedCompiledMethodInFromSpace = FALSE]
  /\ GoTo(IF vm.anyNativizedCompiledMethodInFromSpace THEN "moveNativizedMethods"
                                                      ELSE "moveLiteralsReferences")
  /\ UNCHANGED <<heapVars, spaceVars, rememberedSet, detached, literalsReferences,
                 classCheckReferences, nativizedMethods, lookupCache, rescuedCount,
                 localVars, scanVars, rescan, anyRescued, seen, ops>>

(* moveToOldAll(nativizedMethods) *)
MoveNativizedMethod ==
  LET object == nativizedMethods[i]
  IN  /\ At("moveNativizedMethods")
      /\ i <= Len(nativizedMethods)
      /\ Tenure(object)
      /\ slots' = SlotsWithTenured(object)
      /\ nativizedMethods' = [nativizedMethods EXCEPT ![i] = Tenured(object)]
      /\ Iterate
      /\ UNCHANGED <<classCheckReferences, literalsReferences>>

(* moveToOldAll(literalsReferences) *)
MoveLiteralReference ==
  LET object == literalsReferences[i].literal
  IN  /\ At("moveLiteralsReferences")
      /\ i <= Len(literalsReferences)
      /\ Tenure(object)
      /\ slots' = SlotsWithTenured(object)
      /\ literalsReferences' = [literalsReferences EXCEPT ![i].literal = Tenured(object)]
      /\ Iterate
      /\ UNCHANGED <<classCheckReferences, nativizedMethods>>

NativizedMethodsMoved ==
  i > Len(nativizedMethods) /\ Proceed("moveNativizedMethods", "moveLiteralsReferences")
LiteralsReferencesMoved ==
  i > Len(literalsReferences) /\ Proceed("moveLiteralsReferences", "followRememberedSet")

(* The set grows while it is followed: tenured objects are added to it.     *)
FollowRemembered ==
  LET object == rememberedSet[i]
  IN  /\ At("followRememberedSet")
      /\ i <= Len(rememberedSet)
      /\ RememberIfWeak(object, object)
      /\ ScanFrom(object, 0, StrongPointersSize(object))
      /\ i' = i + 1
      /\ UNCHANGED <<heapVars, spaceVars, rememberedSet, detached, hostVars, rescuedCount, stack,
                     pc, rescan, anyRescued, seen, ops>>

RememberedSetFollowed ==
  i > Len(rememberedSet) /\ Proceed("followRememberedSet", "followStack")

(* One frame, its temporaries scanned from the first on. *)
FollowStack ==
  /\ At("followStack")
  /\ ScanFrom(Stack, 1, NumRoots)
  /\ GoTo("rescueEphemerons")
  /\ rescan' = FALSE /\ anyRescued' = FALSE
  /\ UNCHANGED <<heapVars, spaceVars, rememberedSet, detached, hostVars, rescuedCount, localVars,
                 stack, seen, ops>>

-----------------------------------------------------------------------------
(* rescueEphemerons.  The ephemerons found are looked at again as long as   *)
(* one of them had a key that was reached, for what it refers to may hold   *)
(* the key of another; those left are queued.                               *)
RescueStep ==
  UNCHANGED <<spaceVars, hostVars, weakContainers, stack, seen, ops>>

(* Mutant: a key outside of from space does not count as reached. *)
KeyMoved(ephemeron) == IsProxy(slots[ephemeron][0])

(* checkReachablePropertyOf *)
KeyReached(ephemeron) ==
  LET key == slots[ephemeron][0] IN IsProxy(key) \/ ~ArenaIncludes(key)

(* Mutant: rescan is not reset. *)
LookWithoutReset ==
  /\ At("rescueEphemerons")
  /\ ephemerons # << >>
  /\ GoTo("collectUnknowns")
  /\ RescueStep
  /\ UNCHANGED <<heapVars, rememberedSet, detached, rescuedCount, ephemerons, unknowns, scan,
                 rescan, anyRescued>>

LookForEphemerons ==
  /\ At("rescueEphemerons")
  /\ ephemerons # << >>
  /\ rescan' = FALSE
  /\ GoTo("collectUnknowns")
  /\ RescueStep
  /\ UNCHANGED <<heapVars, rememberedSet, detached, rescuedCount, ephemerons, unknowns, scan,
                 anyRescued>>

(* Mutant: one pass over the ephemerons. *)
FollowWithoutRescan ==
  LET ephemeron == Last(ephemerons)
  IN  /\ At("collectUnknowns")
      /\ ephemerons # << >>
      /\ KeyReached(ephemeron)
      /\ ephemerons' = Front(ephemerons)
      /\ ScanFrom(ephemeron, 1, Size(ephemeron))
      /\ RescueStep
      /\ UNCHANGED <<heapVars, rememberedSet, detached, rescuedCount, unknowns, rescan,
                     anyRescued, i, pc>>

FollowEphemeron ==
  LET ephemeron == Last(ephemerons)
  IN  /\ At("collectUnknowns")
      /\ ephemerons # << >>
      /\ KeyReached(ephemeron)
      /\ ephemerons' = Front(ephemerons)
      /\ ScanFrom(ephemeron, 1, Size(ephemeron))
      /\ rescan' = TRUE
      /\ RescueStep
      /\ UNCHANGED <<heapVars, rememberedSet, detached, rescuedCount, unknowns, anyRescued, i,
                     pc>>

CollectUnknown ==
  LET ephemeron == Last(ephemerons)
  IN  /\ At("collectUnknowns")
      /\ ephemerons # << >>
      /\ ~KeyReached(ephemeron)
      /\ ephemerons' = Front(ephemerons)
      /\ unknowns' = Append(unknowns, ephemeron)
      /\ RescueStep
      /\ UNCHANGED <<heapVars, rememberedSet, detached, rescuedCount, scan, rescan, anyRescued, i,
                     pc>>

Rescan ==
  /\ At("collectUnknowns")
  /\ ephemerons = << >>
  /\ rescan
  /\ ephemerons' = unknowns
  /\ unknowns' = << >>
  /\ GoTo("rescueEphemerons")
  /\ RescueStep
  /\ UNCHANGED <<heapVars, rememberedSet, detached, rescuedCount, scan, rescan, anyRescued>>

RescueUnknowns ==
  /\ At("collectUnknowns")
  /\ ephemerons = << >>
  /\ ~rescan
  /\ GoTo("rescueEphemeron")
  /\ RescueStep
  /\ UNCHANGED <<heapVars, rememberedSet, detached, rescuedCount, ephemerons, unknowns, scan,
                 rescan, anyRescued>>

RescueEphemeron ==
  /\ At("rescueEphemeron")
  /\ i <= Len(unknowns)
  /\ ScanFrom(unknowns[i], 1, Size(unknowns[i]))
  /\ pc' = "addRescued"
  /\ RescueStep
  /\ UNCHANGED <<heapVars, rememberedSet, detached, rescuedCount, ephemerons, unknowns,
                 rescan, anyRescued, i>>

AddRescued ==
  /\ At("addRescued")
  /\ rescuedCount < RescuedSize
  /\ slots' = [slots EXCEPT ![RescuedArray][rescuedCount + 1] = unknowns[i]]
  /\ rescuedCount' = rescuedCount + 1
  /\ i' = i + 1
  /\ pc' = "rescueEphemeron"
  /\ RescueStep
  /\ UNCHANGED <<header, rememberedSet, detached, ephemerons, unknowns, scan, rescan, anyRescued>>

UnknownsRescued ==
  /\ At("rescueEphemeron")
  /\ i > Len(unknowns)
  /\ anyRescued' = TRUE
  /\ unknowns' = << >>
  /\ GoTo("rescueEphemerons")
  /\ RescueStep
  /\ UNCHANGED <<heapVars, rememberedSet, detached, rescuedCount, ephemerons, scan, rescan>>

(* someEphemeronsRescued: the queue may refer to new objects. *)
EphemeronsDecided ==
  /\ At("rescueEphemerons")
  /\ ephemerons = << >>
  /\ IF anyRescued THEN HoldReferenceTo(RescuedArray)
                   ELSE UNCHANGED <<header, rememberedSet, detached>>
  /\ GoTo("makeRescuedEphemeronsNonWeak")
  /\ RescueStep
  /\ UNCHANGED <<slots, rescuedCount, ephemerons, unknowns, scan, rescan, anyRescued>>

-----------------------------------------------------------------------------
(* The end of the collection. *)
(* Mutant: the first entry is left out. *)
RescuedButFirst == {slots[RescuedArray][j] : j \in 2 .. rescuedCount}

Rescued == {slots[RescuedArray][j] : j \in 1 .. rescuedCount}

MakeRescuedEphemeronsNonWeak ==
  /\ At("makeRescuedEphemeronsNonWeak")
  /\ header' = [a \in Address |-> IF a \in Rescued THEN [header[a] EXCEPT !.hasWeaks = FALSE]
                                                   ELSE header[a]]
  /\ GoTo("fixWeakContainers")
  /\ UNCHANGED <<slots, spaceVars, rememberedSet, detached, hostVars, rescuedCount, localVars,
                 scanVars, rescan, anyRescued, seen, ops>>

(* Mutant: no tombstone is set. *)
WeakReferenceKept(v) == IF ArenaIncludes(v) /\ IsProxy(v) THEN header[v].proxee ELSE v

(* fixReferencesOrSetTombstone: what a weak slot refers to from now on.     *)
WeakReference(v) ==
  CASE ~ArenaIncludes(v) -> v
    [] ArenaIncludes(v) /\ IsProxy(v) -> header[v].proxee
    [] OTHER -> Tombstone

FixWeakContainers ==
  /\ At("fixWeakContainers")
  /\ slots' = [a \in Address |->
                 IF a \in ToSet(weakContainers)
                 THEN [k \in SlotIndex(a) |-> IF k = -1 THEN slots[a][k]
                                                       ELSE WeakReference(slots[a][k])]
                 ELSE slots[a]]
  /\ weakContainers' = << >>
  /\ GoTo("flipSpaces")
  /\ UNCHANGED <<header, spaceVars, rememberedSet, detached, hostVars, rescuedCount, ephemerons,
                 unknowns, scanVars, rescan, anyRescued, seen, ops>>

(* Mutant: the swap goes without the auxiliary space. *)
SwapWithoutAux ==
  fromSpace' = toSpace /\ toSpace' = [toSpace EXCEPT !.nextFree = toSpace.base]

SwapSpaces ==
  fromSpace' = toSpace /\ toSpace' = [fromSpace EXCEPT !.nextFree = fromSpace.base]

(* The space that was collected is empty: its cells are cleared here, so    *)
(* that states do not differ in memory nobody may read.                     *)
FlipSpaces ==
  /\ At("flipSpaces")
  /\ SwapSpaces
  /\ header' = [a \in Address |-> IF ArenaIncludes(a) THEN FreeHeader ELSE header[a]]
  /\ slots' = [a \in Address |-> IF ArenaIncludes(a) THEN EmptySlots(a) ELSE slots[a]]
  /\ GoTo("fixReferencesFromNativeMethods")
  /\ UNCHANGED <<oldSpace, rememberedSet, detached, hostVars, rescuedCount, localVars, scanVars,
                 rescan, anyRescued, seen, ops>>

(* Mutant: the native code is not updated. *)
NoLiterals(offset) == {}

LiteralsAt(offset) ==
  {ref.literal : ref \in {r \in ToSet(literalsReferences) : r.offset = offset}}

FixReferencesFromNativeMethods ==
  /\ At("fixReferencesFromNativeMethods")
  /\ slots' = [slots EXCEPT ![CodeCache] =
                 [o \in SlotIndex(CodeCache) |->
                    IF LiteralsAt(o) # {} THEN CHOOSE v \in LiteralsAt(o) : TRUE
                                          ELSE slots[CodeCache][o]]]
  /\ GoTo("cleanRememberedSet")
  /\ UNCHANGED <<header, spaceVars, rememberedSet, detached, hostVars, rescuedCount, localVars,
                 scanVars, rescan, anyRescued, seen, ops>>

(* The objects of the set that were in the space just emptied. *)
CleanRemembered ==
  /\ At("cleanRememberedSet")
  /\ i <= Len(rememberedSet)
  /\ IF Includes(toSpace, rememberedSet[i])
     THEN rememberedSet' = RemoveAt(rememberedSet, i) /\ UNCHANGED i
     ELSE i' = i + 1 /\ UNCHANGED rememberedSet
  /\ UNCHANGED <<detached, heapVars, spaceVars, hostVars, rescuedCount, localVars, scanVars,
                 rescan, anyRescued, pc, seen, ops>>

(* collect() returns.  The next one asks the host where the set is          *)
(* (updateFromReferer): what was added after the array had grown is not in  *)
(* it.                                                                      *)
EndScavenge ==
  /\ At("cleanRememberedSet")
  /\ i > Len(rememberedSet)
  /\ scan' = NoScan /\ rescan' = FALSE /\ anyRescued' = FALSE
  /\ rememberedSet' = IF Attached THEN rememberedSet ELSE detached
  /\ detached' = << >>
  /\ GoTo("mutator")
  /\ UNCHANGED <<heapVars, spaceVars, hostVars, rescuedCount, localVars,
                 stack, ops>>
  /\ seen' = View'

RescueEphemerons ==
  \/ LookForEphemerons \/ FollowEphemeron \/ CollectUnknown \/ Rescan
  \/ RescueUnknowns \/ RescueEphemeron \/ AddRescued \/ UnknownsRescued \/ EphemeronsDecided

FollowCodeCacheReferences ==
  \/ ClearGlobalLookupCache
  \/ MoveClassCheckReference \/ ClassCheckReferencesMoved
  \/ CheckNativizedMethods \/ MoveNativizedMethod \/ NativizedMethodsMoved
  \/ MoveLiteralReference \/ LiteralsReferencesMoved

(* The steps of the collection once it has started. *)
Collector ==
  \/ PurgeLiteral \/ LiteralsReferencesPurged \/ PurgeRemembered \/ RememberedSetPurged
  \/ FollowCodeCacheReferences
  \/ FollowRemembered \/ RememberedSetFollowed \/ FollowStack
  \/ RescueEphemerons
  \/ MakeRescuedEphemeronsNonWeak \/ FixWeakContainers
  \/ FlipSpaces \/ FixReferencesFromNativeMethods
  \/ CleanRemembered \/ EndScavenge
  \/ FollowCountStartingAt

Next == Mutator \/ StartScavenge \/ Collector

Spec == Init /\ [][Next]_vars

(* collect() runs to its end before the program goes on: it is never        *)
(* suspended.                                                               *)
FairSpec == Spec /\ WF_vars(Collector)

-----------------------------------------------------------------------------
Labels ==
  {"mutator", "purgeLiteralsReferences", "purgeRememberedSet", "followCodeCacheReferences",
   "moveClassCheckReferences", "checkNativizedMethods", "moveNativizedMethods",
   "moveLiteralsReferences", "followRememberedSet", "followStack", "rescueEphemerons",
   "collectUnknowns", "rescueEphemeron", "addRescued", "makeRescuedEphemeronsNonWeak",
   "fixWeakContainers", "flipSpaces", "fixReferencesFromNativeMethods", "cleanRememberedSet"}

Scan == [objects : Address, index : Int, limit : Int]

IsSlots(f) ==
  /\ f = [a \in Address |-> f[a]]
  /\ \A a \in Address : f[a] \in [SlotIndex(a) -> Address]

HeapTypeOK ==
  /\ header \in [Address -> Header]
  /\ IsSlots(slots)

IsSpace(space, size) ==
  /\ space \in Space
  /\ space.limit = space.base + size
  /\ space.base <= space.nextFree /\ space.nextFree <= space.limit

SpacesTypeOK ==
  /\ \/ fromSpace.base = NewBase1 /\ toSpace.base = NewBase2
     \/ fromSpace.base = NewBase2 /\ toSpace.base = NewBase1
  /\ oldSpace.base = OldBase
  /\ IsSpace(fromSpace, SemiSize) /\ IsSpace(toSpace, SemiSize) /\ IsSpace(oldSpace, OldSize)

HostTypeOK ==
  /\ rememberedSet \in Seq(Address)
  /\ literalsReferences \in Seq([literal : Address, offset : 0 .. NumOffsets - 1])
  /\ classCheckReferences \in Seq(0 .. NumOffsets - 1)
  /\ nativizedMethods \in Seq(Address)
  /\ lookupCache \in Address
  /\ rescuedCount \in 0 .. RescuedSize
  /\ vm \in [globalCacheHasPointersToFrom : BOOLEAN,
             anyCompiledMethodInFromSpace : BOOLEAN,
             anyNativizedCompiledMethodInFromSpace : BOOLEAN]

LocalsTypeOK ==
  /\ ephemerons \in Seq(Address) /\ unknowns \in Seq(Address)
  /\ weakContainers \in Seq(Address)
  /\ stack \in Seq(Scan) /\ scan \in Scan

ControlTypeOK ==
  /\ rescan \in BOOLEAN /\ anyRescued \in BOOLEAN
  /\ i \in Nat \ {0}
  /\ pc \in Labels
  /\ ops \in 0 .. MaxOps

CollectorTypeOK == HeapTypeOK /\ SpacesTypeOK /\ HostTypeOK /\ LocalsTypeOK /\ ControlTypeOK

(* The type invariant: headers, slots, spaces, the arrays of the host and   *)
(* those of the collector hold what their names say.                        *)
TypeOK == CollectorTypeOK /\ detached \in Seq(Address)

-----------------------------------------------------------------------------
(* The traversal never looks outside of what it scans: followCountStartingAt*)
(* is called with starts and sizes that differ for objects, ephemerons and  *)
(* frames, and what it suspends is resumed with another object's indices in *)
(* between.                                                                 *)
Inside(s) == -1 <= s.index /\ s.limit <= Size(s.objects)

ScansInside == Inside(scan) /\ \A j \in DOMAIN stack : Inside(stack[j])

-----------------------------------------------------------------------------
(* Between collections nothing the program, the native code or the host can *)
(* get at refers to memory without an object: whatever a scavenge moved was *)
(* changed in every slot, literal, class check and list that named it.      *)
ValidReference(v) == v \in ProgramObjects \cup {Nil, Tombstone}

NoDanglingReference ==
  pc = "mutator" =>
    /\ \A a \in ProgramObjects \cup {Stack, RescuedArray, CodeCache} :
         \A k \in SlotIndex(a) : ValidReference(slots[a][k])
    /\ \A j \in DOMAIN nativizedMethods : ValidReference(nativizedMethods[j])
    /\ \A j \in DOMAIN literalsReferences : ValidReference(literalsReferences[j].literal)
    /\ ValidReference(lookupCache)

(* What purgeRememberedSet, holdReferenceTo and cleanRememberedSet together *)
(* must leave to the next scavenge: every old object that refers to a new   *)
(* one, weakly or not, is in the remembered set.                            *)
OldObjects == ObjectsIn(oldSpace) \cup {RescuedArray}

RememberedSetComplete ==
  pc = "mutator" =>
    \A a \in OldObjects :
      (\E k \in SlotIndex(a) : ArenaIncludes(slots[a][k])) => a \in ToSet(rememberedSet)

(* The host still has the whole set when a scavenge comes to its end.       *)
HostHasTheSet == pc = "cleanRememberedSet" => Attached

(* The flag in the header and the set tell the same at every step of a      *)
(* scavenge, and the set has no object twice: the write barrier and         *)
(* holdReferenceTo only look at the flag.                                   *)
Live(a) == a \in ObjectsIn(fromSpace) \cup ObjectsIn(toSpace) \cup OldObjects

RememberedFlagAgrees ==
  /\ \A a \in Address :
       Live(a) /\ ~IsProxy(a) => (header[a].inRememberedSet <=> a \in ToSet(rememberedSet))
  /\ \A j, k \in DOMAIN rememberedSet : rememberedSet[j] = rememberedSet[k] => j = k

(* No slot is forgotten by the traversal: as long as a slot of an object    *)
(* that stays refers to the space being emptied, some scan, now or on the   *)
(* stack, has it ahead of it; or its object is in the part of the           *)
(* remembered set still to be followed; or it is the stack frame, not yet   *)
(* looked at; or it is a weak slot of an object among those found.          *)
BeforeFlip == pc \notin {"mutator", "fixReferencesFromNativeMethods", "cleanRememberedSet"}

ScanAhead(a, k) ==
  \E s \in {scan} \cup ToSet(stack) : s.objects = a /\ s.index <= k /\ k < s.limit

RootsBefore ==
  {"purgeLiteralsReferences", "purgeRememberedSet", "followCodeCacheReferences",
   "moveClassCheckReferences", "checkNativizedMethods", "moveNativizedMethods",
   "moveLiteralsReferences"}

ToBeFollowed(a) ==
  \/ pc \in RootsBefore /\ a \in ToSet(rememberedSet) \cup {Stack}
  \/ pc = "followRememberedSet" /\ (a = Stack \/ \E j \in i .. Len(rememberedSet) :
                                                    rememberedSet[j] = a)
  \/ pc = "followStack" /\ a = Stack

WeakSlotKnown(a, k) ==
  /\ k # -1
  /\ CASE KindOf(a) = "plain"     -> FALSE
       [] KindOf(a) = "weak"      -> a \in ToSet(weakContainers)
       [] KindOf(a) = "ephemeron" -> a \in ToSet(ephemerons) \cup ToSet(unknowns)

NoSlotForgotten ==
  BeforeFlip =>
    \A a \in ObjectsIn(toSpace) \cup OldObjects \cup {Stack} : \A k \in SlotIndex(a) :
      ArenaIncludes(slots[a][k]) => ScanAhead(a, k) \/ ToBeFollowed(a) \/ WeakSlotKnown(a, k)

(* An object is copied once: whatever the number and the kind of the        *)
(* references to it, they all end up at the same copy.  So an identity hash *)
(* names at most one object outside of the space being emptied.             *)
NoObjectDuplicated ==
  LET moved == IF BeforeFlip /\ pc # "mutator" THEN ObjectsIn(toSpace) \cup ObjectsIn(oldSpace)
                                              ELSE ProgramObjects
  IN  \A a, b \in moved : header[a].hash = header[b].hash => a = b

(* A scavenge that starts comes to its end. *)
CollectionEnds == pc # "mutator" ~> pc = "mutator"

=============================================================================
