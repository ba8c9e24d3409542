--------------------------- MODULE ScavengeProofs ---------------------------
(***************************************************************************)
(* Theorems about a whole scavenge: no slot is forgotten, no object copied *)
(* twice, nothing refers to memory without an object, and the remembered   *)
(* set is complete for the next scavenge.                                  *)
(***************************************************************************)
EXTENDS GenerationalGCProofs

(* What the traversal changes and leaves: the objects that are not going    *)
(* away, the queue of rescued ephemerons and the stack frame.               *)
Staying == Copies \cup {RescuedArray, Stack}

Valid(v) == v \in Objects \cup {Nil, Tombstone}

-----------------------------------------------------------------------------
(* The inductive invariant, in parts.  First the steps of doCollect that    *)
(* traverse, those that find ephemerons and weak objects, those with copies *)
(* in to space.                                                             *)
TraversalLabels == {"followRememberedSet", "rescueEphemerons", "collectUnknowns", "addRescued"}
FindingLabels == TraversalLabels \cup {"followStack", "rescueEphemeron"}
FixingLabels == FindingLabels \cup {"makeRescuedEphemeronsNonWeak", "fixWeakContainers"}
CopyingLabels == FixingLabels \cup {"flipSpaces"}

(* To space gets its first copy when the remembered set is followed. *)
ToSpaceFilled == pc \notin CopyingLabels => ObjectsIn(toSpace) = {}

(* Slots never refer to memory without an object, the old one or its copy.  *)
SlotsValid ==
  /\ \A a \in Objects \cup {RescuedArray, Stack} : \A k \in SlotIndex(a) : Valid(slots[a][k])
  /\ slots[Stack][-1] = Nil

(* Forwarding addresses are only found in from space, and lead to a copy.   *)
ProxiesLead ==
  /\ \A a \in Staying : header[a].proxee = Nil
  /\ \A a \in ObjectsIn(fromSpace) : header[a].proxee # Nil =>
       /\ BeforeFlip
       /\ header[a].proxee \in Copies
       /\ header[header[a].proxee].isEphemeron = header[a].isEphemeron
  /\ ~header[RescuedArray].hasWeaks /\ ~header[Stack].hasWeaks

(* The arrays of those found, and when they are empty. *)
FoundInCopies ==
  /\ \A e \in ToSet(ephemerons) \cup ToSet(unknowns) : e \in Copies /\ header[e].isEphemeron
  /\ ToSet(weakContainers) \subseteq Copies
  /\ pc \notin FindingLabels => ephemerons = << >>
  /\ pc \notin {"collectUnknowns", "rescueEphemeron", "addRescued"} => unknowns = << >>
  /\ pc \notin FixingLabels => weakContainers = << >>

ScansStay ==
  /\ Traversing => pc \in TraversalLabels
  /\ \A s \in {scan} \cup ToSet(stack) : s.index < s.limit => s.objects \in Staying

(* NoSlotForgotten, with the part of the unknowns still to be rescued in    *)
(* the place of all of them.                                                *)
FirstUnknown ==
  CASE pc = "rescueEphemeron" -> i
    [] pc = "addRescued"      -> i + 1
    [] OTHER                  -> 1

UnknownsAhead == {unknowns[j] : j \in FirstUnknown .. Len(unknowns)}

WeakAhead(a, k) ==
  /\ k # -1
  /\ header[a].hasWeaks
  /\ IF header[a].isEphemeron THEN a \in ToSet(ephemerons) \cup UnknownsAhead
                              ELSE a \in ToSet(weakContainers)

Pending(a, k) == ScanAhead(a, k) \/ ToBeFollowed(a) \/ WeakAhead(a, k)

NothingForgotten ==
  BeforeFlip =>
    \A a \in Staying : \A k \in SlotIndex(a) : ArenaIncludes(slots[a][k]) => Pending(a, k)

(* RememberedSetComplete at every step: the queue of rescued ephemerons may *)
(* refer to new objects before it is remembered, until rescueEphemerons     *)
(* ends.                                                                    *)
QueueToBeHeld ==
  \/ pc \in {"rescueEphemeron", "addRescued"}
  \/ pc \in {"rescueEphemerons", "collectUnknowns"} /\ anyRescued

ReferersKnown ==
  \A a \in OldObjects : \A k \in SlotIndex(a) :
    IsNew(slots[a][k]) => a \in ToSet(rememberedSet) \/ (a = RescuedArray /\ QueueToBeHeld)

QueueOfEphemerons == \A j \in 1 .. rescuedCount : header[slots[RescuedArray][j]].isEphemeron

(* The method cache, the methods with native code and the native code refer *)
(* to new objects only as long as followCodeCacheReferences, or the fix of  *)
(* the literals, is still to deal with them.                                *)
CacheLabels ==
  {"mutator", "purgeLiteralsReferences", "purgeRememberedSet", "followCodeCacheReferences"}
CheckLabels == CacheLabels \cup {"moveClassCheckReferences", "checkNativizedMethods"}
MethodLabels == CheckLabels \cup {"moveNativizedMethods"}

CacheKnown ==
  /\ Valid(lookupCache)
  /\ IsNew(lookupCache) => pc \in CacheLabels /\ vm.globalCacheHasPointersToFrom

MethodAhead(j) ==
  \/ pc \in CheckLabels /\ vm.anyNativizedCompiledMethodInFromSpace
  \/ pc = "moveNativizedMethods" /\ i <= j

MethodsKnown ==
  \A j \in 1 .. Len(nativizedMethods) :
    Valid(nativizedMethods[j]) /\ (IsNew(nativizedMethods[j]) => MethodAhead(j))

LiteralAhead(j) == pc \in MethodLabels \/ (pc = "moveLiteralsReferences" /\ i <= j)

LiteralsKnown ==
  \A j \in 1 .. Len(literalsReferences) :
    /\ Valid(literalsReferences[j].literal)
    /\ IsNew(literalsReferences[j].literal) => LiteralAhead(j)

ClassCheckAhead(o) ==
  \E j \in 1 .. Len(classCheckReferences) :
    /\ classCheckReferences[j] = o
    /\ \/ pc \in CacheLabels /\ vm.anyCompiledMethodInFromSpace
       \/ pc = "moveClassCheckReferences" /\ i <= j

LiteralKept(o) ==
  /\ pc # "cleanRememberedSet"
  /\ \E j \in 1 .. Len(literalsReferences) :
       /\ literalsReferences[j].offset = o
       /\ pc \in {"mutator", "purgeLiteralsReferences"} =>
            literalsReferences[j].literal = slots[CodeCache][o]

CodeKnown ==
  \A o \in SlotIndex(CodeCache) :
    /\ \/ Valid(slots[CodeCache][o])
       \/ pc = "fixReferencesFromNativeMethods" /\ IsNew(slots[CodeCache][o])
    /\ IsNew(slots[CodeCache][o]) => LiteralKept(o) \/ ClassCheckAhead(o)

(* Of an object that moved only the copy counts. *)
Standing == {a \in ObjectsIn(fromSpace) : ~IsProxy(a)} \cup Copies

HashesDistinct == \A a, b \in Standing : header[a].hash = header[b].hash => a = b

HeapInv ==
  /\ Inv /\ RememberedInv
  /\ ToSpaceFilled /\ SlotsValid /\ ProxiesLead
  /\ FoundInCopies /\ ScansStay /\ NothingForgotten
  /\ ReferersKnown /\ QueueOfEphemerons
  /\ CacheKnown /\ MethodsKnown /\ LiteralsKnown /\ CodeKnown
  /\ HashesDistinct

-----------------------------------------------------------------------------
(* What the parts of the invariant say of objects and references. *)
LEMMA HeapFacts ==
  ASSUME HeapInv
  PROVE  /\ SpacesTypeOK /\ header \in [Address -> Header] /\ IsSlots(slots)
         /\ Objects \subseteq Address /\ Staying \subseteq Address
         /\ Objects = ObjectsIn(fromSpace) \cup Copies
         /\ Objects \cup {RescuedArray, Stack} = ObjectsIn(fromSpace) \cup Staying
         /\ Copies \subseteq Staying /\ OldObjects \subseteq Staying /\ RescuedArray \in OldObjects
         /\ ObjectsIn(fromSpace) \cap Staying = {}
         /\ \A a \in Staying : ~ArenaIncludes(a)
         /\ CodeCache \notin Objects \cup Staying
         /\ {RescuedArray, Stack, CodeCache} \subseteq Address
         /\ RescuedArray # Stack /\ RescuedArray # CodeCache /\ Stack # CodeCache
<1>1. SpacesTypeOK /\ header \in [Address -> Header] /\ IsSlots(slots)
  BY DEF HeapInv, Inv, CollectorTypeOK, HeapTypeOK
<1>2. /\ Objects \subseteq Address /\ Special \subseteq Address /\ Special \cap Objects = {}
      /\ ObjectsIn(fromSpace) \cap Copies = {}
      /\ \A a \in Copies \cup Special : ~ArenaIncludes(a)
      /\ \A a \in ObjectsIn(fromSpace) : ArenaIncludes(a)
  BY <1>1, Places
<1>3. {RescuedArray, Stack, CodeCache} \subseteq Special
  BY DEF Special
<1>4. RescuedArray # Stack /\ RescuedArray # CodeCache /\ Stack # CodeCache
  BY Layout
<1>5. QED
  BY <1>1, <1>2, <1>3, <1>4 DEF Objects, Copies, Staying, OldObjects

(* A reference into the space being emptied is to an object there. *)
LEMMA ArenaObject ==
  ASSUME HeapInv, NEW v, Valid(v)
  PROVE  /\ v \in Address
         /\ ArenaIncludes(v) => v \in ObjectsIn(fromSpace)
         /\ ArenaIncludes(v) => IsNew(v)
         /\ IsNew(v) /\ ObjectsIn(toSpace) = {} => ArenaIncludes(v) /\ v \in ObjectsIn(fromSpace)
         /\ ~IsNew(v) => v \in ObjectsIn(oldSpace) \cup {Nil, Tombstone}
<1>1. SpacesTypeOK
  BY HeapFacts
<1>2. Nil \in Special /\ Tombstone \in Special
  BY DEF Special
<1>3. v \in Address /\ v \in Int
  BY <1>1, Places, Layout DEF Valid
<1>4. ArenaIncludes(v) => v \in ObjectsIn(fromSpace)
  BY <1>1, <1>2, Places DEF Valid, Objects
<1>5. ArenaIncludes(v) => IsNew(v)
  BY <1>1, <1>3, Places
<1>6. IsNew(v) => v \in ObjectsIn(fromSpace) \cup ObjectsIn(toSpace)
  BY <1>1, <1>2, Places DEF Valid, Objects, Copies
<1>7. \A a \in ObjectsIn(fromSpace) : ArenaIncludes(a)
  BY <1>1, Places
<1>8. ~IsNew(v) => v \in ObjectsIn(oldSpace) \cup {Nil, Tombstone}
  BY <1>1, Places DEF Valid, Objects, Copies
<1>9. QED
  BY <1>3, <1>4, <1>5, <1>6, <1>7, <1>8

LEMMA ReadValid ==
  ASSUME HeapInv, NEW a \in Objects \cup {RescuedArray, Stack}, NEW k \in SlotIndex(a)
  PROVE  Valid(slots[a][k])
BY DEF HeapInv, SlotsValid

LEMMA TemporaryValid ==
  ASSUME HeapInv, NEW r \in 0 .. NumRoots - 1
  PROVE  Valid(slots[Stack][r]) /\ r \in SlotIndex(Stack)
<1>1. r \in SlotIndex(Stack)
  BY Sizes, SizesAssumption DEF SlotIndex
<1>2. QED
  BY <1>1, ReadValid

(* Between the traversals no scan has anything ahead. *)
LEMMA NoneAhead ==
  ASSUME HeapInv, ~Traversing
  PROVE  \A a : \A k \in Int : ~ScanAhead(a, k)
<1>1. stack = << >> /\ ~(scan.index < scan.limit) /\ ToSet(stack) = {}
  BY SetOfEmpty DEF Traversing
<1>2. scan.index \in Int /\ scan.limit \in Int
  BY DEF HeapInv, Inv, CollectorTypeOK, LocalsTypeOK, Scan
<1>3. ASSUME NEW a, NEW k \in Int, ScanAhead(a, k) PROVE FALSE
  <2>1. scan.index <= k /\ k < scan.limit
    BY <1>1, <1>3 DEF ScanAhead
  <2>2. QED
    BY <1>1, <1>2, <2>1
<1>4. QED
  BY <1>3

-----------------------------------------------------------------------------
(* The initial state: there are no objects. *)
LEMMA HeapInitially == Init => HeapInv
<1> SUFFICES ASSUME Init PROVE HeapInv
  OBVIOUS
<1>1. Inv /\ RememberedInv
  BY Initially, RememberedInitially
<1>2. ObjectsIn(fromSpace) = {} /\ ObjectsIn(toSpace) = {} /\ ObjectsIn(oldSpace) = {}
  BY Layout DEF Init, NewSpace, ObjectsIn
<1>3. Objects = {} /\ Copies = {} /\ OldObjects = {RescuedArray} /\ Staying = {RescuedArray, Stack}
  BY <1>2 DEF Objects, Copies, OldObjects, Staying
<1>4. \A a \in Address : \A k \in SlotIndex(a) : slots[a][k] = Nil
  BY DEF Init, EmptySlots
<1>5. {RescuedArray, Stack, CodeCache} \subseteq Address /\ -1 \in SlotIndex(Stack)
  BY Layout, Sizes, SizesAssumption DEF SlotIndex
<1>6. Nil \in Address /\ ~IsNew(Nil) /\ Valid(Nil)
  BY Layout DEF IsNew, Valid
<1>7. SlotsValid
  BY <1>3, <1>4, <1>5, <1>6 DEF SlotsValid
<1>8. ProxiesLead
  <2>1. \A a \in Address : header[a].proxee = Nil /\ ~header[a].hasWeaks
    BY DEF Init, FreeHeader
  <2>2. QED
    BY <1>2, <1>3, <1>5, <2>1 DEF ProxiesLead
<1>9. /\ ephemerons = << >> /\ unknowns = << >> /\ weakContainers = << >> /\ stack = << >>
      /\ pc = "mutator" /\ scan = NoScan /\ rescuedCount = 0 /\ lookupCache = Nil
      /\ nativizedMethods = << >> /\ literalsReferences = << >>
  BY DEF Init
<1>10. FoundInCopies
  BY <1>9, SetOfEmpty DEF FoundInCopies
<1>11. ScansStay
  <2>1. ~(scan.index < scan.limit) /\ ToSet(stack) = {}
    BY <1>9, SetOfEmpty DEF NoScan
  <2>2. QED
    BY <1>9, <2>1 DEF ScansStay, Traversing
<1>12. NothingForgotten /\ ToSpaceFilled
  BY <1>2, <1>9 DEF NothingForgotten, BeforeFlip, ToSpaceFilled
<1>13. ReferersKnown
  BY <1>3, <1>4, <1>5, <1>6 DEF ReferersKnown
<1>14. QueueOfEphemerons /\ CacheKnown /\ MethodsKnown /\ LiteralsKnown
  BY <1>6, <1>9 DEF QueueOfEphemerons, CacheKnown, MethodsKnown, LiteralsKnown
<1>15. CodeKnown
  BY <1>4, <1>5, <1>6 DEF CodeKnown
<1>16. HashesDistinct
  BY <1>2, <1>3 DEF HashesDistinct, Standing
<1>17. QED
  BY <1>1, <1>7, <1>8, <1>10, <1>11, <1>12, <1>13, <1>14, <1>15, <1>16 DEF HeapInv

-----------------------------------------------------------------------------
(* An object is copied: its copy has its slots, and only a reference to the *)
(* object may become one to the copy.                                       *)
Copying(object, copy) ==
  /\ object \in ObjectsIn(fromSpace) /\ header[object].proxee = Nil
  /\ Relocates(object, copy)
  /\ slots'[copy] = slots[object]
  /\ \A a \in Objects \cup {RescuedArray, Stack} : \A k \in SlotIndex(a) :
       slots'[a][k] = slots[a][k] \/ (slots[a][k] = object /\ slots'[a][k] = copy)

LEMMA ScanningFacts ==
  ASSUME HeapInv, Scanning
  PROVE  /\ scan.objects \in Staying /\ scan.objects \in Address
         /\ scan.objects \in Objects \cup {RescuedArray, Stack}
         /\ scan.index \in SlotIndex(scan.objects) /\ scan.index \in Int
         /\ Valid(Scanned) /\ Scanned \in Address
         /\ ArenaIncludes(Scanned) => Scanned \in ObjectsIn(fromSpace)
         /\ pc \in TraversalLabels /\ pc' = pc /\ BeforeFlip /\ BeforeFlip'
<1>1. scan.index < scan.limit /\ scan \in {scan} \cup ToSet(stack) /\ pc' = pc
  BY DEF Scanning, controlVars
<1>2. scan.objects \in Staying /\ pc \in TraversalLabels
  BY <1>1 DEF HeapInv, ScansStay, Traversing
<1>3. scan.objects \in Objects \cup {RescuedArray, Stack}
  BY <1>2, HeapFacts
<1>4. scan.objects \in Address /\ scan.index \in SlotIndex(scan.objects)
  BY ScannedTyped DEF HeapInv
<1>5. scan.index \in Int
  BY <1>4 DEF SlotIndex
<1>6. Valid(Scanned)
  BY <1>3, <1>4, ReadValid DEF Scanned
<1>7. BeforeFlip /\ BeforeFlip'
  BY <1>1, <1>2 DEF BeforeFlip, TraversalLabels
<1>8. QED
  BY <1>1, <1>2, <1>3, <1>4, <1>5, <1>6, <1>7, ArenaObject

LEMMA ScanCopies ==
  ASSUME HeapInv, ScanCopy
  PROVE  /\ Copying(Scanned, Destination(Scanned))
         /\ \A a \in Address \ {Destination(Scanned), scan.objects} : slots'[a] = slots[a]
         /\ scan.objects # Destination(Scanned)
         /\ slots'[scan.objects][scan.index] = Destination(Scanned)
         /\ \A k \in SlotIndex(scan.objects) \ {scan.index} :
              slots'[scan.objects][k] = slots[scan.objects][k]
         /\ IF header[Scanned].secondGeneration
            THEN MoveToOldSpace(Scanned) /\ Destination(Scanned) = oldSpace.nextFree
            ELSE MoveToToSpace(Scanned) /\ Destination(Scanned) = toSpace.nextFree
<1> DEFINE object == Scanned
           copy == Destination(object)
<1>1. Scanning /\ ArenaIncludes(object) /\ header[object].proxee = Nil /\ MoveToOldOrTo(object)
  BY DEF ScanCopy, IsProxy
<1>2. /\ scan.objects \in Staying /\ scan.objects \in Address /\ object \in Address
      /\ scan.index \in SlotIndex(scan.objects) /\ object \in ObjectsIn(fromSpace)
  BY <1>1, ScanningFacts
<1>3. IF header[object].secondGeneration
      THEN MoveToOldSpace(object) /\ copy = oldSpace.nextFree
      ELSE MoveToToSpace(object) /\ copy = toSpace.nextFree
  BY <1>1 DEF MoveToOldOrTo, Destination
<1>4. Relocates(object, copy)
  BY <1>1, <1>2, <1>3, MoveToOldRelocates, MoveToToRelocates DEF HeapInv
<1>5. copy \in Address \ (Objects \cup Special)
  BY <1>4 DEF Relocates
<1>6. scan.objects # copy /\ copy \notin Staying
  BY <1>2, <1>5 DEF Staying, Objects, Special
<1>7. slots' = [slots EXCEPT ![copy] = slots[object], ![scan.objects][scan.index] = copy]
  BY DEF ScanCopy
<1>8. IsSlots(slots)
  BY HeapFacts
<1>9. slots' = [a \in Address |-> IF a = scan.objects THEN [slots[a] EXCEPT ![scan.index] = copy]
                                  ELSE IF a = copy THEN slots[object] ELSE slots[a]]
  <2> HIDE DEF object, copy
  <2>1. slots = [a \in Address |-> slots[a]]
    BY <1>8 DEF IsSlots
  <2>2. QED
    BY <1>2, <1>5, <1>6, <1>7, <2>1
<1>10. slots[scan.objects] \in [SlotIndex(scan.objects) -> Address]
  BY <1>2, <1>8 DEF IsSlots
<1> HIDE DEF object, copy
<1>11. /\ slots'[copy] = slots[object]
       /\ \A a \in Address \ {copy, scan.objects} : slots'[a] = slots[a]
       /\ slots'[scan.objects] = [slots[scan.objects] EXCEPT ![scan.index] = copy]
  BY <1>2, <1>5, <1>6, <1>9
<1>12. /\ slots'[scan.objects][scan.index] = copy
       /\ \A k \in SlotIndex(scan.objects) \ {scan.index} :
            slots'[scan.objects][k] = slots[scan.objects][k]
  BY <1>2, <1>10, <1>11
<1>13. slots[scan.objects][scan.index] = object
  BY DEF object, Scanned
<1>14. Objects \cup {RescuedArray, Stack} \subseteq Address \ {copy}
  BY <1>5, HeapFacts DEF Special
<1>15. \A a \in Objects \cup {RescuedArray, Stack} : \A k \in SlotIndex(a) :
         slots'[a][k] = slots[a][k] \/ (slots[a][k] = object /\ slots'[a][k] = copy)
  BY <1>11, <1>12, <1>13, <1>14
<1>16. QED
  BY <1>1, <1>2, <1>3, <1>4, <1>6, <1>11, <1>12, <1>15 DEF Copying, object, copy

LEMMA CopyingFacts ==
  ASSUME HeapInv, NEW object, NEW copy, Copying(object, copy)
  PROVE  /\ copy \in Address /\ copy \notin Objects \cup Staying /\ ~ArenaIncludes(copy)
         /\ object \in Address /\ object # copy /\ object \notin Staying
         /\ fromSpace' = fromSpace /\ ObjectsIn(fromSpace)' = ObjectsIn(fromSpace)
         /\ Copies' = Copies \cup {copy} /\ Objects' = Objects \cup {copy}
         /\ Staying' = Staying \cup {copy}
         /\ \A v : Valid(v) => Valid(v)'
         /\ Valid(copy)'
         /\ \A a \in Objects \cup {RescuedArray, Stack} : a # object => header'[a] = header[a]
         /\ SlotIndex(copy) = SlotIndex(object)
<1>1. /\ copy \in Address \ (Objects \cup Special) /\ copy > 0 /\ ~ArenaIncludes(copy)
      /\ fromSpace' = fromSpace
      /\ Copies' = Copies \cup {copy} /\ Objects' = Objects \cup {copy}
      /\ \A a \in Address \ {object, copy} : header'[a] = header[a]
  BY DEF Copying, Relocates
<1>2. object \in ObjectsIn(fromSpace) /\ object \in Objects
  BY DEF Copying, Objects
<1>3. object \in Address /\ object > 0 /\ object \notin Staying
  BY <1>2, HeapFacts, Places
<1>4. copy \notin Staying
  BY <1>1 DEF Staying, Objects, Special
<1>5. ObjectsIn(fromSpace)' = ObjectsIn(fromSpace)
  BY <1>1
<1>6. Staying' = Staying \cup {copy}
  BY <1>1 DEF Staying
<1>7. (\A v : Valid(v) => Valid(v)') /\ Valid(copy)'
  BY <1>1 DEF Valid
<1>8. Objects \cup {RescuedArray, Stack} \subseteq Address \ {copy}
  BY <1>1, HeapFacts DEF Special
<1>9. SlotIndex(copy) = SlotIndex(object)
  BY <1>1, <1>3, Sizes, Layout DEF SlotIndex
<1>10. QED
  BY <1>1, <1>2, <1>3, <1>4, <1>5, <1>6, <1>7, <1>8, <1>9

LEMMA CopyingSlots ==
  ASSUME HeapInv, NEW object, NEW copy, Copying(object, copy)
  PROVE  SlotsValid'
<1>1. ASSUME NEW a \in Objects' \cup {RescuedArray, Stack}, NEW k \in SlotIndex(a)
      PROVE  Valid(slots[a][k])'
  <2>1. CASE a = copy
    <3>1. slots'[a] = slots[object] /\ k \in SlotIndex(object) /\ object \in Objects
      BY <2>1, CopyingFacts DEF Copying, Objects
    <3>2. Valid(slots[object][k])
      BY <3>1, ReadValid
    <3>3. QED
      BY <3>1, <3>2, CopyingFacts DEF Valid
  <2>2. CASE a # copy
    <3>1. a \in Objects \cup {RescuedArray, Stack}
      BY <2>2, CopyingFacts
    <3>2. slots'[a][k] = slots[a][k] \/ slots'[a][k] = copy
      BY <3>1 DEF Copying
    <3>3. Valid(slots[a][k])
      BY <3>1, ReadValid
    <3>4. QED
      BY <3>2, <3>3, CopyingFacts DEF Valid
  <2>3. QED
    BY <2>1, <2>2
<1>2. slots'[Stack][-1] = Nil
  <2>1. slots[Stack][-1] = Nil /\ -1 \in SlotIndex(Stack)
    BY Sizes, SizesAssumption DEF HeapInv, SlotsValid, SlotIndex
  <2>2. Nil # object
    BY HeapFacts, Places DEF Copying, Objects, Special
  <2>3. QED
    BY <2>1, <2>2 DEF Copying
<1>3. QED
  BY <1>1, <1>2 DEF SlotsValid

LEMMA CopyingProxies ==
  ASSUME HeapInv, NEW object, NEW copy, Copying(object, copy), BeforeFlip'
  PROVE  ProxiesLead'
<1>1. /\ header'[object] = [header[object] EXCEPT !.proxee = copy]
      /\ header'[copy].isEphemeron = header[object].isEphemeron
      /\ header'[copy].proxee = header[object].proxee /\ header[object].proxee = Nil
      /\ object \in ObjectsIn(fromSpace)
  BY DEF Copying, Relocates
<1>2. header[object] \in Header
  BY CopyingFacts, HeapFacts
<1>3. header'[object].proxee = copy /\ header'[object].isEphemeron = header[object].isEphemeron
  BY <1>1, <1>2 DEF Header
<1>4. \A a \in Staying' : header'[a].proxee = Nil
  <2>1. \A a \in Staying : header[a].proxee = Nil
    BY DEF HeapInv, ProxiesLead
  <2>2. \A a \in Staying : header'[a] = header[a]
    BY CopyingFacts, HeapFacts
  <2>3. QED
    BY <1>1, <2>1, <2>2, CopyingFacts
<1>5. ASSUME NEW a \in ObjectsIn(fromSpace)', header'[a].proxee # Nil
      PROVE  /\ header'[a].proxee \in Copies'
             /\ header'[header'[a].proxee].isEphemeron = header'[a].isEphemeron
  <2>1. a \in ObjectsIn(fromSpace) /\ a \in Objects
    BY CopyingFacts DEF Objects
  <2>2. CASE a = object
    BY <1>1, <1>3, <2>2, CopyingFacts
  <2>3. CASE a # object
    <3>1. header'[a] = header[a]
      BY <2>1, <2>3, CopyingFacts
    <3>2. /\ header[a].proxee \in Copies
          /\ header[header[a].proxee].isEphemeron = header[a].isEphemeron
      BY <1>5, <2>1, <3>1 DEF HeapInv, ProxiesLead
    <3>3. header'[header[a].proxee] = header[header[a].proxee]
      BY <3>2, CopyingFacts, HeapFacts
    <3>4. QED
      BY <3>1, <3>2, <3>3, CopyingFacts
  <2>4. QED
    BY <2>2, <2>3
<1>6. ~header'[RescuedArray].hasWeaks /\ ~header'[Stack].hasWeaks
  BY CopyingFacts, HeapFacts DEF HeapInv, ProxiesLead, Staying
<1>7. QED
  BY <1>4, <1>5, <1>6 DEF ProxiesLead

LEMMA CopyingHashes ==
  ASSUME HeapInv, NEW object, NEW copy, Copying(object, copy)
  PROVE  HashesDistinct'
<1>1. /\ header'[object] = [header[object] EXCEPT !.proxee = copy]
      /\ header'[copy].hash = header[object].hash
      /\ header[object].proxee = Nil /\ object \in ObjectsIn(fromSpace)
  BY DEF Copying, Relocates
<1>2. header[object] \in Header /\ copy # Nil
  BY CopyingFacts, HeapFacts DEF Copying, Relocates, Special
<1>3. header'[object].proxee # Nil
  BY <1>1, <1>2 DEF Header
<1>4. object \in Standing
  BY <1>1 DEF Standing, IsProxy
<1>5. ASSUME NEW a \in Standing'
      PROVE  a = copy \/ (a \in Standing \ {object} /\ header'[a] = header[a])
  <2>1. CASE a \in Copies'
    <3>1. a = copy \/ a \in Copies
      BY <2>1, CopyingFacts
    <3>2. a \in Copies => header'[a] = header[a] /\ a # object
      BY CopyingFacts, HeapFacts
    <3>3. QED
      BY <3>1, <3>2 DEF Standing
  <2>2. CASE a \in ObjectsIn(fromSpace)' /\ header'[a].proxee = Nil
    <3>1. a # object /\ a \in ObjectsIn(fromSpace) /\ a \in Objects
      BY <1>3, <2>2, CopyingFacts DEF Objects
    <3>2. header'[a] = header[a]
      BY <3>1, CopyingFacts
    <3>3. QED
      BY <2>2, <3>1, <3>2 DEF Standing, IsProxy
  <2>3. QED
    BY <2>1, <2>2 DEF Standing, IsProxy
<1>6. ASSUME NEW a \in Standing', NEW b \in Standing', header'[a].hash = header'[b].hash
      PROVE  a = b
  <2>1. \A c \in Standing \ {object} : header[c].hash # header[object].hash
    BY <1>4 DEF HeapInv, HashesDistinct
  <2>2. QED
    BY <1>1, <1>5, <1>6, <2>1 DEF HeapInv, HashesDistinct
<1>7. QED
  BY <1>6 DEF HashesDistinct

LEMMA CopyingQueue ==
  ASSUME HeapInv, NEW object, NEW copy, Copying(object, copy), rescuedCount' = rescuedCount
  PROVE  QueueOfEphemerons'
<1>1. ASSUME NEW j \in 1 .. rescuedCount
      PROVE  header'[slots'[RescuedArray][j]].isEphemeron
  <2>1. j \in SlotIndex(RescuedArray)
    BY Sizes, SizesAssumption DEF SlotIndex, HeapInv, Inv, CollectorTypeOK, HostTypeOK
  <2> DEFINE v == slots[RescuedArray][j]
  <2>2. header[v].isEphemeron /\ Valid(v) /\ v \in Address
    BY <2>1, ReadValid, ArenaObject DEF HeapInv, QueueOfEphemerons
  <2>3. slots'[RescuedArray][j] = v \/ (v = object /\ slots'[RescuedArray][j] = copy)
    BY <2>1 DEF Copying
  <2>4. header'[copy].isEphemeron = header[object].isEphemeron
    BY DEF Copying, Relocates
  <2>5. header[object] \in Header /\ header'[object] = [header[object] EXCEPT !.proxee = copy]
    BY CopyingFacts, HeapFacts DEF Copying, Relocates
  <2>6. header'[object].isEphemeron = header[object].isEphemeron
    BY <2>5 DEF Header
  <2>7. v # copy
    BY <2>2, CopyingFacts DEF Valid, Copying, Relocates, Special
  <2>8. v # object => header'[v] = header[v]
    BY <2>2, <2>7 DEF Copying, Relocates
  <2>9. QED
    BY <2>2, <2>3, <2>4, <2>6, <2>8
<1>2. QED
  BY <1>1 DEF QueueOfEphemerons

(* Moving an object that code refers to, if it has not moved before. *)
LEMMA TenureCopies ==
  ASSUME HeapInv, NEW object, Valid(object), Tenure(object),
         \A a \in Address \ {CodeCache} : slots'[a] = SlotsWithTenured(object)[a]
  PROVE  IF ToBeMoved(object)
         THEN /\ Copying(object, oldSpace.nextFree) /\ MoveToOldSpace(object)
              /\ \A a \in Address \ {oldSpace.nextFree, CodeCache} : slots'[a] = slots[a]
         ELSE /\ UNCHANGED <<header, spaceVars, rememberedSet>>
              /\ \A a \in Address \ {CodeCache} : slots'[a] = slots[a]
<1> DEFINE copy == oldSpace.nextFree
<1>1. CASE ToBeMoved(object)
  <2>1. /\ MoveToOldSpace(object) /\ ArenaIncludes(object) /\ header[object].proxee = Nil
    BY <1>1 DEF Tenure, ToBeMoved, IsProxy
  <2>2. object \in ObjectsIn(fromSpace) /\ object \in Address
    BY <2>1, ArenaObject
  <2>3. Relocates(object, copy)
    BY <2>1, <2>2, MoveToOldRelocates DEF HeapInv
  <2>4. copy \in Address \ (Objects \cup Special)
    BY <2>3 DEF Relocates
  <2>5. IsSlots(slots) /\ CodeCache \in Special
    BY HeapFacts DEF Special
  <2>6. SlotsWithTenured(object) = [slots EXCEPT ![copy] = slots[object]]
    BY <1>1 DEF SlotsWithTenured
  <2>7. slots'[copy] = slots[object]
    BY <2>4, <2>5, <2>6 DEF IsSlots
  <2>8. \A a \in Address \ {copy, CodeCache} : slots'[a] = slots[a]
    BY <2>5, <2>6 DEF IsSlots
  <2>9. Objects \cup {RescuedArray, Stack} \subseteq Address \ {copy, CodeCache}
    BY <2>4, HeapFacts DEF Special
  <2>10. Copying(object, copy)
    BY <2>1, <2>2, <2>3, <2>7, <2>8, <2>9 DEF Copying
  <2>11. QED
    BY <1>1, <2>1, <2>8, <2>10
<1>2. CASE ~ToBeMoved(object)
  BY <1>2 DEF Tenure, SlotsWithTenured
<1>3. QED
  BY <1>1, <1>2

-----------------------------------------------------------------------------
(* SlotsValid. *)
LEMMA OneSlotWritten ==
  ASSUME IsSlots(slots), NEW a \in Address, NEW k \in SlotIndex(a), NEW v,
         slots' = [slots EXCEPT ![a][k] = v]
  PROVE  /\ slots'[a][k] = v
         /\ \A b \in Address \ {a} : slots'[b] = slots[b]
         /\ \A l \in SlotIndex(a) \ {k} : slots'[a][l] = slots[a][l]
<1>1. slots[a] \in [SlotIndex(a) -> Address]
  BY DEF IsSlots
<1>2. slots' = [b \in Address |-> IF b = a THEN [slots[a] EXCEPT ![k] = v] ELSE slots[b]]
  BY DEF IsSlots
<1>3. QED
  BY <1>1, <1>2

LEMMA SlotsRewritten ==
  ASSUME HeapInv, UNCHANGED spaceVars,
         \A a \in Objects \cup {RescuedArray, Stack} : \A k \in SlotIndex(a) :
           slots'[a][k] = slots[a][k] \/ Valid(slots'[a][k]),
         slots'[Stack][-1] = slots[Stack][-1]
  PROVE  SlotsValid'
<1>1. Objects' = Objects
  BY DEF spaceVars, Objects, Copies, ObjectsIn
<1>2. ASSUME NEW a \in Objects \cup {RescuedArray, Stack}, NEW k \in SlotIndex(a)
      PROVE  slots'[a][k] \in Objects \cup {Nil, Tombstone}
  BY ReadValid DEF Valid
<1>3. slots'[Stack][-1] = Nil
  BY DEF HeapInv, SlotsValid
<1>4. QED
  BY <1>1, <1>2, <1>3 DEF SlotsValid, Valid

(* Most steps leave headers, spaces and slots alone, those of the native    *)
(* code apart.                                                              *)
HeapQuiet ==
  /\ UNCHANGED <<header, spaceVars>>
  /\ \A a \in Address \ {CodeCache} : slots'[a] = slots[a]

LEMMA QuietFacts ==
  ASSUME HeapInv, HeapQuiet
  PROVE  /\ Objects' = Objects /\ Copies' = Copies /\ Staying' = Staying
         /\ OldObjects' = OldObjects /\ Standing' = Standing
         /\ ObjectsIn(fromSpace)' = ObjectsIn(fromSpace)
         /\ ObjectsIn(toSpace)' = ObjectsIn(toSpace)
         /\ header' = header /\ fromSpace' = fromSpace
         /\ \A a \in Objects \cup {RescuedArray, Stack} : slots'[a] = slots[a]
         /\ \A v : Valid(v)' <=> Valid(v)
<1>1. \A a \in Objects \cup {RescuedArray, Stack} : a \in Address \ {CodeCache}
  BY HeapFacts
<1>2. QED
  BY <1>1 DEF HeapQuiet, spaceVars, Objects, Copies, Staying, OldObjects, Standing, ObjectsIn,
              IsProxy, Valid

LEMMA QuietSlots ==
  ASSUME HeapInv, HeapQuiet
  PROVE  SlotsValid' /\ HashesDistinct'
<1>1. SlotsValid'
  BY QuietFacts, SlotsRewritten DEF HeapQuiet
<1>2. HashesDistinct'
  BY QuietFacts DEF HeapInv, HashesDistinct
<1>3. QED
  BY <1>1, <1>2

LEMMA TenureSlots ==
  ASSUME HeapInv, NEW object, Valid(object), Tenure(object),
         \A a \in Address \ {CodeCache} : slots'[a] = SlotsWithTenured(object)[a]
  PROVE  SlotsValid' /\ HashesDistinct'
<1>1. CASE ToBeMoved(object)
  BY <1>1, TenureCopies, CopyingSlots, CopyingHashes
<1>2. CASE ~ToBeMoved(object)
  BY <1>2, TenureCopies, QuietSlots DEF HeapQuiet
<1>3. QED
  BY <1>1, <1>2

LEMMA TemporarySlots ==
  ASSUME HeapInv, NEW r \in 0 .. NumRoots - 1, NEW v, Valid(v), SetTemporary(r, v)
  PROVE  SlotsValid' /\ UNCHANGED <<header, spaceVars>>
         /\ \A a \in Address \ {Stack} : slots'[a] = slots[a]
<1>1. slots' = [slots EXCEPT ![Stack][r] = v] /\ UNCHANGED <<header, spaceVars>>
  BY DEF SetTemporary
<1>2. r \in SlotIndex(Stack) /\ Stack \in Address /\ r # -1 /\ -1 \in SlotIndex(Stack)
  BY TemporaryValid, Layout, Sizes, SizesAssumption DEF SlotIndex
<1>3. /\ slots'[Stack][r] = v
      /\ \A b \in Address \ {Stack} : slots'[b] = slots[b]
      /\ \A l \in SlotIndex(Stack) \ {r} : slots'[Stack][l] = slots[Stack][l]
  BY <1>1, <1>2, OneSlotWritten, HeapFacts
<1>4. Objects \cup {RescuedArray} \subseteq Address \ {Stack}
  BY HeapFacts, Places DEF Special
<1>5. \A a \in Objects \cup {RescuedArray, Stack} : \A k \in SlotIndex(a) :
        slots'[a][k] = slots[a][k] \/ Valid(slots'[a][k])
  BY <1>3, <1>4
<1>6. SlotsValid'
  BY <1>1, <1>2, <1>3, <1>5, SlotsRewritten
<1>7. QED
  BY <1>1, <1>3, <1>6

(* The row of an object the program stores to. *)
LEMMA StoredTo ==
  ASSUME HeapInv, NEW r \in 0 .. NumRoots - 1, NEW k \in StoredSlots, NEW v, Valid(v),
         Store(r, k, v)
  PROVE  /\ slots[Stack][r] \in Objects /\ slots[Stack][r] \in Address
         /\ k \in SlotIndex(slots[Stack][r])
         /\ slots'[slots[Stack][r]][k] = v
         /\ \A b \in Address \ {slots[Stack][r]} : slots'[b] = slots[b]
         /\ \A l \in SlotIndex(slots[Stack][r]) \ {k} :
              slots'[slots[Stack][r]][l] = slots[slots[Stack][r]][l]
<1> DEFINE a == slots[Stack][r]
<1>1. a \in ProgramObjects /\ slots' = [slots EXCEPT ![a][k] = v]
  BY DEF Store
<1>2. a \in Objects /\ a \in Address /\ a > 0
  BY <1>1, HeapFacts, Places DEF ProgramObjects, Objects, Copies
<1>3. k \in SlotIndex(a)
  BY <1>2, Sizes, Layout, StoredSlotsAssumption DEF SlotIndex
<1>4. IsSlots(slots)
  BY HeapFacts
<1> HIDE DEF a
<1>5. /\ slots'[a][k] = v
      /\ \A b \in Address \ {a} : slots'[b] = slots[b]
      /\ \A l \in SlotIndex(a) \ {k} : slots'[a][l] = slots[a][l]
  BY <1>1, <1>2, <1>3, <1>4, OneSlotWritten
<1>6. QED
  BY <1>2, <1>3, <1>5 DEF a

LEMMA StoreSlots ==
  ASSUME HeapInv, NEW r \in 0 .. NumRoots - 1, NEW k \in StoredSlots, NEW v, Valid(v),
         Store(r, k, v)
  PROVE  SlotsValid'
<1> DEFINE a == slots[Stack][r]
<1>1. /\ a \in Objects /\ slots'[a][k] = v
      /\ \A b \in Address \ {a} : slots'[b] = slots[b]
      /\ \A l \in SlotIndex(a) \ {k} : slots'[a][l] = slots[a][l]
  BY StoredTo
<1>2. Objects \cup {RescuedArray, Stack} \subseteq Address /\ Stack # a
  BY <1>1, HeapFacts, Places DEF Special
<1>3. \A b \in Objects \cup {RescuedArray, Stack} : \A l \in SlotIndex(b) :
        slots'[b][l] = slots[b][l] \/ Valid(slots'[b][l])
  BY <1>1, <1>2
<1>4. slots'[Stack][-1] = slots[Stack][-1]
  BY <1>1, <1>2
<1>5. QED
  BY <1>3, <1>4, SlotsRewritten DEF Store

LEMMA LoadedValid ==
  ASSUME HeapInv, NEW r \in 0 .. NumRoots - 1, NEW k \in StoredSlots,
         slots[Stack][r] \in ProgramObjects
  PROVE  Valid(slots[slots[Stack][r]][k])
<1>1. slots[Stack][r] \in Objects /\ slots[Stack][r] \in Address /\ slots[Stack][r] > 0
  BY HeapFacts, Places DEF ProgramObjects, Objects, Copies
<1>2. k \in SlotIndex(slots[Stack][r])
  BY <1>1, Sizes, Layout, StoredSlotsAssumption DEF SlotIndex
<1>3. QED
  BY <1>1, <1>2, ReadValid

(* What is taken from the queue. *)
LEMMA TakenValid ==
  ASSUME HeapInv, rescuedCount > 0
  PROVE  Valid(slots[RescuedArray][rescuedCount])
<1>1. rescuedCount \in SlotIndex(RescuedArray)
  BY Sizes, SizesAssumption DEF SlotIndex, HeapInv, Inv, CollectorTypeOK, HostTypeOK
<1>2. QED
  BY <1>1, ReadValid

(* A new object. *)
LEMMA AllocateFacts ==
  ASSUME HeapInv, NEW kind, NEW hash, NEW r \in 0 .. NumRoots - 1, Allocate(kind, hash, r)
  PROVE  LET new == fromSpace.nextFree IN
         /\ new \in Address \ (Objects \cup Special) /\ Includes(fromSpace, new)
         /\ Objects' = Objects \cup {new} /\ Copies' = Copies /\ Staying' = Staying
         /\ OldObjects' = OldObjects /\ ObjectsIn(toSpace)' = ObjectsIn(toSpace)
         /\ ObjectsIn(fromSpace)' = ObjectsIn(fromSpace) \cup {new}
         /\ \A a \in Address \ {new} : header'[a] = header[a]
         /\ header'[new].hash = hash /\ header'[new].proxee = Nil
         /\ \A a \in Address \ {new, Stack} : slots'[a] = slots[a]
         /\ \A k \in SlotIndex(new) : slots'[new][k] = Nil
         /\ slots'[Stack][r] = new
         /\ \A k \in SlotIndex(Stack) \ {r} : slots'[Stack][k] = slots[Stack][k]
<1> DEFINE new == fromSpace.nextFree
           Flags == [FreeHeader EXCEPT !.hash = hash, !.hasWeaks = (kind # "plain"),
                                       !.isEphemeron = (kind = "ephemeron")]
<1>1. /\ new < fromSpace.limit /\ fromSpace' = [fromSpace EXCEPT !.nextFree = new + 1]
      /\ UNCHANGED <<toSpace, oldSpace>>
      /\ header' = [header EXCEPT ![new] = Flags]
      /\ slots' = [slots EXCEPT ![new] = EmptySlots(new), ![Stack][r] = new]
  BY DEF Allocate
<1>2. new \in Address \ (Objects \cup Special) /\ Includes(fromSpace, new)
  BY <1>1, FreeCells, HeapFacts
<1>3. ObjectsIn(fromSpace') = ObjectsIn(fromSpace) \cup {new}
  BY <1>1, OneMore, Bounds, HeapFacts
<1>4. /\ Objects' = Objects \cup {new} /\ Copies' = Copies /\ Staying' = Staying
      /\ OldObjects' = OldObjects /\ ObjectsIn(toSpace)' = ObjectsIn(toSpace)
  BY <1>1, <1>3 DEF Objects, Copies, Staying, OldObjects, ObjectsIn
<1>5. \A a \in Address \ {new} : header'[a] = header[a]
  BY <1>1, HeapFacts
<1>6. header'[new].hash = hash /\ header'[new].proxee = Nil
  BY <1>1, <1>2, HeapFacts DEF FreeHeader
<1>7. Stack # new /\ Stack \in Address /\ r \in SlotIndex(Stack) /\ IsSlots(slots)
  BY <1>2, TemporaryValid, HeapFacts DEF Special
<1>8. slots[Stack] \in [SlotIndex(Stack) -> Address]
  BY <1>7 DEF IsSlots
<1>9. slots' = [a \in Address |-> IF a = Stack THEN [slots[Stack] EXCEPT ![r] = new]
                                  ELSE IF a = new THEN EmptySlots(new) ELSE slots[a]]
  <2> HIDE DEF new
  <2>1. slots = [a \in Address |-> slots[a]]
    BY <1>7 DEF IsSlots
  <2>2. QED
    BY <1>1, <1>2, <1>7, <2>1
<1>10. /\ \A a \in Address \ {new, Stack} : slots'[a] = slots[a]
       /\ slots'[new] = EmptySlots(new)
       /\ slots'[Stack] = [slots[Stack] EXCEPT ![r] = new]
  <2> HIDE DEF new
  <2>1. QED
    BY <1>2, <1>7, <1>9
<1>11. \A k \in SlotIndex(new) : slots'[new][k] = Nil
  BY <1>10 DEF EmptySlots
<1>12. /\ slots'[Stack][r] = new
       /\ \A k \in SlotIndex(Stack) \ {r} : slots'[Stack][k] = slots[Stack][k]
  BY <1>7, <1>8, <1>10
<1>13. QED
  BY <1>2, <1>3, <1>4, <1>5, <1>6, <1>10, <1>11, <1>12

LEMMA AllocateSlots ==
  ASSUME HeapInv, NEW kind, NEW hash, NEW r \in 0 .. NumRoots - 1, Allocate(kind, hash, r)
  PROVE  SlotsValid'
<1> DEFINE new == fromSpace.nextFree
<1>1. /\ new \notin Objects /\ Objects' = Objects \cup {new}
      /\ \A a \in Address \ {new, Stack} : slots'[a] = slots[a]
      /\ \A k \in SlotIndex(new) : slots'[new][k] = Nil
      /\ slots'[Stack][r] = new
      /\ \A k \in SlotIndex(Stack) \ {r} : slots'[Stack][k] = slots[Stack][k]
  BY AllocateFacts
<1>2. ASSUME NEW a \in Objects' \cup {RescuedArray, Stack}, NEW k \in SlotIndex(a)
      PROVE  slots'[a][k] \in Objects' \cup {Nil, Tombstone}
  <2>1. CASE a = new
    BY <1>1, <2>1
  <2>2. CASE a = Stack
    BY <1>1, <2>2, ReadValid DEF Valid
  <2>3. CASE a # new /\ a # Stack
    <3>1. a \in Objects \cup {RescuedArray} /\ a \in Address
      BY <1>1, <2>3, HeapFacts
    <3>2. slots'[a][k] = slots[a][k]
      BY <1>1, <2>3, <3>1
    <3>3. QED
      BY <1>1, <3>1, <3>2, ReadValid DEF Valid
  <2>4. QED
    BY <2>1, <2>2, <2>3
<1>3. slots'[Stack][-1] = Nil
  <2>1. -1 \in SlotIndex(Stack) \ {r}
    BY Sizes, SizesAssumption DEF SlotIndex
  <2>2. QED
    BY <1>1, <2>1 DEF HeapInv, SlotsValid
<1>4. QED
  BY <1>2, <1>3 DEF SlotsValid, Valid


(* What the heap as a whole keeps, whatever the collector knows of it. *)
HeapParts == ToSpaceFilled /\ SlotsValid /\ ProxiesLead /\ QueueOfEphemerons /\ HashesDistinct

(* Only FlipSpaces goes back from the labels of the traversal. *)
NoFlip ==
  /\ pc \in CopyingLabels => pc' \in CopyingLabels
  /\ BeforeFlip => BeforeFlip'

(* Flags that a step may change: those that no other part looks at, and     *)
(* hasWeaks once it is reset.                                               *)
FlagsOnly ==
  /\ UNCHANGED spaceVars
  /\ \A a \in Address \ {CodeCache} : slots'[a] = slots[a]
  /\ \A a \in Address :
       /\ header'[a].hash = header[a].hash /\ header'[a].proxee = header[a].proxee
       /\ header'[a].isEphemeron = header[a].isEphemeron
       /\ header'[a].hasWeaks => header[a].hasWeaks

LEMMA SpacesSame ==
  ASSUME UNCHANGED spaceVars
  PROVE  /\ Objects' = Objects /\ Copies' = Copies /\ Staying' = Staying
         /\ OldObjects' = OldObjects /\ fromSpace' = fromSpace
         /\ ObjectsIn(fromSpace)' = ObjectsIn(fromSpace)
         /\ ObjectsIn(toSpace)' = ObjectsIn(toSpace)
BY DEF spaceVars, Objects, Copies, Staying, OldObjects, ObjectsIn

(* The proxies stay where they are. *)
LEMMA ProxiesStay ==
  ASSUME HeapInv, UNCHANGED spaceVars, NoFlip,
         \A a \in Address :
           /\ header'[a].proxee = header[a].proxee
           /\ header'[a].isEphemeron = header[a].isEphemeron
           /\ header'[a].hasWeaks => header[a].hasWeaks
  PROVE  ProxiesLead' /\ ToSpaceFilled'
<1>1. ToSpaceFilled'
  BY SpacesSame DEF HeapInv, ToSpaceFilled, NoFlip
<1>2. \A a \in Staying' : header'[a].proxee = Nil
  BY SpacesSame, HeapFacts DEF HeapInv, ProxiesLead
<1>3. ASSUME NEW a \in ObjectsIn(fromSpace), header'[a].proxee # Nil
      PROVE  /\ BeforeFlip'
             /\ header'[a].proxee \in Copies
             /\ header'[header'[a].proxee].isEphemeron = header'[a].isEphemeron
  <2>1. a \in Address
    BY HeapFacts
  <2>2. header[a].proxee # Nil /\ header'[a].proxee = header[a].proxee
    BY <1>3, <2>1
  <2>3. /\ BeforeFlip /\ header[a].proxee \in Copies
        /\ header[header[a].proxee].isEphemeron = header[a].isEphemeron
    BY <2>2 DEF HeapInv, ProxiesLead
  <2>4. header[a].proxee \in Address
    BY <2>3, HeapFacts
  <2>5. QED
    BY <2>1, <2>2, <2>3, <2>4 DEF NoFlip
<1>4. ~header'[RescuedArray].hasWeaks /\ ~header'[Stack].hasWeaks
  BY HeapFacts DEF HeapInv, ProxiesLead
<1>5. QED
  BY <1>1, <1>2, <1>3, <1>4, SpacesSame DEF ProxiesLead

LEMMA HashesStay ==
  ASSUME HeapInv, UNCHANGED spaceVars,
         \A a \in Address : header'[a].hash = header[a].hash /\ header'[a].proxee = header[a].proxee
  PROVE  HashesDistinct'
<1>1. Standing' = Standing /\ Standing \subseteq Address
  BY SpacesSame, HeapFacts DEF Standing, IsProxy
<1>2. QED
  BY <1>1 DEF HeapInv, HashesDistinct

LEMMA QueueStays ==
  ASSUME HeapInv, rescuedCount' \in 0 .. rescuedCount, slots'[RescuedArray] = slots[RescuedArray],
         \A a \in Objects \cup {Nil, Tombstone} : header'[a].isEphemeron = header[a].isEphemeron
  PROVE  QueueOfEphemerons'
<1>1. ASSUME NEW j \in 1 .. rescuedCount'
      PROVE  header'[slots'[RescuedArray][j]].isEphemeron
  <2>1. j \in 1 .. rescuedCount /\ j \in SlotIndex(RescuedArray)
    BY Sizes, SizesAssumption DEF SlotIndex, HeapInv, Inv, CollectorTypeOK, HostTypeOK
  <2>2. header[slots[RescuedArray][j]].isEphemeron
    BY <2>1 DEF HeapInv, QueueOfEphemerons
  <2>3. slots[RescuedArray][j] \in Objects \cup {Nil, Tombstone}
    BY <2>1, ReadValid DEF Valid
  <2>4. QED
    BY <2>2, <2>3
<1>2. QED
  BY <1>1 DEF QueueOfEphemerons

LEMMA FlagsOnlyParts ==
  ASSUME HeapInv, FlagsOnly, NoFlip, rescuedCount' = rescuedCount
  PROVE  HeapParts'
<1>1. SlotsValid'
  <2>1. Objects \cup {RescuedArray, Stack} \subseteq Address \ {CodeCache}
    BY HeapFacts
  <2>2. QED
    BY <2>1, SlotsRewritten DEF FlagsOnly
<1>2. ProxiesLead' /\ ToSpaceFilled' /\ HashesDistinct'
  BY ProxiesStay, HashesStay DEF FlagsOnly
<1>3. QueueOfEphemerons'
  <2>1. rescuedCount' \in 0 .. rescuedCount
    BY DEF HeapInv, Inv, CollectorTypeOK, HostTypeOK
  <2>2. Objects \cup {Nil, Tombstone} \subseteq Address /\ RescuedArray \in Address \ {CodeCache}
    BY HeapFacts, Places, ArenaObject DEF Special
  <2>3. QED
    BY <2>1, <2>2, QueueStays DEF FlagsOnly
<1>4. QED
  BY <1>1, <1>2, <1>3 DEF HeapParts

LEMMA QuietParts ==
  ASSUME HeapInv, HeapQuiet, NoFlip, rescuedCount' = rescuedCount
  PROVE  HeapParts'
BY FlagsOnlyParts DEF FlagsOnly, HeapQuiet

(* Headers stay, slots are written. *)
LEMMA WrittenParts ==
  ASSUME HeapInv, UNCHANGED <<header, spaceVars>>, NoFlip, SlotsValid', QueueOfEphemerons'
  PROVE  HeapParts'
BY ProxiesStay, HashesStay DEF HeapParts


LEMMA StoreParts ==
  ASSUME HeapInv, NEW r \in 0 .. NumRoots - 1, NEW k \in StoredSlots, NEW v, Valid(v),
         Store(r, k, v), NoFlip
  PROVE  HeapParts'
<1>1. /\ WriteBarrier(slots[Stack][r], v) /\ UNCHANGED spaceVars /\ rescuedCount' = rescuedCount
  BY DEF Store
<1>2. \A a \in Address :
        /\ header'[a].hash = header[a].hash /\ header'[a].proxee = header[a].proxee
        /\ header'[a].isEphemeron = header[a].isEphemeron
        /\ header'[a].hasWeaks => header[a].hasWeaks
  <2>1. header' = header \/ header' = [header EXCEPT ![slots[Stack][r]].inRememberedSet = TRUE]
    BY <1>1 DEF WriteBarrier
  <2>2. QED
    BY <2>1, HeapFacts DEF Header
<1>3. RescuedArray \in Address \ {slots[Stack][r]}
  BY StoredTo, HeapFacts, Places DEF Special
<1>4. slots'[RescuedArray] = slots[RescuedArray] /\ rescuedCount' \in 0 .. rescuedCount
  BY <1>1, <1>3, StoredTo DEF HeapInv, Inv, CollectorTypeOK, HostTypeOK
<1>5. Objects \cup {Nil, Tombstone} \subseteq Address
  BY ArenaObject DEF Valid
<1>6. QED
  BY <1>1, <1>2, <1>4, <1>5, StoreSlots, ProxiesStay, HashesStay, QueueStays DEF HeapParts

LEMMA TemporaryParts ==
  ASSUME HeapInv, NEW r \in 0 .. NumRoots - 1, NEW v, Valid(v), SetTemporary(r, v), NoFlip,
         rescuedCount' \in 0 .. rescuedCount
  PROVE  HeapParts'
<1>1. /\ SlotsValid' /\ UNCHANGED <<header, spaceVars>>
      /\ \A a \in Address \ {Stack} : slots'[a] = slots[a]
  BY TemporarySlots
<1>2. slots'[RescuedArray] = slots[RescuedArray]
  BY <1>1, HeapFacts
<1>3. QED
  BY <1>1, <1>2, QueueStays, WrittenParts

(* A slot that gets the address of the copy in the place of the proxy. *)
LEMMA ProxyFacts ==
  ASSUME HeapInv, ScanProxy
  PROVE  LET copy == header[Scanned].proxee IN
         /\ copy \in Copies /\ header[copy].isEphemeron = header[Scanned].isEphemeron
         /\ ~ArenaIncludes(copy)
         /\ slots'[scan.objects][scan.index] = copy
         /\ \A a \in Address \ {scan.objects} : slots'[a] = slots[a]
         /\ \A k \in SlotIndex(scan.objects) \ {scan.index} :
              slots'[scan.objects][k] = slots[scan.objects][k]
         /\ UNCHANGED <<header, spaceVars>>
<1> DEFINE copy == header[Scanned].proxee
<1>1. /\ Scanning /\ ArenaIncludes(Scanned) /\ header[Scanned].proxee # Nil
      /\ slots' = [slots EXCEPT ![scan.objects][scan.index] = copy]
      /\ UNCHANGED <<header, spaceVars>>
  BY DEF ScanProxy, IsProxy
<1>2. /\ Scanned \in ObjectsIn(fromSpace) /\ scan.objects \in Address
      /\ scan.index \in SlotIndex(scan.objects)
  BY <1>1, ScanningFacts
<1>3. copy \in Copies /\ header[copy].isEphemeron = header[Scanned].isEphemeron
  BY <1>1, <1>2 DEF HeapInv, ProxiesLead
<1>4. ~ArenaIncludes(copy)
  BY <1>3, HeapFacts
<1>5. IsSlots(slots)
  BY HeapFacts
<1>6. /\ slots'[scan.objects][scan.index] = copy
      /\ \A a \in Address \ {scan.objects} : slots'[a] = slots[a]
      /\ \A k \in SlotIndex(scan.objects) \ {scan.index} :
           slots'[scan.objects][k] = slots[scan.objects][k]
  <2>1. slots' = [slots EXCEPT ![scan.objects][scan.index] = copy]
    BY <1>1
  <2> HIDE DEF copy
  <2>2. QED
    BY <1>2, <1>5, <2>1, OneSlotWritten
<1>7. QED
  BY <1>1, <1>3, <1>4, <1>6

LEMMA ScanProxyParts ==
  ASSUME HeapInv, ScanProxy
  PROVE  HeapParts'
<1> DEFINE copy == header[Scanned].proxee
<1>1. /\ copy \in Copies /\ header[copy].isEphemeron = header[Scanned].isEphemeron
      /\ slots'[scan.objects][scan.index] = copy
      /\ \A a \in Address \ {scan.objects} : slots'[a] = slots[a]
      /\ \A k \in SlotIndex(scan.objects) \ {scan.index} :
           slots'[scan.objects][k] = slots[scan.objects][k]
      /\ UNCHANGED <<header, spaceVars>>
  BY ProxyFacts
<1> HIDE DEF copy
<1>2. Scanning /\ ArenaIncludes(Scanned) /\ rescuedCount' = rescuedCount
  BY DEF ScanProxy, Scanning
<1>3. NoFlip
  BY <1>2, ScanningFacts DEF NoFlip, CopyingLabels, FixingLabels, FindingLabels
<1>4. Valid(copy)
  BY <1>1, HeapFacts DEF Valid
<1>5. SlotsValid'
  <2>1. \A a \in Objects \cup {RescuedArray, Stack} : \A k \in SlotIndex(a) :
          slots'[a][k] = slots[a][k] \/ Valid(slots'[a][k])
    BY <1>1, <1>4, HeapFacts
  <2>2. slots'[Stack][-1] = slots[Stack][-1]
    <3>1. -1 \in SlotIndex(Stack) /\ slots[Stack][-1] = Nil /\ ~ArenaIncludes(Nil)
      BY Sizes, SizesAssumption, HeapFacts, Places DEF HeapInv, SlotsValid, SlotIndex, Special
    <3>2. scan.objects = Stack => scan.index # -1
      BY <1>2, <3>1 DEF Scanned
    <3>3. QED
      BY <1>1, <3>1, <3>2, HeapFacts
  <2>3. QED
    BY <1>1, <2>1, <2>2, SlotsRewritten
<1>6. ASSUME NEW j \in 1 .. rescuedCount
      PROVE  header[slots'[RescuedArray][j]].isEphemeron
  <2>1. header[slots[RescuedArray][j]].isEphemeron /\ j \in SlotIndex(RescuedArray)
    BY Sizes, SizesAssumption
       DEF HeapInv, QueueOfEphemerons, SlotIndex, Inv, CollectorTypeOK, HostTypeOK
  <2>2. CASE scan.objects = RescuedArray /\ scan.index = j
    BY <1>1, <2>1, <2>2 DEF Scanned
  <2>3. CASE ~(scan.objects = RescuedArray /\ scan.index = j)
    BY <1>1, <2>1, <2>3, HeapFacts
  <2>4. QED
    BY <2>2, <2>3
<1>7. QueueOfEphemerons'
  BY <1>1, <1>2, <1>6 DEF QueueOfEphemerons
<1>8. QED
  BY <1>1, <1>3, <1>5, <1>7, WrittenParts


(* A rescued ephemeron enters the queue. *)
LEMMA AddRescuedFacts ==
  ASSUME HeapInv, AddRescued
  PROVE  /\ unknowns[i] \in ToSet(unknowns) /\ i \in 1 .. Len(unknowns)
         /\ unknowns[i] \in Copies /\ header[unknowns[i]].isEphemeron
         /\ rescuedCount + 1 \in SlotIndex(RescuedArray) /\ rescuedCount + 1 > 0
         /\ slots'[RescuedArray][rescuedCount + 1] = unknowns[i]
         /\ \A a \in Address \ {RescuedArray} : slots'[a] = slots[a]
         /\ \A k \in SlotIndex(RescuedArray) \ {rescuedCount + 1} :
              slots'[RescuedArray][k] = slots[RescuedArray][k]
         /\ UNCHANGED <<header, spaceVars>>
<1>1. /\ pc = "addRescued" /\ rescuedCount < RescuedSize /\ UNCHANGED <<header, spaceVars>>
      /\ slots' = [slots EXCEPT ![RescuedArray][rescuedCount + 1] = unknowns[i]]
  BY DEF AddRescued, At, RescueStep
<1>2. /\ unknowns \in Seq(Address) /\ i \in 1 .. Len(unknowns)
      /\ rescuedCount \in 0 .. RescuedSize
  BY <1>1, SetOf DEF HeapInv, Inv, RescuesAnUnknown, CollectorTypeOK, LocalsTypeOK, ControlTypeOK, HostTypeOK
<1>3. unknowns[i] \in ToSet(unknowns)
  BY <1>2, SetOf
<1>4. unknowns[i] \in Copies /\ header[unknowns[i]].isEphemeron
  BY <1>3 DEF HeapInv, FoundInCopies
<1>5. rescuedCount + 1 \in SlotIndex(RescuedArray) /\ rescuedCount + 1 > 0
  BY <1>1, <1>2, Sizes, SizesAssumption DEF SlotIndex
<1>6. IsSlots(slots) /\ RescuedArray \in Address
  BY HeapFacts
<1>7. /\ slots'[RescuedArray][rescuedCount + 1] = unknowns[i]
      /\ \A a \in Address \ {RescuedArray} : slots'[a] = slots[a]
      /\ \A k \in SlotIndex(RescuedArray) \ {rescuedCount + 1} :
           slots'[RescuedArray][k] = slots[RescuedArray][k]
  BY <1>1, <1>5, <1>6, OneSlotWritten
<1>8. QED
  BY <1>1, <1>2, <1>3, <1>4, <1>5, <1>7

LEMMA AddRescuedParts ==
  ASSUME HeapInv, AddRescued
  PROVE  HeapParts'
<1>1. /\ unknowns[i] \in Copies /\ header[unknowns[i]].isEphemeron
      /\ rescuedCount + 1 \in SlotIndex(RescuedArray)
      /\ slots'[RescuedArray][rescuedCount + 1] = unknowns[i]
      /\ \A a \in Address \ {RescuedArray} : slots'[a] = slots[a]
      /\ \A k \in SlotIndex(RescuedArray) \ {rescuedCount + 1} :
           slots'[RescuedArray][k] = slots[RescuedArray][k]
      /\ UNCHANGED <<header, spaceVars>>
  BY AddRescuedFacts
<1>2. NoFlip /\ rescuedCount' = rescuedCount + 1
  BY DEF AddRescued, At, NoFlip, BeforeFlip, CopyingLabels, FixingLabels, FindingLabels,
         TraversalLabels
<1>3. Valid(unknowns[i])
  BY <1>1, HeapFacts DEF Valid
<1>4. SlotsValid'
  <2>1. \A a \in Objects \cup {RescuedArray, Stack} : \A k \in SlotIndex(a) :
          slots'[a][k] = slots[a][k] \/ Valid(slots'[a][k])
    BY <1>1, <1>3, HeapFacts
  <2>2. slots'[Stack][-1] = slots[Stack][-1]
    BY <1>1, HeapFacts
  <2>3. QED
    BY <1>1, <2>1, <2>2, SlotsRewritten
<1>5. ASSUME NEW j \in 1 .. rescuedCount + 1
      PROVE  header[slots'[RescuedArray][j]].isEphemeron
  <2>1. rescuedCount \in 0 .. RescuedSize
    BY DEF HeapInv, Inv, CollectorTypeOK, HostTypeOK
  <2>2. CASE j = rescuedCount + 1
    BY <1>1, <2>2
  <2>3. CASE j # rescuedCount + 1
    <3>1. j \in 1 .. rescuedCount /\ j \in SlotIndex(RescuedArray)
      BY <2>1, <2>3, Sizes, SizesAssumption DEF SlotIndex
    <3>2. header[slots[RescuedArray][j]].isEphemeron
      BY <3>1 DEF HeapInv, QueueOfEphemerons
    <3>3. QED
      BY <1>1, <2>3, <3>1, <3>2
  <2>4. QED
    BY <2>2, <2>3
<1>6. QueueOfEphemerons'
  BY <1>1, <1>2, <1>5 DEF QueueOfEphemerons
<1>7. QED
  BY <1>1, <1>2, <1>4, <1>6, WrittenParts

(* What weak slots refer to from fixWeakContainers on. *)
LEMMA WeakReferenceFacts ==
  ASSUME HeapInv, NEW v, Valid(v)
  PROVE  Valid(WeakReference(v)) /\ ~ArenaIncludes(WeakReference(v))
         /\ (WeakReference(v) = v \/ (ArenaIncludes(v) /\ WeakReference(v) \in Copies \cup {Tombstone}))
<1>1. ArenaIncludes(v) => v \in ObjectsIn(fromSpace)
  BY ArenaObject
<1>2. ArenaIncludes(v) /\ IsProxy(v) => header[v].proxee \in Copies
  BY <1>1 DEF HeapInv, ProxiesLead, IsProxy
<1>3. ~ArenaIncludes(Tombstone)
  BY HeapFacts, Places DEF Special
<1>4. QED
  BY <1>2, <1>3, HeapFacts DEF WeakReference, Valid

LEMMA FixWeakFacts ==
  ASSUME HeapInv, FixWeakContainers
  PROVE  /\ ToSet(weakContainers) \subseteq Copies
         /\ RescuedArray \notin ToSet(weakContainers) /\ Stack \notin ToSet(weakContainers)
         /\ \A a \in Address \ ToSet(weakContainers) : slots'[a] = slots[a]
         /\ \A a \in ToSet(weakContainers) :
              /\ slots'[a][-1] = slots[a][-1]
              /\ \A k \in SlotIndex(a) \ {-1} : slots'[a][k] = WeakReference(slots[a][k])
         /\ UNCHANGED <<header, spaceVars>>
<1>1. ToSet(weakContainers) \subseteq Copies
  BY DEF HeapInv, FoundInCopies
<1>2. Copies \subseteq Address /\ RescuedArray \notin Copies /\ Stack \notin Copies
  BY HeapFacts, Places DEF Copies, Objects, Special
<1>3. \A a \in Copies : -1 \in SlotIndex(a)
  BY <1>2, Sizes DEF SlotIndex
<1>4. QED
  BY <1>1, <1>2, <1>3 DEF FixWeakContainers

LEMMA FixWeakParts ==
  ASSUME HeapInv, FixWeakContainers
  PROVE  HeapParts'
<1>1. NoFlip /\ rescuedCount' = rescuedCount /\ UNCHANGED <<header, spaceVars>>
  BY DEF FixWeakContainers, At, GoTo, NoFlip, BeforeFlip, CopyingLabels, FixingLabels
<1>2. ASSUME NEW a \in Objects \cup {RescuedArray, Stack}, NEW k \in SlotIndex(a)
      PROVE  slots'[a][k] = slots[a][k] \/ Valid(slots'[a][k])
  <2>1. CASE a \in ToSet(weakContainers) /\ k # -1
    BY <2>1, FixWeakFacts, WeakReferenceFacts, ReadValid
  <2>2. CASE ~(a \in ToSet(weakContainers) /\ k # -1)
    BY <2>2, FixWeakFacts, HeapFacts
  <2>3. QED
    BY <2>1, <2>2
<1>3. slots'[Stack] = slots[Stack] /\ slots'[RescuedArray] = slots[RescuedArray]
  BY FixWeakFacts, HeapFacts
<1>4. SlotsValid'
  BY <1>1, <1>2, <1>3, SlotsRewritten
<1>5. rescuedCount' \in 0 .. rescuedCount
  BY <1>1 DEF HeapInv, Inv, CollectorTypeOK, HostTypeOK
<1>6. QED
  BY <1>1, <1>3, <1>4, <1>5, QueueStays, WrittenParts


(* When the spaces are swapped nothing that stays refers to an object that  *)
(* goes away.                                                               *)
LEMMA AtFlip ==
  ASSUME HeapInv, At("flipSpaces")
  PROVE  \A a \in Staying : \A k \in SlotIndex(a) : ~ArenaIncludes(slots[a][k])
<1>1. pc = "flipSpaces" /\ BeforeFlip /\ ~Traversing
  BY DEF At, BeforeFlip
<1>2. /\ ephemerons = << >> /\ weakContainers = << >> /\ unknowns = << >>
  BY <1>1 DEF HeapInv, FoundInCopies, FixingLabels, FindingLabels, TraversalLabels
<1>3. ToSet(ephemerons) = {} /\ ToSet(weakContainers) = {} /\ UnknownsAhead = {}
  BY <1>1, <1>2, SetOfEmpty DEF UnknownsAhead, FirstUnknown
<1>4. ASSUME NEW a \in Staying, NEW k \in SlotIndex(a), ArenaIncludes(slots[a][k])
      PROVE  FALSE
  <2>1. Pending(a, k)
    BY <1>1, <1>4 DEF HeapInv, NothingForgotten
  <2>2. k \in Int
    BY DEF SlotIndex
  <2>3. ~ScanAhead(a, k)
    BY <1>1, <2>2, NoneAhead
  <2>4. ~ToBeFollowed(a)
    BY <1>1 DEF ToBeFollowed, RootsBefore
  <2>5. ~WeakAhead(a, k)
    BY <1>3 DEF WeakAhead
  <2>6. QED
    BY <2>1, <2>3, <2>4, <2>5 DEF Pending
<1>5. QED
  BY <1>4

LEMMA FlipFacts ==
  ASSUME HeapInv, FlipSpaces
  PROVE  /\ Objects' = Copies /\ ObjectsIn(fromSpace)' = ObjectsIn(toSpace)
         /\ Copies' = ObjectsIn(oldSpace) /\ OldObjects' = OldObjects
         /\ ObjectsIn(toSpace)' = {}
         /\ \A a \in Staying : header'[a] = header[a] /\ slots'[a] = slots[a]
         /\ Staying' \subseteq Staying
         /\ \A a \in Staying : \A k \in SlotIndex(a) :
              slots[a][k] \in Copies \cup {Nil, Tombstone}
         /\ \A a \in Copies \cup {Nil, Tombstone} : a \in Address /\ header'[a] = header[a]
         /\ rescuedCount' = rescuedCount /\ pc = "flipSpaces"
         /\ pc' = "fixReferencesFromNativeMethods"
<1>1. At("flipSpaces") /\ oldSpace' = oldSpace /\ rescuedCount' = rescuedCount
      /\ pc = "flipSpaces" /\ pc' = "fixReferencesFromNativeMethods"
  BY DEF FlipSpaces, At, GoTo
<1>2. /\ Objects' = Copies /\ ObjectsIn(fromSpace)' = ObjectsIn(toSpace)
      /\ Copies' = ObjectsIn(oldSpace) /\ toSpace'.nextFree = toSpace'.base
      /\ \A a \in Address : ~ArenaIncludes(a) => header'[a] = header[a] /\ slots'[a] = slots[a]
  BY FlippedSpaces DEF HeapInv
<1>3. OldObjects' = OldObjects
  BY <1>1 DEF OldObjects, ObjectsIn
<1>4. ObjectsIn(toSpace)' = {}
  <2>1. toSpace' = [fromSpace EXCEPT !.nextFree = fromSpace.base]
    BY DEF FlipSpaces, SwapSpaces
  <2>2. fromSpace.base \in Nat /\ fromSpace \in Space
    BY Bounds, HeapFacts
  <2>3. toSpace'.base = fromSpace.base /\ toSpace'.nextFree = fromSpace.base
    BY <2>1, <2>2 DEF Space
  <2>4. QED
    BY <2>2, <2>3 DEF ObjectsIn
<1>5. \A a \in Staying : header'[a] = header[a] /\ slots'[a] = slots[a]
  BY <1>2, HeapFacts
<1>6. Staying' \subseteq Staying
  BY <1>2 DEF Staying, Copies
<1>7. ASSUME NEW a \in Staying, NEW k \in SlotIndex(a)
      PROVE  slots[a][k] \in Copies \cup {Nil, Tombstone}
  <2>1. Valid(slots[a][k])
    BY ReadValid, HeapFacts
  <2>2. ~ArenaIncludes(slots[a][k])
    BY <1>1, AtFlip
  <2>3. \A v \in ObjectsIn(fromSpace) : ArenaIncludes(v)
    BY HeapFacts, Places
  <2>4. QED
    BY <2>1, <2>2, <2>3, HeapFacts DEF Valid
<1>8. \A a \in Copies \cup {Nil, Tombstone} : a \in Address /\ header'[a] = header[a]
  BY <1>2, HeapFacts, Places DEF Special
<1>9. QED
  BY <1>1, <1>2, <1>3, <1>4, <1>5, <1>6, <1>7, <1>8

LEMMA FlipParts ==
  ASSUME HeapInv, FlipSpaces
  PROVE  HeapParts'
<1>1. ToSpaceFilled'
  BY FlipFacts DEF ToSpaceFilled
<1>2. SlotsValid'
  <2>1. ASSUME NEW a \in Objects' \cup {RescuedArray, Stack}, NEW k \in SlotIndex(a)
        PROVE  slots'[a][k] \in Objects' \cup {Nil, Tombstone}
    <3>1. a \in Staying
      BY FlipFacts DEF Staying
    <3>2. QED
      BY <3>1, FlipFacts
  <2>2. slots'[Stack][-1] = Nil
    BY FlipFacts DEF HeapInv, SlotsValid, Staying
  <2>3. QED
    BY <2>1, <2>2 DEF SlotsValid, Valid
<1>3. \A a \in Staying : header'[a].proxee = Nil
  BY FlipFacts DEF HeapInv, ProxiesLead
<1>4. ProxiesLead'
  <2>1. ObjectsIn(fromSpace)' \subseteq Staying /\ Staying' \subseteq Staying
    BY FlipFacts DEF Staying, Copies
  <2>2. ~header'[RescuedArray].hasWeaks /\ ~header'[Stack].hasWeaks
    BY FlipFacts DEF HeapInv, ProxiesLead, Staying
  <2>3. QED
    BY <1>3, <2>1, <2>2 DEF ProxiesLead
<1>5. QueueOfEphemerons'
  <2>1. ASSUME NEW j \in 1 .. rescuedCount
        PROVE  header'[slots'[RescuedArray][j]].isEphemeron
    <3>1. j \in SlotIndex(RescuedArray) /\ RescuedArray \in Staying
      BY Sizes, SizesAssumption DEF SlotIndex, Staying, HeapInv, Inv, CollectorTypeOK, HostTypeOK
    <3>2. header[slots[RescuedArray][j]].isEphemeron
      BY DEF HeapInv, QueueOfEphemerons
    <3>3. QED
      BY <3>1, <3>2, FlipFacts
  <2>2. QED
    BY <2>1, FlipFacts DEF QueueOfEphemerons
<1>6. HashesDistinct'
  <2>1. Standing' \subseteq Copies
    BY FlipFacts DEF Standing, Copies
  <2>2. \A a \in Copies : header'[a] = header[a] /\ a \in Standing
    BY FlipFacts DEF Standing
  <2>3. QED
    BY <2>1, <2>2 DEF HeapInv, HashesDistinct
<1>7. QED
  BY <1>1, <1>2, <1>4, <1>5, <1>6 DEF HeapParts

(* Moving an object, from a slot of what is scanned or from code. *)
LEMMA CopyingParts ==
  ASSUME HeapInv, NEW object, NEW copy, Copying(object, copy), rescuedCount' = rescuedCount,
         pc' \in Labels, pc = pc', BeforeFlip,
         pc \notin CopyingLabels => ObjectsIn(toSpace)' = ObjectsIn(toSpace)
  PROVE  HeapParts'
<1>1. BeforeFlip'
  BY DEF BeforeFlip
<1>2. ToSpaceFilled'
  BY DEF HeapInv, ToSpaceFilled
<1>3. QED
  BY <1>1, <1>2, CopyingSlots, CopyingProxies, CopyingHashes, CopyingQueue DEF HeapParts

LEMMA ScanCopyParts ==
  ASSUME HeapInv, ScanCopy
  PROVE  HeapParts'
<1>1. Scanning /\ rescuedCount' = rescuedCount
  BY DEF ScanCopy, Scanning
<1>2. /\ pc \in TraversalLabels /\ pc' = pc /\ BeforeFlip /\ pc \in CopyingLabels /\ pc \in Labels
  BY <1>1, ScanningFacts
     DEF CopyingLabels, FixingLabels, FindingLabels, HeapInv, Inv, CollectorTypeOK, ControlTypeOK
<1>3. QED
  BY <1>1, <1>2, ScanCopies, CopyingParts

LEMMA TenureParts ==
  ASSUME HeapInv, NEW object, Valid(object), Tenure(object), Iterate, BeforeFlip,
         \A a \in Address \ {CodeCache} : slots'[a] = SlotsWithTenured(object)[a]
  PROVE  HeapParts'
<1>1. pc' = pc /\ rescuedCount' = rescuedCount /\ pc \in Labels
  BY DEF Iterate, HeapInv, Inv, CollectorTypeOK, ControlTypeOK
<1>2. CASE ToBeMoved(object)
  <2>1. ObjectsIn(toSpace)' = ObjectsIn(toSpace)
    BY <1>2, TenureCopies DEF MoveToOldSpace, ObjectsIn
  <2>2. QED
    BY <1>1, <1>2, <2>1, TenureCopies, CopyingParts
<1>3. CASE ~ToBeMoved(object)
  <2>1. HeapQuiet /\ NoFlip
    BY <1>1, <1>3, TenureCopies DEF HeapQuiet, NoFlip, BeforeFlip
  <2>2. QED
    BY <1>1, <2>1, QuietParts
<1>4. QED
  BY <1>2, <1>3


LEMMA AtMutator ==
  ASSUME HeapInv, pc = "mutator"
  PROVE  /\ ~BeforeFlip /\ ObjectsIn(toSpace) = {}
         /\ \A a \in Objects : header[a].proxee = Nil
         /\ Objects = ProgramObjects /\ Standing = ProgramObjects
         /\ \A v : Valid(v) /\ IsNew(v) => ArenaIncludes(v)
<1>1. ~BeforeFlip /\ ObjectsIn(toSpace) = {}
  BY DEF BeforeFlip, HeapInv, ToSpaceFilled, CopyingLabels, FixingLabels, FindingLabels,
         TraversalLabels
<1>2. \A a \in Objects : header[a].proxee = Nil
  BY <1>1, HeapFacts DEF HeapInv, ProxiesLead
<1>3. Objects = ProgramObjects /\ Standing = ProgramObjects
  BY <1>1, <1>2 DEF Objects, Copies, ProgramObjects, Standing, IsProxy
<1>4. QED
  BY <1>1, <1>2, <1>3, ArenaObject

LEMMA AllocateParts ==
  ASSUME HeapInv, NEW kind, NEW hash, NEW r \in 0 .. NumRoots - 1, Allocate(kind, hash, r)
  PROVE  HeapParts'
<1> DEFINE new == fromSpace.nextFree
<1>1. /\ pc = "mutator" /\ pc' = "mutator" /\ rescuedCount' = rescuedCount /\ ~HashInUse(hash)
  BY DEF Allocate, Operation, controlVars
<1>2. /\ new \in Address \ (Objects \cup Special)
      /\ Objects' = Objects \cup {new} /\ Copies' = Copies /\ Staying' = Staying
      /\ ObjectsIn(toSpace)' = ObjectsIn(toSpace)
      /\ ObjectsIn(fromSpace)' = ObjectsIn(fromSpace) \cup {new}
      /\ \A a \in Address \ {new} : header'[a] = header[a]
      /\ header'[new].hash = hash /\ header'[new].proxee = Nil
      /\ \A a \in Address \ {new, Stack} : slots'[a] = slots[a]
  BY AllocateFacts
<1> HIDE DEF new
<1>3. Objects \cup {Nil, Tombstone, RescuedArray, Stack} \subseteq Address \ {new}
  BY <1>2, HeapFacts, Places DEF Special
<1>4. ToSpaceFilled'
  BY <1>1, <1>2 DEF HeapInv, ToSpaceFilled
<1>5. ProxiesLead'
  <2>1. \A a \in Staying : header'[a].proxee = Nil
    BY <1>2, <1>3, HeapFacts DEF HeapInv, ProxiesLead
  <2>2. \A a \in ObjectsIn(fromSpace) \cup {new} : header'[a].proxee = Nil
    BY <1>1, <1>2, <1>3, AtMutator, HeapFacts
  <2>3. ~header'[RescuedArray].hasWeaks /\ ~header'[Stack].hasWeaks
    BY <1>2, <1>3 DEF HeapInv, ProxiesLead
  <2>4. QED
    BY <1>2, <2>1, <2>2, <2>3 DEF ProxiesLead
<1>6. QueueOfEphemerons'
  <2>1. rescuedCount' \in 0 .. rescuedCount
    BY <1>1 DEF HeapInv, Inv, CollectorTypeOK, HostTypeOK
  <2>2. slots'[RescuedArray] = slots[RescuedArray]
    BY <1>2, <1>3, HeapFacts
  <2>3. QED
    BY <1>2, <1>3, <2>1, <2>2, QueueStays
<1>7. HashesDistinct'
  <2>1. Standing' \subseteq Objects \cup {new}
    BY <1>2 DEF Standing, Copies, Objects
  <2>2. \A a \in Objects : header'[a].hash = header[a].hash /\ header[a].hash # hash /\ a \in Standing
    BY <1>1, <1>2, <1>3, AtMutator DEF HashInUse
  <2>3. QED
    BY <1>2, <2>1, <2>2 DEF HeapInv, HashesDistinct
<1>8. QED
  BY <1>4, <1>5, <1>6, <1>7, AllocateSlots DEF HeapParts

(* Flags that are set and reset. *)
LEMMA PurgeFlags ==
  ASSUME HeapInv, PurgeRemembered
  PROVE  FlagsOnly /\ NoFlip /\ rescuedCount' = rescuedCount
<1>1. header \in [Address -> Header]
  BY HeapFacts
<1>2. header' = header \/ header' = NotInRememberedSet(rememberedSet[i])
  BY DEF PurgeRemembered
<1>3. \A a \in Address :
       /\ header'[a].hash = header[a].hash /\ header'[a].proxee = header[a].proxee
       /\ header'[a].isEphemeron = header[a].isEphemeron
       /\ header'[a].hasWeaks = header[a].hasWeaks
  BY <1>1, <1>2 DEF NotInRememberedSet, Header
<1>4. NoFlip
  BY DEF PurgeRemembered, NoFlip, BeforeFlip
<1>5. QED
  BY <1>3, <1>4 DEF PurgeRemembered, FlagsOnly

LEMMA DecidedFlags ==
  ASSUME HeapInv, EphemeronsDecided
  PROVE  FlagsOnly /\ NoFlip /\ rescuedCount' = rescuedCount
         /\ \A a \in Address : header'[a].hasWeaks = header[a].hasWeaks
<1>1. header \in [Address -> Header]
  BY HeapFacts
<1>2. header' = header \/ header' = [header EXCEPT ![RescuedArray].inRememberedSet = TRUE]
  BY DEF EphemeronsDecided, HoldReferenceTo
<1>3. \A a \in Address :
       /\ header'[a].hash = header[a].hash /\ header'[a].proxee = header[a].proxee
       /\ header'[a].isEphemeron = header[a].isEphemeron
       /\ header'[a].hasWeaks = header[a].hasWeaks
  BY <1>1, <1>2 DEF Header
<1>4. NoFlip
  BY DEF EphemeronsDecided, GoTo, NoFlip, BeforeFlip, CopyingLabels, FixingLabels
<1>5. QED
  BY <1>3, <1>4 DEF EphemeronsDecided, RescueStep, FlagsOnly

LEMMA NonWeakFlags ==
  ASSUME HeapInv, MakeRescuedEphemeronsNonWeak
  PROVE  FlagsOnly /\ NoFlip /\ rescuedCount' = rescuedCount
         /\ \A a \in Address \ Rescued : header'[a] = header[a]
<1>1. header \in [Address -> Header]
  BY HeapFacts
<1>2. \A a \in Address : header'[a] = IF a \in Rescued THEN [header[a] EXCEPT !.hasWeaks = FALSE]
                                                       ELSE header[a]
  BY DEF MakeRescuedEphemeronsNonWeak
<1>3. \A a \in Address :
       /\ header'[a].hash = header[a].hash /\ header'[a].proxee = header[a].proxee
       /\ header'[a].isEphemeron = header[a].isEphemeron
       /\ header'[a].hasWeaks => header[a].hasWeaks
  BY <1>1, <1>2 DEF Header
<1>4. NoFlip
  BY DEF MakeRescuedEphemeronsNonWeak, GoTo, NoFlip, BeforeFlip, CopyingLabels, FixingLabels
<1>5. QED
  BY <1>2, <1>3, <1>4 DEF MakeRescuedEphemeronsNonWeak, FlagsOnly

(* The steps that leave all of it. *)
QuietStep == HeapQuiet /\ NoFlip /\ rescuedCount' = rescuedCount

LEMMA CodeSlotWritten ==
  ASSUME HeapInv, NEW row, slots' = [slots EXCEPT ![CodeCache] = row]
  PROVE  \A a \in Address \ {CodeCache} : slots'[a] = slots[a]
BY HeapFacts DEF IsSlots

LEMMA MutatorQuiet ==
  ASSUME HeapInv, NEW o, NEW r,
         EmbedLiteral(o, r) \/ EmbedClassCheck(o, r) \/ Nativize(r) \/ FillLookupCache(r)
  PROVE  QuietStep
<1>1. pc = "mutator" /\ pc' = "mutator"
  BY DEF EmbedLiteral, EmbedClassCheck, Nativize, FillLookupCache, Operation, controlVars
<1>2. NoFlip
  BY <1>1 DEF NoFlip, BeforeFlip
<1>3. UNCHANGED <<header, spaceVars, rescuedCount>>
  BY DEF EmbedLiteral, EmbedClassCheck, Nativize, FillLookupCache, heapVars
<1>4. \A a \in Address \ {CodeCache} : slots'[a] = slots[a]
  <2>1. slots' = slots \/ \E v : slots' = [slots EXCEPT ![CodeCache][o] = v]
    BY DEF EmbedLiteral, EmbedClassCheck, Nativize, FillLookupCache, heapVars
  <2>2. QED
    BY <2>1, HeapFacts DEF IsSlots
<1>5. QED
  BY <1>2, <1>3, <1>4 DEF QuietStep, HeapQuiet


LEMMA ProceedQuiet ==
  ASSUME HeapInv, NEW here, NEW next, Proceed(here, next),
         BeforeFlip => next \notin {"mutator", "fixReferencesFromNativeMethods", "cleanRememberedSet"},
         here \in CopyingLabels => next \in CopyingLabels
  PROVE  QuietStep
BY DEF Proceed, At, GoTo, heapVars, QuietStep, HeapQuiet, NoFlip, BeforeFlip

LEMMA BeginningQuiet ==
  ASSUME HeapInv,
         \/ StartScavenge \/ PurgeLiteral \/ LiteralsReferencesPurged \/ RememberedSetPurged
         \/ ClearGlobalLookupCache \/ ClassCheckReferencesMoved \/ CheckNativizedMethods
         \/ NativizedMethodsMoved \/ LiteralsReferencesMoved
  PROVE  QuietStep
<1> USE DEF CopyingLabels, FixingLabels, FindingLabels, TraversalLabels
<1>1. CASE LiteralsReferencesPurged \/ RememberedSetPurged \/ NativizedMethodsMoved \/ LiteralsReferencesMoved
  BY <1>1, ProceedQuiet
     DEF LiteralsReferencesPurged, RememberedSetPurged, NativizedMethodsMoved, LiteralsReferencesMoved
<1>2. CASE StartScavenge \/ PurgeLiteral
  BY <1>2 DEF StartScavenge, PurgeLiteral, At, GoTo, heapVars, QuietStep, HeapQuiet, NoFlip, BeforeFlip
<1>3. CASE ClearGlobalLookupCache \/ ClassCheckReferencesMoved \/ CheckNativizedMethods
  BY <1>3 DEF ClearGlobalLookupCache, ClassCheckReferencesMoved, CheckNativizedMethods,
              At, GoTo, heapVars, QuietStep, HeapQuiet, NoFlip, BeforeFlip
<1>4. QED
  BY <1>1, <1>2, <1>3

LEMMA TraversalQuiet ==
  ASSUME HeapInv,
         \/ FollowRemembered \/ RememberedSetFollowed \/ FollowStack \/ ScanOutside \/ ScanPop
  PROVE  QuietStep
<1> USE DEF CopyingLabels, FixingLabels, FindingLabels, TraversalLabels
<1>1. CASE RememberedSetFollowed
  BY <1>1, ProceedQuiet DEF RememberedSetFollowed
<1>2. CASE FollowRemembered \/ FollowStack
  BY <1>2 DEF FollowRemembered, FollowStack, At, GoTo, heapVars, QuietStep, HeapQuiet, NoFlip, BeforeFlip
<1>3. CASE ScanOutside \/ ScanPop
  BY <1>3 DEF ScanOutside, ScanPop, Scanning, controlVars, heapVars, QuietStep, HeapQuiet, NoFlip,
              BeforeFlip
<1>4. QED
  BY <1>1, <1>2, <1>3

LEMMA RescueQuiet ==
  ASSUME HeapInv,
         \/ LookForEphemerons \/ FollowEphemeron \/ CollectUnknown \/ Rescan
         \/ RescueUnknowns \/ RescueEphemeron \/ UnknownsRescued
  PROVE  QuietStep
<1>1. UNCHANGED <<header, spaceVars, slots, rescuedCount>>
  BY DEF LookForEphemerons, FollowEphemeron, CollectUnknown, Rescan, RescueUnknowns, RescueEphemeron,
         UnknownsRescued, RescueStep, heapVars
<1>2. /\ pc \in {"rescueEphemerons", "collectUnknowns", "rescueEphemeron"}
      /\ pc' \in {"rescueEphemerons", "collectUnknowns", "rescueEphemeron", "addRescued"}
  BY DEF LookForEphemerons, FollowEphemeron, CollectUnknown, Rescan, RescueUnknowns, RescueEphemeron,
         UnknownsRescued, At, GoTo
<1>3. NoFlip
  BY <1>2 DEF NoFlip, BeforeFlip, CopyingLabels, FixingLabels, FindingLabels, TraversalLabels
<1>4. QED
  BY <1>1, <1>3 DEF QuietStep, HeapQuiet

LEMMA EndQuiet ==
  ASSUME HeapInv,
         FixReferencesFromNativeMethods \/ CleanRemembered \/ EndScavenge \/ UNCHANGED vars
  PROVE  QuietStep
<1>1. UNCHANGED <<header, spaceVars, rescuedCount>>
  BY DEF FixReferencesFromNativeMethods, CleanRemembered, EndScavenge, heapVars, vars
<1>2. \A a \in Address \ {CodeCache} : slots'[a] = slots[a]
  <2>1. CASE FixReferencesFromNativeMethods
    <3>1. PICK row : slots' = [slots EXCEPT ![CodeCache] = row]
      BY <2>1 DEF FixReferencesFromNativeMethods
    <3>2. QED
      BY <3>1, CodeSlotWritten
  <2>2. CASE ~FixReferencesFromNativeMethods
    BY <2>2 DEF CleanRemembered, EndScavenge, heapVars, vars
  <2>3. QED
    BY <2>1, <2>2
<1>3. NoFlip
  BY DEF FixReferencesFromNativeMethods, CleanRemembered, EndScavenge, vars, controlVars, At, GoTo,
         NoFlip, BeforeFlip, CopyingLabels, FixingLabels, FindingLabels, TraversalLabels
<1>4. QED
  BY <1>1, <1>2, <1>3 DEF QuietStep, HeapQuiet

(* Objects the code refers to. *)
LEMMA ClassCheckFacts ==
  ASSUME HeapInv, MoveClassCheckReference
  PROVE  LET offset == classCheckReferences[i]
             object == slots[CodeCache][offset]
         IN  /\ offset \in SlotIndex(CodeCache) /\ i \in 1 .. Len(classCheckReferences)
             /\ Valid(object) /\ Tenure(object) /\ BeforeFlip
             /\ \A a \in Address \ {CodeCache} : slots'[a] = SlotsWithTenured(object)[a]
             /\ slots'[CodeCache][offset] = Tenured(object)
             /\ \A o \in SlotIndex(CodeCache) \ {offset} : slots'[CodeCache][o] = slots[CodeCache][o]
<1> DEFINE offset == classCheckReferences[i]
           object == slots[CodeCache][offset]
           others == SlotsWithTenured(object)
<1>1. /\ pc = "moveClassCheckReferences" /\ i <= Len(classCheckReferences) /\ Tenure(object)
      /\ slots' = [others EXCEPT ![CodeCache][offset] = Tenured(object)]
  BY DEF MoveClassCheckReference, At
<1>2. classCheckReferences \in Seq(0 .. NumOffsets - 1) /\ i \in Nat \ {0}
  BY DEF HeapInv, Inv, CollectorTypeOK, HostTypeOK, ControlTypeOK
<1>3. offset \in 0 .. NumOffsets - 1 /\ i \in 1 .. Len(classCheckReferences)
  <2>1. i <= Len(classCheckReferences)
    BY <1>1
  <2>2. classCheckReferences[i] \in 0 .. NumOffsets - 1
    BY <1>2, <2>1, ElementTyped
  <2>3. Len(classCheckReferences) \in Nat
    BY <1>2, SetOf
  <2>4. QED
    BY <1>2, <2>1, <2>2, <2>3
<1>4. offset \in SlotIndex(CodeCache)
  BY <1>3, Sizes, SizesAssumption DEF SlotIndex
<1>5. Valid(object) /\ BeforeFlip
  BY <1>1, <1>4 DEF HeapInv, CodeKnown, BeforeFlip
<1>6. object \in Address /\ IsSlots(slots) /\ CodeCache \in Address
  BY <1>5, ArenaObject, HeapFacts
<1>7. others = [a \in Address |-> others[a]] /\ others[CodeCache] = slots[CodeCache]
  <2> HIDE DEF object
  <2>1. oldSpace.nextFree # CodeCache
    BY HeapFacts, Bounds, Layout
  <2>2. QED
    BY <1>6, <2>1 DEF SlotsWithTenured, IsSlots
<1>8. slots[CodeCache] \in [SlotIndex(CodeCache) -> Address]
  BY <1>6 DEF IsSlots
<1> HIDE DEF offset, object, others
<1>9. slots' = [a \in Address |-> IF a = CodeCache THEN [slots[CodeCache] EXCEPT ![offset] = Tenured(object)]
                                                ELSE others[a]]
  BY <1>1, <1>6, <1>7
<1>10. /\ \A a \in Address \ {CodeCache} : slots'[a] = others[a]
       /\ slots'[CodeCache][offset] = Tenured(object)
       /\ \A o \in SlotIndex(CodeCache) \ {offset} : slots'[CodeCache][o] = slots[CodeCache][o]
  BY <1>4, <1>6, <1>8, <1>9
<1>11. QED
  BY <1>1, <1>3, <1>4, <1>5, <1>10 DEF offset, object, others

LEMMA NativizedFacts ==
  ASSUME HeapInv, MoveNativizedMethod
  PROVE  LET object == nativizedMethods[i]
         IN  /\ i \in 1 .. Len(nativizedMethods)
             /\ Valid(object) /\ Tenure(object) /\ BeforeFlip
             /\ slots' = SlotsWithTenured(object)
             /\ nativizedMethods' = [nativizedMethods EXCEPT ![i] = Tenured(object)]
<1>1. i \in 1 .. Len(nativizedMethods)
  BY SetOf DEF MoveNativizedMethod, HeapInv, Inv, CollectorTypeOK, HostTypeOK, ControlTypeOK
<1>2. Valid(nativizedMethods[i])
  BY <1>1 DEF HeapInv, MethodsKnown
<1>3. QED
  BY <1>1, <1>2 DEF MoveNativizedMethod, At, BeforeFlip

LEMMA LiteralFacts ==
  ASSUME HeapInv, MoveLiteralReference
  PROVE  LET object == literalsReferences[i].literal
         IN  /\ i \in 1 .. Len(literalsReferences)
             /\ Valid(object) /\ Tenure(object) /\ BeforeFlip
             /\ slots' = SlotsWithTenured(object)
             /\ literalsReferences' = [literalsReferences EXCEPT ![i].literal = Tenured(object)]
<1>1. i \in 1 .. Len(literalsReferences)
  BY SetOf DEF MoveLiteralReference, HeapInv, Inv, CollectorTypeOK, HostTypeOK, ControlTypeOK
<1>2. Valid(literalsReferences[i].literal)
  BY <1>1 DEF HeapInv, LiteralsKnown
<1>3. QED
  BY <1>1, <1>2 DEF MoveLiteralReference, At, BeforeFlip


LEMMA MutatorParts ==
  ASSUME HeapInv, Mutator
  PROVE  HeapParts'
<1>1. CASE \E kind \in Kinds, hash \in 1 .. SemiSize + OldSize, r \in 0 .. NumRoots - 1 :
             Allocate(kind, hash, r)
  BY <1>1, AllocateParts
<1>2. ASSUME NEW r \in 0 .. NumRoots - 1, NEW k \in StoredSlots, NEW v, Valid(v), Store(r, k, v)
      PROVE  HeapParts'
  <2>1. NoFlip
    BY <1>2 DEF Store, Operation, controlVars, NoFlip, BeforeFlip
  <2>2. QED
    BY <1>2, <2>1, StoreParts
<1>3. ASSUME NEW r \in 0 .. NumRoots - 1, NEW v, Valid(v), SetTemporary(r, v),
             rescuedCount' \in 0 .. rescuedCount
      PROVE  HeapParts'
  <2>1. NoFlip
    BY <1>3 DEF SetTemporary, Operation, controlVars, NoFlip, BeforeFlip
  <2>2. QED
    BY <1>3, <2>1, TemporaryParts
<1>4. Valid(Nil) /\ rescuedCount \in Nat
  BY DEF Valid, HeapInv, Inv, CollectorTypeOK, HostTypeOK
<1>5. CASE \/ \E r, q \in 0 .. NumRoots - 1, k \in StoredSlots : Store(r, k, slots[Stack][q])
           \/ \E r \in 0 .. NumRoots - 1, k \in StoredSlots : Store(r, k, Nil)
  BY <1>2, <1>4, <1>5, TemporaryValid
<1>6. CASE \E r, q \in 0 .. NumRoots - 1, k \in StoredSlots : Load(r, k, q)
  <2>1. PICK r \in 0 .. NumRoots - 1, q \in 0 .. NumRoots - 1, k \in StoredSlots : Load(r, k, q)
    BY <1>6
  <2>2. Valid(slots[slots[Stack][r]][k])
    BY <2>1, LoadedValid DEF Load
  <2>3. SetTemporary(q, slots[slots[Stack][r]][k]) /\ rescuedCount' \in 0 .. rescuedCount
    BY <2>1, <1>4 DEF Load
  <2>4. QED
    BY <1>3, <2>2, <2>3
<1>7. CASE \E r \in 0 .. NumRoots - 1 : Drop(r)
  BY <1>3, <1>4, <1>7 DEF Drop
<1>8. CASE \E r \in 0 .. NumRoots - 1 : Take(r)
  <2>1. PICK r \in 0 .. NumRoots - 1 : Take(r)
    BY <1>8
  <2>2. /\ SetTemporary(r, slots[RescuedArray][rescuedCount])
        /\ rescuedCount > 0 /\ rescuedCount' \in 0 .. rescuedCount
    BY <1>4, <2>1 DEF Take
  <2>3. QED
    BY <1>3, <2>2, TakenValid
<1>9. CASE \/ \E o \in 0 .. NumOffsets - 1, r \in 0 .. NumRoots - 1 : EmbedLiteral(o, r)
           \/ \E o \in 0 .. NumOffsets - 1, r \in 0 .. NumRoots - 1 : EmbedClassCheck(o, r)
           \/ \E r \in 0 .. NumRoots - 1 : Nativize(r)
           \/ \E r \in 0 .. NumRoots - 1 : FillLookupCache(r)
  BY <1>9, MutatorQuiet, QuietParts DEF QuietStep
<1>10. QED
  BY <1>1, <1>5, <1>6, <1>7, <1>8, <1>9 DEF Mutator

LEMMA CodeParts ==
  ASSUME HeapInv, MoveClassCheckReference \/ MoveNativizedMethod \/ MoveLiteralReference
  PROVE  HeapParts'
<1>1. CASE MoveClassCheckReference
  BY <1>1, ClassCheckFacts, TenureParts DEF MoveClassCheckReference
<1>2. CASE MoveNativizedMethod
  BY <1>2, NativizedFacts, TenureParts DEF MoveNativizedMethod
<1>3. CASE MoveLiteralReference
  BY <1>3, LiteralFacts, TenureParts DEF MoveLiteralReference
<1>4. QED
  BY <1>1, <1>2, <1>3

LEMMA NextParts ==
  ASSUME HeapInv, [Next]_vars
  PROVE  HeapParts'
<1>1. CASE PurgeRemembered \/ EphemeronsDecided \/ MakeRescuedEphemeronsNonWeak
  BY <1>1, PurgeFlags, DecidedFlags, NonWeakFlags, FlagsOnlyParts
<1>2. CASE \/ StartScavenge \/ PurgeLiteral \/ LiteralsReferencesPurged \/ RememberedSetPurged
           \/ ClearGlobalLookupCache \/ ClassCheckReferencesMoved \/ CheckNativizedMethods
           \/ NativizedMethodsMoved \/ LiteralsReferencesMoved
  BY <1>2, BeginningQuiet, QuietParts DEF QuietStep
<1>3. CASE FollowRemembered \/ RememberedSetFollowed \/ FollowStack \/ ScanOutside \/ ScanPop
  BY <1>3, TraversalQuiet, QuietParts DEF QuietStep
<1>4. CASE \/ LookForEphemerons \/ FollowEphemeron \/ CollectUnknown \/ Rescan
           \/ RescueUnknowns \/ RescueEphemeron \/ UnknownsRescued
  BY <1>4, RescueQuiet, QuietParts DEF QuietStep
<1>5. CASE FixReferencesFromNativeMethods \/ CleanRemembered \/ EndScavenge \/ UNCHANGED vars
  BY <1>5, EndQuiet, QuietParts DEF QuietStep
<1>6. CASE MoveClassCheckReference \/ MoveNativizedMethod \/ MoveLiteralReference
  BY <1>6, CodeParts
<1>7. CASE AddRescued \/ FixWeakContainers \/ FlipSpaces \/ ScanProxy \/ ScanCopy
  BY <1>7, AddRescuedParts, FixWeakParts, FlipParts, ScanProxyParts, ScanCopyParts
<1>8. QED
  BY <1>1, <1>2, <1>3, <1>4, <1>5, <1>6, <1>7, MutatorParts
     DEF Next, Collector, FollowCodeCacheReferences, RescueEphemerons, FollowCountStartingAt


-----------------------------------------------------------------------------
(* ScansStay. *)
StartOfScan ==
  \/ FollowRemembered \/ FollowStack \/ FollowEphemeron \/ RescueEphemeron

LEMMA NotTraversing ==
  ASSUME HeapInv, [Next]_vars, ~StartOfScan, ~FollowCountStartingAt, ~StartScavenge, ~EndScavenge
  PROVE  UNCHANGED scanVars /\ (UNCHANGED pc \/ ~Traversing)
<1> USE DEF scanVars
<1>1. CASE Mutator
  <2>1. Operation
    BY <1>1 DEF Mutator, Allocate, Store, Load, Drop, Take, SetTemporary, EmbedLiteral,
                EmbedClassCheck, Nativize, FillLookupCache
  <2>2. QED
    BY <2>1 DEF Operation, controlVars
<1>2. CASE PurgeRemembered \/ EphemeronsDecided \/ MakeRescuedEphemeronsNonWeak
  BY <1>2 DEF PurgeRemembered, EphemeronsDecided, MakeRescuedEphemeronsNonWeak, RescueStep, At
<1>3. CASE \/ PurgeLiteral \/ LiteralsReferencesPurged \/ RememberedSetPurged
           \/ ClearGlobalLookupCache \/ ClassCheckReferencesMoved \/ CheckNativizedMethods
           \/ NativizedMethodsMoved \/ LiteralsReferencesMoved \/ RememberedSetFollowed
  BY <1>3 DEF PurgeLiteral, LiteralsReferencesPurged, RememberedSetPurged, ClearGlobalLookupCache,
              ClassCheckReferencesMoved, CheckNativizedMethods, NativizedMethodsMoved,
              LiteralsReferencesMoved, RememberedSetFollowed, Proceed, At
<1>4. CASE LookForEphemerons \/ CollectUnknown \/ Rescan \/ RescueUnknowns \/ UnknownsRescued \/ AddRescued
  BY <1>4 DEF LookForEphemerons, CollectUnknown, Rescan, RescueUnknowns, UnknownsRescued, AddRescued,
              RescueStep, At
<1>5. CASE MoveClassCheckReference \/ MoveNativizedMethod \/ MoveLiteralReference
  BY <1>5 DEF MoveClassCheckReference, MoveNativizedMethod, MoveLiteralReference, Iterate
<1>6. CASE FixWeakContainers \/ FlipSpaces \/ FixReferencesFromNativeMethods \/ CleanRemembered
           \/ UNCHANGED vars
  BY <1>6 DEF FixWeakContainers, FlipSpaces, FixReferencesFromNativeMethods, CleanRemembered, vars,
              controlVars, At
<1>7. QED
  BY <1>1, <1>2, <1>3, <1>4, <1>5, <1>6
     DEF Next, Collector, FollowCodeCacheReferences, RescueEphemerons, StartOfScan

(* What stays, stays, until the spaces are swapped. *)
LEMMA StayingStays ==
  ASSUME HeapInv, [Next]_vars, ~FlipSpaces
  PROVE  /\ Copies \subseteq Copies' /\ Staying \subseteq Staying' /\ OldObjects \subseteq OldObjects'
         /\ \A a \in Staying : header'[a].isEphemeron = header[a].isEphemeron
<1>1. Staying \subseteq Address
  BY HeapFacts
<1>2. CASE QuietStep \/ FlagsOnly
  BY <1>1, <1>2, SpacesSame DEF QuietStep, HeapQuiet, FlagsOnly
<1>3. CASE UNCHANGED <<header, spaceVars>>
  BY <1>3, SpacesSame
<1>4. ASSUME NEW object, NEW copy, Copying(object, copy), OldObjects \subseteq OldObjects'
      PROVE  /\ Copies \subseteq Copies' /\ Staying \subseteq Staying' /\ OldObjects \subseteq OldObjects'
             /\ \A a \in Staying : header'[a].isEphemeron = header[a].isEphemeron
  BY <1>4, CopyingFacts, HeapFacts
<1>5. CASE PurgeRemembered \/ EphemeronsDecided \/ MakeRescuedEphemeronsNonWeak
  BY <1>2, <1>5, PurgeFlags, DecidedFlags, NonWeakFlags
<1>6. CASE \/ StartScavenge \/ PurgeLiteral \/ LiteralsReferencesPurged \/ RememberedSetPurged
           \/ ClearGlobalLookupCache \/ ClassCheckReferencesMoved \/ CheckNativizedMethods
           \/ NativizedMethodsMoved \/ LiteralsReferencesMoved
           \/ FollowRemembered \/ RememberedSetFollowed \/ FollowStack \/ ScanOutside \/ ScanPop
           \/ LookForEphemerons \/ FollowEphemeron \/ CollectUnknown \/ Rescan
           \/ RescueUnknowns \/ RescueEphemeron \/ UnknownsRescued
           \/ FixReferencesFromNativeMethods \/ CleanRemembered \/ EndScavenge \/ UNCHANGED vars
  BY <1>2, <1>6, BeginningQuiet, TraversalQuiet, RescueQuiet, EndQuiet
<1>7. CASE AddRescued \/ FixWeakContainers \/ ScanProxy
  BY <1>3, <1>7, AddRescuedFacts, FixWeakFacts, ProxyFacts
<1>8. CASE ScanCopy
  <2>1. PICK object, copy : Copying(object, copy) /\ (MoveToOldSpace(object) \/ MoveToToSpace(object))
    BY <1>8, ScanCopies
  <2>2. OldObjects \subseteq OldObjects'
    BY <2>1, MoveToOldRelocates, MoveToToRelocates, CopyingFacts, HeapFacts, Places
       DEF Copying, OldObjects, ObjectsIn, HeapInv
  <2>3. QED
    BY <1>4, <2>1, <2>2
<1>9. ASSUME NEW object, Valid(object), Tenure(object),
             \A a \in Address \ {CodeCache} : slots'[a] = SlotsWithTenured(object)[a]
      PROVE  /\ Copies \subseteq Copies' /\ Staying \subseteq Staying' /\ OldObjects \subseteq OldObjects'
             /\ \A a \in Staying : header'[a].isEphemeron = header[a].isEphemeron
  <2>1. CASE ToBeMoved(object)
    <3>1. Copying(object, oldSpace.nextFree) /\ MoveToOldSpace(object)
      BY <1>9, <2>1, TenureCopies
    <3>2. OldObjects \subseteq OldObjects'
      BY <3>1, MoveToOldRelocates, CopyingFacts, HeapFacts, Places
         DEF Copying, OldObjects, ObjectsIn, HeapInv
    <3>3. QED
      BY <1>4, <3>1, <3>2
  <2>2. CASE ~ToBeMoved(object)
    BY <1>3, <1>9, <2>2, TenureCopies
  <2>3. QED
    BY <2>1, <2>2
<1>10. CASE MoveClassCheckReference \/ MoveNativizedMethod \/ MoveLiteralReference
  BY <1>9, <1>10, ClassCheckFacts, NativizedFacts, LiteralFacts
<1>11. CASE Mutator
  <2>1. CASE \E kind \in Kinds, hash \in 1 .. SemiSize + OldSize, r \in 0 .. NumRoots - 1 :
               Allocate(kind, hash, r)
    BY <2>1, AllocateFacts, HeapFacts, Places DEF Special, Staying, Objects
  <2>2. CASE \/ \E r, q \in 0 .. NumRoots - 1, k \in StoredSlots : Store(r, k, slots[Stack][q])
             \/ \E r \in 0 .. NumRoots - 1, k \in StoredSlots : Store(r, k, Nil)
    <3>1. PICK r, v : WriteBarrier(slots[Stack][r], v) /\ UNCHANGED spaceVars
      BY <2>2 DEF Store
    <3>2. \A a \in Address : header'[a].isEphemeron = header[a].isEphemeron
      BY <3>1, HeapFacts DEF WriteBarrier, Header
    <3>3. QED
      BY <1>1, <3>1, <3>2, SpacesSame
  <2>3. CASE \/ \E r, q \in 0 .. NumRoots - 1, k \in StoredSlots : Load(r, k, q)
             \/ \E r \in 0 .. NumRoots - 1 : Drop(r)
             \/ \E r \in 0 .. NumRoots - 1 : Take(r)
    BY <1>3, <2>3 DEF Load, Drop, Take, SetTemporary
  <2>4. CASE \/ \E o \in 0 .. NumOffsets - 1, r \in 0 .. NumRoots - 1 : EmbedLiteral(o, r)
             \/ \E o \in 0 .. NumOffsets - 1, r \in 0 .. NumRoots - 1 : EmbedClassCheck(o, r)
             \/ \E r \in 0 .. NumRoots - 1 : Nativize(r)
             \/ \E r \in 0 .. NumRoots - 1 : FillLookupCache(r)
    BY <1>2, <2>4, MutatorQuiet
  <2>5. QED
    BY <1>11, <2>1, <2>2, <2>3, <2>4 DEF Mutator
<1>12. QED
  BY <1>5, <1>6, <1>7, <1>8, <1>10, <1>11
     DEF Next, Collector, FollowCodeCacheReferences, RescueEphemerons, FollowCountStartingAt


(* The last element of a sequence goes. *)
LEMMA LastTaken ==
  ASSUME NEW S, NEW s \in Seq(S), s # << >>
  PROVE  /\ Last(s) \in ToSet(s) /\ ToSet(s) = ToSet(Front(s)) \cup {Last(s)}
         /\ ToSet(Front(s)) \subseteq ToSet(s)
<1>1. /\ Len(s) \in Nat \ {0} /\ Front(s) \in Seq(S) /\ Len(Front(s)) = Len(s) - 1
      /\ \A j \in 1 .. Len(s) - 1 : Front(s)[j] = s[j]
  BY LastAndFront
<1>2. ToSet(s) = {s[j] : j \in 1 .. Len(s)} /\ ToSet(Front(s)) = {Front(s)[j] : j \in 1 .. Len(s) - 1}
  BY <1>1, SetOf
<1>3. Last(s) = s[Len(s)]
  BY DEF Last
<1>4. ToSet(Front(s)) \subseteq ToSet(s) /\ Last(s) \in ToSet(s)
  BY <1>1, <1>2, <1>3
<1>5. ASSUME NEW e \in ToSet(s) PROVE e \in ToSet(Front(s)) \cup {Last(s)}
  <2>1. PICK j \in 1 .. Len(s) : e = s[j]
    BY <1>2
  <2>2. j = Len(s) \/ j \in 1 .. Len(s) - 1
    BY <1>1, <2>1
  <2>3. QED
    BY <1>1, <1>2, <1>3, <2>1, <2>2
<1>6. QED
  BY <1>4, <1>5

LEMMA ScanTypes ==
  ASSUME HeapInv
  PROVE  /\ scan \in Scan /\ stack \in Seq(Scan) /\ ToSet(stack) \subseteq Scan
         /\ ephemerons \in Seq(Address) /\ unknowns \in Seq(Address) /\ weakContainers \in Seq(Address)
         /\ rememberedSet \in Seq(Address) /\ i \in Nat \ {0}
         /\ Advanced.objects = scan.objects /\ Advanced.index = scan.index + 1
         /\ Advanced.limit = scan.limit
         /\ scan.index \in Int /\ scan.limit \in Int
<1>1. scan \in Scan /\ stack \in Seq(Scan)
  BY DEF HeapInv, Inv, CollectorTypeOK, LocalsTypeOK
<1>2. ToSet(stack) \subseteq Scan
  BY <1>1, SetOf
<1>3. /\ ephemerons \in Seq(Address) /\ unknowns \in Seq(Address) /\ weakContainers \in Seq(Address)
      /\ rememberedSet \in Seq(Address) /\ i \in Nat \ {0}
  BY DEF HeapInv, Inv, CollectorTypeOK, LocalsTypeOK, HostTypeOK, ControlTypeOK
<1>4. QED
  BY <1>1, <1>2, <1>3 DEF Advanced, Scan

(* What the stack holds when a scan is suspended. *)
LEMMA Suspended ==
  ASSUME HeapInv, ScanCopy
  PROVE  /\ ToSet(stack) \subseteq ToSet(stack')
         /\ ToSet(stack') \subseteq ToSet(stack) \cup {Advanced}
         /\ Advanced.index < Advanced.limit => Advanced \in ToSet(stack')
<1>1. Advanced \in Scan
  BY ScannedTyped DEF ScanCopy, HeapInv
<1>2. stack' = Append(stack, Advanced) => ToSet(stack') = ToSet(stack) \cup {Advanced}
  BY <1>1, ScanTypes, Appended
<1>3. QED
  BY <1>2 DEF ScanCopy

LEMMA TraversalScans ==
  ASSUME HeapInv, FollowCountStartingAt
  PROVE  ScansStay'
<1>1. Staying \subseteq Staying'
  BY StayingStays DEF Next, Collector, FollowCountStartingAt, FlipSpaces, SwapSpaces,
     ScanOutside, ScanProxy, ScanCopy, ScanPop, Scanning, At, Traversing, controlVars, GoTo
<1>2. Traversing /\ pc \in TraversalLabels /\ pc' = pc
  BY DEF FollowCountStartingAt, ScanOutside, ScanProxy, ScanCopy, ScanPop, Scanning, controlVars,
         Traversing, HeapInv, ScansStay
<1>3. \A s \in {scan} \cup ToSet(stack) : s.index < s.limit => s.objects \in Staying
  BY DEF HeapInv, ScansStay
<1>4. CASE ScanOutside \/ ScanProxy
  <2>1. scan' = Advanced /\ stack' = stack /\ scan.objects \in Staying
    BY <1>4, ScanningFacts DEF ScanOutside, ScanProxy
  <2>2. \A s \in {scan'} \cup ToSet(stack') : s.index < s.limit => s.objects \in Staying
    BY <1>3, <2>1, ScanTypes
  <2>3. QED
    BY <1>1, <1>2, <2>2 DEF ScansStay
<1>5. CASE ScanCopy
  <2>1. scan'.objects = Destination(Scanned) /\ scan.objects \in Staying
    BY <1>5, ScanningFacts DEF ScanCopy, ScanFrom
  <2>2. Destination(Scanned) \in Staying'
    BY <1>5, ScanCopies, CopyingFacts
  <2>3. \A s \in {scan'} \cup ToSet(stack') : s.index < s.limit => s.objects \in Staying'
    BY <1>1, <1>3, <1>5, <2>1, <2>2, Suspended, ScanTypes
  <2>4. QED
    BY <1>2, <2>3 DEF ScansStay
<1>6. CASE ScanPop
  <2>1. {scan'} \cup ToSet(stack') \subseteq ToSet(stack)
    BY <1>6, ScanTypes, LastTaken DEF ScanPop
  <2>2. QED
    BY <1>1, <1>2, <1>3, <2>1 DEF ScansStay
<1>7. QED
  BY <1>4, <1>5, <1>6 DEF FollowCountStartingAt

(* Nothing is ahead of a traversal that ended. *)
LEMMA ScansEnded ==
  ASSUME HeapInv, ~Traversing
  PROVE  \A s \in {scan} \cup ToSet(stack) : ~(s.index < s.limit)
BY SetOfEmpty DEF Traversing

LEMMA ScanStarted ==
  ASSUME HeapInv, ~Traversing, stack' = stack, NEW a \in Staying', NEW start, NEW size,
         ScanFrom(a, start, size), pc' \in TraversalLabels
  PROVE  ScansStay'
<1>1. scan'.objects = a
  BY DEF ScanFrom
<1>2. QED
  BY <1>1, ScansEnded DEF ScansStay

LEMMA StartFacts ==
  ASSUME HeapInv
  PROVE  /\ FollowRemembered => /\ pc = "followRememberedSet" /\ pc' = pc /\ ~Traversing /\ stack' = stack
                                /\ rememberedSet[i] \in OldObjects /\ i \in 1 .. Len(rememberedSet)
                                /\ rememberedSet[i] \in Staying
         /\ FollowEphemeron => /\ pc = "collectUnknowns" /\ pc' = pc /\ ~Traversing /\ stack' = stack
                               /\ Last(ephemerons) \in Copies /\ header[Last(ephemerons)].isEphemeron
         /\ RescueEphemeron => /\ pc = "rescueEphemeron" /\ pc' = "addRescued" /\ ~Traversing
                               /\ stack' = stack /\ i \in 1 .. Len(unknowns)
                               /\ unknowns[i] \in Copies /\ header[unknowns[i]].isEphemeron
<1>1. ASSUME FollowRemembered
      PROVE  /\ pc = "followRememberedSet" /\ pc' = pc /\ ~Traversing /\ stack' = stack
             /\ rememberedSet[i] \in OldObjects /\ i \in 1 .. Len(rememberedSet)
  <2>1. i <= Len(rememberedSet) /\ i \in 1 .. Len(rememberedSet)
    BY <1>1, ScanTypes, SetOf DEF FollowRemembered
  <2>2. rememberedSet[i] \in OldObjects
    BY <2>1, ScanTypes, SetOf DEF HeapInv, RememberedInv, HoldsOldObjects
  <2>3. QED
    BY <1>1, <2>1, <2>2 DEF FollowRemembered, At
<1>2. ASSUME FollowEphemeron
      PROVE  /\ pc = "collectUnknowns" /\ pc' = pc /\ ~Traversing /\ stack' = stack
             /\ Last(ephemerons) \in Copies /\ header[Last(ephemerons)].isEphemeron
  <2>1. Last(ephemerons) \in ToSet(ephemerons)
    BY <1>2, ScanTypes, LastTaken DEF FollowEphemeron
  <2>2. QED
    BY <1>2, <2>1 DEF FollowEphemeron, At, RescueStep, HeapInv, FoundInCopies
<1>3. ASSUME RescueEphemeron
      PROVE  /\ pc = "rescueEphemeron" /\ pc' = "addRescued" /\ ~Traversing /\ stack' = stack
             /\ i \in 1 .. Len(unknowns)
             /\ unknowns[i] \in Copies /\ header[unknowns[i]].isEphemeron
  <2>1. i \in 1 .. Len(unknowns)
    BY <1>3, ScanTypes, SetOf DEF RescueEphemeron
  <2>2. unknowns[i] \in ToSet(unknowns)
    BY <2>1, ScanTypes, SetOf
  <2>3. QED
    BY <1>3, <2>1, <2>2 DEF RescueEphemeron, At, RescueStep, HeapInv, FoundInCopies
<1>4. QED
  BY <1>1, <1>2, <1>3, HeapFacts

LEMMA NextScans ==
  ASSUME HeapInv, [Next]_vars
  PROVE  ScansStay'
<1>1. ASSUME ~Traversing, UNCHANGED scanVars
      PROVE  ScansStay'
  <2>1. ~Traversing'
    BY <1>1 DEF scanVars, Traversing
  <2>2. \A s \in {scan'} \cup ToSet(stack') : ~(s.index < s.limit)
    BY <1>1, ScansEnded DEF scanVars
  <2>3. QED
    BY <2>1, <2>2 DEF ScansStay
<1>2. CASE StartScavenge \/ EndScavenge
  <2>1. stack' = << >> /\ ~(scan'.index < scan'.limit)
    BY <1>2 DEF StartScavenge, EndScavenge, At, Traversing, NoScan
  <2>2. ~Traversing' /\ ToSet(stack') = {}
    BY <2>1, SetOfEmpty DEF Traversing
  <2>3. QED
    BY <2>1, <2>2 DEF ScansStay
<1>3. CASE StartOfScan
  <2>1. Staying \subseteq Staying' /\ Copies \subseteq Staying
    BY <1>3, StayingStays, HeapFacts
       DEF StartOfScan, FlipSpaces, FollowRemembered, FollowStack, FollowEphemeron, RescueEphemeron, At
  <2>2. CASE FollowRemembered
    BY <2>1, <2>2, StartFacts, ScanStarted, HeapFacts DEF FollowRemembered, TraversalLabels
  <2>3. CASE FollowStack
    BY <2>1, <2>3, ScanStarted DEF FollowStack, Staying, At, GoTo, TraversalLabels
  <2>4. CASE FollowEphemeron
    BY <2>1, <2>4, StartFacts, ScanStarted DEF FollowEphemeron, TraversalLabels
  <2>5. CASE RescueEphemeron
    BY <2>1, <2>5, StartFacts, ScanStarted DEF RescueEphemeron, TraversalLabels
  <2>6. QED
    BY <1>3, <2>2, <2>3, <2>4, <2>5 DEF StartOfScan
<1>4. CASE ~StartOfScan /\ ~FollowCountStartingAt /\ ~StartScavenge /\ ~EndScavenge
  <2>1. UNCHANGED scanVars /\ (UNCHANGED pc \/ ~Traversing)
    BY <1>4, NotTraversing
  <2>2. CASE ~Traversing
    BY <1>1, <2>1, <2>2
  <2>3. CASE Traversing
    <3>1. BeforeFlip /\ pc' = pc /\ pc # "flipSpaces"
      BY <2>1, <2>3 DEF HeapInv, ScansStay, BeforeFlip, TraversalLabels
    <3>2. Staying \subseteq Staying'
      BY <3>1, StayingStays DEF FlipSpaces, At
    <3>3. QED
      BY <2>1, <3>1, <3>2 DEF scanVars, HeapInv, ScansStay, Traversing
  <2>4. QED
    BY <2>2, <2>3
<1>5. QED
  BY <1>2, <1>3, <1>4, TraversalScans


-----------------------------------------------------------------------------
(* FoundInCopies. *)
ListsEnd ==
  /\ pc \notin FindingLabels => ephemerons = << >>
  /\ pc \notin {"collectUnknowns", "rescueEphemeron", "addRescued"} => unknowns = << >>
  /\ pc \notin FixingLabels => weakContainers = << >>

LEMMA ListsKept ==
  ASSUME HeapInv, UNCHANGED localVars,
         \/ pc' = pc
         \/ StartScavenge \/ LiteralsReferencesPurged \/ RememberedSetPurged
         \/ ClearGlobalLookupCache \/ ClassCheckReferencesMoved \/ CheckNativizedMethods
         \/ NativizedMethodsMoved \/ LiteralsReferencesMoved
         \/ RememberedSetFollowed \/ FollowStack \/ LookForEphemerons \/ RescueUnknowns
         \/ RescueEphemeron \/ AddRescued \/ EphemeronsDecided \/ MakeRescuedEphemeronsNonWeak
         \/ FlipSpaces \/ FixReferencesFromNativeMethods \/ EndScavenge
  PROVE  ListsEnd'
<1> USE DEF FixingLabels, FindingLabels, TraversalLabels
<1>1. ListsEnd
  BY DEF HeapInv, FoundInCopies, ListsEnd
<1>2. CASE pc' = pc
  BY <1>1, <1>2 DEF localVars, ListsEnd
<1>3. CASE \/ StartScavenge \/ LiteralsReferencesPurged \/ RememberedSetPurged
           \/ ClearGlobalLookupCache \/ ClassCheckReferencesMoved \/ CheckNativizedMethods
           \/ NativizedMethodsMoved \/ LiteralsReferencesMoved
           \/ RememberedSetFollowed \/ FollowStack
  <2>1. /\ pc \notin {"collectUnknowns", "rescueEphemeron", "addRescued"}
        /\ pc' \notin {"collectUnknowns", "rescueEphemeron", "addRescued"}
        /\ pc \in FindingLabels => pc' \in FindingLabels
    BY <1>3 DEF StartScavenge, LiteralsReferencesPurged, RememberedSetPurged, ClearGlobalLookupCache,
        ClassCheckReferencesMoved, CheckNativizedMethods, NativizedMethodsMoved,
        LiteralsReferencesMoved, RememberedSetFollowed, FollowStack, Proceed, At, GoTo
  <2>2. pc \in FixingLabels => pc' \in FixingLabels
    BY <1>3 DEF StartScavenge, LiteralsReferencesPurged, RememberedSetPurged, ClearGlobalLookupCache,
        ClassCheckReferencesMoved, CheckNativizedMethods, NativizedMethodsMoved,
        LiteralsReferencesMoved, RememberedSetFollowed, FollowStack, Proceed, At, GoTo
  <2>3. QED
    BY <1>1, <2>1, <2>2 DEF localVars, ListsEnd
<1>4. CASE \/ LookForEphemerons \/ RescueUnknowns \/ RescueEphemeron \/ AddRescued
  BY <1>1, <1>4 DEF LookForEphemerons, RescueUnknowns, RescueEphemeron, AddRescued, At, GoTo,
                    localVars, ListsEnd
<1>5. CASE EphemeronsDecided \/ MakeRescuedEphemeronsNonWeak
  BY <1>1, <1>5 DEF EphemeronsDecided, MakeRescuedEphemeronsNonWeak, At, GoTo, localVars, ListsEnd
<1>6. CASE FlipSpaces \/ FixReferencesFromNativeMethods \/ EndScavenge
  BY <1>1, <1>6 DEF FlipSpaces, FixReferencesFromNativeMethods, EndScavenge, At, GoTo, localVars,
                    ListsEnd
<1>7. QED
  BY <1>2, <1>3, <1>4, <1>5, <1>6

LEMMA FoundStay ==
  ASSUME HeapInv, [Next]_vars, ~FlipSpaces, ListsEnd',
         \A e \in ToSet(ephemerons') \cup ToSet(unknowns') :
           \/ e \in ToSet(ephemerons) \cup ToSet(unknowns)
           \/ e \in Copies' /\ header'[e].isEphemeron,
         ToSet(weakContainers') \subseteq ToSet(weakContainers) \cup Copies'
  PROVE  FoundInCopies'
<1>1. Copies \subseteq Copies' /\ \A a \in Copies : header'[a].isEphemeron = header[a].isEphemeron
  BY StayingStays, HeapFacts
<1>2. ToSet(weakContainers) \subseteq Copies
  BY DEF HeapInv, FoundInCopies
<1>3. \A e \in ToSet(ephemerons) \cup ToSet(unknowns) : e \in Copies /\ header[e].isEphemeron
  BY DEF HeapInv, FoundInCopies
<1>4. \A e \in ToSet(ephemerons') \cup ToSet(unknowns') : e \in Copies' /\ header'[e].isEphemeron
  BY <1>1, <1>3
<1>5. QED
  BY <1>1, <1>2, <1>4 DEF ListsEnd, FoundInCopies

(* Weak objects are entered in the list of their kind. *)
LEMMA WeakTold ==
  ASSUME HeapInv, NEW original, NEW object \in Address, RememberIfWeak(original, object)
  PROVE  /\ unknowns' = unknowns
         /\ ToSet(ephemerons') = ToSet(ephemerons)
                                   \cup (IF header[original].hasWeaks /\ header[original].isEphemeron
                                         THEN {object} ELSE {})
         /\ ToSet(weakContainers') = ToSet(weakContainers)
                                   \cup (IF header[original].hasWeaks /\ ~header[original].isEphemeron
                                         THEN {object} ELSE {})
<1>1. /\ ToSet(Append(ephemerons, object)) = ToSet(ephemerons) \cup {object}
      /\ ToSet(Append(weakContainers, object)) = ToSet(weakContainers) \cup {object}
  BY ScanTypes, Appended
<1>2. /\ (KindOf(original) = "ephemeron") <=> (header[original].hasWeaks /\ header[original].isEphemeron)
      /\ (KindOf(original) = "weak") <=> (header[original].hasWeaks /\ ~header[original].isEphemeron)
  BY DEF KindOf
<1>3. QED
  BY <1>1, <1>2 DEF RememberIfWeak

LEMMA ScanCopyFound ==
  ASSUME HeapInv, ScanCopy
  PROVE  FoundInCopies'
<1> DEFINE object == Scanned
           copy == Destination(object)
<1>1. RememberIfWeak(object, copy) /\ Scanning
  BY DEF ScanCopy
<1>2. pc \in TraversalLabels /\ pc' = pc
  BY <1>1, ScanningFacts
<1>3. Copying(object, copy) /\ copy \in Address /\ copy \in Copies'
      /\ header'[copy].isEphemeron = header[object].isEphemeron
  BY ScanCopies, CopyingFacts DEF Copying, Relocates
<1>4. ListsEnd'
  BY <1>1, <1>2 DEF RememberIfWeak, ListsEnd, HeapInv, FoundInCopies, FixingLabels, FindingLabels
<1>5. [Next]_vars /\ ~FlipSpaces
  BY <1>2 DEF Next, Collector, FollowCountStartingAt, FlipSpaces, At, TraversalLabels
<1> HIDE DEF object, copy
<1>6. QED
  BY <1>1, <1>3, <1>4, <1>5, WeakTold, FoundStay

LEMMA FollowRememberedFound ==
  ASSUME HeapInv, FollowRemembered
  PROVE  FoundInCopies'
<1> DEFINE object == rememberedSet[i]
<1>1. RememberIfWeak(object, object) /\ header' = header /\ UNCHANGED spaceVars
  BY DEF FollowRemembered, heapVars
<1>2. object \in OldObjects /\ pc = "followRememberedSet" /\ pc' = pc
  BY StartFacts
<1>3. header[object].hasWeaks => object \in Copies
  BY <1>2 DEF OldObjects, Copies, HeapInv, ProxiesLead
<1>4. object \in Address /\ Copies' = Copies
  BY <1>1, <1>2, SpacesSame, HeapFacts
<1>5. ListsEnd'
  BY <1>1, <1>2 DEF RememberIfWeak, ListsEnd, HeapInv, FoundInCopies, FixingLabels, FindingLabels,
                    TraversalLabels
<1>6. [Next]_vars /\ ~FlipSpaces
  BY <1>2 DEF Next, Collector, FlipSpaces, At
<1> HIDE DEF object
<1>7. QED
  BY <1>1, <1>3, <1>4, <1>5, <1>6, WeakTold, FoundStay

LEMMA NextFound ==
  ASSUME HeapInv, [Next]_vars
  PROVE  FoundInCopies'
<1>1. ASSUME UNCHANGED localVars, ~FlipSpaces, ListsEnd'
      PROVE  FoundInCopies'
  BY <1>1, FoundStay DEF localVars
<1>2. CASE Mutator
  <2>1. Operation
    BY <1>2 DEF Mutator, Allocate, Store, Load, Drop, Take, SetTemporary, EmbedLiteral,
                EmbedClassCheck, Nativize, FillLookupCache
  <2>2. UNCHANGED localVars /\ pc' = pc /\ ~FlipSpaces
    BY <2>1 DEF Operation, controlVars, FlipSpaces, At
  <2>3. QED
    BY <1>1, <2>2, ListsKept
<1>3. CASE StartScavenge
  <2>1. /\ ephemerons' = << >> /\ unknowns' = << >> /\ weakContainers' = << >>
        /\ ToSet(ephemerons') = {} /\ ToSet(unknowns') = {} /\ ToSet(weakContainers') = {}
    BY <1>3, SetOfEmpty DEF StartScavenge
  <2>2. QED
    BY <2>1 DEF FoundInCopies
<1>4. CASE PurgeLiteral \/ PurgeRemembered \/ MoveClassCheckReference \/ MoveNativizedMethod
           \/ MoveLiteralReference \/ ScanOutside \/ ScanProxy \/ ScanPop \/ CleanRemembered
           \/ UNCHANGED vars
  <2>1. UNCHANGED localVars /\ pc' = pc
    BY <1>4 DEF PurgeLiteral, PurgeRemembered, MoveClassCheckReference, MoveNativizedMethod,
         MoveLiteralReference, Iterate, ScanOutside, ScanProxy, ScanPop, Scanning, controlVars,
         CleanRemembered, vars
  <2>2. ~FlipSpaces
    BY <2>1 DEF FlipSpaces, At, GoTo
  <2>3. QED
    BY <1>1, <2>1, <2>2, ListsKept
<1>5. CASE \/ LiteralsReferencesPurged \/ RememberedSetPurged
           \/ ClearGlobalLookupCache \/ ClassCheckReferencesMoved \/ CheckNativizedMethods
           \/ NativizedMethodsMoved \/ LiteralsReferencesMoved
           \/ RememberedSetFollowed \/ FollowStack
  <2>1. UNCHANGED localVars /\ ~FlipSpaces
    BY <1>5 DEF LiteralsReferencesPurged, RememberedSetPurged, ClearGlobalLookupCache,
        ClassCheckReferencesMoved, CheckNativizedMethods, NativizedMethodsMoved,
        LiteralsReferencesMoved, RememberedSetFollowed, FollowStack, Proceed, At, GoTo, FlipSpaces
  <2>2. QED
    BY <1>1, <1>5, <2>1, ListsKept
<1>6. CASE LookForEphemerons \/ RescueUnknowns \/ RescueEphemeron \/ AddRescued \/ EphemeronsDecided
           \/ MakeRescuedEphemeronsNonWeak \/ FixReferencesFromNativeMethods \/ EndScavenge
  <2>1. UNCHANGED localVars /\ ~FlipSpaces
    BY <1>6 DEF LookForEphemerons, RescueUnknowns, RescueEphemeron, AddRescued, EphemeronsDecided,
         MakeRescuedEphemeronsNonWeak, FixReferencesFromNativeMethods, EndScavenge, RescueStep,
         localVars, At, GoTo, FlipSpaces
  <2>2. QED
    BY <1>1, <1>6, <2>1, ListsKept
<1>7. CASE FlipSpaces
  <2>1. UNCHANGED localVars /\ pc = "flipSpaces"
    BY <1>7 DEF FlipSpaces, At
  <2>2. /\ ephemerons' = << >> /\ unknowns' = << >> /\ weakContainers' = << >>
        /\ ToSet(ephemerons') = {} /\ ToSet(unknowns') = {} /\ ToSet(weakContainers') = {}
    BY <2>1, SetOfEmpty
       DEF localVars, HeapInv, FoundInCopies, FixingLabels, FindingLabels, TraversalLabels
  <2>3. QED
    BY <2>2 DEF FoundInCopies
<1>8. CASE FollowEphemeron \/ CollectUnknown
  <2>1. /\ ephemerons # << >> /\ ephemerons' = Front(ephemerons)
        /\ unknowns' \in {unknowns, Append(unknowns, Last(ephemerons))}
        /\ weakContainers' = weakContainers /\ pc = "collectUnknowns" /\ pc' = pc /\ ~FlipSpaces
    BY <1>8 DEF FollowEphemeron, CollectUnknown, RescueStep, At, FlipSpaces
  <2>2. /\ Last(ephemerons) \in ToSet(ephemerons) /\ ToSet(Front(ephemerons)) \subseteq ToSet(ephemerons)
        /\ Last(ephemerons) \in Address
    BY <2>1, ScanTypes, LastTaken, LastAndFront
  <2>3. ToSet(unknowns') \subseteq ToSet(unknowns) \cup {Last(ephemerons)}
    <3>1. ToSet(Append(unknowns, Last(ephemerons))) = ToSet(unknowns) \cup {Last(ephemerons)}
      BY <2>2, ScanTypes, Appended
    <3>2. QED
      BY <2>1, <3>1
  <2>4. ListsEnd'
    BY <2>1 DEF ListsEnd, FixingLabels, FindingLabels, TraversalLabels
  <2>5. QED
    BY <2>1, <2>2, <2>3, <2>4, FoundStay
<1>9. CASE Rescan \/ UnknownsRescued
  <2>1. /\ ephemerons' \in {ephemerons, unknowns} /\ unknowns' = << >> /\ ToSet(unknowns') = {}
        /\ weakContainers' = weakContainers /\ pc' = "rescueEphemerons" /\ ~FlipSpaces
    BY <1>9, SetOfEmpty DEF Rescan, UnknownsRescued, RescueStep, At, GoTo, FlipSpaces
  <2>2. ListsEnd'
    BY <2>1 DEF ListsEnd, FixingLabels, FindingLabels, TraversalLabels
  <2>3. QED
    BY <2>1, <2>2, FoundStay
<1>10. CASE FixWeakContainers
  <2>1. /\ ephemerons' = ephemerons /\ unknowns' = unknowns /\ weakContainers' = << >>
        /\ pc = "fixWeakContainers" /\ pc' = "flipSpaces" /\ ToSet(weakContainers') = {} /\ ~FlipSpaces
    BY <1>10, SetOfEmpty DEF FixWeakContainers, At, GoTo, FlipSpaces
  <2>2. ListsEnd'
    BY <2>1 DEF ListsEnd, FixingLabels, FindingLabels, TraversalLabels, HeapInv, FoundInCopies
  <2>3. QED
    BY <2>1, <2>2, FoundStay
<1>11. QED
  BY <1>2, <1>3, <1>4, <1>5, <1>6, <1>7, <1>8, <1>9, <1>10, ScanCopyFound, FollowRememberedFound
     DEF Next, Collector, FollowCodeCacheReferences, RescueEphemerons, FollowCountStartingAt


-----------------------------------------------------------------------------
(* NothingForgotten. *)
LEMMA Transferred ==
  ASSUME HeapInv, BeforeFlip, fromSpace' = fromSpace,
         \A a \in Staying' : \A k \in SlotIndex(a) : ArenaIncludes(slots'[a][k]) =>
           \/ Pending(a, k)'
           \/ a \in Staying /\ slots'[a][k] = slots[a][k] /\ (Pending(a, k) => Pending(a, k)')
  PROVE  NothingForgotten'
<1>1. ASSUME NEW a \in Staying', NEW k \in SlotIndex(a), ArenaIncludes(slots'[a][k])
      PROVE  Pending(a, k)'
  <2>1. CASE a \in Staying /\ slots'[a][k] = slots[a][k] /\ (Pending(a, k) => Pending(a, k)')
    <3>1. Pending(a, k)
      BY <1>1, <2>1 DEF HeapInv, NothingForgotten
    <3>2. QED
      BY <2>1, <3>1
  <2>2. QED
    BY <1>1, <2>1
<1>2. \A v : ArenaIncludes(v)' <=> ArenaIncludes(v)
  BY DEF ArenaIncludes, Includes
<1>3. QED
  BY <1>1, <1>2 DEF NothingForgotten, ArenaIncludes, Includes

LEMMA QuietTransferred ==
  ASSUME HeapInv, BeforeFlip, HeapQuiet,
         \A a \in Staying : \A k \in SlotIndex(a) :
           ArenaIncludes(slots[a][k]) /\ Pending(a, k) => Pending(a, k)'
  PROVE  NothingForgotten'
<1>1. \A a \in Staying : slots'[a] = slots[a]
  BY QuietFacts, HeapFacts
<1>2. Staying' = Staying /\ fromSpace' = fromSpace
  BY QuietFacts
<1>3. QED
  BY <1>1, <1>2, Transferred

LEMMA WeakKept ==
  ASSUME NEW a, NEW k, WeakAhead(a, k), header'[a].hasWeaks,
         header'[a].isEphemeron = header[a].isEphemeron,
         a \in ToSet(ephemerons) \cup UnknownsAhead => a \in ToSet(ephemerons') \cup UnknownsAhead',
         a \in ToSet(weakContainers) => a \in ToSet(weakContainers')
  PROVE  WeakAhead(a, k)'
BY DEF WeakAhead

(* Before the remembered set is followed all hope is on it and the stack. *)
LEMMA RootsPending ==
  ASSUME HeapInv, pc \in RootsBefore, NEW a \in Staying, NEW k \in SlotIndex(a),
         ArenaIncludes(slots[a][k])
  PROVE  a \in ToSet(rememberedSet) \cup {Stack}
<1> USE DEF RootsBefore, FixingLabels, FindingLabels, TraversalLabels
<1>1. BeforeFlip /\ ~Traversing
  BY DEF BeforeFlip, HeapInv, ScansStay
<1>2. ephemerons = << >> /\ unknowns = << >> /\ weakContainers = << >>
  BY DEF HeapInv, FoundInCopies
<1>3. ToSet(ephemerons) = {} /\ ToSet(weakContainers) = {} /\ UnknownsAhead = {}
  BY <1>2, SetOfEmpty DEF UnknownsAhead, FirstUnknown
<1>4. ~WeakAhead(a, k)
  BY <1>3 DEF WeakAhead
<1>5. ~ScanAhead(a, k)
  BY <1>1, NoneAhead DEF SlotIndex
<1>6. Pending(a, k)
  BY <1>1 DEF HeapInv, NothingForgotten
<1>7. QED
  BY <1>4, <1>5, <1>6 DEF Pending, ToBeFollowed

LEMMA StillRoots ==
  ASSUME NEW a \in ToSet(rememberedSet') \cup {Stack}, NEW k, pc' \in RootsBefore
  PROVE  Pending(a, k)'
BY DEF Pending, ToBeFollowed

LEMMA StartPending ==
  ASSUME HeapInv, StartScavenge
  PROVE  NothingForgotten'
<1>1. pc = "mutator" /\ pc' \in RootsBefore /\ rememberedSet' = rememberedSet /\ HeapQuiet
  BY DEF StartScavenge, At, GoTo, RootsBefore, heapVars, HeapQuiet
<1>2. ObjectsIn(toSpace) = {} /\ Staying = OldObjects \cup {Stack}
  BY <1>1, AtMutator DEF Staying, Copies, OldObjects
<1>3. ASSUME NEW a \in Staying, NEW k \in SlotIndex(a), ArenaIncludes(slots[a][k])
      PROVE  Pending(a, k)'
  <2>1. IsNew(slots[a][k])
    BY <1>3, ReadValid, ArenaObject, HeapFacts
  <2>2. a \in ToSet(rememberedSet) \cup {Stack}
    BY <1>1, <1>2, <2>1 DEF HeapInv, ReferersKnown, QueueToBeHeld
  <2>3. QED
    BY <1>1, <2>2, StillRoots
<1>4. \A a \in Staying : slots'[a] = slots[a]
  BY <1>1, QuietFacts, HeapFacts
<1>5. Staying' = Staying /\ fromSpace' = fromSpace
  BY <1>1, QuietFacts
<1>6. QED
  BY <1>3, <1>4, <1>5 DEF NothingForgotten, ArenaIncludes, Includes

LEMMA BeginningPending ==
  ASSUME HeapInv,
         \/ PurgeLiteral \/ LiteralsReferencesPurged \/ RememberedSetPurged
         \/ ClearGlobalLookupCache \/ ClassCheckReferencesMoved \/ CheckNativizedMethods
         \/ NativizedMethodsMoved
  PROVE  NothingForgotten'
<1>1. HeapQuiet
  BY BeginningQuiet DEF QuietStep
<1>2. pc \in RootsBefore /\ pc' \in RootsBefore /\ rememberedSet' = rememberedSet
  BY DEF RootsBefore, PurgeLiteral, LiteralsReferencesPurged, RememberedSetPurged,
     ClearGlobalLookupCache, ClassCheckReferencesMoved, CheckNativizedMethods, NativizedMethodsMoved,
     Proceed, At, GoTo
<1>3. BeforeFlip
  BY <1>2 DEF BeforeFlip, RootsBefore
<1>4. \A a \in Staying : \A k \in SlotIndex(a) : ArenaIncludes(slots[a][k]) => Pending(a, k)'
  BY <1>2, RootsPending, StillRoots
<1>5. QED
  BY <1>1, <1>3, <1>4, QuietTransferred

LEMMA PurgePending ==
  ASSUME HeapInv, PurgeRemembered
  PROVE  NothingForgotten'
<1> DEFINE object == rememberedSet[i]
<1>1. /\ pc = "purgeRememberedSet" /\ pc' = pc /\ UNCHANGED <<slots, spaceVars>>
      /\ IF HasToPurge(object) THEN rememberedSet' = RemoveAt(rememberedSet, i)
                               ELSE rememberedSet' = rememberedSet
      /\ i <= Len(rememberedSet)
  BY DEF PurgeRemembered, At
<1>2. pc \in RootsBefore /\ pc' \in RootsBefore /\ BeforeFlip
  BY <1>1 DEF RootsBefore, BeforeFlip
<1>3. i \in 1 .. Len(rememberedSet)
  BY <1>1, ScanTypes, SetOf
<1>4. object \in OldObjects
  BY <1>3, ScanTypes, SetOf DEF HeapInv, RememberedInv, HoldsOldObjects
<1>5. ~ArenaIncludes(object)
  BY <1>4, HeapFacts
<1>6. HasToPurge(object) => \A k \in SlotIndex(object) : ~ArenaIncludes(slots[object][k])
  BY <1>5 DEF HasToPurge, IsReferredBy, ArenaIncludes
<1>7. ToSet(rememberedSet) \subseteq ToSet(RemoveAt(rememberedSet, i)) \cup {object}
  BY <1>3, ScanTypes, SetWithout
<1>8. ASSUME NEW a \in Staying, NEW k \in SlotIndex(a), ArenaIncludes(slots[a][k])
      PROVE  Pending(a, k)'
  <2>1. a \in ToSet(rememberedSet) \cup {Stack}
    BY <1>2, <1>8, RootsPending
  <2>2. a \in ToSet(rememberedSet') \cup {Stack}
    BY <1>1, <1>6, <1>7, <1>8, <2>1
  <2>3. QED
    BY <1>2, <2>2, StillRoots
<1>9. QED
  BY <1>1, <1>2, <1>8, SpacesSame, Transferred

(* An object the code refers to enters the remembered set when it is moved. *)
LEMMA TenurePending ==
  ASSUME HeapInv, NEW object, Valid(object), Tenure(object), pc \in RootsBefore, pc' = pc,
         \A a \in Address \ {CodeCache} : slots'[a] = SlotsWithTenured(object)[a]
  PROVE  NothingForgotten'
<1> DEFINE copy == oldSpace.nextFree
<1>1. BeforeFlip
  BY DEF BeforeFlip, RootsBefore
<1>2. CASE ToBeMoved(object)
  <2>1. /\ Copying(object, copy) /\ MoveToOldSpace(object)
        /\ \A a \in Address \ {copy, CodeCache} : slots'[a] = slots[a]
    BY <1>2, TenureCopies
  <2>2. /\ copy \in Address /\ Staying' = Staying \cup {copy} /\ fromSpace' = fromSpace
        /\ copy \notin Staying
    BY <2>1, CopyingFacts
  <2>3. rememberedSet' = Append(rememberedSet, copy)
    BY <2>1 DEF MoveToOldSpace
  <2>4. ToSet(rememberedSet') = ToSet(rememberedSet) \cup {copy}
    BY <2>2, <2>3, ScanTypes, Appended
  <2>5. \A a \in Staying : slots'[a] = slots[a]
    BY <2>1, <2>2, HeapFacts
  <2> HIDE DEF copy
  <2>6. ASSUME NEW a \in Staying', NEW k \in SlotIndex(a), ArenaIncludes(slots'[a][k])
        PROVE  Pending(a, k)'
    <3>1. a \in ToSet(rememberedSet') \cup {Stack}
      BY <2>2, <2>4, <2>5, <2>6, RootsPending
    <3>2. QED
      BY <3>1, StillRoots
  <2>7. QED
    BY <1>1, <2>2, <2>6, Transferred
<1>3. CASE ~ToBeMoved(object)
  <2>1. HeapQuiet /\ rememberedSet' = rememberedSet
    BY <1>3, TenureCopies DEF HeapQuiet
  <2>2. \A a \in Staying : \A k \in SlotIndex(a) : ArenaIncludes(slots[a][k]) => Pending(a, k)'
    BY <2>1, RootsPending, StillRoots
  <2>3. QED
    BY <1>1, <2>1, <2>2, QuietTransferred
<1>4. QED
  BY <1>2, <1>3

LEMMA CodePending ==
  ASSUME HeapInv, MoveClassCheckReference \/ MoveNativizedMethod \/ MoveLiteralReference
  PROVE  NothingForgotten'
<1>1. pc \in RootsBefore /\ pc' = pc
  BY DEF MoveClassCheckReference, MoveNativizedMethod, MoveLiteralReference, At, Iterate, RootsBefore
<1>2. QED
  BY <1>1, TenurePending, ClassCheckFacts, NativizedFacts, LiteralFacts

LEMMA LiteralsMovedPending ==
  ASSUME HeapInv, LiteralsReferencesMoved
  PROVE  NothingForgotten'
<1>1. HeapQuiet
  BY BeginningQuiet DEF QuietStep
<1>2. /\ pc \in RootsBefore /\ pc' = "followRememberedSet" /\ i' = 1 /\ rememberedSet' = rememberedSet
      /\ BeforeFlip
  BY DEF LiteralsReferencesMoved, Proceed, At, GoTo, RootsBefore, BeforeFlip
<1>3. ASSUME NEW a \in ToSet(rememberedSet) \cup {Stack}, NEW k
      PROVE  Pending(a, k)'
  <2>1. a = Stack \/ \E j \in 1 .. Len(rememberedSet) : rememberedSet[j] = a
    BY ScanTypes, SetOf
  <2>2. QED
    BY <1>2, <2>1 DEF Pending, ToBeFollowed
<1>4. QED
  BY <1>1, <1>2, <1>3, RootsPending, QuietTransferred


(* A slot ahead of the scan that starts. *)
LEMMA AheadOfStart ==
  ASSUME NEW a, NEW start, NEW size, ScanFrom(a, start, size), NEW k \in Int,
         start - 1 <= k, k < start - 1 + size
  PROVE  Pending(a, k)'
<1>1. scan'.objects = a /\ scan'.index <= k /\ k < scan'.limit
  BY DEF ScanFrom
<1>2. QED
  BY <1>1 DEF Pending, ScanAhead

LEMMA FollowRememberedPending ==
  ASSUME HeapInv, FollowRemembered
  PROVE  NothingForgotten'
<1> DEFINE object == rememberedSet[i]
<1>1. /\ pc = "followRememberedSet" /\ pc' = pc /\ ~Traversing /\ i \in 1 .. Len(rememberedSet)
      /\ object \in OldObjects /\ object \in Staying
  BY StartFacts
<1>2. HeapQuiet /\ BeforeFlip
  BY <1>1, TraversalQuiet DEF QuietStep, BeforeFlip
<1>3. /\ RememberIfWeak(object, object) /\ ScanFrom(object, 0, StrongPointersSize(object))
      /\ i' = i + 1 /\ rememberedSet' = rememberedSet /\ header' = header
  BY DEF FollowRemembered, heapVars
<1>4. /\ unknowns' = unknowns
      /\ ToSet(ephemerons') = ToSet(ephemerons)
                               \cup (IF header[object].hasWeaks /\ header[object].isEphemeron
                                     THEN {object} ELSE {})
      /\ ToSet(weakContainers') = ToSet(weakContainers)
                               \cup (IF header[object].hasWeaks /\ ~header[object].isEphemeron
                                     THEN {object} ELSE {})
  <2>1. object \in Address
    BY <1>1, HeapFacts
  <2> HIDE DEF object
  <2>2. QED
    BY <1>3, <2>1, WeakTold
<1>5. UnknownsAhead' = UnknownsAhead
  BY <1>1, <1>4 DEF UnknownsAhead, FirstUnknown
<1> HIDE DEF object
<1>6. ASSUME NEW a \in Staying, NEW k \in SlotIndex(a), Pending(a, k)
      PROVE  Pending(a, k)'
  <2>1. k \in Int /\ Size(a) \in Nat /\ k \in -1 .. Size(a) - 1
    BY HeapFacts, Sizes DEF SlotIndex
  <2>2. CASE a = object /\ (~header[a].hasWeaks \/ k = -1)
    <3>1. 0 - 1 <= k /\ k < 0 - 1 + StrongPointersSize(object)
      BY <2>1, <2>2 DEF StrongPointersSize
    <3>2. QED
      BY <1>3, <2>1, <2>2, <3>1, AheadOfStart
  <2>3. CASE a = object /\ header[a].hasWeaks /\ k # -1
    BY <1>3, <1>4, <2>3 DEF Pending, WeakAhead
  <2>4. CASE a # object
    <3>1. ~ScanAhead(a, k)
      BY <1>1, <2>1, NoneAhead
    <3>2. CASE ToBeFollowed(a)
      <4>1. a = Stack \/ \E j \in i .. Len(rememberedSet) : rememberedSet[j] = a
        BY <1>1, <3>2 DEF ToBeFollowed, RootsBefore
      <4>2. a = Stack \/ \E j \in i + 1 .. Len(rememberedSet) : rememberedSet[j] = a
        BY <1>1, <2>4, <4>1 DEF object
      <4>3. QED
        BY <1>1, <1>3, <4>2 DEF Pending, ToBeFollowed
    <3>3. CASE WeakAhead(a, k)
      BY <1>3, <1>4, <1>5, <3>3 DEF Pending, WeakAhead
    <3>4. QED
      BY <1>6, <3>1, <3>2, <3>3 DEF Pending
  <2>5. QED
    BY <2>2, <2>3, <2>4
<1>7. QED
  BY <1>2, <1>6, QuietTransferred

(* What can be pending between the traversals, from followStack on. *)
LEMMA PendingLater ==
  ASSUME HeapInv, ~Traversing, pc \notin RootsBefore, pc # "followRememberedSet",
         NEW a \in Staying, NEW k \in SlotIndex(a), Pending(a, k)
  PROVE  (pc = "followStack" /\ a = Stack) \/ WeakAhead(a, k)
<1>1. ~ScanAhead(a, k)
  BY NoneAhead DEF SlotIndex
<1>2. QED
  BY <1>1 DEF Pending, ToBeFollowed

LEMMA SetFollowedPending ==
  ASSUME HeapInv, RememberedSetFollowed
  PROVE  NothingForgotten'
<1>1. HeapQuiet
  BY TraversalQuiet DEF QuietStep
<1>2. /\ pc = "followRememberedSet" /\ pc' = "followStack" /\ i > Len(rememberedSet) /\ ~Traversing
      /\ UNCHANGED <<header, localVars>> /\ BeforeFlip
  BY DEF RememberedSetFollowed, Proceed, At, GoTo, BeforeFlip, heapVars
<1>3. UnknownsAhead' = UnknownsAhead
  BY <1>2 DEF UnknownsAhead, FirstUnknown, localVars
<1>4. Len(rememberedSet) \in Nat /\ i \in Nat
  BY ScanTypes, SetOf
<1>5. ASSUME NEW a \in Staying, NEW k \in SlotIndex(a), Pending(a, k)
      PROVE  Pending(a, k)'
  <2>1. ~ScanAhead(a, k)
    BY <1>2, NoneAhead DEF SlotIndex
  <2>2. CASE ToBeFollowed(a)
    <3>1. i .. Len(rememberedSet) = {}
      BY <1>2, <1>4
    <3>2. a = Stack
      BY <1>2, <2>2, <3>1 DEF ToBeFollowed, RootsBefore
    <3>3. QED
      BY <1>2, <3>2 DEF Pending, ToBeFollowed
  <2>3. CASE WeakAhead(a, k)
    BY <1>2, <1>3, <2>3 DEF Pending, WeakAhead, localVars
  <2>4. QED
    BY <1>5, <2>1, <2>2, <2>3 DEF Pending
<1>6. QED
  BY <1>1, <1>2, <1>5, QuietTransferred

LEMMA FollowStackPending ==
  ASSUME HeapInv, FollowStack
  PROVE  NothingForgotten'
<1>1. HeapQuiet
  BY TraversalQuiet DEF QuietStep
<1>2. /\ pc = "followStack" /\ pc' = "rescueEphemerons" /\ ~Traversing
      /\ UNCHANGED <<header, localVars>> /\ BeforeFlip /\ ScanFrom(Stack, 1, NumRoots)
  BY DEF FollowStack, At, GoTo, BeforeFlip, heapVars
<1>3. UnknownsAhead' = UnknownsAhead
  BY <1>2 DEF UnknownsAhead, FirstUnknown, localVars
<1>4. ASSUME NEW a \in Staying, NEW k \in SlotIndex(a), ArenaIncludes(slots[a][k]), Pending(a, k)
      PROVE  Pending(a, k)'
  <2>1. a = Stack \/ WeakAhead(a, k)
    BY <1>2, <1>4, PendingLater DEF RootsBefore
  <2>2. CASE a = Stack
    <3>1. k # -1
      BY <1>4, <2>2, HeapFacts, Places DEF HeapInv, SlotsValid, Special
    <3>2. k \in Int /\ 1 - 1 <= k /\ k < 1 - 1 + NumRoots
      BY <2>2, <3>1, Sizes, SizesAssumption DEF SlotIndex
    <3>3. QED
      BY <1>2, <2>2, <3>2, AheadOfStart
  <2>3. CASE WeakAhead(a, k)
    BY <1>2, <1>3, <2>3 DEF Pending, WeakAhead, localVars
  <2>4. QED
    BY <2>1, <2>2, <2>3
<1>5. QED
  BY <1>1, <1>2, <1>4, QuietTransferred

(* The steps of rescueEphemerons. *)
LEMMA RescuePending ==
  ASSUME HeapInv, HeapQuiet, ~Traversing,
         pc \in {"rescueEphemerons", "collectUnknowns", "rescueEphemeron"}, weakContainers' = weakContainers,
         \A a \in ToSet(ephemerons) \cup UnknownsAhead :
           \/ a \in ToSet(ephemerons') \cup UnknownsAhead'
           \/ ScanFrom(a, 1, Size(a))
  PROVE  NothingForgotten'
<1>1. BeforeFlip
  BY DEF BeforeFlip
<1>2. ASSUME NEW a \in Staying, NEW k \in SlotIndex(a), Pending(a, k)
      PROVE  Pending(a, k)'
  <2>1. WeakAhead(a, k)
    BY <1>2, PendingLater DEF RootsBefore
  <2>2. CASE header[a].isEphemeron /\ ScanFrom(a, 1, Size(a))
    <3>1. k \in Int /\ 1 - 1 <= k /\ k < 1 - 1 + Size(a)
      BY <2>1, HeapFacts, Sizes DEF WeakAhead, SlotIndex
    <3>2. QED
      BY <2>2, <3>1, AheadOfStart
  <2>3. CASE ~(header[a].isEphemeron /\ ScanFrom(a, 1, Size(a)))
    BY <2>1, <2>3, QuietFacts DEF WeakAhead, Pending
  <2>4. QED
    BY <2>2, <2>3
<1>3. QED
  BY <1>1, <1>2, QuietTransferred

LEMMA UnknownsSet ==
  ASSUME HeapInv
  PROVE  /\ FirstUnknown = 1 => UnknownsAhead = ToSet(unknowns)
         /\ pc \notin {"rescueEphemeron", "addRescued"} => FirstUnknown = 1
         /\ Len(unknowns) \in Nat
<1>1. ToSet(unknowns) = {unknowns[j] : j \in 1 .. Len(unknowns)} /\ Len(unknowns) \in Nat
  BY ScanTypes, SetOf
<1>2. QED
  BY <1>1 DEF UnknownsAhead, FirstUnknown

LEMMA RescueStepsPending ==
  ASSUME HeapInv,
         \/ LookForEphemerons \/ FollowEphemeron \/ CollectUnknown \/ Rescan
         \/ RescueUnknowns \/ RescueEphemeron \/ UnknownsRescued
  PROVE  NothingForgotten'
<1>1. /\ HeapQuiet /\ ~Traversing /\ weakContainers' = weakContainers
      /\ pc \in {"rescueEphemerons", "collectUnknowns", "rescueEphemeron"}
  <2>1. HeapQuiet
    BY RescueQuiet DEF QuietStep
  <2>2. QED
    BY <2>1 DEF LookForEphemerons, FollowEphemeron, CollectUnknown, Rescan, RescueUnknowns,
       RescueEphemeron, UnknownsRescued, RescueStep, At
<1>2. UnknownsAhead = IF pc = "rescueEphemeron" THEN {unknowns[j] : j \in i .. Len(unknowns)}
                                                ELSE ToSet(unknowns)
  BY <1>1, UnknownsSet DEF UnknownsAhead, FirstUnknown
<1>3. Len(unknowns) \in Nat /\ i \in Nat
  BY UnknownsSet, ScanTypes
<1> SUFFICES \A a \in ToSet(ephemerons) \cup UnknownsAhead :
               a \in ToSet(ephemerons') \cup UnknownsAhead' \/ ScanFrom(a, 1, Size(a))
  BY <1>1, RescuePending
<1>4. CASE LookForEphemerons
  BY <1>4 DEF LookForEphemerons, At, GoTo, UnknownsAhead, FirstUnknown
<1>5. CASE FollowEphemeron
  <2>1. /\ ToSet(ephemerons) = ToSet(Front(ephemerons)) \cup {Last(ephemerons)}
        /\ ephemerons' = Front(ephemerons) /\ ScanFrom(Last(ephemerons), 1, Size(Last(ephemerons)))
        /\ unknowns' = unknowns /\ pc = "collectUnknowns" /\ pc' = pc
    BY <1>5, ScanTypes, LastTaken DEF FollowEphemeron, At
  <2>2. UnknownsAhead' = UnknownsAhead
    BY <2>1 DEF UnknownsAhead, FirstUnknown
  <2>3. QED
    BY <2>1, <2>2
<1>6. CASE CollectUnknown
  <2> DEFINE e == Last(ephemerons)
  <2>1. /\ ToSet(ephemerons) = ToSet(Front(ephemerons)) \cup {e} /\ e \in Address
        /\ ephemerons' = Front(ephemerons)
        /\ unknowns' = Append(unknowns, e) /\ pc = "collectUnknowns" /\ pc' = pc
    BY <1>6, ScanTypes, LastTaken, LastAndFront DEF CollectUnknown, At
  <2> HIDE DEF e
  <2>2. /\ ToSet(Append(unknowns, e)) = ToSet(unknowns) \cup {e} /\ Append(unknowns, e) \in Seq(Address)
    BY <2>1, ScanTypes, Appended
  <2>3. ToSet(Append(unknowns, e)) = {Append(unknowns, e)[j] : j \in 1 .. Len(Append(unknowns, e))}
    BY <2>2, SetOf
  <2>4. UnknownsAhead' = ToSet(unknowns) \cup {e}
    BY <2>1, <2>2, <2>3 DEF UnknownsAhead, FirstUnknown
  <2>5. QED
    BY <1>2, <2>1, <2>4
<1>7. CASE Rescan
  BY <1>2, <1>7, SetOfEmpty DEF Rescan, At
<1>8. CASE RescueUnknowns
  <2>1. unknowns' = unknowns /\ ephemerons' = ephemerons /\ pc' = "rescueEphemeron" /\ i' = 1
    BY <1>8 DEF RescueUnknowns, GoTo
  <2>2. ToSet(unknowns) = {unknowns[j] : j \in 1 .. Len(unknowns)}
    BY ScanTypes, SetOf
  <2>3. UnknownsAhead' = ToSet(unknowns)
    BY <2>1, <2>2 DEF UnknownsAhead, FirstUnknown
  <2>4. pc # "rescueEphemeron"
    BY <1>8 DEF RescueUnknowns, At
  <2>5. QED
    BY <1>2, <2>1, <2>3, <2>4
<1>9. CASE RescueEphemeron
  <2>1. /\ unknowns' = unknowns /\ ephemerons' = ephemerons /\ pc = "rescueEphemeron"
        /\ pc' = "addRescued" /\ i' = i /\ ScanFrom(unknowns[i], 1, Size(unknowns[i]))
    BY <1>9 DEF RescueEphemeron, At
  <2>2. UnknownsAhead' = {unknowns[j] : j \in i + 1 .. Len(unknowns)}
    BY <2>1 DEF UnknownsAhead, FirstUnknown
  <2>3. \A j \in i .. Len(unknowns) : j = i \/ j \in i + 1 .. Len(unknowns)
    BY <1>3
  <2>4. ASSUME NEW a \in UnknownsAhead PROVE a \in UnknownsAhead' \/ ScanFrom(a, 1, Size(a))
    BY <1>2, <2>1, <2>2, <2>3
  <2>5. QED
    BY <2>1, <2>4
<1>10. CASE UnknownsRescued
  <2>1. ephemerons' = ephemerons /\ pc = "rescueEphemeron" /\ i > Len(unknowns)
    BY <1>10 DEF UnknownsRescued, At
  <2>2. i .. Len(unknowns) = {}
    BY <1>3, <2>1
  <2>3. QED
    BY <1>2, <2>1, <2>2
<1>11. QED
  BY <1>4, <1>5, <1>6, <1>7, <1>8, <1>9, <1>10


LEMMA AddRescuedPending ==
  ASSUME HeapInv, AddRescued
  PROVE  NothingForgotten'
<1>1. /\ pc = "addRescued" /\ pc' = "rescueEphemeron" /\ i' = i + 1 /\ ~Traversing
      /\ UNCHANGED <<header, spaceVars, localVars>> /\ BeforeFlip
  BY DEF AddRescued, At, RescueStep, BeforeFlip, localVars
<1>2. UnknownsAhead' = UnknownsAhead
  BY <1>1 DEF UnknownsAhead, FirstUnknown, localVars
<1>3. Staying' = Staying /\ fromSpace' = fromSpace
  BY <1>1, SpacesSame
<1>4. ASSUME NEW a \in Staying, NEW k \in SlotIndex(a), ArenaIncludes(slots'[a][k])
      PROVE  slots'[a][k] = slots[a][k]
  <2>1. a \in Address /\ ~ArenaIncludes(unknowns[i])
    BY AddRescuedFacts, HeapFacts
  <2>2. QED
    BY <1>4, <2>1, AddRescuedFacts
<1>5. ASSUME NEW a \in Staying, NEW k \in SlotIndex(a), Pending(a, k)
      PROVE  Pending(a, k)'
  <2>1. WeakAhead(a, k)
    BY <1>1, <1>5, PendingLater DEF RootsBefore
  <2>2. QED
    BY <1>1, <1>2, <2>1 DEF Pending, WeakAhead, localVars
<1>6. QED
  BY <1>1, <1>3, <1>4, <1>5, Transferred

(* No ephemeron is left undecided. *)
LEMMA NoneUndecided ==
  ASSUME HeapInv, pc = "rescueEphemerons" => ephemerons = << >>,
         pc \in {"rescueEphemerons", "makeRescuedEphemeronsNonWeak", "fixWeakContainers"}
  PROVE  ToSet(ephemerons) \cup UnknownsAhead = {} /\ ephemerons = << >> /\ unknowns = << >>
<1>1. ephemerons = << >> /\ unknowns = << >>
  BY DEF HeapInv, FoundInCopies, FindingLabels, TraversalLabels
<1>2. QED
  BY <1>1, SetOfEmpty DEF UnknownsAhead, FirstUnknown

LEMMA DecidedPending ==
  ASSUME HeapInv, EphemeronsDecided
  PROVE  NothingForgotten'
<1>1. /\ pc = "rescueEphemerons" /\ ~Traversing /\ ephemerons = << >> /\ weakContainers' = weakContainers
      /\ UNCHANGED <<slots, spaceVars>> /\ BeforeFlip
  BY DEF EphemeronsDecided, At, RescueStep, BeforeFlip
<1>2. ToSet(ephemerons) \cup UnknownsAhead = {}
  BY <1>1, NoneUndecided
<1>3. ASSUME NEW a \in Staying, NEW k \in SlotIndex(a), Pending(a, k)
      PROVE  Pending(a, k)'
  <2>1. WeakAhead(a, k)
    BY <1>1, <1>3, PendingLater DEF RootsBefore
  <2>2. header'[a].hasWeaks = header[a].hasWeaks /\ header'[a].isEphemeron = header[a].isEphemeron
    BY DecidedFlags, HeapFacts DEF FlagsOnly
  <2>3. QED
    BY <1>1, <1>2, <2>1, <2>2 DEF Pending, WeakAhead
<1>4. QED
  BY <1>1, <1>3, SpacesSame, Transferred

LEMMA NonWeakPending ==
  ASSUME HeapInv, MakeRescuedEphemeronsNonWeak
  PROVE  NothingForgotten'
<1>1. /\ pc = "makeRescuedEphemeronsNonWeak" /\ ~Traversing /\ weakContainers' = weakContainers
      /\ UNCHANGED <<slots, spaceVars>> /\ BeforeFlip
  BY DEF MakeRescuedEphemeronsNonWeak, At, localVars, BeforeFlip
<1>2. ToSet(ephemerons) \cup UnknownsAhead = {}
  BY <1>1, NoneUndecided
<1>3. ASSUME NEW a \in Staying, NEW k \in SlotIndex(a), Pending(a, k)
      PROVE  Pending(a, k)'
  <2>1. WeakAhead(a, k)
    BY <1>1, <1>3, PendingLater DEF RootsBefore
  <2>2. ~header[a].isEphemeron
    BY <1>2, <2>1 DEF WeakAhead
  <2>3. \A e \in Rescued : header[e].isEphemeron
    BY DEF Rescued, HeapInv, QueueOfEphemerons
  <2>4. header'[a] = header[a]
    BY <2>2, <2>3, NonWeakFlags, HeapFacts
  <2>5. QED
    BY <1>1, <1>2, <2>1, <2>4 DEF Pending, WeakAhead
<1>4. QED
  BY <1>1, <1>3, SpacesSame, Transferred

LEMMA FixWeakPending ==
  ASSUME HeapInv, FixWeakContainers
  PROVE  NothingForgotten'
<1>1. pc = "fixWeakContainers" /\ ~Traversing /\ UNCHANGED <<header, spaceVars>> /\ BeforeFlip
  BY DEF FixWeakContainers, At, BeforeFlip
<1>2. ToSet(ephemerons) \cup UnknownsAhead = {}
  BY <1>1, NoneUndecided
<1>3. ASSUME NEW a \in Staying, NEW k \in SlotIndex(a), ArenaIncludes(slots'[a][k])
      PROVE  slots'[a][k] = slots[a][k] /\ ~Pending(a, k)
  <2>1. a \in Address /\ Valid(slots[a][k])
    BY ReadValid, HeapFacts
  <2>2. ~(a \in ToSet(weakContainers) /\ k # -1)
    BY <1>3, <2>1, FixWeakFacts, WeakReferenceFacts
  <2>3. slots'[a][k] = slots[a][k]
    BY <2>1, <2>2, FixWeakFacts
  <2>4. ~WeakAhead(a, k)
    BY <1>2, <2>2 DEF WeakAhead
  <2>5. QED
    BY <1>1, <2>3, <2>4, PendingLater DEF RootsBefore
<1>4. QED
  BY <1>1, <1>3, SpacesSame, Transferred

(* The steps of the traversal: pc and what is still to be followed stay.    *)
LEMMA FollowedKept ==
  ASSUME HeapInv, pc' = pc, i' = i, NEW a, ToBeFollowed(a),
         ToSet(rememberedSet) \subseteq ToSet(rememberedSet'),
         Len(rememberedSet) <= Len(rememberedSet'), Len(rememberedSet') \in Nat,
         \A j \in 1 .. Len(rememberedSet) : rememberedSet'[j] = rememberedSet[j]
  PROVE  ToBeFollowed(a)'
<1>1. i \in Nat \ {0} /\ Len(rememberedSet) \in Nat
  BY ScanTypes, SetOf
<1>2. ASSUME NEW j \in i .. Len(rememberedSet), rememberedSet[j] = a
      PROVE  \E l \in i .. Len(rememberedSet') : rememberedSet'[l] = a
  BY <1>1, <1>2
<1>3. QED
  BY <1>2 DEF ToBeFollowed

LEMMA FollowedSame ==
  ASSUME HeapInv, pc' = pc, i' = i, rememberedSet' = rememberedSet, NEW a, ToBeFollowed(a)
  PROVE  ToBeFollowed(a)'
BY DEF ToBeFollowed

LEMMA ScanOutsidePending ==
  ASSUME HeapInv, ScanOutside
  PROVE  NothingForgotten'
<1>1. /\ Scanning /\ ~ArenaIncludes(Scanned) /\ scan' = Advanced /\ stack' = stack
      /\ UNCHANGED <<header, rememberedSet, localVars>> /\ pc' = pc /\ i' = i
  BY DEF ScanOutside, Scanning, controlVars, heapVars
<1>2. HeapQuiet /\ BeforeFlip
  BY <1>1, TraversalQuiet, ScanningFacts DEF QuietStep
<1>3. UnknownsAhead' = UnknownsAhead
  BY <1>1 DEF UnknownsAhead, FirstUnknown, localVars
<1>4. ASSUME NEW a \in Staying, NEW k \in SlotIndex(a), ArenaIncludes(slots[a][k]), Pending(a, k)
      PROVE  Pending(a, k)'
  <2>1. CASE ScanAhead(a, k)
    <3>1. PICK s \in {scan} \cup ToSet(stack) : s.objects = a /\ s.index <= k /\ k < s.limit
      BY <2>1 DEF ScanAhead
    <3>2. CASE s = scan
      <4>1. k # scan.index
        BY <1>1, <1>4, <3>1, <3>2 DEF Scanned
      <4>2. Advanced.objects = a /\ Advanced.index <= k /\ k < Advanced.limit
        BY <3>1, <3>2, <4>1, ScanTypes DEF SlotIndex
      <4>3. QED
        BY <1>1, <4>2 DEF Pending, ScanAhead
    <3>3. CASE s # scan
      BY <1>1, <3>1, <3>3 DEF Pending, ScanAhead
    <3>4. QED
      BY <3>2, <3>3
  <2>2. CASE ToBeFollowed(a)
    BY <1>1, <2>2, FollowedSame DEF Pending
  <2>3. CASE WeakAhead(a, k)
    BY <1>1, <1>3, <2>3 DEF Pending, WeakAhead, localVars
  <2>4. QED
    BY <1>4, <2>1, <2>2, <2>3 DEF Pending
<1>5. QED
  BY <1>2, <1>4, QuietTransferred

LEMMA ScanProxyPending ==
  ASSUME HeapInv, ScanProxy
  PROVE  NothingForgotten'
<1>1. /\ Scanning /\ ArenaIncludes(Scanned) /\ scan' = Advanced /\ stack' = stack
      /\ UNCHANGED <<header, spaceVars, rememberedSet, localVars>> /\ pc' = pc /\ i' = i
  BY DEF ScanProxy, Scanning, controlVars
<1>2. BeforeFlip /\ Staying' = Staying /\ fromSpace' = fromSpace
  BY <1>1, ScanningFacts, SpacesSame
<1>3. UnknownsAhead' = UnknownsAhead
  BY <1>1 DEF UnknownsAhead, FirstUnknown, localVars
<1>4. ASSUME NEW a \in Staying, NEW k \in SlotIndex(a), ArenaIncludes(slots'[a][k])
      PROVE  slots'[a][k] = slots[a][k] /\ (Pending(a, k) => Pending(a, k)')
  <2>1. ~(a = scan.objects /\ k = scan.index)
    BY <1>4, ProxyFacts
  <2>2. slots'[a][k] = slots[a][k]
    BY <2>1, ProxyFacts, HeapFacts
  <2>3. CASE ScanAhead(a, k)
    <3>1. PICK s \in {scan} \cup ToSet(stack) : s.objects = a /\ s.index <= k /\ k < s.limit
      BY <2>3 DEF ScanAhead
    <3>2. CASE s = scan
      <4>1. Advanced.objects = a /\ Advanced.index <= k /\ k < Advanced.limit
        BY <2>1, <3>1, <3>2, ScanTypes DEF SlotIndex
      <4>2. QED
        BY <1>1, <2>2, <4>1 DEF Pending, ScanAhead
    <3>3. CASE s # scan
      BY <1>1, <2>2, <3>1, <3>3 DEF Pending, ScanAhead
    <3>4. QED
      BY <3>2, <3>3
  <2>4. ToBeFollowed(a) => ToBeFollowed(a)'
    BY <1>1, FollowedSame
  <2>5. WeakAhead(a, k) => WeakAhead(a, k)'
    BY <1>1, <1>3 DEF WeakAhead, localVars
  <2>6. QED
    BY <2>2, <2>3, <2>4, <2>5 DEF Pending
<1>5. QED
  BY <1>2, <1>4, Transferred

LEMMA ScanPopPending ==
  ASSUME HeapInv, ScanPop
  PROVE  NothingForgotten'
<1>1. /\ scan.index >= scan.limit /\ stack # << >> /\ scan' = Last(stack) /\ stack' = Front(stack)
      /\ UNCHANGED <<header, rememberedSet, localVars>> /\ pc' = pc /\ i' = i
  BY DEF ScanPop, controlVars, heapVars
<1>2. HeapQuiet /\ BeforeFlip
  BY <1>1, TraversalQuiet DEF QuietStep, HeapInv, ScansStay, Traversing, BeforeFlip, TraversalLabels
<1>3. UnknownsAhead' = UnknownsAhead
  BY <1>1 DEF UnknownsAhead, FirstUnknown, localVars
<1>4. ToSet(stack) = ToSet(stack') \cup {scan'}
  BY <1>1, ScanTypes, LastTaken
<1>5. ASSUME NEW a \in Staying, NEW k \in SlotIndex(a), Pending(a, k)
      PROVE  Pending(a, k)'
  <2>1. CASE ScanAhead(a, k)
    <3>1. PICK s \in {scan} \cup ToSet(stack) : s.objects = a /\ s.index <= k /\ k < s.limit
      BY <2>1 DEF ScanAhead
    <3>2. s # scan
      BY <1>1, <3>1, ScanTypes DEF SlotIndex
    <3>3. QED
      BY <1>4, <3>1, <3>2 DEF Pending, ScanAhead
  <2>2. CASE ToBeFollowed(a)
    BY <1>1, <2>2, FollowedSame DEF Pending
  <2>3. CASE WeakAhead(a, k)
    BY <1>1, <1>3, <2>3 DEF Pending, WeakAhead, localVars
  <2>4. QED
    BY <1>5, <2>1, <2>2, <2>3 DEF Pending
<1>6. QED
  BY <1>2, <1>5, QuietTransferred


LEMMA CopiedPending ==
  ASSUME HeapInv, ScanCopy, NEW object, NEW copy, object = Scanned, copy = Destination(object)
  PROVE  NothingForgotten'
<1>1. /\ Scanning /\ RememberIfWeak(object, copy) /\ ScanFrom(copy, 0, StrongPointersSize(object))
      /\ pc' = pc /\ i' = i
  BY DEF ScanCopy, Scanning, controlVars
<1>2. /\ Copying(object, copy)
      /\ \A a \in Address \ {copy, scan.objects} : slots'[a] = slots[a]
      /\ slots'[scan.objects][scan.index] = copy
      /\ \A k \in SlotIndex(scan.objects) \ {scan.index} :
           slots'[scan.objects][k] = slots[scan.objects][k]
      /\ IF header[object].secondGeneration THEN MoveToOldSpace(object) ELSE MoveToToSpace(object)
      /\ header[object].secondGeneration => copy = oldSpace.nextFree
  BY ScanCopies
<1>3. /\ copy \in Address /\ copy \notin Staying /\ ~ArenaIncludes(copy)
      /\ object \in Address /\ object \notin Staying
      /\ fromSpace' = fromSpace /\ Staying' = Staying \cup {copy}
      /\ SlotIndex(copy) = SlotIndex(object)
      /\ \A a \in Staying : header'[a] = header[a]
  BY <1>2, CopyingFacts, HeapFacts
<1>4. /\ header'[copy].hasWeaks = header[object].hasWeaks
      /\ header'[copy].isEphemeron = header[object].isEphemeron
  BY <1>2 DEF Copying, Relocates
<1>5. BeforeFlip
  BY <1>1, ScanningFacts
<1>6. /\ unknowns' = unknowns
      /\ ToSet(ephemerons') = ToSet(ephemerons)
                               \cup (IF header[object].hasWeaks /\ header[object].isEphemeron
                                     THEN {copy} ELSE {})
      /\ ToSet(weakContainers') = ToSet(weakContainers)
                               \cup (IF header[object].hasWeaks /\ ~header[object].isEphemeron
                                     THEN {copy} ELSE {})
  BY <1>1, <1>3, WeakTold
<1>7. UnknownsAhead' = UnknownsAhead
  BY <1>1, <1>6 DEF UnknownsAhead, FirstUnknown
<1>8. /\ ToSet(rememberedSet) \subseteq ToSet(rememberedSet')
      /\ Len(rememberedSet) <= Len(rememberedSet') /\ Len(rememberedSet') \in Nat
      /\ \A j \in 1 .. Len(rememberedSet) : rememberedSet'[j] = rememberedSet[j]
  <2>1. rememberedSet' = rememberedSet \/ rememberedSet' = Append(rememberedSet, copy)
    BY <1>2 DEF MoveToOldSpace, MoveToToSpace
  <2>2. rememberedSet \in Seq(Address) /\ Len(rememberedSet) \in Nat
    BY ScanTypes, SetOf
  <2>3. /\ Len(Append(rememberedSet, copy)) = Len(rememberedSet) + 1
        /\ \A j \in 1 .. Len(rememberedSet) : Append(rememberedSet, copy)[j] = rememberedSet[j]
        /\ ToSet(Append(rememberedSet, copy)) = ToSet(rememberedSet) \cup {copy}
    BY <1>3, <2>2, Appended
  <2>4. CASE rememberedSet' = rememberedSet
    BY <2>2, <2>4
  <2>5. CASE rememberedSet' = Append(rememberedSet, copy)
    BY <2>2, <2>3, <2>5
  <2>6. QED
    BY <2>1, <2>4, <2>5
<1>9. slots[scan.objects][scan.index] = object
  BY DEF Scanned
(* The slots of the copy. *)
<1>10. ASSUME NEW k \in SlotIndex(copy)
       PROVE  Pending(copy, k)'
  <2>1. k \in Int /\ Size(object) \in Nat /\ k \in -1 .. Size(object) - 1
    BY <1>3, Sizes DEF SlotIndex
  <2>2. CASE ~header[object].hasWeaks \/ k = -1
    <3>1. 0 - 1 <= k /\ k < 0 - 1 + StrongPointersSize(object)
      BY <2>1, <2>2 DEF StrongPointersSize
    <3>2. QED
      BY <1>1, <2>1, <3>1, AheadOfStart
  <2>3. CASE header[object].hasWeaks /\ k # -1
    BY <1>4, <1>6, <2>3 DEF Pending, WeakAhead
  <2>4. QED
    BY <2>2, <2>3
(* The slots of the others. *)
<1>11. ASSUME NEW a \in Staying, NEW k \in SlotIndex(a), ArenaIncludes(slots'[a][k])
       PROVE  slots'[a][k] = slots[a][k] /\ (Pending(a, k) => Pending(a, k)')
  <2>1. ~(a = scan.objects /\ k = scan.index)
    BY <1>2, <1>3, <1>11
  <2>2. a \in Address /\ a # copy
    BY <1>3, HeapFacts
  <2>3. slots'[a][k] = slots[a][k]
    BY <1>2, <2>1, <2>2
  <2>4. ASSUME ScanAhead(a, k) PROVE ScanAhead(a, k)'
    <3>1. PICK s \in {scan} \cup ToSet(stack) : s.objects = a /\ s.index <= k /\ k < s.limit
      BY <2>4 DEF ScanAhead
    <3>2. CASE s = scan
      <4>1. Advanced.objects = a /\ Advanced.index <= k /\ k < Advanced.limit
        BY <2>1, <3>1, <3>2, ScanTypes DEF SlotIndex
      <4>2. Advanced.index < Advanced.limit
        BY <4>1, ScanTypes DEF SlotIndex
      <4>3. QED
        BY <4>1, <4>2, Suspended DEF ScanAhead
    <3>3. CASE s # scan
      BY <3>1, <3>3, Suspended DEF ScanAhead
    <3>4. QED
      BY <3>2, <3>3
  <2>5. ToBeFollowed(a) => ToBeFollowed(a)'
    BY <1>1, <1>8, FollowedKept
  <2>6. WeakAhead(a, k) => WeakAhead(a, k)'
    BY <1>3, <1>6, <1>7 DEF WeakAhead
  <2>7. QED
    BY <2>3, <2>4, <2>5, <2>6 DEF Pending
<1>12. QED
  BY <1>3, <1>5, <1>10, <1>11, Transferred

LEMMA ScanCopyPending ==
  ASSUME HeapInv, ScanCopy
  PROVE  NothingForgotten'
BY CopiedPending

LEMMA NextPending ==
  ASSUME HeapInv, [Next]_vars
  PROVE  NothingForgotten'
<1>1. CASE ~BeforeFlip'
  BY <1>1 DEF NothingForgotten
<1>2. CASE Mutator \/ FlipSpaces \/ FixReferencesFromNativeMethods \/ CleanRemembered \/ EndScavenge
  <2>1. CASE Mutator
    <3>1. Operation
      BY <2>1 DEF Mutator, Allocate, Store, Load, Drop, Take, SetTemporary, EmbedLiteral,
                  EmbedClassCheck, Nativize, FillLookupCache
    <3>2. QED
      BY <1>1, <3>1 DEF Operation, controlVars, BeforeFlip
  <2>2. CASE FlipSpaces \/ FixReferencesFromNativeMethods \/ CleanRemembered \/ EndScavenge
    BY <1>1, <2>2 DEF FlipSpaces, FixReferencesFromNativeMethods, CleanRemembered, EndScavenge, At,
                      GoTo, BeforeFlip
  <2>3. QED
    BY <1>2, <2>1, <2>2
<1>3. CASE UNCHANGED vars
  <2>1. HeapQuiet
    BY <1>3, EndQuiet DEF QuietStep
  <2>2. UNCHANGED <<header, scan, stack, pc, i, rememberedSet, ephemerons, unknowns, weakContainers>>
    BY <1>3 DEF vars, heapVars, localVars, scanVars, controlVars
  <2>3. \A a, k : Pending(a, k) => Pending(a, k)'
    BY <2>2 DEF Pending, ScanAhead, ToBeFollowed, WeakAhead, UnknownsAhead, FirstUnknown
  <2>4. CASE BeforeFlip
    BY <2>1, <2>3, <2>4, QuietTransferred
  <2>5. CASE ~BeforeFlip
    BY <1>1, <2>2, <2>5 DEF BeforeFlip
  <2>6. QED
    BY <2>4, <2>5
<1>4. CASE \/ PurgeLiteral \/ LiteralsReferencesPurged \/ RememberedSetPurged
           \/ ClearGlobalLookupCache \/ ClassCheckReferencesMoved \/ CheckNativizedMethods
           \/ NativizedMethodsMoved
  BY <1>4, BeginningPending
<1>5. CASE MoveClassCheckReference \/ MoveNativizedMethod \/ MoveLiteralReference
  BY <1>5, CodePending
<1>6. CASE \/ LookForEphemerons \/ FollowEphemeron \/ CollectUnknown \/ Rescan
           \/ RescueUnknowns \/ RescueEphemeron \/ UnknownsRescued
  BY <1>6, RescueStepsPending
<1>7. CASE \/ StartScavenge \/ PurgeRemembered \/ LiteralsReferencesMoved \/ FollowRemembered
           \/ RememberedSetFollowed \/ FollowStack
  BY <1>7, StartPending, PurgePending, LiteralsMovedPending, FollowRememberedPending,
     SetFollowedPending, FollowStackPending
<1>8. CASE AddRescued \/ EphemeronsDecided \/ MakeRescuedEphemeronsNonWeak \/ FixWeakContainers
  BY <1>8, AddRescuedPending, DecidedPending, NonWeakPending, FixWeakPending
<1>9. CASE ScanOutside \/ ScanProxy \/ ScanCopy \/ ScanPop
  BY <1>9, ScanOutsidePending, ScanProxyPending, ScanCopyPending, ScanPopPending
<1>10. QED
  BY <1>2, <1>3, <1>4, <1>5, <1>6, <1>7, <1>8, <1>9
     DEF Next, Collector, FollowCodeCacheReferences, RescueEphemerons, FollowCountStartingAt

-----------------------------------------------------------------------------
(* ReferersKnown. *)
LEMMA StillKnown ==
  ASSUME HeapInv,
         \A a \in OldObjects' : \A k \in SlotIndex(a) : IsNew(slots'[a][k]) =>
           \/ a \in ToSet(rememberedSet')
           \/ a = RescuedArray /\ QueueToBeHeld'
           \/ a \in OldObjects /\ \E l \in SlotIndex(a) : IsNew(slots[a][l]),
         ToSet(rememberedSet) \subseteq ToSet(rememberedSet'),
         QueueToBeHeld => QueueToBeHeld' \/ RescuedArray \in ToSet(rememberedSet')
  PROVE  ReferersKnown'
<1>1. \A a \in OldObjects : (\E l \in SlotIndex(a) : IsNew(slots[a][l])) =>
        a \in ToSet(rememberedSet) \/ (a = RescuedArray /\ QueueToBeHeld)
  BY DEF HeapInv, ReferersKnown
<1>2. ASSUME NEW a \in OldObjects', NEW k \in SlotIndex(a), IsNew(slots'[a][k])
      PROVE  a \in ToSet(rememberedSet') \/ (a = RescuedArray /\ QueueToBeHeld')
  BY <1>1, <1>2
<1>3. \A a \in OldObjects' : \A k \in SlotIndex(a) :
        IsNew(slots'[a][k]) => a \in ToSet(rememberedSet') \/ (a = RescuedArray /\ QueueToBeHeld')
  BY <1>2
<1>4. QED
  BY <1>3 DEF ReferersKnown, IsNew

LEMMA QueueHeld ==
  ASSUME HeapInv, [Next]_vars, ~EphemeronsDecided, QueueToBeHeld
  PROVE  QueueToBeHeld'
<1>1. pc \in {"rescueEphemerons", "collectUnknowns", "rescueEphemeron", "addRescued"}
  BY DEF QueueToBeHeld
<1>2. CASE \/ LookForEphemerons \/ FollowEphemeron \/ CollectUnknown \/ Rescan
           \/ RescueUnknowns \/ RescueEphemeron \/ AddRescued \/ UnknownsRescued
  BY <1>2 DEF QueueToBeHeld, LookForEphemerons, FollowEphemeron, CollectUnknown, Rescan,
              RescueUnknowns, RescueEphemeron, AddRescued, UnknownsRescued, At, GoTo
<1>3. CASE FollowCountStartingAt \/ UNCHANGED vars
  BY <1>3 DEF QueueToBeHeld, FollowCountStartingAt, ScanOutside, ScanProxy, ScanCopy, ScanPop,
              Scanning, controlVars, vars
<1>4. ~Mutator
  BY <1>1 DEF Mutator, Allocate, Store, Load, Drop, Take, SetTemporary, EmbedLiteral,
              EmbedClassCheck, Nativize, FillLookupCache, Operation
<1>5. ~StartScavenge /\ ~FollowCodeCacheReferences /\ ~PurgeLiteral /\ ~LiteralsReferencesPurged
      /\ ~PurgeRemembered /\ ~RememberedSetPurged
  BY <1>1 DEF StartScavenge, FollowCodeCacheReferences, PurgeLiteral, LiteralsReferencesPurged,
       PurgeRemembered, RememberedSetPurged, ClearGlobalLookupCache, MoveClassCheckReference,
       ClassCheckReferencesMoved, CheckNativizedMethods, MoveNativizedMethod, NativizedMethodsMoved,
       MoveLiteralReference, LiteralsReferencesMoved, Proceed, At
<1>6. ~FollowRemembered /\ ~RememberedSetFollowed /\ ~FollowStack /\ ~MakeRescuedEphemeronsNonWeak
      /\ ~FixWeakContainers /\ ~FlipSpaces /\ ~FixReferencesFromNativeMethods
      /\ ~CleanRemembered /\ ~EndScavenge
  BY <1>1 DEF FollowRemembered, RememberedSetFollowed, FollowStack, MakeRescuedEphemeronsNonWeak,
       FixWeakContainers, FlipSpaces, FixReferencesFromNativeMethods, CleanRemembered, EndScavenge,
       Proceed, At
<1>7. QED
  BY <1>2, <1>3, <1>4, <1>5, <1>6 DEF Next, Collector, RescueEphemerons

(* Steps that do not write to old objects. *)
LEMMA OldSlotsKept ==
  ASSUME HeapInv, [Next]_vars, ~EphemeronsDecided, OldObjects' = OldObjects,
         ToSet(rememberedSet) \subseteq ToSet(rememberedSet'),
         \A a \in OldObjects : slots'[a] = slots[a]
  PROVE  ReferersKnown'
BY QueueHeld, StillKnown

LEMMA QuietReferers ==
  ASSUME HeapInv, [Next]_vars, ~EphemeronsDecided, QuietStep, rememberedSet' = rememberedSet
  PROVE  ReferersKnown'
<1>1. \A a \in OldObjects : slots'[a] = slots[a]
  BY QuietFacts, HeapFacts DEF QuietStep
<1>2. OldObjects' = OldObjects
  BY QuietFacts DEF QuietStep
<1>3. QED
  BY <1>1, <1>2, OldSlotsKept

LEMMA StoreReferers ==
  ASSUME HeapInv, [Next]_vars, NEW r \in 0 .. NumRoots - 1, NEW k \in StoredSlots, NEW v, Valid(v),
         Store(r, k, v)
  PROVE  ReferersKnown'
<1> DEFINE o == slots[Stack][r]
<1>1. /\ pc = "mutator" /\ UNCHANGED spaceVars /\ WriteBarrier(o, v)
  BY DEF Store, Operation
<1>2. /\ o \in Objects /\ o \in Address /\ k \in SlotIndex(o) /\ slots'[o][k] = v
      /\ \A b \in Address \ {o} : slots'[b] = slots[b]
      /\ \A l \in SlotIndex(o) \ {k} : slots'[o][l] = slots[o][l]
  BY StoredTo
<1> HIDE DEF o
<1>3. ToSet(Append(rememberedSet, o)) = ToSet(rememberedSet) \cup {o}
  BY <1>2, ScanTypes, Appended
<1>4. ToSet(rememberedSet) \subseteq ToSet(rememberedSet')
  BY <1>1, <1>3 DEF WriteBarrier
<1>5. ASSUME o \in OldObjects, IsNew(v) PROVE o \in ToSet(rememberedSet')
  <2>1. o \in ObjectsIn(oldSpace)
    BY <1>2, <1>5, HeapFacts, Places DEF OldObjects, Special
  <2>2. Includes(oldSpace, o) /\ Includes(fromSpace, v)
    BY <1>1, <1>5, <2>1, AtMutator, HeapFacts, Places DEF ArenaIncludes
  <2>3. header[o].inRememberedSet => o \in ToSet(rememberedSet)
    BY <1>2 DEF HeapInv, RememberedInv, FlagsAgree
  <2>4. QED
    BY <1>1, <1>3, <2>2, <2>3 DEF WriteBarrier
<1>6. OldObjects' = OldObjects /\ OldObjects \subseteq Address
  BY <1>1, SpacesSame, HeapFacts
<1>7. ASSUME NEW a \in OldObjects', NEW l \in SlotIndex(a), IsNew(slots'[a][l])
      PROVE  \/ a \in ToSet(rememberedSet')
             \/ a \in OldObjects /\ \E m \in SlotIndex(a) : IsNew(slots[a][m])
  <2>1. CASE a = o /\ l = k
    BY <1>2, <1>5, <1>6, <1>7, <2>1
  <2>2. CASE ~(a = o /\ l = k)
    BY <1>2, <1>6, <1>7, <2>2
  <2>3. QED
    BY <2>1, <2>2
<1>8. ~QueueToBeHeld
  BY <1>1 DEF QueueToBeHeld
<1>9. QED
  BY <1>4, <1>7, <1>8, StillKnown

LEMMA MutatorReferers ==
  ASSUME HeapInv, Mutator
  PROVE  ReferersKnown'
<1>1. [Next]_vars /\ ~EphemeronsDecided
  <2>1. pc = "mutator"
    BY DEF Mutator, Allocate, Store, Load, Drop, Take, SetTemporary, EmbedLiteral,
                EmbedClassCheck, Nativize, FillLookupCache, Operation
  <2>2. QED
    BY <2>1 DEF Next, EphemeronsDecided, At
<1>2. CASE \E kind \in Kinds, hash \in 1 .. SemiSize + OldSize, r \in 0 .. NumRoots - 1 :
             Allocate(kind, hash, r)
  <2>1. PICK kind \in Kinds, hash \in 1 .. SemiSize + OldSize, r \in 0 .. NumRoots - 1 :
             Allocate(kind, hash, r)
    BY <1>2
  <2> DEFINE new == fromSpace.nextFree
  <2>2. /\ new \notin Objects \cup Special /\ OldObjects' = OldObjects
        /\ \A a \in Address \ {new, Stack} : slots'[a] = slots[a]
    BY <2>1, AllocateFacts
  <2>3. OldObjects \subseteq Address \ {new, Stack}
    BY <2>2, HeapFacts, Places DEF OldObjects, Objects, Copies, Special
  <2>4. rememberedSet' = rememberedSet
    BY <2>1 DEF Allocate
  <2>5. QED
    BY <1>1, <2>2, <2>3, <2>4, OldSlotsKept
<1>3. CASE \/ \E r, q \in 0 .. NumRoots - 1, k \in StoredSlots : Store(r, k, slots[Stack][q])
           \/ \E r \in 0 .. NumRoots - 1, k \in StoredSlots : Store(r, k, Nil)
  <2>1. PICK r, k, v : /\ r \in 0 .. NumRoots - 1 /\ k \in StoredSlots
                       /\ Valid(v) /\ Store(r, k, v)
    BY <1>3, TemporaryValid DEF Valid
  <2>2. QED
    BY <1>1, <2>1, StoreReferers
<1>4. CASE \/ \E r, q \in 0 .. NumRoots - 1, k \in StoredSlots : Load(r, k, q)
           \/ \E r \in 0 .. NumRoots - 1 : Drop(r)
           \/ \E r \in 0 .. NumRoots - 1 : Take(r)
  <2>1. PICK r, v : SetTemporary(r, v)
    BY <1>4 DEF Load, Drop, Take
  <2>2. /\ slots' = [slots EXCEPT ![Stack][r] = v] /\ UNCHANGED <<spaceVars, rememberedSet>>
    BY <2>1 DEF SetTemporary
  <2>3. \A a \in Address \ {Stack} : slots'[a] = slots[a]
    BY <2>2, HeapFacts DEF IsSlots
  <2>4. OldObjects \subseteq Address \ {Stack} /\ OldObjects' = OldObjects
    BY <2>2, SpacesSame, HeapFacts, Places DEF OldObjects, Objects, Copies, Special
  <2>5. QED
    BY <1>1, <2>2, <2>3, <2>4, OldSlotsKept
<1>5. CASE \/ \E o \in 0 .. NumOffsets - 1, r \in 0 .. NumRoots - 1 : EmbedLiteral(o, r)
           \/ \E o \in 0 .. NumOffsets - 1, r \in 0 .. NumRoots - 1 : EmbedClassCheck(o, r)
           \/ \E r \in 0 .. NumRoots - 1 : Nativize(r)
           \/ \E r \in 0 .. NumRoots - 1 : FillLookupCache(r)
  <2>1. QuietStep
    BY <1>5, MutatorQuiet
  <2>2. rememberedSet' = rememberedSet
    BY <1>5 DEF EmbedLiteral, EmbedClassCheck, Nativize, FillLookupCache
  <2>3. QED
    BY <1>1, <2>1, <2>2, QuietReferers
<1>6. QED
  BY <1>2, <1>3, <1>4, <1>5 DEF Mutator


(* What leaves the remembered set refers to nothing new. *)
LEMMA PurgeReferers ==
  ASSUME HeapInv, PurgeRemembered
  PROVE  ReferersKnown'
<1> DEFINE object == rememberedSet[i]
<1>1. /\ pc = "purgeRememberedSet" /\ UNCHANGED <<slots, spaceVars>> /\ i <= Len(rememberedSet)
      /\ IF HasToPurge(object) THEN rememberedSet' = RemoveAt(rememberedSet, i)
                               ELSE rememberedSet' = rememberedSet
  BY DEF PurgeRemembered, At
<1>2. i \in 1 .. Len(rememberedSet)
  BY <1>1, ScanTypes, SetOf
<1>3. object \in OldObjects
  BY <1>2, ScanTypes, SetOf DEF HeapInv, RememberedInv, HoldsOldObjects
<1>4. ToSet(rememberedSet) \subseteq ToSet(RemoveAt(rememberedSet, i)) \cup {object}
  BY <1>2, ScanTypes, SetWithout
<1>5. HasToPurge(object) => \A k \in SlotIndex(object) : ~ArenaIncludes(slots[object][k])
  BY <1>3, HeapFacts DEF HasToPurge, IsReferredBy, ArenaIncludes
<1>6. ObjectsIn(toSpace) = {}
  BY <1>1 DEF HeapInv, ToSpaceFilled, CopyingLabels, FixingLabels, FindingLabels, TraversalLabels
<1>7. \A a \in OldObjects : \A k \in SlotIndex(a) : IsNew(slots[a][k]) => ArenaIncludes(slots[a][k])
  BY <1>6, ReadValid, ArenaObject, HeapFacts
<1>8. OldObjects' = OldObjects /\ ~QueueToBeHeld
  BY <1>1, SpacesSame DEF QueueToBeHeld
<1> HIDE DEF object
<1>9. ASSUME NEW a \in OldObjects, NEW k \in SlotIndex(a), IsNew(slots[a][k])
      PROVE  a \in ToSet(rememberedSet')
  <2>1. a \in ToSet(rememberedSet)
    BY <1>8, <1>9 DEF HeapInv, ReferersKnown
  <2>2. HasToPurge(object) => a # object
    BY <1>5, <1>7, <1>9
  <2>3. QED
    BY <1>1, <1>4, <2>1, <2>2
<1>10. \A a \in OldObjects' : \A k \in SlotIndex(a) : IsNew(slots'[a][k]) => a \in ToSet(rememberedSet')
  BY <1>1, <1>8, <1>9
<1>11. QED
  BY <1>10 DEF ReferersKnown, IsNew

(* Objects that are tenured enter the set. *)
LEMMA TenureReferers ==
  ASSUME HeapInv, [Next]_vars, ~EphemeronsDecided, NEW object, Valid(object), Tenure(object),
         \A a \in Address \ {CodeCache} : slots'[a] = SlotsWithTenured(object)[a]
  PROVE  ReferersKnown'
<1> DEFINE copy == oldSpace.nextFree
<1>1. CASE ToBeMoved(object)
  <2>1. /\ Copying(object, copy) /\ MoveToOldSpace(object)
        /\ \A a \in Address \ {copy, CodeCache} : slots'[a] = slots[a]
    BY <1>1, TenureCopies
  <2>2. copy \in Address /\ copy \notin Staying
    BY <2>1, CopyingFacts
  <2>3. ToSet(rememberedSet') = ToSet(rememberedSet) \cup {copy}
    BY <2>1, <2>2, ScanTypes, Appended DEF MoveToOldSpace
  <2>4. OldObjects' = OldObjects \cup {copy}
    BY <2>1, MoveToOldRelocates, CopyingFacts, HeapFacts, Places
       DEF Copying, OldObjects, ObjectsIn, HeapInv
  <2>5. \A a \in OldObjects : slots'[a] = slots[a]
    BY <2>1, <2>2, HeapFacts
  <2>6. QueueToBeHeld => QueueToBeHeld'
    BY QueueHeld
  <2> HIDE DEF copy
  <2>7. QED
    BY <2>3, <2>4, <2>5, <2>6, StillKnown
<1>2. CASE ~ToBeMoved(object)
  <2>1. /\ UNCHANGED <<header, spaceVars, rememberedSet>>
        /\ \A a \in Address \ {CodeCache} : slots'[a] = slots[a]
    BY <1>2, TenureCopies
  <2>2. OldObjects' = OldObjects /\ \A a \in OldObjects : slots'[a] = slots[a]
    BY <2>1, SpacesSame, HeapFacts
  <2>3. QED
    BY <2>1, <2>2, OldSlotsKept
<1>3. QED
  BY <1>1, <1>2

LEMMA ScanProxyReferers ==
  ASSUME HeapInv, ScanProxy
  PROVE  ReferersKnown'
<1>1. Scanning /\ ArenaIncludes(Scanned) /\ rememberedSet' = rememberedSet
  BY DEF ScanProxy
<1>2. [Next]_vars /\ ~EphemeronsDecided
  BY <1>1 DEF Next, Collector, FollowCountStartingAt, EphemeronsDecided, At, Scanning, Traversing
<1>3. IsNew(slots[scan.objects][scan.index]) /\ scan.index \in SlotIndex(scan.objects)
      /\ scan.objects \in Address
  BY <1>1, ScanningFacts, ArenaObject DEF Scanned
<1>4. OldObjects' = OldObjects /\ OldObjects \subseteq Address
  BY ProxyFacts, SpacesSame, HeapFacts
<1>5. ASSUME NEW a \in OldObjects, NEW k \in SlotIndex(a), IsNew(slots'[a][k])
      PROVE  \E l \in SlotIndex(a) : IsNew(slots[a][l])
  <2>1. CASE a = scan.objects
    BY <1>3, <2>1
  <2>2. CASE a # scan.objects
    <3>1. slots'[a] = slots[a]
      BY <1>4, <2>2, ProxyFacts
    <3>2. QED
      BY <1>5, <3>1
  <2>3. QED
    BY <2>1, <2>2
<1>6. QED
  BY <1>1, <1>2, <1>4, <1>5, QueueHeld, StillKnown

LEMMA ScanCopyReferers ==
  ASSUME HeapInv, ScanCopy
  PROVE  ReferersKnown'
<1> DEFINE copy == Destination(Scanned)
<1>1. Scanning /\ ArenaIncludes(Scanned)
  BY DEF ScanCopy
<1>2. [Next]_vars /\ ~EphemeronsDecided
  BY <1>1 DEF Next, Collector, FollowCountStartingAt, EphemeronsDecided, At, Scanning, Traversing
<1>3. IsNew(slots[scan.objects][scan.index]) /\ scan.index \in SlotIndex(scan.objects)
      /\ scan.objects \in Address
  BY <1>1, ScanningFacts, ArenaObject DEF Scanned
<1>4. /\ Copying(Scanned, copy)
      /\ \A a \in Address \ {copy, scan.objects} : slots'[a] = slots[a]
      /\ IF header[Scanned].secondGeneration
         THEN MoveToOldSpace(Scanned) /\ copy = oldSpace.nextFree
         ELSE MoveToToSpace(Scanned) /\ copy = toSpace.nextFree
  BY ScanCopies
<1>5. copy \in Address /\ copy \notin Staying /\ Scanned \in Address
  BY <1>4, CopyingFacts
<1>6. OldObjects \subseteq Address \ {copy}
  BY <1>5, HeapFacts
<1>7. /\ ToSet(rememberedSet) \subseteq ToSet(rememberedSet')
      /\ \A a \in OldObjects' : a \in OldObjects \/ a \in ToSet(rememberedSet')
  <2>1. CASE MoveToOldSpace(Scanned) /\ copy = oldSpace.nextFree
    <3>1. ToSet(Append(rememberedSet, copy)) = ToSet(rememberedSet) \cup {copy}
      BY <1>5, ScanTypes, Appended
    <3>2. rememberedSet' = Append(rememberedSet, copy)
      BY <2>1 DEF MoveToOldSpace
    <3>3. OldObjects' = OldObjects \cup {copy}
      BY <1>1, <1>5, <2>1, MoveToOldRelocates DEF OldObjects, ObjectsIn, HeapInv
    <3> HIDE DEF copy
    <3>4. QED
      BY <3>1, <3>2, <3>3
  <2>2. CASE MoveToToSpace(Scanned)
    BY <2>2 DEF MoveToToSpace, OldObjects, ObjectsIn
  <2>3. QED
    BY <1>4, <2>1, <2>2
<1>8. ASSUME NEW a \in OldObjects, NEW k \in SlotIndex(a), IsNew(slots'[a][k])
      PROVE  \E l \in SlotIndex(a) : IsNew(slots[a][l])
  <2>1. CASE a = scan.objects
    BY <1>3, <2>1
  <2>2. CASE a # scan.objects
    <3>1. slots'[a] = slots[a]
      BY <1>4, <1>6, <2>2
    <3>2. QED
      BY <1>8, <3>1
  <2>3. QED
    BY <2>1, <2>2
<1> HIDE DEF copy
<1>9. QED
  BY <1>2, <1>7, <1>8, QueueHeld, StillKnown

(* The queue refers to a new object before it is remembered. *)
LEMMA AddRescuedReferers ==
  ASSUME HeapInv, AddRescued
  PROVE  ReferersKnown'
<1>1. /\ rememberedSet' = rememberedSet /\ QueueToBeHeld'
      /\ OldObjects' = OldObjects /\ OldObjects \subseteq Address
  BY AddRescuedFacts, SpacesSame, HeapFacts DEF AddRescued, QueueToBeHeld
<1>2. ASSUME NEW a \in OldObjects, NEW k \in SlotIndex(a), IsNew(slots'[a][k])
      PROVE  a = RescuedArray \/ \E l \in SlotIndex(a) : IsNew(slots[a][l])
  <2>1. CASE a # RescuedArray
    <3>1. slots'[a] = slots[a]
      BY <1>1, <2>1, AddRescuedFacts
    <3>2. QED
      BY <1>2, <3>1
  <2>2. QED
    BY <2>1
<1>3. QED
  BY <1>1, <1>2, StillKnown

LEMMA DecidedReferers ==
  ASSUME HeapInv, EphemeronsDecided
  PROVE  ReferersKnown'
<1>1. /\ pc = "rescueEphemerons" /\ UNCHANGED <<slots, spaceVars>>
      /\ IF anyRescued THEN HoldReferenceTo(RescuedArray) ELSE UNCHANGED <<header, rememberedSet>>
  BY DEF EphemeronsDecided, At, RescueStep
<1>2. ToSet(Append(rememberedSet, RescuedArray)) = ToSet(rememberedSet) \cup {RescuedArray}
  BY HeapFacts, ScanTypes, Appended
<1>3. header[RescuedArray].inRememberedSet => RescuedArray \in ToSet(rememberedSet)
  BY DEF HeapInv, RememberedInv, FlagsAgree
<1>4. /\ ToSet(rememberedSet) \subseteq ToSet(rememberedSet')
      /\ anyRescued => RescuedArray \in ToSet(rememberedSet')
  BY <1>1, <1>2, <1>3 DEF HoldReferenceTo
<1>5. QueueToBeHeld => RescuedArray \in ToSet(rememberedSet')
  BY <1>1, <1>4 DEF QueueToBeHeld
<1>6. OldObjects' = OldObjects
  BY <1>1, SpacesSame
<1>7. \A a \in OldObjects' : \A k \in SlotIndex(a) : IsNew(slots'[a][k]) =>
        a \in OldObjects /\ \E l \in SlotIndex(a) : IsNew(slots[a][l])
  BY <1>1, <1>6
<1>8. QED
  BY <1>4, <1>5, <1>7, StillKnown

LEMMA FixWeakReferers ==
  ASSUME HeapInv, FixWeakContainers
  PROVE  ReferersKnown'
<1>1. pc = "fixWeakContainers" /\ rememberedSet' = rememberedSet
  BY DEF FixWeakContainers, At
<1>2. OldObjects' = OldObjects /\ OldObjects \subseteq Address
  BY FixWeakFacts, SpacesSame, HeapFacts
<1>3. ASSUME NEW a \in OldObjects, NEW k \in SlotIndex(a), IsNew(slots'[a][k])
      PROVE  IsNew(slots[a][k])
  <2>1. Valid(slots[a][k]) /\ a \in Address
    BY <1>2, ReadValid, HeapFacts
  <2>2. CASE a \in ToSet(weakContainers) /\ k # -1
    <3>1. slots'[a][k] = WeakReference(slots[a][k])
      BY <2>2, FixWeakFacts
    <3>2. WeakReference(slots[a][k]) = slots[a][k] \/ ArenaIncludes(slots[a][k])
      BY <2>1, WeakReferenceFacts
    <3>3. QED
      BY <1>3, <2>1, <3>1, <3>2, ArenaObject
  <2>3. CASE ~(a \in ToSet(weakContainers) /\ k # -1)
    <3>1. slots'[a][k] = slots[a][k]
      BY <2>1, <2>3, FixWeakFacts
    <3>2. QED
      BY <1>3, <3>1
  <2>4. QED
    BY <2>2, <2>3
<1>4. ~QueueToBeHeld
  BY <1>1 DEF QueueToBeHeld
<1>5. QED
  BY <1>1, <1>2, <1>3, <1>4, StillKnown

LEMMA FlipReferers ==
  ASSUME HeapInv, FlipSpaces
  PROVE  ReferersKnown'
<1>1. rememberedSet' = rememberedSet /\ pc = "flipSpaces"
  BY DEF FlipSpaces, At
<1>2. OldObjects' = OldObjects /\ \A a \in OldObjects : slots'[a] = slots[a]
  BY FlipFacts, HeapFacts
<1>3. ~QueueToBeHeld
  BY <1>1 DEF QueueToBeHeld
<1>4. QED
  BY <1>1, <1>2, <1>3, StillKnown

LEMMA NextReferers ==
  ASSUME HeapInv, HostHasTheSet, [Next]_vars
  PROVE  ReferersKnown'
<1>1. CASE Mutator
  BY <1>1, MutatorReferers
<1>2. CASE PurgeRemembered \/ AddRescued \/ EphemeronsDecided \/ FixWeakContainers \/ FlipSpaces
           \/ ScanProxy \/ ScanCopy
  BY <1>2, PurgeReferers, AddRescuedReferers, DecidedReferers, FixWeakReferers, FlipReferers,
     ScanProxyReferers, ScanCopyReferers
<1>3. CASE MoveClassCheckReference \/ MoveNativizedMethod \/ MoveLiteralReference
  <2>1. ~EphemeronsDecided
    BY <1>3 DEF MoveClassCheckReference, MoveNativizedMethod, MoveLiteralReference,
                EphemeronsDecided, At
  <2>2. QED
    BY <1>3, <2>1, ClassCheckFacts, NativizedFacts, LiteralFacts, TenureReferers
<1>4. CASE MakeRescuedEphemeronsNonWeak
  <2>1. ~EphemeronsDecided
    BY <1>4 DEF MakeRescuedEphemeronsNonWeak, EphemeronsDecided, At
  <2>2. OldObjects' = OldObjects /\ slots' = slots /\ rememberedSet' = rememberedSet
    BY <1>4, SpacesSame DEF MakeRescuedEphemeronsNonWeak
  <2>3. QED
    BY <2>1, <2>2, OldSlotsKept
<1>5. CASE \/ StartScavenge \/ PurgeLiteral \/ LiteralsReferencesPurged \/ RememberedSetPurged
           \/ ClearGlobalLookupCache \/ ClassCheckReferencesMoved \/ CheckNativizedMethods
           \/ NativizedMethodsMoved \/ LiteralsReferencesMoved
  <2>1. ~EphemeronsDecided /\ rememberedSet' = rememberedSet
    BY <1>5 DEF StartScavenge, PurgeLiteral, LiteralsReferencesPurged, RememberedSetPurged,
       ClearGlobalLookupCache, ClassCheckReferencesMoved, CheckNativizedMethods,
       NativizedMethodsMoved, LiteralsReferencesMoved, Proceed, At, EphemeronsDecided
  <2>2. QED
    BY <1>5, <2>1, BeginningQuiet, QuietReferers
<1>6. CASE FollowRemembered \/ RememberedSetFollowed \/ FollowStack \/ ScanOutside \/ ScanPop
  <2>1. ~EphemeronsDecided /\ rememberedSet' = rememberedSet
    BY <1>6 DEF FollowRemembered, RememberedSetFollowed, FollowStack, ScanOutside, ScanPop, Scanning,
                Traversing, Proceed, At, EphemeronsDecided
  <2>2. QED
    BY <1>6, <2>1, TraversalQuiet, QuietReferers
<1>7. CASE \/ LookForEphemerons \/ FollowEphemeron \/ CollectUnknown \/ Rescan
           \/ RescueUnknowns \/ RescueEphemeron \/ UnknownsRescued
  <2>1. ~EphemeronsDecided /\ rememberedSet' = rememberedSet
    BY <1>7 DEF LookForEphemerons, FollowEphemeron, CollectUnknown, Rescan, RescueUnknowns,
                RescueEphemeron, UnknownsRescued, At, EphemeronsDecided
  <2>2. QED
    BY <1>7, <2>1, RescueQuiet, QuietReferers
<1>8. CASE FixReferencesFromNativeMethods \/ CleanRemembered \/ EndScavenge \/ UNCHANGED vars
  <2>1. rememberedSet' = rememberedSet
    BY <1>8, NothingToClean DEF FixReferencesFromNativeMethods, EndScavenge, HostHasTheSet, At, vars,
                                HeapInv
  <2>2. CASE ~EphemeronsDecided
    BY <1>8, <2>1, <2>2, EndQuiet, QuietReferers
  <2>3. QED
    BY <2>2, DecidedReferers
<1>9. QED
  BY <1>1, <1>2, <1>3, <1>4, <1>5, <1>6, <1>7, <1>8
     DEF Next, Collector, FollowCodeCacheReferences, RescueEphemerons, FollowCountStartingAt


-----------------------------------------------------------------------------
(* The method cache, the methods with native code and the native code.      *)
HostParts == CacheKnown /\ MethodsKnown /\ LiteralsKnown /\ CodeKnown

(* Objects only go away when the spaces are swapped. *)
LEMMA ObjectsStay ==
  ASSUME HeapInv, [Next]_vars, ~FlipSpaces
  PROVE  Objects \subseteq Objects'
<1>1. CASE QuietStep \/ FlagsOnly \/ UNCHANGED spaceVars
  BY <1>1, SpacesSame DEF QuietStep, HeapQuiet, FlagsOnly
<1>2. CASE \/ StartScavenge \/ PurgeLiteral \/ LiteralsReferencesPurged \/ RememberedSetPurged
           \/ ClearGlobalLookupCache \/ ClassCheckReferencesMoved \/ CheckNativizedMethods
           \/ NativizedMethodsMoved \/ LiteralsReferencesMoved
           \/ FollowRemembered \/ RememberedSetFollowed \/ FollowStack \/ ScanOutside \/ ScanPop
           \/ LookForEphemerons \/ FollowEphemeron \/ CollectUnknown \/ Rescan
           \/ RescueUnknowns \/ RescueEphemeron \/ UnknownsRescued
           \/ FixReferencesFromNativeMethods \/ CleanRemembered \/ EndScavenge \/ UNCHANGED vars
  BY <1>1, <1>2, BeginningQuiet, TraversalQuiet, RescueQuiet, EndQuiet
<1>3. CASE PurgeRemembered \/ EphemeronsDecided \/ MakeRescuedEphemeronsNonWeak
  BY <1>1, <1>3, PurgeFlags, DecidedFlags, NonWeakFlags
<1>4. CASE AddRescued \/ FixWeakContainers \/ ScanProxy
  BY <1>1, <1>4, AddRescuedFacts, FixWeakFacts, ProxyFacts
<1>5. CASE ScanCopy
  BY <1>5, ScanCopies, CopyingFacts
<1>6. ASSUME NEW object, Valid(object), Tenure(object),
             \A a \in Address \ {CodeCache} : slots'[a] = SlotsWithTenured(object)[a]
      PROVE  Objects \subseteq Objects'
  BY <1>1, <1>6, TenureCopies, CopyingFacts
<1>7. CASE MoveClassCheckReference \/ MoveNativizedMethod \/ MoveLiteralReference
  BY <1>6, <1>7, ClassCheckFacts, NativizedFacts, LiteralFacts
<1>8. CASE Mutator
  <2>1. CASE \E kind \in Kinds, hash \in 1 .. SemiSize + OldSize, r \in 0 .. NumRoots - 1 :
               Allocate(kind, hash, r)
    BY <2>1, AllocateFacts
  <2>2. CASE ~\E kind \in Kinds, hash \in 1 .. SemiSize + OldSize, r \in 0 .. NumRoots - 1 :
               Allocate(kind, hash, r)
    BY <1>1, <1>8, <2>2 DEF Mutator, Store, Load, Drop, Take, SetTemporary, EmbedLiteral,
         EmbedClassCheck, Nativize, FillLookupCache
  <2>3. QED
    BY <2>1, <2>2
<1>9. QED
  BY <1>2, <1>3, <1>4, <1>5, <1>7, <1>8
     DEF Next, Collector, FollowCodeCacheReferences, RescueEphemerons, FollowCountStartingAt

LEMMA CacheStays ==
  ASSUME HeapInv, Objects \subseteq Objects', lookupCache' = lookupCache,
         vm.globalCacheHasPointersToFrom => vm'.globalCacheHasPointersToFrom,
         pc \in CacheLabels => pc' \in CacheLabels
  PROVE  CacheKnown'
BY DEF HeapInv, CacheKnown, Valid, IsNew

LEMMA MethodsStay ==
  ASSUME HeapInv, Objects \subseteq Objects', nativizedMethods' = nativizedMethods,
         \A j \in 1 .. Len(nativizedMethods) : MethodAhead(j) => MethodAhead(j)'
  PROVE  MethodsKnown'
<1>1. \A j \in 1 .. Len(nativizedMethods) :
        Valid(nativizedMethods[j]) /\ (IsNew(nativizedMethods[j]) => MethodAhead(j))
  BY DEF HeapInv, MethodsKnown
<1>2. \A v : Valid(v) => v \in Objects' \cup {Nil, Tombstone}
  BY DEF Valid
<1>3. QED
  BY <1>1, <1>2 DEF MethodsKnown, Valid, IsNew

LEMMA LiteralsStay ==
  ASSUME HeapInv, Objects \subseteq Objects', literalsReferences' = literalsReferences,
         \A j \in 1 .. Len(literalsReferences) : LiteralAhead(j) => LiteralAhead(j)'
  PROVE  LiteralsKnown'
<1>1. \A j \in 1 .. Len(literalsReferences) :
        Valid(literalsReferences[j].literal) /\ (IsNew(literalsReferences[j].literal) => LiteralAhead(j))
  BY DEF HeapInv, LiteralsKnown
<1>2. \A v : Valid(v) => v \in Objects' \cup {Nil, Tombstone}
  BY DEF Valid
<1>3. QED
  BY <1>1, <1>2 DEF LiteralsKnown, Valid, IsNew

LEMMA CodeStays ==
  ASSUME HeapInv, Objects \subseteq Objects',
         pc = "fixReferencesFromNativeMethods" => pc' = "fixReferencesFromNativeMethods",
         \A o \in SlotIndex(CodeCache) :
           \/ /\ slots'[CodeCache][o] \in Objects' \cup {Nil, Tombstone}
              /\ IsNew(slots'[CodeCache][o]) => LiteralKept(o)' \/ ClassCheckAhead(o)'
           \/ /\ slots'[CodeCache][o] = slots[CodeCache][o]
              /\ IsNew(slots[CodeCache][o]) /\ (LiteralKept(o) \/ ClassCheckAhead(o)) =>
                   LiteralKept(o)' \/ ClassCheckAhead(o)'
  PROVE  CodeKnown'
<1>1. ASSUME NEW o \in SlotIndex(CodeCache)
      PROVE  /\ \/ slots'[CodeCache][o] \in Objects' \cup {Nil, Tombstone}
                \/ pc' = "fixReferencesFromNativeMethods" /\ IsNew(slots'[CodeCache][o])
             /\ IsNew(slots'[CodeCache][o]) => LiteralKept(o)' \/ ClassCheckAhead(o)'
  <2>1. /\ \/ Valid(slots[CodeCache][o])
           \/ pc = "fixReferencesFromNativeMethods" /\ IsNew(slots[CodeCache][o])
        /\ IsNew(slots[CodeCache][o]) => LiteralKept(o) \/ ClassCheckAhead(o)
    BY DEF HeapInv, CodeKnown
  <2>2. \A v : Valid(v) => v \in Objects' \cup {Nil, Tombstone}
    BY DEF Valid
  <2>3. QED
    BY <2>1, <2>2
<1>2. \A o \in SlotIndex(CodeCache) :
        /\ \/ slots'[CodeCache][o] \in Objects' \cup {Nil, Tombstone}
           \/ pc' = "fixReferencesFromNativeMethods" /\ IsNew(slots'[CodeCache][o])
        /\ IsNew(slots'[CodeCache][o]) => LiteralKept(o)' \/ ClassCheckAhead(o)'
  BY <1>1
<1>3. QED
  BY <1>2 DEF CodeKnown, Valid, IsNew

(* What a reference of the code becomes when its object is tenured. *)
LEMMA TenuredFacts ==
  ASSUME HeapInv, NEW object, Valid(object), Tenure(object), ObjectsIn(toSpace) = {},
         \A a \in Address \ {CodeCache} : slots'[a] = SlotsWithTenured(object)[a]
  PROVE  Tenured(object) \in Objects' \cup {Nil, Tombstone} /\ ~IsNew(Tenured(object))
<1>1. CASE ToBeMoved(object)
  <2>1. Copying(object, oldSpace.nextFree) /\ MoveToOldSpace(object) /\ ArenaIncludes(object)
    BY <1>1, TenureCopies DEF ToBeMoved
  <2>2. oldSpace.nextFree \in Objects' /\ ~IsNew(oldSpace.nextFree)
    BY <2>1, CopyingFacts, MoveToOldRelocates DEF HeapInv
  <2>3. QED
    BY <1>1, <2>1, <2>2 DEF Tenured, ToBeMoved
<1>2. CASE ~ToBeMoved(object)
  <2>1. Objects' = Objects
    BY <1>2, TenureCopies, SpacesSame
  <2>2. CASE ArenaIncludes(object) /\ IsProxy(object)
    <3>1. header[object].proxee \in ObjectsIn(oldSpace)
      BY <2>2, ArenaObject DEF HeapInv, ProxiesLead, IsProxy, Copies
    <3>2. QED
      BY <1>2, <2>1, <2>2, <3>1, HeapFacts, Places DEF Tenured, Copies
  <2>3. CASE ~ArenaIncludes(object)
    BY <1>2, <2>1, <2>3, ArenaObject DEF Tenured, Valid
  <2>4. QED
    BY <1>2, <2>2, <2>3 DEF ToBeMoved
<1>3. QED
  BY <1>1, <1>2


(* The steps that deal with them, and those that leave their labels. *)
EmbedStep ==
  \/ \E o \in 0 .. NumOffsets - 1, r \in 0 .. NumRoots - 1 : EmbedLiteral(o, r)
  \/ \E o \in 0 .. NumOffsets - 1, r \in 0 .. NumRoots - 1 : EmbedClassCheck(o, r)
  \/ \E r \in 0 .. NumRoots - 1 : Nativize(r)
  \/ \E r \in 0 .. NumRoots - 1 : FillLookupCache(r)

HostStep ==
  \/ EmbedStep \/ PurgeLiteral \/ FollowCodeCacheReferences
  \/ FlipSpaces \/ FixReferencesFromNativeMethods

HostPlace ==
  /\ pc \in CacheLabels => pc' \in CacheLabels
  /\ pc \in (MethodLabels \ CacheLabels) \cup {"moveLiteralsReferences"} => UNCHANGED <<pc, i>>
  /\ pc' \in {"mutator", "purgeLiteralsReferences"} =>
       pc \in {"mutator", "purgeLiteralsReferences", "cleanRememberedSet"}
  /\ pc' = "cleanRememberedSet" => pc = "cleanRememberedSet"
  /\ pc = "fixReferencesFromNativeMethods" => pc' = "fixReferencesFromNativeMethods"

LEMMA OtherSteps ==
  ASSUME [Next]_vars, ~HostStep
  PROVE  UNCHANGED hostVars /\ HostPlace
<1> USE DEF HostPlace, CacheLabels, CheckLabels, MethodLabels
<1>1. CASE Mutator
  <2>1. pc = "mutator" /\ pc' = "mutator"
    BY <1>1 DEF Mutator, Allocate, Store, Load, Drop, Take, SetTemporary, EmbedLiteral,
                EmbedClassCheck, Nativize, FillLookupCache, Operation, controlVars
  <2>2. UNCHANGED hostVars
    BY <1>1 DEF Mutator, HostStep, EmbedStep, Allocate, Store, Load, Drop, Take, SetTemporary
  <2>3. QED
    BY <2>1, <2>2
<1>2. CASE StartScavenge \/ LiteralsReferencesPurged \/ PurgeRemembered \/ RememberedSetPurged
  BY <1>2 DEF StartScavenge, LiteralsReferencesPurged, PurgeRemembered, RememberedSetPurged,
              Proceed, At, GoTo
<1>3. CASE FollowRemembered \/ RememberedSetFollowed \/ FollowStack
  BY <1>3 DEF FollowRemembered, RememberedSetFollowed, FollowStack, Proceed, At, GoTo
<1>4. CASE FollowCountStartingAt \/ UNCHANGED vars
  BY <1>4 DEF FollowCountStartingAt, ScanOutside, ScanProxy, ScanCopy, ScanPop, Scanning, controlVars,
              vars
<1>5. CASE RescueEphemerons
  <2>1. UNCHANGED hostVars
    BY <1>5 DEF RescueEphemerons, LookForEphemerons, FollowEphemeron, CollectUnknown, Rescan,
         RescueUnknowns, RescueEphemeron, AddRescued, UnknownsRescued, EphemeronsDecided, RescueStep
  <2>2. /\ pc \in {"rescueEphemerons", "collectUnknowns", "rescueEphemeron", "addRescued"}
        /\ pc' \in {"rescueEphemerons", "collectUnknowns", "rescueEphemeron", "addRescued",
                    "makeRescuedEphemeronsNonWeak"}
    BY <1>5 DEF RescueEphemerons, LookForEphemerons, FollowEphemeron, CollectUnknown, Rescan,
         RescueUnknowns, RescueEphemeron, AddRescued, UnknownsRescued, EphemeronsDecided, At, GoTo
  <2>3. QED
    BY <2>1, <2>2
<1>6. CASE MakeRescuedEphemeronsNonWeak \/ FixWeakContainers \/ CleanRemembered \/ EndScavenge
  BY <1>6 DEF MakeRescuedEphemeronsNonWeak, FixWeakContainers, CleanRemembered, EndScavenge, At, GoTo
<1>7. QED
  BY <1>1, <1>2, <1>3, <1>4, <1>5, <1>6 DEF Next, Collector, HostStep

LEMMA CodeRowKept ==
  ASSUME HeapInv, [Next]_vars, ~HostStep
  PROVE  slots'[CodeCache] = slots[CodeCache]
<1>1. CASE slots' = slots
  BY <1>1
<1>2. CASE Mutator
  <2>1. CASE \E kind \in Kinds, hash \in 1 .. SemiSize + OldSize, r \in 0 .. NumRoots - 1 :
               Allocate(kind, hash, r)
    BY <2>1, AllocateFacts, HeapFacts, Layout DEF Special
  <2>2. CASE \/ \E r, q \in 0 .. NumRoots - 1, k \in StoredSlots : Store(r, k, slots[Stack][q])
             \/ \E r \in 0 .. NumRoots - 1, k \in StoredSlots : Store(r, k, Nil)
    BY <2>2, TemporaryValid, StoredTo, HeapFacts DEF Valid
  <2>3. CASE \/ \E r, q \in 0 .. NumRoots - 1, k \in StoredSlots : Load(r, k, q)
             \/ \E r \in 0 .. NumRoots - 1 : Drop(r)
             \/ \E r \in 0 .. NumRoots - 1 : Take(r)
    <3>1. PICK r, v : slots' = [slots EXCEPT ![Stack][r] = v]
      BY <2>3 DEF Load, Drop, Take, SetTemporary
    <3>2. QED
      BY <3>1, HeapFacts DEF IsSlots
  <2>4. QED
    BY <1>2, <2>1, <2>2, <2>3 DEF Mutator, HostStep, EmbedStep
<1>3. CASE AddRescued \/ FixWeakContainers \/ ScanProxy
  BY <1>3, AddRescuedFacts, FixWeakFacts, ProxyFacts, ScanningFacts, HeapFacts DEF ScanProxy
<1>4. CASE ScanCopy
  <2>1. Scanning
    BY <1>4 DEF ScanCopy
  <2>2. CodeCache # Destination(Scanned) /\ CodeCache # scan.objects /\ CodeCache \in Address
    BY <1>4, <2>1, ScanCopies, ScanningFacts, HeapFacts DEF Copying, Relocates, Special
  <2>3. QED
    BY <1>4, <2>2, ScanCopies
<1>5. CASE \/ StartScavenge \/ LiteralsReferencesPurged \/ PurgeRemembered \/ RememberedSetPurged
           \/ FollowRemembered \/ RememberedSetFollowed \/ FollowStack \/ ScanOutside \/ ScanPop
           \/ MakeRescuedEphemeronsNonWeak \/ CleanRemembered \/ EndScavenge \/ UNCHANGED vars
  BY <1>5 DEF StartScavenge, LiteralsReferencesPurged, PurgeRemembered, RememberedSetPurged,
     FollowRemembered, RememberedSetFollowed, FollowStack, ScanOutside, ScanPop,
     MakeRescuedEphemeronsNonWeak, CleanRemembered, EndScavenge, Proceed, heapVars, vars
<1>6. CASE RescueEphemerons /\ ~AddRescued
  BY <1>6 DEF RescueEphemerons, LookForEphemerons, FollowEphemeron, CollectUnknown, Rescan,
       RescueUnknowns, RescueEphemeron, UnknownsRescued, EphemeronsDecided, heapVars
<1>7. QED
  BY <1>2, <1>3, <1>4, <1>5, <1>6 DEF Next, Collector, HostStep, FollowCountStartingAt

LEMMA OtherHost ==
  ASSUME HeapInv, [Next]_vars, ~HostStep
  PROVE  HostParts'
<1>1. /\ UNCHANGED <<literalsReferences, classCheckReferences, nativizedMethods, lookupCache, vm>>
      /\ HostPlace
  BY OtherSteps DEF hostVars
<1>2. slots'[CodeCache] = slots[CodeCache] /\ Objects \subseteq Objects'
  BY CodeRowKept, ObjectsStay DEF HostStep
<1>3. CacheKnown'
  BY <1>1, <1>2, CacheStays DEF HostPlace
<1>4. /\ pc \in CheckLabels => pc' \in CheckLabels
      /\ pc \in MethodLabels => pc' \in MethodLabels
      /\ pc \in {"moveClassCheckReferences", "moveNativizedMethods", "moveLiteralsReferences"} =>
           UNCHANGED <<pc, i>>
  BY <1>1 DEF HostPlace, CacheLabels, CheckLabels, MethodLabels
<1>5. MethodsKnown'
  <2>1. \A j \in 1 .. Len(nativizedMethods) : MethodAhead(j) => MethodAhead(j)'
    BY <1>1, <1>4 DEF MethodAhead
  <2>2. QED
    BY <1>1, <1>2, <2>1, MethodsStay
<1>6. LiteralsKnown'
  <2>1. \A j \in 1 .. Len(literalsReferences) : LiteralAhead(j) => LiteralAhead(j)'
    BY <1>1, <1>4 DEF LiteralAhead
  <2>2. QED
    BY <1>1, <1>2, <2>1, LiteralsStay
<1>7. CodeKnown'
  <2>1. ASSUME NEW o \in SlotIndex(CodeCache), LiteralKept(o)
        PROVE  LiteralKept(o)'
    BY <1>1, <1>2, <2>1 DEF LiteralKept, HostPlace
  <2>2. ASSUME NEW o \in SlotIndex(CodeCache), ClassCheckAhead(o)
        PROVE  ClassCheckAhead(o)'
    BY <1>1, <1>4, <2>2 DEF ClassCheckAhead, HostPlace
  <2>3. pc = "fixReferencesFromNativeMethods" => pc' = "fixReferencesFromNativeMethods"
    BY <1>1 DEF HostPlace
  <2>4. QED
    BY <1>2, <2>1, <2>2, <2>3, CodeStays
<1>8. QED
  BY <1>3, <1>5, <1>6, <1>7 DEF HostParts


(* The program embeds objects in native code, and caches methods. *)
LEMMA EmbedFacts ==
  ASSUME HeapInv, EmbedStep
  PROVE  /\ pc = "mutator" /\ UNCHANGED <<pc, i>> /\ Objects' = Objects
         /\ \A v \in ProgramObjects : Valid(v) /\ v \in Address /\ (IsNew(v) => Includes(fromSpace, v))
         /\ pc' \in CacheLabels /\ pc' \in CheckLabels /\ pc' \in MethodLabels
<1>1. pc = "mutator" /\ UNCHANGED <<pc, i>> /\ UNCHANGED spaceVars
  BY DEF EmbedStep, EmbedLiteral, EmbedClassCheck, Nativize, FillLookupCache, Operation, controlVars
<1>2. \A v \in ProgramObjects : Valid(v) /\ v \in Address /\ (IsNew(v) => Includes(fromSpace, v))
  BY <1>1, AtMutator, ArenaObject DEF Valid, ArenaIncludes
<1>3. QED
  BY <1>1, <1>2, SpacesSame DEF CacheLabels, CheckLabels, MethodLabels

LEMMA CodeSlotSet ==
  ASSUME HeapInv, NEW o \in 0 .. NumOffsets - 1, NEW v, slots' = [slots EXCEPT ![CodeCache][o] = v]
  PROVE  /\ o \in SlotIndex(CodeCache) /\ slots'[CodeCache][o] = v
         /\ \A p \in SlotIndex(CodeCache) \ {o} : slots'[CodeCache][p] = slots[CodeCache][p]
<1>1. o \in SlotIndex(CodeCache)
  BY Sizes, SizesAssumption DEF SlotIndex
<1>2. CodeCache \in Address /\ IsSlots(slots)
  BY HeapFacts
<1>3. slots[CodeCache] \in [SlotIndex(CodeCache) -> Address]
  BY <1>2 DEF IsSlots
<1>4. slots'[CodeCache] = [slots[CodeCache] EXCEPT ![o] = v]
  BY <1>2 DEF IsSlots
<1>5. QED
  BY <1>1, <1>3, <1>4

HostTypes == [literal : Address, offset : 0 .. NumOffsets - 1]

LEMMA HostSequences ==
  ASSUME HeapInv
  PROVE  /\ literalsReferences \in Seq(HostTypes) /\ classCheckReferences \in Seq(0 .. NumOffsets - 1)
         /\ nativizedMethods \in Seq(Address) /\ i \in Nat \ {0}
         /\ Len(literalsReferences) \in Nat /\ Len(classCheckReferences) \in Nat
         /\ Len(nativizedMethods) \in Nat
<1>1. /\ literalsReferences \in Seq(HostTypes) /\ classCheckReferences \in Seq(0 .. NumOffsets - 1)
      /\ nativizedMethods \in Seq(Address) /\ i \in Nat \ {0}
  BY DEF HeapInv, Inv, CollectorTypeOK, HostTypeOK, ControlTypeOK, HostTypes
<1>2. QED
  BY <1>1, SetOf

LEMMA EmbedLiteralHost ==
  ASSUME HeapInv, NEW o \in 0 .. NumOffsets - 1, NEW r \in 0 .. NumRoots - 1, EmbedLiteral(o, r)
  PROVE  HostParts'
<1> DEFINE literal == slots[Stack][r]
           ref == [literal |-> literal, offset |-> o]
<1>1. /\ literal \in ProgramObjects /\ slots' = [slots EXCEPT ![CodeCache][o] = literal]
      /\ UNCHANGED <<classCheckReferences, nativizedMethods, lookupCache, vm>>
      /\ literalsReferences' = IF Includes(fromSpace, literal)
                               THEN Append(literalsReferences, ref) ELSE literalsReferences
  BY DEF EmbedLiteral
<1>2. /\ pc = "mutator" /\ UNCHANGED <<pc, i>> /\ Objects' = Objects
      /\ Valid(literal) /\ literal \in Address /\ (IsNew(literal) => Includes(fromSpace, literal))
      /\ pc' \in CacheLabels /\ pc' \in MethodLabels
  BY <1>1, EmbedFacts DEF EmbedStep
<1>3. /\ slots'[CodeCache][o] = literal
      /\ \A p \in SlotIndex(CodeCache) \ {o} : slots'[CodeCache][p] = slots[CodeCache][p]
  BY <1>1, CodeSlotSet
<1>4. ref \in HostTypes /\ ref.literal = literal /\ ref.offset = o
  BY <1>2 DEF HostTypes
<1> HIDE DEF literal, ref
<1>5. /\ Len(Append(literalsReferences, ref)) = Len(literalsReferences) + 1
      /\ \A j \in 1 .. Len(literalsReferences) :
           Append(literalsReferences, ref)[j] = literalsReferences[j]
      /\ Append(literalsReferences, ref)[Len(literalsReferences) + 1] = ref
      /\ Len(literalsReferences) \in Nat
  BY <1>4, HostSequences, Appended
<1>6. CacheKnown'
  BY <1>1, <1>2, CacheStays
<1>7. MethodsKnown'
  BY <1>1, <1>2, MethodsStay DEF MethodAhead
<1>8. LiteralsKnown'
  <2>1. \A j \in 1 .. Len(literalsReferences) : Valid(literalsReferences[j].literal)
    BY DEF HeapInv, LiteralsKnown
  <2>2. ASSUME NEW j \in 1 .. Len(literalsReferences') PROVE Valid(literalsReferences'[j].literal)
    BY <1>1, <1>2, <1>4, <1>5, <2>1
  <2>3. QED
    BY <1>2, <2>2 DEF LiteralsKnown, LiteralAhead, Valid
<1>9. CodeKnown'
  <2>1. \A j \in 1 .. Len(literalsReferences) :
          j \in 1 .. Len(literalsReferences') /\ literalsReferences'[j] = literalsReferences[j]
    BY <1>1, <1>5
  <2>2. ASSUME NEW p \in SlotIndex(CodeCache) \ {o}, LiteralKept(p) PROVE LiteralKept(p)'
    BY <1>2, <1>3, <2>1, <2>2 DEF LiteralKept
  <2>3. ASSUME NEW p, ClassCheckAhead(p) PROVE ClassCheckAhead(p)'
    BY <1>1, <1>2, <2>3 DEF ClassCheckAhead
  <2>4. IsNew(literal) => LiteralKept(o)'
    BY <1>1, <1>2, <1>3, <1>4, <1>5 DEF LiteralKept
  <2>5. \A p \in SlotIndex(CodeCache) :
          \/ /\ slots'[CodeCache][p] \in Objects' \cup {Nil, Tombstone}
             /\ IsNew(slots'[CodeCache][p]) => LiteralKept(p)' \/ ClassCheckAhead(p)'
          \/ /\ slots'[CodeCache][p] = slots[CodeCache][p]
             /\ IsNew(slots[CodeCache][p]) /\ (LiteralKept(p) \/ ClassCheckAhead(p)) =>
                   LiteralKept(p)' \/ ClassCheckAhead(p)'
    BY <1>2, <1>3, <2>2, <2>3, <2>4 DEF Valid
  <2>6. QED
    BY <1>2, <2>5, CodeStays
<1>10. QED
  BY <1>6, <1>7, <1>8, <1>9 DEF HostParts

LEMMA EmbedClassCheckHost ==
  ASSUME HeapInv, NEW o \in 0 .. NumOffsets - 1, NEW r \in 0 .. NumRoots - 1, EmbedClassCheck(o, r)
  PROVE  HostParts'
<1> DEFINE class == slots[Stack][r]
<1>1. /\ class \in ProgramObjects /\ slots' = [slots EXCEPT ![CodeCache][o] = class]
      /\ UNCHANGED <<literalsReferences, nativizedMethods, lookupCache>>
      /\ classCheckReferences' = Append(classCheckReferences, o)
      /\ vm' = [vm EXCEPT !.anyCompiledMethodInFromSpace = @ \/ Includes(fromSpace, class)]
  BY DEF EmbedClassCheck
<1>2. /\ pc = "mutator" /\ UNCHANGED <<pc, i>> /\ Objects' = Objects
      /\ Valid(class) /\ (IsNew(class) => Includes(fromSpace, class))
      /\ pc' \in CacheLabels /\ pc' \in MethodLabels
  BY <1>1, EmbedFacts DEF EmbedStep
<1>3. /\ slots'[CodeCache][o] = class
      /\ \A p \in SlotIndex(CodeCache) \ {o} : slots'[CodeCache][p] = slots[CodeCache][p]
  BY <1>1, CodeSlotSet
<1> HIDE DEF class
<1>4. /\ vm'.globalCacheHasPointersToFrom = vm.globalCacheHasPointersToFrom
      /\ vm'.anyNativizedCompiledMethodInFromSpace = vm.anyNativizedCompiledMethodInFromSpace
      /\ vm'.anyCompiledMethodInFromSpace =
           (vm.anyCompiledMethodInFromSpace \/ Includes(fromSpace, class))
  BY <1>1 DEF HeapInv, Inv, CollectorTypeOK, HostTypeOK
<1>5. /\ Len(classCheckReferences') = Len(classCheckReferences) + 1
      /\ \A j \in 1 .. Len(classCheckReferences) : classCheckReferences'[j] = classCheckReferences[j]
      /\ classCheckReferences'[Len(classCheckReferences) + 1] = o
      /\ Len(classCheckReferences) \in Nat
  BY <1>1, HostSequences, Appended
<1>6. CacheKnown'
  BY <1>1, <1>2, <1>4, CacheStays
<1>7. MethodsKnown'
  BY <1>1, <1>2, <1>4, MethodsStay DEF MethodAhead
<1>8. LiteralsKnown'
  BY <1>1, <1>2, LiteralsStay DEF LiteralAhead
<1>9. CodeKnown'
  <2>1. ASSUME NEW p \in SlotIndex(CodeCache) \ {o}, LiteralKept(p) PROVE LiteralKept(p)'
    BY <1>1, <1>2, <1>3, <2>1 DEF LiteralKept
  <2>2. ASSUME NEW p, ClassCheckAhead(p) PROVE ClassCheckAhead(p)'
    <3>1. PICK j \in 1 .. Len(classCheckReferences) :
            classCheckReferences[j] = p /\ vm.anyCompiledMethodInFromSpace
      BY <1>2, <2>2 DEF ClassCheckAhead
    <3>2. j \in 1 .. Len(classCheckReferences') /\ classCheckReferences'[j] = p
      BY <1>5, <3>1
    <3>3. vm'.anyCompiledMethodInFromSpace
      BY <1>4, <3>1
    <3>4. QED
      BY <1>2, <3>2, <3>3 DEF ClassCheckAhead
  <2>3. ASSUME IsNew(class) PROVE ClassCheckAhead(o)'
    <3>1. /\ Len(classCheckReferences) + 1 \in 1 .. Len(classCheckReferences')
          /\ classCheckReferences'[Len(classCheckReferences) + 1] = o
      BY <1>5
    <3>2. vm'.anyCompiledMethodInFromSpace
      BY <1>2, <1>4, <2>3
    <3>3. QED
      BY <1>2, <3>1, <3>2 DEF ClassCheckAhead
  <2>4. \A p \in SlotIndex(CodeCache) :
          \/ /\ slots'[CodeCache][p] \in Objects' \cup {Nil, Tombstone}
             /\ IsNew(slots'[CodeCache][p]) => LiteralKept(p)' \/ ClassCheckAhead(p)'
          \/ /\ slots'[CodeCache][p] = slots[CodeCache][p]
             /\ IsNew(slots[CodeCache][p]) /\ (LiteralKept(p) \/ ClassCheckAhead(p)) =>
                   LiteralKept(p)' \/ ClassCheckAhead(p)'
    BY <1>2, <1>3, <2>1, <2>2, <2>3 DEF Valid
  <2>5. QED
    BY <1>2, <2>4, CodeStays
<1>10. QED
  BY <1>6, <1>7, <1>8, <1>9 DEF HostParts

(* Where the native code is left alone. *)
LEMMA SameCode ==
  ASSUME HeapInv, Objects \subseteq Objects', slots'[CodeCache] = slots[CodeCache],
         pc = "fixReferencesFromNativeMethods" => pc' = "fixReferencesFromNativeMethods",
         \A o \in SlotIndex(CodeCache) : LiteralKept(o) => LiteralKept(o)',
         \A o \in SlotIndex(CodeCache) : ClassCheckAhead(o) => ClassCheckAhead(o)'
  PROVE  CodeKnown'
BY CodeStays

LEMMA NativizeHost ==
  ASSUME HeapInv, NEW r \in 0 .. NumRoots - 1, Nativize(r)
  PROVE  HostParts'
<1> DEFINE method == slots[Stack][r]
<1>1. /\ method \in ProgramObjects /\ slots' = slots
      /\ UNCHANGED <<literalsReferences, classCheckReferences, lookupCache>>
      /\ nativizedMethods' = Append(nativizedMethods, method)
      /\ vm' = [vm EXCEPT !.anyNativizedCompiledMethodInFromSpace = @ \/ Includes(fromSpace, method)]
  BY DEF Nativize, heapVars
<1>2. /\ pc = "mutator" /\ UNCHANGED <<pc, i>> /\ Objects' = Objects
      /\ Valid(method) /\ method \in Address /\ (IsNew(method) => Includes(fromSpace, method))
      /\ pc' \in CacheLabels /\ pc' \in CheckLabels /\ pc' \in MethodLabels
  BY <1>1, EmbedFacts DEF EmbedStep
<1> HIDE DEF method
<1>3. /\ vm'.globalCacheHasPointersToFrom = vm.globalCacheHasPointersToFrom
      /\ vm'.anyCompiledMethodInFromSpace = vm.anyCompiledMethodInFromSpace
      /\ vm'.anyNativizedCompiledMethodInFromSpace =
           (vm.anyNativizedCompiledMethodInFromSpace \/ Includes(fromSpace, method))
  BY <1>1 DEF HeapInv, Inv, CollectorTypeOK, HostTypeOK
<1>4. /\ Len(nativizedMethods') = Len(nativizedMethods) + 1
      /\ \A j \in 1 .. Len(nativizedMethods) : nativizedMethods'[j] = nativizedMethods[j]
      /\ nativizedMethods'[Len(nativizedMethods) + 1] = method
      /\ Len(nativizedMethods) \in Nat
  BY <1>1, <1>2, HostSequences, Appended
<1>5. CacheKnown'
  BY <1>1, <1>2, <1>3, CacheStays
<1>6. MethodsKnown'
  <2>1. ASSUME NEW j \in 1 .. Len(nativizedMethods')
        PROVE  /\ Valid(nativizedMethods'[j])
               /\ IsNew(nativizedMethods'[j]) => vm'.anyNativizedCompiledMethodInFromSpace
    <3>1. CASE j = Len(nativizedMethods) + 1
      BY <1>2, <1>3, <1>4, <3>1
    <3>2. CASE j \in 1 .. Len(nativizedMethods)
      BY <1>2, <1>3, <1>4, <3>2 DEF HeapInv, MethodsKnown, MethodAhead
    <3>3. QED
      BY <1>4, <3>1, <3>2
  <2>2. QED
    BY <1>2, <2>1 DEF MethodsKnown, MethodAhead, Valid, IsNew
<1>7. LiteralsKnown'
  BY <1>1, <1>2, LiteralsStay DEF LiteralAhead
<1>8. CodeKnown'
  BY <1>1, <1>2, <1>3, SameCode DEF LiteralKept, ClassCheckAhead
<1>9. QED
  BY <1>5, <1>6, <1>7, <1>8 DEF HostParts

LEMMA FillLookupCacheHost ==
  ASSUME HeapInv, NEW r \in 0 .. NumRoots - 1, FillLookupCache(r)
  PROVE  HostParts'
<1> DEFINE method == slots[Stack][r]
<1>1. /\ method \in ProgramObjects /\ slots' = slots
      /\ UNCHANGED <<literalsReferences, classCheckReferences, nativizedMethods>>
      /\ lookupCache' = method
      /\ vm' = [vm EXCEPT !.globalCacheHasPointersToFrom = @ \/ Includes(fromSpace, method)]
  BY DEF FillLookupCache, heapVars
<1>2. /\ pc = "mutator" /\ UNCHANGED <<pc, i>> /\ Objects' = Objects
      /\ Valid(method) /\ method \in Address /\ (IsNew(method) => Includes(fromSpace, method))
      /\ pc' \in CacheLabels /\ pc' \in CheckLabels /\ pc' \in MethodLabels
  BY <1>1, EmbedFacts DEF EmbedStep
<1> HIDE DEF method
<1>3. /\ vm'.anyNativizedCompiledMethodInFromSpace = vm.anyNativizedCompiledMethodInFromSpace
      /\ vm'.anyCompiledMethodInFromSpace = vm.anyCompiledMethodInFromSpace
      /\ vm'.globalCacheHasPointersToFrom =
           (vm.globalCacheHasPointersToFrom \/ Includes(fromSpace, method))
  BY <1>1 DEF HeapInv, Inv, CollectorTypeOK, HostTypeOK
<1>4. CacheKnown'
  BY <1>1, <1>2, <1>3 DEF CacheKnown, Valid, IsNew
<1>5. MethodsKnown'
  BY <1>1, <1>2, <1>3, MethodsStay DEF MethodAhead
<1>6. LiteralsKnown'
  BY <1>1, <1>2, LiteralsStay DEF LiteralAhead
<1>7. CodeKnown'
  BY <1>1, <1>2, <1>3, SameCode DEF LiteralKept, ClassCheckAhead
<1>8. QED
  BY <1>4, <1>5, <1>6, <1>7 DEF HostParts


(* Before the remembered set is followed there are no copies in to space.   *)
LEMMA AtCode ==
  ASSUME HeapInv, pc \in RootsBefore
  PROVE  /\ ObjectsIn(toSpace) = {} /\ pc # "fixReferencesFromNativeMethods"
         /\ \A v : Valid(v) /\ IsNew(v) => ArenaIncludes(v)
<1>1. ObjectsIn(toSpace) = {}
  BY DEF RootsBefore, HeapInv, ToSpaceFilled, CopyingLabels, FixingLabels, FindingLabels,
         TraversalLabels
<1>2. QED
  BY <1>1, ArenaObject DEF RootsBefore

(* Only literals that are not new leave the list. *)
LEMMA PurgeLiteralHost ==
  ASSUME HeapInv, PurgeLiteral
  PROVE  HostParts'
<1>1. /\ pc = "purgeLiteralsReferences" /\ pc' = pc /\ i <= Len(literalsReferences)
      /\ IF ArenaIncludes(literalsReferences[i].literal)
         THEN literalsReferences' = literalsReferences
         ELSE literalsReferences' = RemoveAt(literalsReferences, i)
      /\ UNCHANGED <<slots, classCheckReferences, nativizedMethods, lookupCache, vm>>
      /\ UNCHANGED spaceVars
  BY DEF PurgeLiteral, At, heapVars
<1>2. pc \in CacheLabels /\ pc \in CheckLabels /\ pc \in MethodLabels /\ Objects' = Objects
  BY <1>1, SpacesSame DEF CacheLabels, CheckLabels, MethodLabels
<1>3. CacheKnown' /\ MethodsKnown'
  BY <1>1, <1>2, CacheStays, MethodsStay DEF MethodAhead
<1>4. i \in 1 .. Len(literalsReferences) /\ Len(literalsReferences) \in Nat
  BY <1>1, HostSequences
<1>5. /\ Len(RemoveAt(literalsReferences, i)) = Len(literalsReferences) - 1
      /\ \A k \in 1 .. Len(literalsReferences) - 1 :
           RemoveAt(literalsReferences, i)[k] =
             IF k < i THEN literalsReferences[k] ELSE literalsReferences[k + 1]
  BY <1>4, HostSequences, RemovedAt
<1>6. \A k \in 1 .. Len(literalsReferences') :
        \E j \in 1 .. Len(literalsReferences) : literalsReferences'[k] = literalsReferences[j]
  BY <1>1, <1>4, <1>5
<1>7. LiteralsKnown'
  <2>1. \A j \in 1 .. Len(literalsReferences) : Valid(literalsReferences[j].literal)
    BY DEF HeapInv, LiteralsKnown
  <2>2. \A k \in 1 .. Len(literalsReferences') : Valid(literalsReferences'[k].literal)
    BY <1>6, <2>1
  <2>3. QED
    BY <1>1, <1>2, <2>2 DEF LiteralsKnown, LiteralAhead, Valid
<1>8. ASSUME NEW j \in 1 .. Len(literalsReferences), ArenaIncludes(literalsReferences[j].literal)
      PROVE  \E k \in 1 .. Len(literalsReferences') : literalsReferences'[k] = literalsReferences[j]
  <2>1. CASE literalsReferences' = literalsReferences
    BY <2>1
  <2>2. CASE literalsReferences' = RemoveAt(literalsReferences, i) /\ j # i
    <3>1. j < i => j \in 1 .. Len(literalsReferences) - 1
      BY <1>4
    <3>2. i < j => /\ j - 1 \in 1 .. Len(literalsReferences) - 1 /\ ~(j - 1 < i)
                   /\ (j - 1) + 1 = j
      BY <1>4
    <3>3. Len(literalsReferences') = Len(literalsReferences) - 1
      BY <1>5, <2>2
    <3>4. j < i => literalsReferences'[j] = literalsReferences[j]
      BY <1>5, <2>2, <3>1
    <3>5. i < j => literalsReferences'[j - 1] = literalsReferences[j]
      BY <1>5, <2>2, <3>2
    <3>6. j < i \/ i < j
      BY <1>4, <2>2
    <3>7. QED
      BY <3>1, <3>2, <3>3, <3>4, <3>5, <3>6
  <2>3. QED
    BY <1>1, <1>8, <2>1, <2>2
<1>9. CodeKnown'
  <2>1. pc \in RootsBefore
    BY <1>1 DEF RootsBefore
  <2>2. ASSUME NEW o \in SlotIndex(CodeCache), IsNew(slots[CodeCache][o]), LiteralKept(o)
        PROVE  LiteralKept(o)'
    <3>1. PICK j \in 1 .. Len(literalsReferences) :
            literalsReferences[j].offset = o /\ literalsReferences[j].literal = slots[CodeCache][o]
      BY <1>1, <2>2 DEF LiteralKept
    <3>2. ArenaIncludes(literalsReferences[j].literal)
      BY <2>1, <2>2, <3>1, AtCode DEF HeapInv, LiteralsKnown
    <3>3. PICK k \in 1 .. Len(literalsReferences') : literalsReferences'[k] = literalsReferences[j]
      BY <1>8, <3>2
    <3>4. QED
      BY <1>1, <3>1, <3>3 DEF LiteralKept
  <2>3. ASSUME NEW o, ClassCheckAhead(o) PROVE ClassCheckAhead(o)'
    BY <1>1, <2>3 DEF ClassCheckAhead
  <2>4. QED
    BY <1>1, <1>2, <2>2, <2>3, CodeStays
<1>10. QED
  BY <1>3, <1>7, <1>9 DEF HostParts

LEMMA ClearCacheHost ==
  ASSUME HeapInv, ClearGlobalLookupCache
  PROVE  HostParts'
<1>1. /\ pc = "followCodeCacheReferences" /\ i' = 1
      /\ pc' = (IF vm.anyCompiledMethodInFromSpace THEN "moveClassCheckReferences"
                                                   ELSE "checkNativizedMethods")
      /\ lookupCache' = IF vm.globalCacheHasPointersToFrom THEN Nil ELSE lookupCache
      /\ vm' = [vm EXCEPT !.globalCacheHasPointersToFrom = FALSE]
      /\ UNCHANGED <<slots, spaceVars, literalsReferences, classCheckReferences, nativizedMethods>>
  BY DEF ClearGlobalLookupCache, At, GoTo, heapVars
<1>2. /\ pc \in CacheLabels /\ pc \in CheckLabels /\ pc' \in CheckLabels /\ pc' \in MethodLabels
      /\ Objects' = Objects
  BY <1>1, SpacesSame DEF CacheLabels, CheckLabels, MethodLabels
<1>3. /\ vm'.anyCompiledMethodInFromSpace = vm.anyCompiledMethodInFromSpace
      /\ vm'.anyNativizedCompiledMethodInFromSpace = vm.anyNativizedCompiledMethodInFromSpace
  BY <1>1 DEF HeapInv, Inv, CollectorTypeOK, HostTypeOK
<1>4. CacheKnown'
  <2>1. Valid(lookupCache) /\ (IsNew(lookupCache) => vm.globalCacheHasPointersToFrom)
    BY DEF HeapInv, CacheKnown
  <2>2. ~IsNew(Nil) /\ Valid(Nil)
    BY Layout DEF IsNew, Valid
  <2>3. Valid(lookupCache') /\ ~IsNew(lookupCache')
    BY <1>1, <2>1, <2>2
  <2>4. QED
    BY <1>2, <2>3 DEF CacheKnown, Valid, IsNew
<1>5. MethodsKnown'
  BY <1>1, <1>2, <1>3, MethodsStay DEF MethodAhead
<1>6. LiteralsKnown'
  BY <1>1, <1>2, LiteralsStay DEF LiteralAhead
<1>7. CodeKnown'
  <2>1. ASSUME NEW o, LiteralKept(o) PROVE LiteralKept(o)'
    BY <1>1, <2>1 DEF LiteralKept
  <2>2. ASSUME NEW o, ClassCheckAhead(o) PROVE ClassCheckAhead(o)'
    BY <1>1, <2>2 DEF ClassCheckAhead
  <2>3. QED
    BY <1>1, <1>2, <2>1, <2>2, SameCode
<1>8. QED
  BY <1>4, <1>5, <1>6, <1>7 DEF HostParts

LEMMA CodeLoopsHost ==
  ASSUME HeapInv,
         ClassCheckReferencesMoved \/ CheckNativizedMethods \/ NativizedMethodsMoved
           \/ LiteralsReferencesMoved
  PROVE  HostParts'
<1>1. /\ UNCHANGED <<slots, spaceVars, literalsReferences, classCheckReferences, nativizedMethods,
                     lookupCache>>
      /\ i' = 1
  BY DEF ClassCheckReferencesMoved, CheckNativizedMethods, NativizedMethodsMoved,
         LiteralsReferencesMoved, Proceed, GoTo, heapVars, hostVars
<1>2. Objects' = Objects
  BY <1>1, SpacesSame
<1>3. /\ pc \in {"moveClassCheckReferences", "checkNativizedMethods", "moveNativizedMethods",
                 "moveLiteralsReferences"}
      /\ pc' \in {"checkNativizedMethods", "moveNativizedMethods", "moveLiteralsReferences",
                  "followRememberedSet"}
      /\ pc \notin CacheLabels
  BY DEF ClassCheckReferencesMoved, CheckNativizedMethods, NativizedMethodsMoved,
         LiteralsReferencesMoved, Proceed, At, GoTo, CacheLabels
<1>4. vm'.globalCacheHasPointersToFrom = vm.globalCacheHasPointersToFrom
  BY DEF ClassCheckReferencesMoved, CheckNativizedMethods, NativizedMethodsMoved,
         LiteralsReferencesMoved, Proceed, hostVars, HeapInv, Inv, CollectorTypeOK, HostTypeOK
<1>5. CacheKnown'
  BY <1>1, <1>2, <1>3, <1>4, CacheStays
<1>6. i \in Nat /\ Len(nativizedMethods) \in Nat /\ Len(literalsReferences) \in Nat
      /\ Len(classCheckReferences) \in Nat
  BY HostSequences
<1>7. MethodsKnown'
  <2>1. ASSUME NEW j \in 1 .. Len(nativizedMethods), MethodAhead(j)
        PROVE  MethodAhead(j)'
    <3>1. CASE ClassCheckReferencesMoved
      <4>1. /\ pc' = "checkNativizedMethods" /\ pc = "moveClassCheckReferences"
            /\ vm' = [vm EXCEPT !.anyCompiledMethodInFromSpace = FALSE]
        BY <3>1 DEF ClassCheckReferencesMoved, At, GoTo
      <4>2. vm.anyNativizedCompiledMethodInFromSpace
        BY <2>1, <4>1 DEF MethodAhead
      <4>3. vm'.anyNativizedCompiledMethodInFromSpace
        BY <4>1, <4>2 DEF HeapInv, Inv, CollectorTypeOK, HostTypeOK
      <4>4. QED
        BY <4>1, <4>3 DEF MethodAhead, CheckLabels
    <3>2. CASE CheckNativizedMethods
      BY <1>1, <2>1, <3>2 DEF CheckNativizedMethods, At, GoTo, MethodAhead
    <3>3. CASE NativizedMethodsMoved \/ LiteralsReferencesMoved
      <4>1. pc \notin CheckLabels /\ (pc = "moveNativizedMethods" => i > Len(nativizedMethods))
        BY <3>3 DEF NativizedMethodsMoved, LiteralsReferencesMoved, Proceed, At, CheckLabels, CacheLabels
      <4>2. QED
        BY <1>6, <2>1, <4>1 DEF MethodAhead
    <3>4. QED
      BY <3>1, <3>2, <3>3
  <2>2. QED
    BY <1>1, <1>2, <2>1, MethodsStay
<1>8. LiteralsKnown'
  <2>1. ASSUME NEW j \in 1 .. Len(literalsReferences), LiteralAhead(j)
        PROVE  LiteralAhead(j)'
    <3>1. CASE LiteralsReferencesMoved
      <4>1. pc \notin MethodLabels /\ i > Len(literalsReferences)
        BY <3>1 DEF LiteralsReferencesMoved, Proceed, At, MethodLabels, CheckLabels, CacheLabels
      <4>2. QED
        BY <1>6, <2>1, <4>1 DEF LiteralAhead
    <3>2. CASE ~LiteralsReferencesMoved
      <4>1. pc' \in {"checkNativizedMethods", "moveNativizedMethods", "moveLiteralsReferences"}
        BY <3>2 DEF ClassCheckReferencesMoved, CheckNativizedMethods, NativizedMethodsMoved,
                    Proceed, At, GoTo
      <4>2. QED
        BY <1>1, <4>1 DEF LiteralAhead, MethodLabels, CheckLabels
    <3>3. QED
      BY <3>1, <3>2
  <2>2. QED
    BY <1>1, <1>2, <2>1, LiteralsStay
<1>9. CodeKnown'
  <2>1. ASSUME NEW o, LiteralKept(o) PROVE LiteralKept(o)'
    BY <1>1, <1>3, <2>1 DEF LiteralKept
  <2>2. ASSUME NEW o, ClassCheckAhead(o) PROVE FALSE
    <3>1. PICK j \in 1 .. Len(classCheckReferences) : pc = "moveClassCheckReferences" /\ i <= j
      BY <1>3, <2>2 DEF ClassCheckAhead
    <3>2. i > Len(classCheckReferences)
      BY <3>1 DEF ClassCheckReferencesMoved, CheckNativizedMethods, NativizedMethodsMoved,
                  LiteralsReferencesMoved, Proceed, At
    <3>3. QED
      BY <1>6, <3>1, <3>2
  <2>3. QED
    BY <1>1, <1>2, <1>3, <2>1, <2>2, SameCode
<1>10. QED
  BY <1>5, <1>7, <1>8, <1>9 DEF HostParts


(* Where followCodeCacheReferences tenures what it looks at. *)
LEMMA TenuredAt ==
  ASSUME HeapInv, pc \in RootsBefore, NEW object, Valid(object), Tenure(object),
         \A a \in Address \ {CodeCache} : slots'[a] = SlotsWithTenured(object)[a]
  PROVE  /\ Objects \subseteq Objects'
         /\ Tenured(object) \in Objects' \cup {Nil, Tombstone} /\ ~IsNew(Tenured(object))
         /\ \A v : Valid(v) => v \in Objects' \cup {Nil, Tombstone}
<1>1. ObjectsIn(toSpace) = {}
  BY AtCode
<1>2. Tenured(object) \in Objects' \cup {Nil, Tombstone} /\ ~IsNew(Tenured(object))
  BY <1>1, TenuredFacts
<1>3. Objects \subseteq Objects'
  BY TenureCopies, CopyingFacts, SpacesSame
<1>4. QED
  BY <1>2, <1>3 DEF Valid

LEMMA MoveClassCheckHost ==
  ASSUME HeapInv, MoveClassCheckReference
  PROVE  HostParts'
<1> DEFINE offset == classCheckReferences[i]
           object == slots[CodeCache][offset]
<1>1. /\ pc = "moveClassCheckReferences" /\ pc' = pc /\ i' = i + 1
      /\ UNCHANGED <<classCheckReferences, literalsReferences, nativizedMethods, lookupCache, vm>>
  BY DEF MoveClassCheckReference, At, Iterate
<1>2. /\ offset \in SlotIndex(CodeCache) /\ i \in 1 .. Len(classCheckReferences)
      /\ Valid(object) /\ Tenure(object)
      /\ \A a \in Address \ {CodeCache} : slots'[a] = SlotsWithTenured(object)[a]
      /\ slots'[CodeCache][offset] = Tenured(object)
      /\ \A o \in SlotIndex(CodeCache) \ {offset} : slots'[CodeCache][o] = slots[CodeCache][o]
  BY ClassCheckFacts
<1> HIDE DEF object
<1>3. /\ Objects \subseteq Objects'
      /\ Tenured(object) \in Objects' \cup {Nil, Tombstone} /\ ~IsNew(Tenured(object))
  BY <1>1, <1>2, TenuredAt DEF RootsBefore
<1> HIDE DEF offset
<1>4. CacheKnown'
  BY <1>1, <1>3, CacheStays DEF CacheLabels
<1>5. MethodsKnown'
  BY <1>1, <1>3, MethodsStay DEF MethodAhead, CheckLabels, CacheLabels
<1>6. LiteralsKnown'
  BY <1>1, <1>3, LiteralsStay DEF LiteralAhead, MethodLabels, CheckLabels
<1>7. CodeKnown'
  <2>1. ASSUME NEW o \in SlotIndex(CodeCache) \ {offset}, LiteralKept(o) PROVE LiteralKept(o)'
    BY <1>1, <2>1 DEF LiteralKept
  <2>2. ASSUME NEW o \in SlotIndex(CodeCache) \ {offset}, ClassCheckAhead(o)
        PROVE  ClassCheckAhead(o)'
    <3>1. PICK j \in 1 .. Len(classCheckReferences) : classCheckReferences[j] = o /\ i <= j
      BY <1>1, <2>2 DEF ClassCheckAhead, CacheLabels
    <3>2. j # i
      BY <2>2, <3>1 DEF offset
    <3>3. i + 1 <= j
      BY <1>2, <3>1, <3>2, HostSequences
    <3>4. QED
      BY <1>1, <3>1, <3>3 DEF ClassCheckAhead
  <2>3. \A o \in SlotIndex(CodeCache) :
          \/ /\ slots'[CodeCache][o] \in Objects' \cup {Nil, Tombstone}
             /\ IsNew(slots'[CodeCache][o]) => LiteralKept(o)' \/ ClassCheckAhead(o)'
          \/ /\ slots'[CodeCache][o] = slots[CodeCache][o]
             /\ IsNew(slots[CodeCache][o]) /\ (LiteralKept(o) \/ ClassCheckAhead(o)) =>
                   LiteralKept(o)' \/ ClassCheckAhead(o)'
    BY <1>2, <1>3, <2>1, <2>2
  <2>4. QED
    BY <1>1, <1>3, <2>3, CodeStays
<1>8. QED
  BY <1>4, <1>5, <1>6, <1>7 DEF HostParts

(* The other two leave the native code alone. *)
LEMMA CodeRowTenured ==
  ASSUME HeapInv, NEW object, slots' = SlotsWithTenured(object)
  PROVE  slots'[CodeCache] = slots[CodeCache]
<1>1. IsSlots(slots) /\ CodeCache \in Address /\ oldSpace.nextFree # CodeCache
  BY HeapFacts, Bounds, Layout
<1>2. QED
  BY <1>1 DEF SlotsWithTenured, IsSlots

LEMMA MoveNativizedHost ==
  ASSUME HeapInv, MoveNativizedMethod
  PROVE  HostParts'
<1> DEFINE object == nativizedMethods[i]
<1>1. /\ pc = "moveNativizedMethods" /\ pc' = pc /\ i' = i + 1
      /\ UNCHANGED <<classCheckReferences, literalsReferences, lookupCache, vm>>
  BY DEF MoveNativizedMethod, At, Iterate
<1>2. /\ i \in 1 .. Len(nativizedMethods) /\ Valid(object) /\ Tenure(object)
      /\ slots' = SlotsWithTenured(object)
      /\ nativizedMethods' = [nativizedMethods EXCEPT ![i] = Tenured(object)]
  BY NativizedFacts
<1> HIDE DEF object
<1>3. /\ Objects \subseteq Objects'
      /\ Tenured(object) \in Objects' \cup {Nil, Tombstone} /\ ~IsNew(Tenured(object))
      /\ \A v : Valid(v) => v \in Objects' \cup {Nil, Tombstone}
      /\ slots'[CodeCache] = slots[CodeCache]
  BY <1>1, <1>2, TenuredAt, CodeRowTenured DEF RootsBefore
<1>4. CacheKnown'
  BY <1>1, <1>3, CacheStays DEF CacheLabels
<1>5. MethodsKnown'
  <2>1. /\ Len(nativizedMethods') = Len(nativizedMethods)
        /\ nativizedMethods'[i] = Tenured(object)
        /\ \A j \in 1 .. Len(nativizedMethods) : j # i => nativizedMethods'[j] = nativizedMethods[j]
    <3>1. nativizedMethods \in [1 .. Len(nativizedMethods) -> Address]
      BY HostSequences
    <3>2. Len(nativizedMethods') = Len(nativizedMethods)
      BY <1>2, HostSequences
    <3>3. QED
      BY <1>2, <3>1, <3>2
  <2>2. \A j \in 1 .. Len(nativizedMethods) :
          /\ Valid(nativizedMethods[j])
          /\ IsNew(nativizedMethods[j]) => i <= j
    BY <1>1 DEF HeapInv, MethodsKnown, MethodAhead, CheckLabels, CacheLabels
  <2>3. ASSUME NEW j \in 1 .. Len(nativizedMethods')
        PROVE  /\ nativizedMethods'[j] \in Objects' \cup {Nil, Tombstone}
               /\ IsNew(nativizedMethods'[j]) => i + 1 <= j
    <3>1. CASE j = i
      BY <1>3, <2>1, <3>1
    <3>2. CASE j # i
      <4>1. nativizedMethods'[j] = nativizedMethods[j] /\ j \in 1 .. Len(nativizedMethods)
        BY <2>1, <2>3, <3>2
      <4>2. i <= j => i + 1 <= j
        BY <1>2, <2>3, <3>2
      <4>3. QED
        BY <1>3, <2>2, <4>1, <4>2
    <3>3. QED
      BY <3>1, <3>2
  <2>4. QED
    BY <1>1, <2>3 DEF MethodsKnown, MethodAhead, Valid, IsNew
<1>6. LiteralsKnown'
  BY <1>1, <1>3, LiteralsStay DEF LiteralAhead, MethodLabels, CheckLabels
<1>7. CodeKnown'
  BY <1>1, <1>3, SameCode DEF LiteralKept, ClassCheckAhead, CacheLabels
<1>8. QED
  BY <1>4, <1>5, <1>6, <1>7 DEF HostParts

LEMMA MoveLiteralHost ==
  ASSUME HeapInv, MoveLiteralReference
  PROVE  HostParts'
<1> DEFINE object == literalsReferences[i].literal
<1>1. /\ pc = "moveLiteralsReferences" /\ pc' = pc /\ i' = i + 1
      /\ UNCHANGED <<classCheckReferences, nativizedMethods, lookupCache, vm>>
  BY DEF MoveLiteralReference, At, Iterate
<1>2. /\ i \in 1 .. Len(literalsReferences) /\ Valid(object) /\ Tenure(object)
      /\ slots' = SlotsWithTenured(object)
      /\ literalsReferences' = [literalsReferences EXCEPT ![i].literal = Tenured(object)]
  BY LiteralFacts
<1> HIDE DEF object
<1>3. /\ Objects \subseteq Objects'
      /\ Tenured(object) \in Objects' \cup {Nil, Tombstone} /\ ~IsNew(Tenured(object))
      /\ \A v : Valid(v) => v \in Objects' \cup {Nil, Tombstone}
      /\ slots'[CodeCache] = slots[CodeCache]
  BY <1>1, <1>2, TenuredAt, CodeRowTenured DEF RootsBefore
<1>4. CacheKnown'
  BY <1>1, <1>3, CacheStays DEF CacheLabels
<1>5. MethodsKnown'
  BY <1>1, <1>3, MethodsStay DEF MethodAhead, CheckLabels, CacheLabels
<1>6. /\ Len(literalsReferences') = Len(literalsReferences)
      /\ literalsReferences'[i].literal = Tenured(object)
      /\ \A j \in 1 .. Len(literalsReferences) :
           /\ j # i => literalsReferences'[j] = literalsReferences[j]
           /\ literalsReferences'[j].offset = literalsReferences[j].offset
  <2>1. literalsReferences \in [1 .. Len(literalsReferences) -> HostTypes]
    BY HostSequences
  <2>2. Len(literalsReferences') = Len(literalsReferences)
    BY <1>2, HostSequences
  <2>3. literalsReferences[i] \in HostTypes
    BY <1>2, <2>1
  <2>4. literalsReferences'[i] = [literalsReferences[i] EXCEPT !.literal = Tenured(object)]
    BY <1>2, <2>1
  <2>5. /\ literalsReferences'[i].literal = Tenured(object)
        /\ literalsReferences'[i].offset = literalsReferences[i].offset
    BY <2>3, <2>4 DEF HostTypes
  <2>6. \A j \in 1 .. Len(literalsReferences) : j # i => literalsReferences'[j] = literalsReferences[j]
    BY <1>2, <2>1
  <2>7. QED
    BY <2>2, <2>5, <2>6
<1>7. LiteralsKnown'
  <2>1. \A j \in 1 .. Len(literalsReferences) :
          /\ Valid(literalsReferences[j].literal)
          /\ IsNew(literalsReferences[j].literal) => i <= j
    BY <1>1 DEF HeapInv, LiteralsKnown, LiteralAhead, MethodLabels, CheckLabels, CacheLabels
  <2>2. ASSUME NEW j \in 1 .. Len(literalsReferences')
        PROVE  /\ literalsReferences'[j].literal \in Objects' \cup {Nil, Tombstone}
               /\ IsNew(literalsReferences'[j].literal) => i + 1 <= j
    <3>1. CASE j = i
      BY <1>3, <1>6, <3>1
    <3>2. CASE j # i
      <4>1. literalsReferences'[j] = literalsReferences[j] /\ j \in 1 .. Len(literalsReferences)
        BY <1>6, <2>2, <3>2
      <4>2. i <= j => i + 1 <= j
        BY <1>2, <2>2, <3>2
      <4>3. QED
        BY <1>3, <2>1, <4>1, <4>2
    <3>3. QED
      BY <3>1, <3>2
  <2>3. QED
    BY <1>1, <2>2 DEF LiteralsKnown, LiteralAhead, Valid, IsNew
<1>8. CodeKnown'
  <2>1. ASSUME NEW o, LiteralKept(o) PROVE LiteralKept(o)'
    BY <1>1, <1>6, <2>1 DEF LiteralKept
  <2>2. ASSUME NEW o, ClassCheckAhead(o) PROVE ClassCheckAhead(o)'
    BY <1>1, <2>2 DEF ClassCheckAhead, CacheLabels
  <2>3. QED
    BY <1>1, <1>3, <2>1, <2>2, SameCode
<1>9. QED
  BY <1>4, <1>5, <1>7, <1>8 DEF HostParts


LEMMA FlipSpacesHost ==
  ASSUME HeapInv, FlipSpaces
  PROVE  HostParts'
<1>1. /\ pc = "flipSpaces" /\ pc' = "fixReferencesFromNativeMethods"
      /\ UNCHANGED <<literalsReferences, nativizedMethods, lookupCache>>
  BY DEF FlipSpaces, At, GoTo, hostVars
<1>2. Objects' = Copies
  BY FlipFacts
<1>3. slots'[CodeCache] = slots[CodeCache]
  <2>1. ~ArenaIncludes(CodeCache) /\ CodeCache \in Address
    BY HeapFacts, Places DEF Special
  <2>2. QED
    BY <2>1 DEF FlipSpaces
<1>4. \A v : Valid(v) /\ ~IsNew(v) => v \in Objects' \cup {Nil, Tombstone}
  BY <1>2, ArenaObject DEF Copies
<1>5. CacheKnown'
  <2>1. lookupCache' \in Objects' \cup {Nil, Tombstone} /\ ~IsNew(lookupCache')
    BY <1>1, <1>4 DEF HeapInv, CacheKnown, CacheLabels
  <2>2. QED
    BY <2>1 DEF CacheKnown, Valid, IsNew
<1>6. MethodsKnown'
  <2>1. \A j \in 1 .. Len(nativizedMethods) :
          nativizedMethods[j] \in Objects' \cup {Nil, Tombstone} /\ ~IsNew(nativizedMethods[j])
    BY <1>1, <1>4 DEF HeapInv, MethodsKnown, MethodAhead, CheckLabels, CacheLabels
  <2>2. QED
    BY <1>1, <2>1 DEF MethodsKnown, Valid, IsNew
<1>7. LiteralsKnown'
  <2>1. \A j \in 1 .. Len(literalsReferences) :
          /\ literalsReferences[j].literal \in Objects' \cup {Nil, Tombstone}
          /\ ~IsNew(literalsReferences[j].literal)
    BY <1>1, <1>4 DEF HeapInv, LiteralsKnown, LiteralAhead, MethodLabels, CheckLabels, CacheLabels
  <2>2. QED
    BY <1>1, <2>1 DEF LiteralsKnown, Valid, IsNew
<1>8. CodeKnown'
  <2>1. ASSUME NEW o \in SlotIndex(CodeCache)
        PROVE  /\ \/ slots'[CodeCache][o] \in Objects' \cup {Nil, Tombstone}
                  \/ IsNew(slots'[CodeCache][o])
               /\ IsNew(slots'[CodeCache][o]) => LiteralKept(o)'
    <3>1. Valid(slots[CodeCache][o])
      BY <1>1 DEF HeapInv, CodeKnown
    <3>2. ~ClassCheckAhead(o)
      BY <1>1 DEF ClassCheckAhead, CacheLabels
    <3>3. IsNew(slots[CodeCache][o]) => LiteralKept(o)
      BY <3>2 DEF HeapInv, CodeKnown
    <3>4. LiteralKept(o) => LiteralKept(o)'
      BY <1>1 DEF LiteralKept
    <3>5. QED
      BY <1>3, <1>4, <3>1, <3>3, <3>4
  <2>2. \A o \in SlotIndex(CodeCache) :
          /\ \/ slots'[CodeCache][o] \in Objects' \cup {Nil, Tombstone}
             \/ IsNew(slots'[CodeCache][o])
          /\ IsNew(slots'[CodeCache][o]) => LiteralKept(o)'
    BY <2>1
  <2>3. QED
    BY <1>1, <2>2 DEF CodeKnown, Valid, IsNew
<1>9. QED
  BY <1>5, <1>6, <1>7, <1>8 DEF HostParts

(* A literal that is kept for an offset is not new any more: it is put in   *)
(* the code, or the code had nothing new there.                             *)
LEMMA FixReferencesHost ==
  ASSUME HeapInv, FixReferencesFromNativeMethods
  PROVE  HostParts'
<1>1. /\ pc = "fixReferencesFromNativeMethods" /\ pc' = "cleanRememberedSet"
      /\ UNCHANGED <<spaceVars, literalsReferences, classCheckReferences, nativizedMethods,
                     lookupCache, vm>>
      /\ slots' = [slots EXCEPT ![CodeCache] =
                     [o \in SlotIndex(CodeCache) |->
                        IF LiteralsAt(o) # {} THEN CHOOSE v \in LiteralsAt(o) : TRUE
                                              ELSE slots[CodeCache][o]]]
  BY DEF FixReferencesFromNativeMethods, At, GoTo, hostVars
<1>2. Objects' = Objects
  BY <1>1, SpacesSame
<1>3. CacheKnown'
  BY <1>1, <1>2, CacheStays DEF CacheLabels
<1>4. MethodsKnown'
  BY <1>1, <1>2, MethodsStay DEF MethodAhead, CheckLabels, CacheLabels
<1>5. LiteralsKnown'
  BY <1>1, <1>2, LiteralsStay DEF LiteralAhead, MethodLabels, CheckLabels, CacheLabels
<1>6. \A j \in 1 .. Len(literalsReferences) :
        Valid(literalsReferences[j].literal) /\ ~IsNew(literalsReferences[j].literal)
  BY <1>1 DEF HeapInv, LiteralsKnown, LiteralAhead, MethodLabels, CheckLabels, CacheLabels
<1>7. ToSet(literalsReferences) = {literalsReferences[j] : j \in 1 .. Len(literalsReferences)}
  BY HostSequences, SetOf
<1>8. ASSUME NEW o \in SlotIndex(CodeCache)
      PROVE  Valid(slots'[CodeCache][o]) /\ ~IsNew(slots'[CodeCache][o])
  <2>1. \A v \in LiteralsAt(o) : Valid(v) /\ ~IsNew(v)
    BY <1>6, <1>7 DEF LiteralsAt
  <2>2. slots'[CodeCache][o] = IF LiteralsAt(o) # {} THEN CHOOSE v \in LiteralsAt(o) : TRUE
                                                     ELSE slots[CodeCache][o]
    <3>1. IsSlots(slots) /\ CodeCache \in Address
      BY HeapFacts
    <3> DEFINE row == [p \in SlotIndex(CodeCache) |->
                         IF LiteralsAt(p) # {} THEN CHOOSE v \in LiteralsAt(p) : TRUE
                                               ELSE slots[CodeCache][p]]
    <3>2. row[o] = IF LiteralsAt(o) # {} THEN CHOOSE v \in LiteralsAt(o) : TRUE
                                         ELSE slots[CodeCache][o]
      OBVIOUS
    <3>3. slots' = [slots EXCEPT ![CodeCache] = row]
      BY <1>1
    <3> HIDE DEF row
    <3>4. slots'[CodeCache] = row
      BY <3>1, <3>3 DEF IsSlots
    <3>5. QED
      BY <3>2, <3>4
  <2>3. CASE LiteralsAt(o) # {}
    <3>1. (CHOOSE v \in LiteralsAt(o) : TRUE) \in LiteralsAt(o)
      BY <2>3
    <3>2. QED
      BY <2>1, <2>2, <2>3, <3>1
  <2>4. CASE LiteralsAt(o) = {}
    <3>1. ~LiteralKept(o)
      BY <1>7, <2>4 DEF LiteralKept, LiteralsAt
    <3>2. ~ClassCheckAhead(o)
      BY <1>1 DEF ClassCheckAhead, CacheLabels
    <3>3. ~IsNew(slots[CodeCache][o])
      BY <3>1, <3>2 DEF HeapInv, CodeKnown
    <3>4. Valid(slots[CodeCache][o])
      BY <3>3 DEF HeapInv, CodeKnown
    <3>5. QED
      BY <2>2, <2>4, <3>3, <3>4
  <2>5. QED
    BY <2>3, <2>4
<1>9. CodeKnown'
  <2>1. \A o \in SlotIndex(CodeCache) :
          slots'[CodeCache][o] \in Objects' \cup {Nil, Tombstone} /\ ~IsNew(slots'[CodeCache][o])
    BY <1>2, <1>8 DEF Valid
  <2>2. QED
    BY <2>1 DEF CodeKnown, Valid, IsNew
<1>10. QED
  BY <1>3, <1>4, <1>5, <1>9 DEF HostParts

LEMMA NextHost == HeapInv /\ [Next]_vars => HostParts'
<1> SUFFICES ASSUME HeapInv, [Next]_vars PROVE HostParts'
  OBVIOUS
<1>1. CASE ~HostStep
  BY <1>1, OtherHost
<1>2. CASE EmbedStep
  BY <1>2, EmbedLiteralHost, EmbedClassCheckHost, NativizeHost, FillLookupCacheHost DEF EmbedStep
<1>3. CASE FollowCodeCacheReferences
  BY <1>3, ClearCacheHost, CodeLoopsHost, MoveClassCheckHost, MoveNativizedHost, MoveLiteralHost
     DEF FollowCodeCacheReferences
<1>4. CASE PurgeLiteral \/ FlipSpaces \/ FixReferencesFromNativeMethods
  BY <1>4, PurgeLiteralHost, FlipSpacesHost, FixReferencesHost
<1>5. QED
  BY <1>1, <1>2, <1>3, <1>4 DEF HostStep

-----------------------------------------------------------------------------
(* The invariant holds of every behaviour. *)
LEMMA NextHeapInv == HeapInv /\ DetachedTypeOK /\ HostHasTheSet /\ [Next]_vars => HeapInv'
<1> SUFFICES ASSUME HeapInv, DetachedTypeOK, HostHasTheSet, [Next]_vars PROVE HeapInv'
  OBVIOUS
<1>1. Inv' /\ RememberedInv'
  BY NextInv, NextRemembered DEF HeapInv
<1>2. HeapParts' /\ HostParts' /\ ScansStay' /\ FoundInCopies' /\ NothingForgotten' /\ ReferersKnown'
  BY NextParts, NextHost, NextScans, NextFound, NextPending, NextReferers
<1>3. QED
  BY <1>1, <1>2 DEF HeapInv, HeapParts, HostParts

(* The invariant of a whole scavenge: of doCollect and everything it calls. *)
(* Like the four theorems that follow from it, it holds as long as no       *)
(* scavenge ends with a set that has outgrown its array (HostHasTheSet):    *)
(* the next one would be given the array that was full, and not look at the *)
(* old objects that were entered after it.                                  *)
THEOREM AlwaysHeapInv == Spec /\ []HostHasTheSet => []HeapInv
<1>1. Init => HeapInv
  BY HeapInitially
<1>2. HeapInv /\ DetachedTypeOK /\ HostHasTheSet /\ [Next]_vars => HeapInv'
  BY NextHeapInv
<1>3. QED
  BY <1>1, <1>2, AlwaysInv, PTL DEF Spec


(* As long as a slot of an object that stays refers to the space being      *)
(* emptied, some scan has it ahead, its object is still to be followed, or  *)
(* it is a weak slot among those found: neither followCountStartingAt nor   *)
(* rescueEphemerons loses one, whatever the order they meet objects in.  So *)
(* it is while the host has the whole set (HostHasTheSet).                  *)
THEOREM NoSlotIsForgotten == Spec /\ []HostHasTheSet => []NoSlotForgotten
<1>1. ASSUME HeapInv PROVE NoSlotForgotten
  <2>1. UnknownsAhead \subseteq ToSet(unknowns)
    <3>1. FirstUnknown \in Nat \ {0}
      BY <1>1 DEF FirstUnknown, HeapInv, Inv, CollectorTypeOK, ControlTypeOK
    <3>2. ToSet(unknowns) = {unknowns[j] : j \in 1 .. Len(unknowns)} /\ Len(unknowns) \in Nat
      BY <1>1, SetOf DEF HeapInv, Inv, CollectorTypeOK, LocalsTypeOK
    <3>3. \A j \in FirstUnknown .. Len(unknowns) : j \in 1 .. Len(unknowns)
      BY <3>1, <3>2
    <3>4. QED
      BY <3>2, <3>3 DEF UnknownsAhead
  <2>2. ASSUME NEW a, NEW k, WeakAhead(a, k) PROVE WeakSlotKnown(a, k)
    <3>1. CASE header[a].isEphemeron
      <4>1. KindOf(a) = "ephemeron"
        BY <2>2, <3>1 DEF KindOf, WeakAhead
      <4>2. QED
        BY <2>1, <2>2, <3>1, <4>1 DEF WeakSlotKnown, WeakAhead
    <3>2. CASE ~header[a].isEphemeron
      <4>1. KindOf(a) = "weak"
        BY <2>2, <3>2 DEF KindOf, WeakAhead
      <4>2. QED
        BY <2>2, <3>2, <4>1 DEF WeakSlotKnown, WeakAhead
    <3>3. QED
      BY <3>1, <3>2
  <2>3. ObjectsIn(toSpace) \cup OldObjects \cup {Stack} \subseteq Staying
    BY DEF Staying, Copies, OldObjects
  <2>4. ASSUME BeforeFlip, NEW a \in Staying, NEW k \in SlotIndex(a), ArenaIncludes(slots[a][k])
        PROVE  ScanAhead(a, k) \/ ToBeFollowed(a) \/ WeakSlotKnown(a, k)
    BY <1>1, <2>2, <2>4 DEF HeapInv, NothingForgotten, Pending
  <2>5. QED
    BY <2>3, <2>4 DEF NoSlotForgotten
<1>2. QED
  BY <1>1, AlwaysHeapInv, PTL

(* What the write barrier, purgeRememberedSet, holdReferenceTo and          *)
(* cleanRememberedSet leave to the next scavenge: between collections every *)
(* old object with a reference to a new one is in the remembered set, if no *)
(* scavenge ended with a set that had outgrown its array (HostHasTheSet).   *)
THEOREM RememberedForTheNext == Spec /\ []HostHasTheSet => []RememberedSetComplete
<1>1. ASSUME HeapInv PROVE RememberedSetComplete
  <2>1. SUFFICES ASSUME pc = "mutator", NEW a \in OldObjects, NEW k \in SlotIndex(a),
                        ArenaIncludes(slots[a][k])
                 PROVE  a \in ToSet(rememberedSet)
    BY DEF RememberedSetComplete
  <2>2. a \in Objects \cup {RescuedArray, Stack}
    BY DEF OldObjects, Objects, Copies
  <2>3. IsNew(slots[a][k])
    BY <1>1, <2>1, <2>2, ReadValid, ArenaObject
  <2>4. ~QueueToBeHeld
    BY <2>1 DEF QueueToBeHeld
  <2>5. QED
    BY <1>1, <2>1, <2>3, <2>4 DEF HeapInv, ReferersKnown
<1>2. QED
  BY <1>1, AlwaysHeapInv, PTL

(* Between collections no slot, literal, class check, cached or nativized   *)
(* method refers to memory without an object: a scavenge changes every      *)
(* reference to what it moved.  So it is while the host has the whole set   *)
(* (HostHasTheSet): a slot of an old object that is not in it is not seen.  *)
THEOREM NothingDangles == Spec /\ []HostHasTheSet => []NoDanglingReference
<1>1. ASSUME HeapInv PROVE NoDanglingReference
  <2>1. SUFFICES ASSUME pc = "mutator"
                 PROVE  /\ \A a \in ProgramObjects \cup {Stack, RescuedArray, CodeCache} :
                             \A k \in SlotIndex(a) : ValidReference(slots[a][k])
                        /\ \A j \in DOMAIN nativizedMethods : ValidReference(nativizedMethods[j])
                        /\ \A j \in DOMAIN literalsReferences :
                             ValidReference(literalsReferences[j].literal)
                        /\ ValidReference(lookupCache)
    BY DEF NoDanglingReference
  <2>2. Objects = ProgramObjects
    BY <1>1, <2>1, AtMutator
  <2>3. \A v : Valid(v) => ValidReference(v)
    BY <2>2 DEF Valid, ValidReference
  <2>4. \A a \in ProgramObjects \cup {Stack, RescuedArray} : \A k \in SlotIndex(a) : Valid(slots[a][k])
    BY <1>1, <2>2, ReadValid
  <2>5. \A k \in SlotIndex(CodeCache) : Valid(slots[CodeCache][k])
    BY <1>1, <2>1 DEF HeapInv, CodeKnown
  <2>6. /\ \A j \in DOMAIN nativizedMethods : Valid(nativizedMethods[j])
        /\ \A j \in DOMAIN literalsReferences : Valid(literalsReferences[j].literal)
    <3>1. /\ DOMAIN nativizedMethods = 1 .. Len(nativizedMethods)
          /\ DOMAIN literalsReferences = 1 .. Len(literalsReferences)
      BY <1>1, HostSequences
    <3>2. QED
      BY <1>1, <3>1 DEF HeapInv, MethodsKnown, LiteralsKnown
  <2>7. Valid(lookupCache)
    BY <1>1 DEF HeapInv, CacheKnown
  <2>8. QED
    BY <2>3, <2>4, <2>5, <2>6, <2>7
<1>2. QED
  BY <1>1, AlwaysHeapInv, PTL

(* All references to an object end up at the same copy: an identity hash    *)
(* never names two objects outside of the space being emptied, while the    *)
(* host has the whole set (HostHasTheSet).                                  *)
THEOREM NothingDuplicated == Spec /\ []HostHasTheSet => []NoObjectDuplicated
<1>1. ASSUME HeapInv PROVE NoObjectDuplicated
  <2>1. CASE BeforeFlip /\ pc # "mutator"
    <3>1. ObjectsIn(toSpace) \cup ObjectsIn(oldSpace) \subseteq Standing
      BY DEF Standing, Copies
    <3>2. QED
      BY <1>1, <2>1, <3>1 DEF HeapInv, HashesDistinct, NoObjectDuplicated
  <2>2. CASE ~(BeforeFlip /\ pc # "mutator")
    <3>1. ~BeforeFlip
      BY <2>2 DEF BeforeFlip
    <3>2. \A a \in ObjectsIn(fromSpace) : ~IsProxy(a)
      BY <1>1, <3>1 DEF HeapInv, ProxiesLead, IsProxy
    <3>3. ProgramObjects \subseteq Standing
      BY <3>2 DEF ProgramObjects, Standing, Copies
    <3>4. QED
      BY <1>1, <2>2, <3>3 DEF HeapInv, HashesDistinct, NoObjectDuplicated
  <2>3. QED
    BY <2>1, <2>2
<1>2. QED
  BY <1>1, AlwaysHeapInv, PTL

=============================================================================
