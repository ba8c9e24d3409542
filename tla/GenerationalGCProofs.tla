------------------------ MODULE GenerationalGCProofs ------------------------
(***************************************************************************)
(* Theorems about the scavenger: its types, that the traversal stays inside*)
(* of what it scans, and the remembered set: the flag in the header of an  *)
(* object and the set always say the same.                                 *)
(***************************************************************************)
EXTENDS GenerationalGC, SequenceTheorems, TLAPS

(* While an ephemeron is rescued it is one of the unknowns. *)
RescuesAnUnknown == pc = "addRescued" => i <= Len(unknowns)

(* The inductive invariant.  What the program and the traversal write is    *)
(* typed only as long as the slots they read exist, so the types need the   *)
(* bounds of the scans; the scan of an ephemeron needs that there is one.   *)
Inv == CollectorTypeOK /\ ScansInside /\ RescuesAnUnknown

-----------------------------------------------------------------------------
(* The addresses and the sizes of what is there. *)
LEMMA Layout ==
  /\ NewBase1 \in Nat /\ NewBase2 \in Nat /\ OldBase \in Nat
  /\ NewBase1 = 1 /\ NewBase2 = SemiSize + 1 /\ OldBase = 2 * SemiSize + 1
  /\ SemiSize \in Nat \ {0} /\ OldSize \in Nat \ {0}
  /\ Address = -4 .. OldBase + OldSize - 1
  /\ Address \subseteq Int
  /\ {Nil, Tombstone, Stack, RescuedArray, CodeCache} \subseteq Address
  /\ Nil = 0 /\ Tombstone = -1 /\ Stack = -2 /\ RescuedArray = -3 /\ CodeCache = -4
BY SizesAssumption
   DEF NewBase1, NewBase2, OldBase, Address, Nil, Tombstone, Stack, RescuedArray, CodeCache

LEMMA Sizes ==
  /\ \A a \in Address : Size(a) \in Nat
  /\ \A a \in Address : a >= -1 => Size(a) = NumSlots
  /\ Size(Stack) = NumRoots
  /\ Size(RescuedArray) = RescuedSize + 1
  /\ Size(CodeCache) = NumOffsets
<1>1. Stack # RescuedArray /\ Stack # CodeCache /\ RescuedArray # CodeCache
  BY Layout
<1>2. \A a \in Address : a >= -1 => a # Stack /\ a # RescuedArray /\ a # CodeCache
  BY Layout
<1>3. NumRoots \in Nat /\ RescuedSize + 1 \in Nat /\ NumOffsets \in Nat /\ NumSlots \in Nat
  BY SizesAssumption
<1>4. Size(Stack) = NumRoots
  BY <1>1 DEF Size
<1>5. Size(RescuedArray) = RescuedSize + 1
  BY <1>1 DEF Size
<1>6. Size(CodeCache) = NumOffsets
  BY <1>1 DEF Size
<1>7. \A a \in Address : a # Stack /\ a # RescuedArray /\ a # CodeCache => Size(a) = NumSlots
  BY DEF Size
<1>8. QED
  BY <1>2, <1>3, <1>4, <1>5, <1>6, <1>7

(* Where the objects that a space includes are. *)
LEMMA SpaceAddresses ==
  ASSUME SpacesTypeOK
  PROVE  /\ \A a \in Int : ArenaIncludes(a) => a \in Address /\ a > 0
         /\ ProgramObjects \subseteq Address
         /\ \A a \in ProgramObjects : a > 0
         /\ fromSpace.nextFree \in Nat /\ toSpace.nextFree \in Nat /\ oldSpace.nextFree \in Nat
         /\ fromSpace.nextFree < fromSpace.limit =>
              fromSpace.nextFree \in Address /\ fromSpace.nextFree > 0
         /\ toSpace.nextFree < toSpace.limit =>
              toSpace.nextFree \in Address /\ toSpace.nextFree > 0
         /\ oldSpace.nextFree < oldSpace.limit =>
              oldSpace.nextFree \in Address /\ oldSpace.nextFree > 0
<1>1. /\ fromSpace.base \in Int /\ fromSpace.limit = fromSpace.base + SemiSize
      /\ fromSpace.nextFree \in Nat /\ fromSpace.nextFree <= fromSpace.limit
      /\ fromSpace.base > 0 /\ fromSpace.limit <= OldBase /\ fromSpace.base <= fromSpace.nextFree
  BY Layout DEF SpacesTypeOK, IsSpace, Space
<1>2. /\ toSpace.base \in Int /\ toSpace.limit = toSpace.base + SemiSize
      /\ toSpace.nextFree \in Nat /\ toSpace.nextFree <= toSpace.limit
      /\ toSpace.base > 0 /\ toSpace.limit <= OldBase /\ toSpace.base <= toSpace.nextFree
  BY Layout DEF SpacesTypeOK, IsSpace, Space
<1>3. /\ oldSpace.base = OldBase /\ oldSpace.limit = OldBase + OldSize
      /\ oldSpace.nextFree \in Nat /\ oldSpace.nextFree <= oldSpace.limit
      /\ OldBase <= oldSpace.nextFree
  BY DEF SpacesTypeOK, IsSpace, Space
<1>4. \A a \in Int : ArenaIncludes(a) => a \in Address /\ a > 0
  BY <1>1, Layout DEF ArenaIncludes, Includes
<1>5. ASSUME NEW a \in ProgramObjects PROVE a \in Address /\ a > 0
  BY <1>1, <1>3, Layout DEF ProgramObjects, ObjectsIn
<1>6. fromSpace.nextFree < fromSpace.limit =>
        fromSpace.nextFree \in Address /\ fromSpace.nextFree > 0
  BY <1>1, Layout
<1>7. toSpace.nextFree < toSpace.limit =>
        toSpace.nextFree \in Address /\ toSpace.nextFree > 0
  BY <1>2, Layout
<1>8. oldSpace.nextFree < oldSpace.limit =>
        oldSpace.nextFree \in Address /\ oldSpace.nextFree > 0
  BY <1>3, Layout
<1>9. QED
  BY <1>1, <1>2, <1>3, <1>4, <1>5, <1>6, <1>7, <1>8

(* Writing a slot, and copying the slots of an object to another one. *)
LEMMA SlotWritten ==
  ASSUME NEW f, IsSlots(f), NEW a, NEW k, NEW v \in Address
  PROVE  IsSlots([f EXCEPT ![a][k] = v])
<1> DEFINE g == [f EXCEPT ![a][k] = v]
<1>1. g = [b \in Address |-> IF b = a THEN [f[a] EXCEPT ![k] = v] ELSE f[b]]
  BY DEF IsSlots
<1>2. ASSUME NEW b \in Address
      PROVE  g[b] \in [SlotIndex(b) -> Address]
  BY <1>1, <1>2 DEF IsSlots
<1>3. QED
  BY <1>1, <1>2 DEF IsSlots

LEMMA SlotsCopied ==
  ASSUME NEW f, IsSlots(f), NEW a \in Address, NEW row \in [SlotIndex(a) -> Address]
  PROVE  IsSlots([f EXCEPT ![a] = row])
<1> DEFINE g == [f EXCEPT ![a] = row]
<1>1. g = [b \in Address |-> IF b = a THEN row ELSE f[b]]
  BY DEF IsSlots
<1>2. \A b \in Address : g[b] \in [SlotIndex(b) -> Address]
  BY <1>1 DEF IsSlots
<1>3. QED
  BY <1>1, <1>2 DEF IsSlots

LEMMA SlotRead ==
  ASSUME NEW f, IsSlots(f), NEW a \in Address, NEW k \in SlotIndex(a)
  PROVE  f[a][k] \in Address
BY DEF IsSlots

LEMMA EmptySlotsTyped ==
  ASSUME NEW a \in Address
  PROVE  EmptySlots(a) \in [SlotIndex(a) -> Address]
BY Layout DEF EmptySlots

(* Sequences of the model. *)
LEMMA WithoutTyped ==
  ASSUME NEW S, NEW s \in Seq(S), NEW j \in Nat \ {0}, j <= Len(s)
  PROVE  RemoveAt(s, j) \in Seq(S)
<1>1. Len(s) \in Nat /\ \A k \in 1 .. Len(s) : s[k] \in S
  BY ElementOfSeq
<1>2. SubSeq(s, 1, j - 1) \in Seq(S)
  BY <1>1, SubSeqProperties
<1>3. SubSeq(s, j + 1, Len(s)) \in Seq(S)
  BY <1>1, SubSeqProperties
<1>4. QED
  BY <1>2, <1>3, ConcatProperties DEF RemoveAt

LEMMA LastAndFront ==
  ASSUME NEW S, NEW s \in Seq(S), s # << >>
  PROVE  /\ Len(s) \in Nat \ {0}
         /\ Last(s) \in S
         /\ Front(s) \in Seq(S)
         /\ Len(Front(s)) = Len(s) - 1
         /\ \A j \in 1 .. Len(s) - 1 : Front(s)[j] = s[j]
<1>1. Len(s) \in Nat /\ Len(s) # 0 /\ \A k \in 1 .. Len(s) : s[k] \in S
  BY ElementOfSeq, EmptySeq
<1>2. /\ Front(s) \in Seq(S)
      /\ Len(Front(s)) = Len(s) - 1
      /\ \A j \in 1 .. Len(s) - 1 : Front(s)[j] = s[j]
  <2>1. Len(s) - 1 \in Nat /\ \A k \in 1 .. Len(s) - 1 : s[k] \in S
    BY <1>1
  <2>2. /\ SubSeq(s, 1, Len(s) - 1) \in Seq(S)
        /\ Len(SubSeq(s, 1, Len(s) - 1)) = IF 1 <= Len(s) - 1 THEN Len(s) - 1 - 1 + 1 ELSE 0
        /\ \A j \in 1 .. Len(s) - 1 - 1 + 1 : SubSeq(s, 1, Len(s) - 1)[j] = s[1 + j - 1]
    BY <2>1, SubSeqProperties
  <2>3. Len(Front(s)) = Len(s) - 1
    <3>1. CASE 1 <= Len(s) - 1
      BY <1>1, <2>2, <3>1 DEF Front
    <3>2. CASE ~(1 <= Len(s) - 1)
      <4>1. Len(s) - 1 = 0
        BY <1>1, <3>2
      <4>2. QED
        BY <2>2, <3>2, <4>1 DEF Front
    <3>3. QED
      BY <3>1, <3>2
  <2>4. ASSUME NEW j \in 1 .. Len(s) - 1 PROVE Front(s)[j] = s[j]
    <3>1. j \in 1 .. Len(s) - 1 - 1 + 1 /\ 1 + j - 1 = j
      BY <1>1
    <3>2. QED
      BY <2>2, <3>1 DEF Front
  <2>5. QED
    BY <2>2, <2>3, <2>4 DEF Front
<1>3. QED
  BY <1>1, <1>2 DEF Last

-----------------------------------------------------------------------------
(* The initial state. *)
LEMMA Initially == Init => Inv
<1> SUFFICES ASSUME Init PROVE Inv
  OBVIOUS
<1>1. HeapTypeOK
  <2>1. FreeHeader \in Header
    BY Layout DEF FreeHeader, Header
  <2>2. header \in [Address -> Header]
    BY <2>1 DEF Init
  <2>3. slots = [a \in Address |-> EmptySlots(a)]
    BY DEF Init
  <2>4. IsSlots(slots)
    BY <2>3, EmptySlotsTyped DEF IsSlots
  <2>5. QED
    BY <2>2, <2>4 DEF HeapTypeOK
<1>2. SpacesTypeOK
  BY Layout DEF Init, SpacesTypeOK, IsSpace, Space, NewSpace
<1>3. HostTypeOK
  BY Layout, EmptySeq, SizesAssumption DEF Init, HostTypeOK
<1>4. LocalsTypeOK
  BY Layout, EmptySeq, SizesAssumption DEF Init, LocalsTypeOK, NoScan, Scan
<1>5. ControlTypeOK
  <2>1. rescan = FALSE /\ anyRescued = FALSE /\ i = 1 /\ pc = "mutator" /\ ops = 0
    BY DEF Init
  <2>2. "mutator" \in Labels
    BY DEF Labels
  <2>3. 0 \in 0 .. MaxOps
    BY SizesAssumption
  <2>4. rescan \in BOOLEAN /\ anyRescued \in BOOLEAN
    BY <2>1
  <2>5. i \in Nat \ {0} /\ pc \in Labels /\ ops \in 0 .. MaxOps
    BY <2>1, <2>2, <2>3
  <2>6. QED
    BY <2>4, <2>5 DEF ControlTypeOK
<1>6. ScansInside
  BY Sizes, SizesAssumption, EmptySeq DEF Init, ScansInside, Inside, NoScan
<1>7. RescuesAnUnknown
  BY DEF Init, RescuesAnUnknown
<1>8. QED
  BY <1>1, <1>2, <1>3, <1>4, <1>5, <1>6, <1>7 DEF Inv, CollectorTypeOK

-----------------------------------------------------------------------------
(* Headers. *)
LEMMA HeaderFlags ==
  ASSUME NEW h \in Header, NEW b \in BOOLEAN
  PROVE  /\ [h EXCEPT !.inRememberedSet = b] \in Header
         /\ [h EXCEPT !.hasWeaks = b] \in Header
         /\ [h EXCEPT !.secondGeneration = TRUE, !.inRememberedSet = FALSE] \in Header
BY DEF Header

LEMMA FreeHeaderTyped == FreeHeader \in Header
BY Layout DEF FreeHeader, Header

LEMMA NewHeader ==
  ASSUME NEW h \in Nat, NEW w \in BOOLEAN, NEW e \in BOOLEAN
  PROVE  [FreeHeader EXCEPT !.hash = h, !.hasWeaks = w, !.isEphemeron = e] \in Header
BY Layout DEF FreeHeader, Header

(* A space from which one more object was allocated. *)
LEMMA Allocated ==
  ASSUME NEW space, NEW n, IsSpace(space, n), space.nextFree < space.limit
  PROVE  /\ IsSpace([space EXCEPT !.nextFree = space.nextFree + 1], n)
         /\ [space EXCEPT !.nextFree = space.nextFree + 1].base = space.base
<1> DEFINE after == [space EXCEPT !.nextFree = space.nextFree + 1]
<1>1. space \in Space
  BY DEF IsSpace
<1>2. after = [base |-> space.base, nextFree |-> space.nextFree + 1, limit |-> space.limit]
  BY <1>1 DEF Space
<1>3. space.base \in Address /\ space.nextFree \in Nat /\ space.limit \in Nat
  BY <1>1 DEF Space
<1>4. after \in Space
  BY <1>2, <1>3 DEF Space
<1>5. /\ after.base = space.base /\ after.limit = space.limit
      /\ after.nextFree = space.nextFree + 1
  BY <1>2
<1>6. after.base <= after.nextFree /\ after.nextFree <= after.limit
  BY <1>3, <1>5, Layout DEF IsSpace
<1>7. QED
  BY <1>4, <1>5, <1>6 DEF IsSpace

LEMMA FlagSet ==
  ASSUME header \in [Address -> Header], NEW a, NEW b \in BOOLEAN
  PROVE  [header EXCEPT ![a].inRememberedSet = b] \in [Address -> Header]
BY HeaderFlags

-----------------------------------------------------------------------------
(* The operations of the program. *)
LEMMA OperationKeeps ==
  ASSUME Inv, Operation
  PROVE  LocalsTypeOK' /\ ControlTypeOK' /\ ScansInside' /\ RescuesAnUnknown'
<1>1. LocalsTypeOK'
  BY DEF Inv, CollectorTypeOK, LocalsTypeOK, Operation, localVars, scanVars
<1>2. ops' \in 0 .. MaxOps
  BY SizesAssumption DEF Inv, CollectorTypeOK, ControlTypeOK, Operation
<1>3. ControlTypeOK'
  BY <1>2 DEF Inv, CollectorTypeOK, ControlTypeOK, Operation, controlVars
<1>4. ScansInside'
  BY DEF Inv, ScansInside, Inside, Operation, scanVars
<1>5. RescuesAnUnknown'
  BY DEF Inv, RescuesAnUnknown, Operation, controlVars, localVars
<1>6. QED
  BY <1>1, <1>3, <1>4, <1>5

LEMMA AllocateInv ==
  ASSUME Inv, NEW kind \in Kinds, NEW hash \in 1 .. SemiSize + OldSize,
         NEW r \in 0 .. NumRoots - 1, Allocate(kind, hash, r)
  PROVE  HeapTypeOK' /\ SpacesTypeOK' /\ HostTypeOK'
<1> DEFINE new == fromSpace.nextFree
<1>1. /\ new < fromSpace.limit /\ fromSpace' = [fromSpace EXCEPT !.nextFree = new + 1]
      /\ UNCHANGED <<toSpace, oldSpace, rememberedSet, hostVars, rescuedCount>>
  BY DEF Allocate
<1>2. new \in Address /\ new \in Nat
  BY <1>1, SpaceAddresses DEF Inv, CollectorTypeOK
<1>3. [FreeHeader EXCEPT !.hash = hash, !.hasWeaks = (kind # "plain"),
                         !.isEphemeron = (kind = "ephemeron")] \in Header
  <2>1. hash \in Nat /\ (kind # "plain") \in BOOLEAN /\ (kind = "ephemeron") \in BOOLEAN
    BY SizesAssumption
  <2>2. QED
    BY <2>1, NewHeader
<1>4. header' \in [Address -> Header]
  BY <1>2, <1>3 DEF Allocate, Inv, CollectorTypeOK, HeapTypeOK
<1>5. IsSlots([slots EXCEPT ![new] = EmptySlots(new)])
  BY <1>2, SlotsCopied, EmptySlotsTyped DEF Inv, CollectorTypeOK, HeapTypeOK
<1>6. slots' = [[slots EXCEPT ![new] = EmptySlots(new)] EXCEPT ![Stack][r] = new]
  BY DEF Allocate
<1>7. IsSlots(slots')
  BY <1>2, <1>5, <1>6, SlotWritten
<1>8. SpacesTypeOK'
  BY <1>1, <1>2, Allocated DEF Inv, CollectorTypeOK, SpacesTypeOK
<1>9. HostTypeOK'
  BY <1>1 DEF Inv, CollectorTypeOK, HostTypeOK, hostVars
<1>10. QED
  BY <1>4, <1>7, <1>8, <1>9 DEF HeapTypeOK

(* A temporary refers to an object: the object has the slots that the       *)
(* program stores to and loads from.                                        *)
LEMMA TemporaryRead ==
  ASSUME Inv, NEW r \in 0 .. NumRoots - 1
  PROVE  slots[Stack][r] \in Address
<1>1. r \in SlotIndex(Stack)
  BY Sizes, SizesAssumption DEF SlotIndex
<1>2. QED
  BY <1>1, Layout, SlotRead DEF Inv, CollectorTypeOK, HeapTypeOK

LEMMA StoreInv ==
  ASSUME Inv, NEW r \in 0 .. NumRoots - 1, NEW k \in StoredSlots, NEW v \in Address,
         Store(r, k, v)
  PROVE  HeapTypeOK' /\ SpacesTypeOK' /\ HostTypeOK'
<1> DEFINE a == slots[Stack][r]
<1>1. a \in Address
  BY TemporaryRead
<1>2. IsSlots(slots')
  BY SlotWritten DEF Store, Inv, CollectorTypeOK, HeapTypeOK
<1>3. header' \in [Address -> Header] /\ rememberedSet' \in Seq(Address)
  <2>1. WriteBarrier(a, v)
    BY DEF Store
  <2>2. header \in [Address -> Header] /\ rememberedSet \in Seq(Address)
    BY DEF Inv, CollectorTypeOK, HeapTypeOK, HostTypeOK
  <2>3. [header EXCEPT ![a].inRememberedSet = TRUE] \in [Address -> Header]
    BY <2>2, FlagSet
  <2>4. Append(rememberedSet, a) \in Seq(Address)
    BY <1>1, <2>2, AppendProperties
  <2>5. QED
    BY <2>1, <2>2, <2>3, <2>4 DEF WriteBarrier
<1>4. SpacesTypeOK'
  BY DEF Store, spaceVars, Inv, CollectorTypeOK, SpacesTypeOK
<1>5. HostTypeOK'
  BY <1>3 DEF Store, hostVars, Inv, CollectorTypeOK, HostTypeOK
<1>6. QED
  BY <1>2, <1>3, <1>4, <1>5 DEF HeapTypeOK

LEMMA SetTemporaryInv ==
  ASSUME Inv, NEW r, NEW v \in Address, SetTemporary(r, v), rescuedCount' \in 0 .. RescuedSize
  PROVE  HeapTypeOK' /\ SpacesTypeOK' /\ HostTypeOK'
<1>1. IsSlots(slots')
  BY SlotWritten DEF SetTemporary, Inv, CollectorTypeOK, HeapTypeOK
<1>2. HeapTypeOK'
  BY <1>1 DEF SetTemporary, Inv, CollectorTypeOK, HeapTypeOK
<1>3. SpacesTypeOK'
  BY DEF SetTemporary, spaceVars, Inv, CollectorTypeOK, SpacesTypeOK
<1>4. HostTypeOK'
  BY DEF SetTemporary, hostVars, Inv, CollectorTypeOK, HostTypeOK
<1>5. QED
  BY <1>2, <1>3, <1>4

LEMMA LoadInv ==
  ASSUME Inv, NEW r \in 0 .. NumRoots - 1, NEW k \in StoredSlots, NEW q, Load(r, k, q)
  PROVE  HeapTypeOK' /\ SpacesTypeOK' /\ HostTypeOK'
<1>1. slots[Stack][r] \in Address /\ slots[Stack][r] > 0
  BY SpaceAddresses DEF Load, Inv, CollectorTypeOK
<1>2. k \in SlotIndex(slots[Stack][r])
  BY <1>1, Sizes, Layout, StoredSlotsAssumption DEF SlotIndex
<1>3. slots[slots[Stack][r]][k] \in Address
  BY <1>1, <1>2, SlotRead DEF Inv, CollectorTypeOK, HeapTypeOK
<1>4. rescuedCount' \in 0 .. RescuedSize
  BY DEF Load, Inv, CollectorTypeOK, HostTypeOK
<1>5. QED
  BY <1>3, <1>4, SetTemporaryInv DEF Load

LEMMA TakeInv ==
  ASSUME Inv, NEW r, Take(r)
  PROVE  HeapTypeOK' /\ SpacesTypeOK' /\ HostTypeOK'
<1>1. rescuedCount \in 1 .. RescuedSize /\ rescuedCount' \in 0 .. RescuedSize
  BY SizesAssumption DEF Take, Inv, CollectorTypeOK, HostTypeOK
<1>2. rescuedCount \in SlotIndex(RescuedArray)
  BY <1>1, Sizes, SizesAssumption DEF SlotIndex
<1>3. slots[RescuedArray][rescuedCount] \in Address
  BY <1>2, SlotRead, Layout DEF Inv, CollectorTypeOK, HeapTypeOK
<1>4. QED
  BY <1>1, <1>3, SetTemporaryInv DEF Take

LEMMA EmbedLiteralInv ==
  ASSUME Inv, NEW o \in 0 .. NumOffsets - 1, NEW r \in 0 .. NumRoots - 1, EmbedLiteral(o, r)
  PROVE  HeapTypeOK' /\ SpacesTypeOK' /\ HostTypeOK'
<1>1. slots[Stack][r] \in Address
  BY TemporaryRead
<1>2. IsSlots(slots')
  BY <1>1, SlotWritten DEF EmbedLiteral, Inv, CollectorTypeOK, HeapTypeOK
<1>3. HeapTypeOK'
  BY <1>2 DEF EmbedLiteral, Inv, CollectorTypeOK, HeapTypeOK
<1>4. SpacesTypeOK'
  BY DEF EmbedLiteral, spaceVars, Inv, CollectorTypeOK, SpacesTypeOK
<1>5. literalsReferences' \in Seq([literal : Address, offset : 0 .. NumOffsets - 1])
  BY <1>1, AppendProperties DEF EmbedLiteral, Inv, CollectorTypeOK, HostTypeOK
<1>6. HostTypeOK'
  BY <1>5 DEF EmbedLiteral, Inv, CollectorTypeOK, HostTypeOK
<1>7. QED
  BY <1>3, <1>4, <1>6

LEMMA EmbedClassCheckInv ==
  ASSUME Inv, NEW o \in 0 .. NumOffsets - 1, NEW r \in 0 .. NumRoots - 1, EmbedClassCheck(o, r)
  PROVE  HeapTypeOK' /\ SpacesTypeOK' /\ HostTypeOK'
<1>1. slots[Stack][r] \in Address
  BY TemporaryRead
<1>2. IsSlots(slots')
  BY <1>1, SlotWritten DEF EmbedClassCheck, Inv, CollectorTypeOK, HeapTypeOK
<1>3. HeapTypeOK'
  BY <1>2 DEF EmbedClassCheck, Inv, CollectorTypeOK, HeapTypeOK
<1>4. SpacesTypeOK'
  BY DEF EmbedClassCheck, spaceVars, Inv, CollectorTypeOK, SpacesTypeOK
<1>5. classCheckReferences' \in Seq(0 .. NumOffsets - 1)
  BY AppendProperties DEF EmbedClassCheck, Inv, CollectorTypeOK, HostTypeOK
<1>6. vm' \in [globalCacheHasPointersToFrom : BOOLEAN, anyCompiledMethodInFromSpace : BOOLEAN,
              anyNativizedCompiledMethodInFromSpace : BOOLEAN]
  BY DEF EmbedClassCheck, Inv, CollectorTypeOK, HostTypeOK
<1>7. HostTypeOK'
  BY <1>5, <1>6 DEF EmbedClassCheck, Inv, CollectorTypeOK, HostTypeOK
<1>8. QED
  BY <1>3, <1>4, <1>7

LEMMA NativizeInv ==
  ASSUME Inv, NEW r \in 0 .. NumRoots - 1, Nativize(r)
  PROVE  HeapTypeOK' /\ SpacesTypeOK' /\ HostTypeOK'
<1>1. slots[Stack][r] \in Address
  BY TemporaryRead
<1>2. HeapTypeOK' /\ SpacesTypeOK'
  BY DEF Nativize, heapVars, spaceVars, Inv, CollectorTypeOK, HeapTypeOK, SpacesTypeOK
<1>3. nativizedMethods' \in Seq(Address)
  BY <1>1, AppendProperties DEF Nativize, Inv, CollectorTypeOK, HostTypeOK
<1>4. vm' \in [globalCacheHasPointersToFrom : BOOLEAN, anyCompiledMethodInFromSpace : BOOLEAN,
              anyNativizedCompiledMethodInFromSpace : BOOLEAN]
  BY DEF Nativize, Inv, CollectorTypeOK, HostTypeOK
<1>5. HostTypeOK'
  BY <1>3, <1>4 DEF Nativize, Inv, CollectorTypeOK, HostTypeOK
<1>6. QED
  BY <1>2, <1>5

LEMMA FillLookupCacheInv ==
  ASSUME Inv, NEW r \in 0 .. NumRoots - 1, FillLookupCache(r)
  PROVE  HeapTypeOK' /\ SpacesTypeOK' /\ HostTypeOK'
<1>1. slots[Stack][r] \in Address
  BY TemporaryRead
<1>2. HeapTypeOK' /\ SpacesTypeOK'
  BY DEF FillLookupCache, heapVars, spaceVars, Inv, CollectorTypeOK, HeapTypeOK, SpacesTypeOK
<1>3. vm' \in [globalCacheHasPointersToFrom : BOOLEAN, anyCompiledMethodInFromSpace : BOOLEAN,
              anyNativizedCompiledMethodInFromSpace : BOOLEAN]
  BY DEF FillLookupCache, Inv, CollectorTypeOK, HostTypeOK
<1>4. HostTypeOK'
  BY <1>1, <1>3 DEF FillLookupCache, Inv, CollectorTypeOK, HostTypeOK
<1>5. QED
  BY <1>2, <1>4

LEMMA MutatorInv == Inv /\ Mutator => Inv'
<1> SUFFICES ASSUME Inv, Mutator PROVE Inv'
  OBVIOUS
<1>1. Operation
  BY DEF Mutator, Allocate, Store, Load, Drop, Take, SetTemporary, EmbedLiteral,
         EmbedClassCheck, Nativize, FillLookupCache
<1>2. HeapTypeOK' /\ SpacesTypeOK' /\ HostTypeOK'
  <2>1. CASE \E kind \in Kinds, hash \in 1 .. SemiSize + OldSize, r \in 0 .. NumRoots - 1 :
               Allocate(kind, hash, r)
    BY <2>1, AllocateInv
  <2>2. CASE \E r, q \in 0 .. NumRoots - 1, k \in StoredSlots : Store(r, k, slots[Stack][q])
    BY <2>2, StoreInv, TemporaryRead
  <2>3. CASE \E r \in 0 .. NumRoots - 1, k \in StoredSlots : Store(r, k, Nil)
    BY <2>3, StoreInv, Layout
  <2>4. CASE \E r, q \in 0 .. NumRoots - 1, k \in StoredSlots : Load(r, k, q)
    BY <2>4, LoadInv
  <2>5. CASE \E r \in 0 .. NumRoots - 1 : Drop(r)
    <3>1. PICK r \in 0 .. NumRoots - 1 : Drop(r)
      BY <2>5
    <3>2. rescuedCount' \in 0 .. RescuedSize
      BY <3>1 DEF Drop, Inv, CollectorTypeOK, HostTypeOK
    <3>3. QED
      BY <3>1, <3>2, SetTemporaryInv, Layout DEF Drop
  <2>6. CASE \E r \in 0 .. NumRoots - 1 : Take(r)
    BY <2>6, TakeInv
  <2>7. CASE \E o \in 0 .. NumOffsets - 1, r \in 0 .. NumRoots - 1 : EmbedLiteral(o, r)
    BY <2>7, EmbedLiteralInv
  <2>8. CASE \E o \in 0 .. NumOffsets - 1, r \in 0 .. NumRoots - 1 : EmbedClassCheck(o, r)
    BY <2>8, EmbedClassCheckInv
  <2>9. CASE \E r \in 0 .. NumRoots - 1 : Nativize(r)
    BY <2>9, NativizeInv
  <2>10. CASE \E r \in 0 .. NumRoots - 1 : FillLookupCache(r)
    BY <2>10, FillLookupCacheInv
  <2>11. QED
    BY <2>1, <2>2, <2>3, <2>4, <2>5, <2>6, <2>7, <2>8, <2>9, <2>10 DEF Mutator
<1>3. QED
  BY <1>1, <1>2, OperationKeeps DEF Inv, CollectorTypeOK

-----------------------------------------------------------------------------
(* Moving an object keeps headers, spaces and remembered set typed, and the *)
(* copy is a cell of an object.                                             *)
LEMMA Copied ==
  ASSUME header \in [Address -> Header], NEW object \in Address, NEW copy \in Address,
         NEW flags \in Header, CopyTo(object, copy, flags)
  PROVE  header' \in [Address -> Header]
<1>1. [header EXCEPT ![copy] = flags] \in [Address -> Header]
  OBVIOUS
<1>2. \A h \in Header : [h EXCEPT !.proxee = copy] \in Header
  BY DEF Header
<1>3. header' = [[header EXCEPT ![copy] = flags] EXCEPT ![object].proxee = copy]
  BY DEF CopyTo
<1>4. QED
  BY <1>1, <1>2, <1>3

LEMMA MoveToOldTyped ==
  ASSUME Inv, NEW object \in Address, MoveToOldSpace(object)
  PROVE  /\ oldSpace.nextFree \in Address /\ oldSpace.nextFree > 0
         /\ header' \in [Address -> Header]
         /\ SpacesTypeOK'
         /\ rememberedSet' \in Seq(Address)
<1>1. oldSpace.nextFree \in Address /\ oldSpace.nextFree > 0
  BY SpaceAddresses DEF MoveToOldSpace, Inv, CollectorTypeOK
<1>2. header' \in [Address -> Header]
  <2>1. header \in [Address -> Header] /\ header[object] \in Header
    BY DEF Inv, CollectorTypeOK, HeapTypeOK
  <2>2. [header[object] EXCEPT !.inRememberedSet = TRUE] \in Header
    BY <2>1, HeaderFlags
  <2>3. QED
    BY <1>1, <2>1, <2>2, Copied DEF MoveToOldSpace
<1>3. SpacesTypeOK'
  BY Allocated DEF MoveToOldSpace, Inv, CollectorTypeOK, SpacesTypeOK
<1>4. rememberedSet' \in Seq(Address)
  BY <1>1, AppendProperties DEF MoveToOldSpace, Inv, CollectorTypeOK, HostTypeOK
<1>5. QED
  BY <1>1, <1>2, <1>3, <1>4

LEMMA MoveToToTyped ==
  ASSUME Inv, NEW object \in Address, MoveToToSpace(object)
  PROVE  /\ toSpace.nextFree \in Address /\ toSpace.nextFree > 0
         /\ header' \in [Address -> Header]
         /\ SpacesTypeOK'
         /\ rememberedSet' \in Seq(Address)
<1>1. toSpace.nextFree \in Address /\ toSpace.nextFree > 0
  BY SpaceAddresses DEF MoveToToSpace, Inv, CollectorTypeOK
<1>2. header' \in [Address -> Header]
  <2>1. header \in [Address -> Header] /\ header[object] \in Header
    BY DEF Inv, CollectorTypeOK, HeapTypeOK
  <2>2. [header[object] EXCEPT !.secondGeneration = TRUE, !.inRememberedSet = FALSE] \in Header
    BY <2>1, HeaderFlags
  <2>3. QED
    BY <1>1, <2>1, <2>2, Copied DEF MoveToToSpace
<1>3. SpacesTypeOK'
  BY Allocated DEF MoveToToSpace, Inv, CollectorTypeOK, SpacesTypeOK
<1>4. rememberedSet' \in Seq(Address)
  BY DEF MoveToToSpace, Inv, CollectorTypeOK, HostTypeOK
<1>5. QED
  BY <1>1, <1>2, <1>3, <1>4

LEMMA MoveTyped ==
  ASSUME Inv, NEW object \in Address, MoveToOldOrTo(object)
  PROVE  /\ Destination(object) \in Address /\ Destination(object) > 0
         /\ header' \in [Address -> Header]
         /\ SpacesTypeOK'
         /\ rememberedSet' \in Seq(Address)
BY MoveToOldTyped, MoveToToTyped DEF MoveToOldOrTo, Destination

(* The slots of an object, copied to the cell of another one. *)
LEMMA ObjectCopied ==
  ASSUME IsSlots(slots), NEW object \in Address, NEW copy \in Address, object > 0, copy > 0
  PROVE  IsSlots([slots EXCEPT ![copy] = slots[object]])
<1>1. SlotIndex(copy) = SlotIndex(object)
  BY Sizes, Layout DEF SlotIndex
<1>2. slots[object] \in [SlotIndex(copy) -> Address]
  BY <1>1 DEF IsSlots
<1>3. QED
  BY <1>2, SlotsCopied

LEMMA WeakRemembered ==
  ASSUME Inv, NEW original, NEW object \in Address, RememberIfWeak(original, object)
  PROVE  /\ ephemerons' \in Seq(Address) /\ weakContainers' \in Seq(Address)
         /\ unknowns' = unknowns
BY AppendProperties DEF RememberIfWeak, Inv, CollectorTypeOK, LocalsTypeOK

LEMMA ScanTyped ==
  ASSUME NEW a \in Address, NEW start \in Nat, NEW size \in Int, start - 1 + size <= Size(a),
         ScanFrom(a, start, size)
  PROVE  scan' \in Scan /\ Inside(scan')
BY DEF ScanFrom, Scan, Inside

LEMMA StrongSizeFits ==
  ASSUME NEW a \in Address
  PROVE  StrongPointersSize(a) \in Nat /\ 0 - 1 + StrongPointersSize(a) <= Size(a)
BY Sizes DEF StrongPointersSize

-----------------------------------------------------------------------------
(* The traversal. *)
LEMMA ScannedTyped ==
  ASSUME Inv, Scanning
  PROVE  /\ scan.objects \in Address /\ scan.index \in SlotIndex(scan.objects)
         /\ Scanned \in Address
         /\ Advanced \in Scan /\ Inside(Advanced)
<1>1. scan \in Scan /\ Inside(scan) /\ scan.index < scan.limit
  BY DEF Inv, CollectorTypeOK, LocalsTypeOK, ScansInside, Scanning
<1>2. /\ scan.objects \in Address /\ scan.index \in Int /\ scan.limit \in Int
      /\ -1 <= scan.index /\ scan.limit <= Size(scan.objects)
  BY <1>1 DEF Scan, Inside
<1>3. Size(scan.objects) \in Nat
  BY <1>2, Sizes
<1>4. scan.index \in SlotIndex(scan.objects)
  BY <1>1, <1>2, <1>3 DEF SlotIndex
<1>5. Scanned \in Address
  BY <1>2, <1>4, SlotRead DEF Scanned, Inv, CollectorTypeOK, HeapTypeOK
<1>6. Advanced = [objects |-> scan.objects, index |-> scan.index + 1, limit |-> scan.limit]
  BY <1>1 DEF Advanced, Scan
<1>7. Advanced \in Scan /\ Inside(Advanced)
  BY <1>2, <1>6 DEF Scan, Inside
<1>8. QED
  BY <1>2, <1>4, <1>5, <1>7

LEMMA ScanOutsideInv == Inv /\ ScanOutside => Inv'
<1> SUFFICES ASSUME Inv, ScanOutside PROVE Inv'
  OBVIOUS
<1>1. scan' \in Scan /\ Inside(scan')
  BY ScannedTyped DEF ScanOutside
<1>2. HeapTypeOK' /\ SpacesTypeOK' /\ HostTypeOK'
  BY DEF ScanOutside, Scanning, heapVars, spaceVars, hostVars, Inv, CollectorTypeOK, HeapTypeOK,
         SpacesTypeOK, HostTypeOK
<1>3. LocalsTypeOK' /\ ScansInside'
  BY <1>1 DEF ScanOutside, localVars, Inv, CollectorTypeOK, LocalsTypeOK, ScansInside
<1>4. ControlTypeOK' /\ RescuesAnUnknown'
  BY DEF ScanOutside, Scanning, localVars, controlVars, Inv, CollectorTypeOK, ControlTypeOK,
         RescuesAnUnknown
<1>5. QED
  BY <1>2, <1>3, <1>4 DEF Inv, CollectorTypeOK

LEMMA ScanProxyInv == Inv /\ ScanProxy => Inv'
<1> SUFFICES ASSUME Inv, ScanProxy PROVE Inv'
  OBVIOUS
<1>1. scan' \in Scan /\ Inside(scan') /\ Scanned \in Address
  BY ScannedTyped DEF ScanProxy
<1>2. header[Scanned].proxee \in Address
  BY <1>1 DEF Inv, CollectorTypeOK, HeapTypeOK, Header
<1>3. HeapTypeOK'
  BY <1>2, SlotWritten DEF ScanProxy, Inv, CollectorTypeOK, HeapTypeOK
<1>4. SpacesTypeOK' /\ HostTypeOK'
  BY DEF ScanProxy, Scanning, spaceVars, hostVars, Inv, CollectorTypeOK, SpacesTypeOK, HostTypeOK
<1>5. LocalsTypeOK' /\ ScansInside'
  BY <1>1 DEF ScanProxy, localVars, Inv, CollectorTypeOK, LocalsTypeOK, ScansInside
<1>6. ControlTypeOK' /\ RescuesAnUnknown'
  BY DEF ScanProxy, Scanning, localVars, controlVars, Inv, CollectorTypeOK, ControlTypeOK,
         RescuesAnUnknown
<1>7. QED
  BY <1>3, <1>4, <1>5, <1>6 DEF Inv, CollectorTypeOK

LEMMA ScanCopyInv == Inv /\ ScanCopy => Inv'
<1> SUFFICES ASSUME Inv, ScanCopy PROVE Inv'
  OBVIOUS
<1> DEFINE object == Scanned
           moved == Destination(object)
<1>1. /\ Scanning /\ object \in Address /\ scan.objects \in Address
      /\ Advanced \in Scan /\ Inside(Advanced)
  BY ScannedTyped DEF ScanCopy
<1>2. object > 0
  BY <1>1, SpaceAddresses, Layout DEF ScanCopy, Inv, CollectorTypeOK
<1>3. /\ moved \in Address /\ moved > 0 /\ header' \in [Address -> Header]
      /\ SpacesTypeOK' /\ rememberedSet' \in Seq(Address)
  BY <1>1, MoveTyped DEF ScanCopy
<1>4. HeapTypeOK'
  <2>1. IsSlots([slots EXCEPT ![moved] = slots[object]])
    BY <1>1, <1>2, <1>3, ObjectCopied DEF Inv, CollectorTypeOK, HeapTypeOK
  <2>2. slots' = [[slots EXCEPT ![moved] = slots[object]]
                    EXCEPT ![scan.objects][scan.index] = moved]
    BY DEF ScanCopy
  <2>3. IsSlots(slots')
    BY <1>3, <2>1, <2>2, SlotWritten
  <2>4. QED
    BY <1>3, <2>3 DEF HeapTypeOK
<1>5. HostTypeOK'
  BY <1>1, <1>3 DEF Scanning, hostVars, Inv, CollectorTypeOK, HostTypeOK
<1>6. scan' \in Scan /\ Inside(scan')
  <2>1. ScanFrom(moved, 0, StrongPointersSize(object))
    BY DEF ScanCopy
  <2>2. Size(moved) = Size(object)
    BY <1>1, <1>2, <1>3, Sizes, Layout
  <2>3. /\ StrongPointersSize(object) \in Int
        /\ 0 - 1 + StrongPointersSize(object) <= Size(moved)
    BY <1>1, <2>2, StrongSizeFits
  <2>4. QED
    BY <1>3, <2>1, <2>3, ScanTyped
<1>7. stack' \in Seq(Scan) /\ \A j \in DOMAIN stack' : Inside(stack'[j])
  <2>1. stack \in Seq(Scan) /\ \A j \in DOMAIN stack : Inside(stack[j])
    BY DEF Inv, CollectorTypeOK, LocalsTypeOK, ScansInside
  <2>2. CASE stack' = stack
    BY <2>1, <2>2
  <2>3. CASE stack' = Append(stack, Advanced)
    <3>1. /\ stack' \in Seq(Scan) /\ Len(stack') = Len(stack) + 1
          /\ \A j \in 1 .. Len(stack) : stack'[j] = stack[j]
          /\ stack'[Len(stack) + 1] = Advanced
      BY <1>1, <2>1, <2>3, AppendProperties
    <3>2. DOMAIN stack = 1 .. Len(stack) /\ DOMAIN stack' = 1 .. Len(stack') /\ Len(stack) \in Nat
      BY <2>1, <3>1, LenProperties
    <3>3. QED
      BY <1>1, <2>1, <3>1, <3>2
  <2>4. QED
    BY <2>2, <2>3 DEF ScanCopy
<1>8. /\ ephemerons' \in Seq(Address) /\ weakContainers' \in Seq(Address)
      /\ unknowns' = unknowns
  BY <1>3, WeakRemembered DEF ScanCopy
<1>9. LocalsTypeOK' /\ ScansInside'
  BY <1>6, <1>7, <1>8 DEF Inv, CollectorTypeOK, LocalsTypeOK, ScansInside
<1>10. ControlTypeOK' /\ RescuesAnUnknown'
  BY <1>1, <1>8 DEF Scanning, controlVars, Inv, CollectorTypeOK, ControlTypeOK, RescuesAnUnknown
<1>11. QED
  BY <1>3, <1>4, <1>5, <1>9, <1>10 DEF Inv, CollectorTypeOK

LEMMA ScanPopInv == Inv /\ ScanPop => Inv'
<1> SUFFICES ASSUME Inv, ScanPop PROVE Inv'
  OBVIOUS
<1>1. stack \in Seq(Scan) /\ stack # << >> /\ \A j \in DOMAIN stack : Inside(stack[j])
  BY DEF ScanPop, Inv, CollectorTypeOK, LocalsTypeOK, ScansInside
<1>2. /\ Len(stack) \in Nat \ {0} /\ DOMAIN stack = 1 .. Len(stack)
      /\ Last(stack) \in Scan /\ Front(stack) \in Seq(Scan)
      /\ Len(Front(stack)) = Len(stack) - 1
      /\ \A j \in 1 .. Len(stack) - 1 : Front(stack)[j] = stack[j]
  BY <1>1, LastAndFront, LenProperties
<1>3. scan' \in Scan /\ Inside(scan')
  BY <1>1, <1>2 DEF ScanPop, Last
<1>4. stack' \in Seq(Scan) /\ \A j \in DOMAIN stack' : Inside(stack'[j])
  <2>1. DOMAIN Front(stack) = 1 .. Len(stack) - 1
    BY <1>2, LenProperties
  <2>2. \A j \in 1 .. Len(stack) - 1 : j \in DOMAIN stack
    BY <1>2
  <2>3. QED
    BY <1>1, <1>2, <2>1, <2>2 DEF ScanPop
<1>5. HeapTypeOK' /\ SpacesTypeOK' /\ HostTypeOK'
  BY DEF ScanPop, heapVars, spaceVars, hostVars, Inv, CollectorTypeOK, HeapTypeOK, SpacesTypeOK,
         HostTypeOK
<1>6. LocalsTypeOK' /\ ScansInside'
  BY <1>3, <1>4 DEF ScanPop, localVars, Inv, CollectorTypeOK, LocalsTypeOK, ScansInside
<1>7. ControlTypeOK' /\ RescuesAnUnknown'
  BY DEF ScanPop, localVars, controlVars, Inv, CollectorTypeOK, ControlTypeOK, RescuesAnUnknown
<1>8. QED
  BY <1>5, <1>6, <1>7 DEF Inv, CollectorTypeOK

LEMMA TraversalInv == Inv /\ FollowCountStartingAt => Inv'
BY ScanOutsideInv, ScanProxyInv, ScanCopyInv, ScanPopInv DEF FollowCountStartingAt

-----------------------------------------------------------------------------
(* The steps between the traversals: what most of them leave alone.         *)
LEMMA HeapKept == HeapTypeOK /\ UNCHANGED heapVars => HeapTypeOK'
BY DEF heapVars, HeapTypeOK

LEMMA SpacesKept == SpacesTypeOK /\ UNCHANGED spaceVars => SpacesTypeOK'
BY DEF spaceVars, SpacesTypeOK

LEMMA HostKept ==
  HostTypeOK /\ UNCHANGED <<hostVars, rememberedSet, rescuedCount>> => HostTypeOK'
BY DEF hostVars, HostTypeOK

LEMMA ScansKept ==
  ASSUME Inv, UNCHANGED scanVars
  PROVE  /\ scan' \in Scan /\ stack' \in Seq(Scan) /\ ScansInside'
BY DEF scanVars, Inv, CollectorTypeOK, LocalsTypeOK, ScansInside

LEMMA LocalsKept ==
  ASSUME Inv, UNCHANGED localVars, UNCHANGED scanVars
  PROVE  LocalsTypeOK' /\ ScansInside'
BY DEF localVars, scanVars, Inv, CollectorTypeOK, LocalsTypeOK, ScansInside

LEMMA WentTo ==
  ASSUME Inv, NEW label \in Labels, label # "addRescued", GoTo(label),
         rescan' \in BOOLEAN, anyRescued' \in BOOLEAN, ops' = ops
  PROVE  ControlTypeOK' /\ RescuesAnUnknown'
<1>1. i' \in Nat \ {0} /\ pc' \in Labels /\ ops' \in 0 .. MaxOps /\ pc' # "addRescued"
  BY DEF GoTo, Inv, CollectorTypeOK, ControlTypeOK
<1>2. QED
  BY <1>1 DEF ControlTypeOK, RescuesAnUnknown

LEMMA WentOn ==
  ASSUME Inv, pc # "addRescued", i' = i + 1 \/ i' = i,
         UNCHANGED <<pc, rescan, anyRescued, ops>>
  PROVE  ControlTypeOK' /\ RescuesAnUnknown'
<1>1. i' \in Nat \ {0}
  BY DEF Inv, CollectorTypeOK, ControlTypeOK
<1>2. QED
  BY <1>1 DEF Inv, CollectorTypeOK, ControlTypeOK, RescuesAnUnknown

LEMMA ProceedInv ==
  ASSUME Inv, NEW here, NEW next \in Labels, next # "addRescued", Proceed(here, next)
  PROVE  Inv'
<1>1. HeapTypeOK' /\ SpacesTypeOK' /\ HostTypeOK'
  BY HeapKept, SpacesKept, HostKept DEF Proceed, Inv, CollectorTypeOK
<1>2. LocalsTypeOK' /\ ScansInside'
  BY LocalsKept DEF Proceed
<1>3. ControlTypeOK' /\ RescuesAnUnknown'
  BY WentTo DEF Proceed, Inv, CollectorTypeOK, ControlTypeOK
<1>4. QED
  BY <1>1, <1>2, <1>3 DEF Inv, CollectorTypeOK

LEMMA ElementTyped ==
  ASSUME NEW S, NEW s \in Seq(S), i \in Nat \ {0}, i <= Len(s)
  PROVE  s[i] \in S
BY ElementOfSeq, LenProperties

-----------------------------------------------------------------------------
(* The beginning of a scavenge: the purges. *)
LEMMA StartScavengeInv == Inv /\ StartScavenge => Inv'
<1> SUFFICES ASSUME Inv, StartScavenge PROVE Inv'
  OBVIOUS
<1>1. HeapTypeOK' /\ SpacesTypeOK' /\ HostTypeOK'
  BY HeapKept, SpacesKept, HostKept DEF StartScavenge, Inv, CollectorTypeOK
<1>2. LocalsTypeOK' /\ ScansInside'
  BY EmptySeq DEF StartScavenge, Inv, CollectorTypeOK, LocalsTypeOK, ScansInside
<1>3. ControlTypeOK' /\ RescuesAnUnknown'
  BY WentTo DEF StartScavenge, Inv, CollectorTypeOK, ControlTypeOK, Labels
<1>4. QED
  BY <1>1, <1>2, <1>3 DEF Inv, CollectorTypeOK

LEMMA PurgeLiteralInv == Inv /\ PurgeLiteral => Inv'
<1> SUFFICES ASSUME Inv, PurgeLiteral PROVE Inv'
  OBVIOUS
<1>1. HeapTypeOK' /\ SpacesTypeOK'
  BY HeapKept, SpacesKept DEF PurgeLiteral, Inv, CollectorTypeOK
<1>2. literalsReferences' \in Seq([literal : Address, offset : 0 .. NumOffsets - 1])
  BY WithoutTyped DEF PurgeLiteral, Inv, CollectorTypeOK, HostTypeOK, ControlTypeOK
<1>3. HostTypeOK'
  BY <1>2 DEF PurgeLiteral, Inv, CollectorTypeOK, HostTypeOK
<1>4. LocalsTypeOK' /\ ScansInside'
  BY LocalsKept DEF PurgeLiteral
<1>5. ControlTypeOK' /\ RescuesAnUnknown'
  BY WentOn DEF PurgeLiteral, At
<1>6. QED
  BY <1>1, <1>3, <1>4, <1>5 DEF Inv, CollectorTypeOK

LEMMA PurgeRememberedInv == Inv /\ PurgeRemembered => Inv'
<1> SUFFICES ASSUME Inv, PurgeRemembered PROVE Inv'
  OBVIOUS
<1>1. header' \in [Address -> Header]
  BY FlagSet DEF PurgeRemembered, NotInRememberedSet, Inv, CollectorTypeOK, HeapTypeOK
<1>2. HeapTypeOK' /\ SpacesTypeOK'
  BY <1>1, SpacesKept DEF PurgeRemembered, Inv, CollectorTypeOK, HeapTypeOK
<1>3. rememberedSet' \in Seq(Address)
  BY WithoutTyped DEF PurgeRemembered, Inv, CollectorTypeOK, HostTypeOK, ControlTypeOK
<1>4. HostTypeOK'
  BY <1>3 DEF PurgeRemembered, hostVars, Inv, CollectorTypeOK, HostTypeOK
<1>5. LocalsTypeOK' /\ ScansInside'
  BY LocalsKept DEF PurgeRemembered
<1>6. ControlTypeOK' /\ RescuesAnUnknown'
  BY WentOn DEF PurgeRemembered, At
<1>7. QED
  BY <1>2, <1>4, <1>5, <1>6 DEF Inv, CollectorTypeOK

-----------------------------------------------------------------------------
(* followCodeCacheReferences. *)
LEMMA ClearGlobalLookupCacheInv == Inv /\ ClearGlobalLookupCache => Inv'
<1> SUFFICES ASSUME Inv, ClearGlobalLookupCache PROVE Inv'
  OBVIOUS
<1>1. HeapTypeOK' /\ SpacesTypeOK'
  BY HeapKept, SpacesKept DEF ClearGlobalLookupCache, Inv, CollectorTypeOK
<1>2. HostTypeOK'
  BY Layout DEF ClearGlobalLookupCache, Inv, CollectorTypeOK, HostTypeOK
<1>3. LocalsTypeOK' /\ ScansInside'
  BY LocalsKept DEF ClearGlobalLookupCache
<1>4. ControlTypeOK' /\ RescuesAnUnknown'
  <2>1. \E label \in {"moveClassCheckReferences", "checkNativizedMethods"} : GoTo(label)
    BY DEF ClearGlobalLookupCache
  <2>2. rescan' \in BOOLEAN /\ anyRescued' \in BOOLEAN /\ ops' = ops
    BY DEF ClearGlobalLookupCache, Inv, CollectorTypeOK, ControlTypeOK
  <2>3. QED
    BY <2>1, <2>2, WentTo DEF Labels
<1>5. QED
  BY <1>1, <1>2, <1>3, <1>4 DEF Inv, CollectorTypeOK

LEMMA TenureTyped ==
  ASSUME Inv, NEW object \in Address, Tenure(object)
  PROVE  /\ header' \in [Address -> Header] /\ SpacesTypeOK' /\ rememberedSet' \in Seq(Address)
         /\ IsSlots(SlotsWithTenured(object)) /\ Tenured(object) \in Address
<1>1. CASE ToBeMoved(object)
  <2>1. MoveToOldSpace(object)
    BY <1>1 DEF Tenure
  <2>2. object > 0
    BY <1>1, SpaceAddresses, Layout DEF ToBeMoved, Inv, CollectorTypeOK
  <2>3. IsSlots([slots EXCEPT ![oldSpace.nextFree] = slots[object]])
    BY <2>1, <2>2, MoveToOldTyped, ObjectCopied DEF Inv, CollectorTypeOK, HeapTypeOK
  <2>4. IsSlots(SlotsWithTenured(object))
    BY <1>1, <2>3 DEF SlotsWithTenured
  <2>5. Tenured(object) = oldSpace.nextFree
    BY <1>1 DEF Tenured, ToBeMoved
  <2>6. QED
    BY <2>1, <2>4, <2>5, MoveToOldTyped
<1>2. CASE ~ToBeMoved(object)
  <2>1. header[object].proxee \in Address
    BY DEF Inv, CollectorTypeOK, HeapTypeOK, Header
  <2>2. Tenured(object) \in Address
    BY <1>2, <2>1 DEF Tenured, ToBeMoved
  <2>3. header' \in [Address -> Header] /\ SpacesTypeOK' /\ rememberedSet' \in Seq(Address)
    BY <1>2, SpacesKept DEF Tenure, Inv, CollectorTypeOK, HeapTypeOK, HostTypeOK
  <2>4. QED
    BY <1>2, <2>2, <2>3 DEF SlotsWithTenured, Inv, CollectorTypeOK, HeapTypeOK
<1>3. QED
  BY <1>1, <1>2

LEMMA IterateKeeps ==
  ASSUME Inv, Iterate, pc # "addRescued"
  PROVE  LocalsTypeOK' /\ ScansInside' /\ ControlTypeOK' /\ RescuesAnUnknown'
BY LocalsKept, WentOn DEF Iterate

LEMMA MoveClassCheckReferenceInv == Inv /\ MoveClassCheckReference => Inv'
<1> SUFFICES ASSUME Inv, MoveClassCheckReference PROVE Inv'
  OBVIOUS
<1> DEFINE offset == classCheckReferences[i]
           object == slots[CodeCache][offset]
<1>1. offset \in 0 .. NumOffsets - 1
  BY ElementTyped DEF MoveClassCheckReference, Inv, CollectorTypeOK, HostTypeOK, ControlTypeOK
<1>2. offset \in SlotIndex(CodeCache)
  BY <1>1, Sizes, SizesAssumption DEF SlotIndex
<1>3. object \in Address
  BY <1>2, SlotRead, Layout DEF Inv, CollectorTypeOK, HeapTypeOK
<1>4. /\ header' \in [Address -> Header] /\ SpacesTypeOK' /\ rememberedSet' \in Seq(Address)
      /\ IsSlots(SlotsWithTenured(object)) /\ Tenured(object) \in Address
  BY <1>3, TenureTyped DEF MoveClassCheckReference
<1>5. HeapTypeOK'
  BY <1>4, SlotWritten DEF MoveClassCheckReference, HeapTypeOK
<1>6. HostTypeOK'
  BY <1>4 DEF MoveClassCheckReference, Iterate, Inv, CollectorTypeOK, HostTypeOK
<1>7. LocalsTypeOK' /\ ScansInside' /\ ControlTypeOK' /\ RescuesAnUnknown'
  BY IterateKeeps DEF MoveClassCheckReference, At
<1>8. QED
  BY <1>4, <1>5, <1>6, <1>7 DEF Inv, CollectorTypeOK

LEMMA ClassCheckReferencesMovedInv == Inv /\ ClassCheckReferencesMoved => Inv'
<1> SUFFICES ASSUME Inv, ClassCheckReferencesMoved PROVE Inv'
  OBVIOUS
<1>1. HeapTypeOK' /\ SpacesTypeOK'
  BY HeapKept, SpacesKept DEF ClassCheckReferencesMoved, Inv, CollectorTypeOK
<1>2. HostTypeOK'
  BY DEF ClassCheckReferencesMoved, Inv, CollectorTypeOK, HostTypeOK
<1>3. LocalsTypeOK' /\ ScansInside'
  BY LocalsKept DEF ClassCheckReferencesMoved
<1>4. ControlTypeOK' /\ RescuesAnUnknown'
  BY WentTo DEF ClassCheckReferencesMoved, Inv, CollectorTypeOK, ControlTypeOK, Labels
<1>5. QED
  BY <1>1, <1>2, <1>3, <1>4 DEF Inv, CollectorTypeOK

LEMMA CheckNativizedMethodsInv == Inv /\ CheckNativizedMethods => Inv'
<1> SUFFICES ASSUME Inv, CheckNativizedMethods PROVE Inv'
  OBVIOUS
<1>1. HeapTypeOK' /\ SpacesTypeOK'
  BY HeapKept, SpacesKept DEF CheckNativizedMethods, Inv, CollectorTypeOK
<1>2. HostTypeOK'
  BY DEF CheckNativizedMethods, Inv, CollectorTypeOK, HostTypeOK
<1>3. LocalsTypeOK' /\ ScansInside'
  BY LocalsKept DEF CheckNativizedMethods
<1>4. ControlTypeOK' /\ RescuesAnUnknown'
  <2>1. \E label \in {"moveNativizedMethods", "moveLiteralsReferences"} : GoTo(label)
    BY DEF CheckNativizedMethods
  <2>2. rescan' \in BOOLEAN /\ anyRescued' \in BOOLEAN /\ ops' = ops
    BY DEF CheckNativizedMethods, Inv, CollectorTypeOK, ControlTypeOK
  <2>3. QED
    BY <2>1, <2>2, WentTo DEF Labels
<1>5. QED
  BY <1>1, <1>2, <1>3, <1>4 DEF Inv, CollectorTypeOK

LEMMA MoveNativizedMethodInv == Inv /\ MoveNativizedMethod => Inv'
<1> SUFFICES ASSUME Inv, MoveNativizedMethod PROVE Inv'
  OBVIOUS
<1> DEFINE object == nativizedMethods[i]
<1>1. object \in Address
  BY ElementTyped DEF MoveNativizedMethod, Inv, CollectorTypeOK, HostTypeOK, ControlTypeOK
<1>2. /\ header' \in [Address -> Header] /\ SpacesTypeOK' /\ rememberedSet' \in Seq(Address)
      /\ IsSlots(SlotsWithTenured(object)) /\ Tenured(object) \in Address
  BY <1>1, TenureTyped DEF MoveNativizedMethod
<1>3. HeapTypeOK'
  BY <1>2 DEF MoveNativizedMethod, HeapTypeOK
<1>4. nativizedMethods' \in Seq(Address)
  BY <1>2, ExceptSeq DEF MoveNativizedMethod, Inv, CollectorTypeOK, HostTypeOK, ControlTypeOK
<1>5. HostTypeOK'
  BY <1>2, <1>4 DEF MoveNativizedMethod, Iterate, Inv, CollectorTypeOK, HostTypeOK
<1>6. LocalsTypeOK' /\ ScansInside' /\ ControlTypeOK' /\ RescuesAnUnknown'
  BY IterateKeeps DEF MoveNativizedMethod, At
<1>7. QED
  BY <1>2, <1>3, <1>5, <1>6 DEF Inv, CollectorTypeOK

LEMMA MoveLiteralReferenceInv == Inv /\ MoveLiteralReference => Inv'
<1> SUFFICES ASSUME Inv, MoveLiteralReference PROVE Inv'
  OBVIOUS
<1> DEFINE ref == literalsReferences[i]
           object == ref.literal
           Ref == [literal : Address, offset : 0 .. NumOffsets - 1]
<1>1. ref \in Ref /\ object \in Address
  BY ElementTyped DEF MoveLiteralReference, Inv, CollectorTypeOK, HostTypeOK, ControlTypeOK
<1>2. /\ header' \in [Address -> Header] /\ SpacesTypeOK' /\ rememberedSet' \in Seq(Address)
      /\ IsSlots(SlotsWithTenured(object)) /\ Tenured(object) \in Address
  BY <1>1, TenureTyped DEF MoveLiteralReference
<1>3. HeapTypeOK'
  BY <1>2 DEF MoveLiteralReference, HeapTypeOK
<1>4. literalsReferences' \in Seq(Ref)
  <2>1. literalsReferences \in Seq(Ref) /\ i \in 1 .. Len(literalsReferences)
    BY LenProperties DEF MoveLiteralReference, Inv, CollectorTypeOK, HostTypeOK, ControlTypeOK
  <2>2. [ref EXCEPT !.literal = Tenured(object)] \in Ref
    BY <1>1, <1>2
  <2>3. literalsReferences' =
          [literalsReferences EXCEPT ![i] = [ref EXCEPT !.literal = Tenured(object)]]
    BY DEF MoveLiteralReference
  <2>4. QED
    BY <2>1, <2>2, <2>3, ExceptSeq
<1>5. HostTypeOK'
  BY <1>2, <1>4 DEF MoveLiteralReference, Iterate, Inv, CollectorTypeOK, HostTypeOK
<1>6. LocalsTypeOK' /\ ScansInside' /\ ControlTypeOK' /\ RescuesAnUnknown'
  BY IterateKeeps DEF MoveLiteralReference, At
<1>7. QED
  BY <1>2, <1>3, <1>5, <1>6 DEF Inv, CollectorTypeOK

-----------------------------------------------------------------------------
(* The roots. *)
LEMMA FollowRememberedInv == Inv /\ FollowRemembered => Inv'
<1> SUFFICES ASSUME Inv, FollowRemembered PROVE Inv'
  OBVIOUS
<1> DEFINE object == rememberedSet[i]
<1>1. object \in Address
  BY ElementTyped DEF FollowRemembered, Inv, CollectorTypeOK, HostTypeOK, ControlTypeOK
<1>2. HeapTypeOK' /\ SpacesTypeOK' /\ HostTypeOK'
  BY HeapKept, SpacesKept, HostKept DEF FollowRemembered, Inv, CollectorTypeOK
<1>3. scan' \in Scan /\ Inside(scan')
  <2>1. ScanFrom(object, 0, StrongPointersSize(object))
    BY DEF FollowRemembered
  <2>2. StrongPointersSize(object) \in Int /\ 0 - 1 + StrongPointersSize(object) <= Size(object)
    BY <1>1, StrongSizeFits
  <2>3. QED
    BY <1>1, <2>1, <2>2, ScanTyped
<1>4. /\ ephemerons' \in Seq(Address) /\ weakContainers' \in Seq(Address)
      /\ unknowns' = unknowns
  BY <1>1, WeakRemembered DEF FollowRemembered
<1>5. LocalsTypeOK' /\ ScansInside'
  BY <1>3, <1>4 DEF FollowRemembered, Inv, CollectorTypeOK, LocalsTypeOK, ScansInside
<1>6. ControlTypeOK' /\ RescuesAnUnknown'
  BY WentOn DEF FollowRemembered, At
<1>7. QED
  BY <1>2, <1>5, <1>6 DEF Inv, CollectorTypeOK

LEMMA FollowStackInv == Inv /\ FollowStack => Inv'
<1> SUFFICES ASSUME Inv, FollowStack PROVE Inv'
  OBVIOUS
<1>1. HeapTypeOK' /\ SpacesTypeOK' /\ HostTypeOK'
  BY HeapKept, SpacesKept, HostKept DEF FollowStack, Inv, CollectorTypeOK
<1>2. scan' \in Scan /\ Inside(scan')
  <2>1. /\ Stack \in Address /\ 1 \in Nat /\ NumRoots \in Int
        /\ 1 - 1 + NumRoots <= Size(Stack)
    BY Layout, Sizes, SizesAssumption
  <2>2. QED
    BY <2>1, ScanTyped DEF FollowStack
<1>3. LocalsTypeOK' /\ ScansInside'
  BY <1>2 DEF FollowStack, localVars, Inv, CollectorTypeOK, LocalsTypeOK, ScansInside
<1>4. ControlTypeOK' /\ RescuesAnUnknown'
  BY WentTo DEF FollowStack, Labels
<1>5. QED
  BY <1>1, <1>3, <1>4 DEF Inv, CollectorTypeOK

-----------------------------------------------------------------------------
(* rescueEphemerons. *)
LEMMA RescueStepKeeps ==
  ASSUME Inv, RescueStep
  PROVE  SpacesTypeOK' /\ weakContainers' \in Seq(Address)
         /\ stack' \in Seq(Scan) /\ (\A j \in DOMAIN stack' : Inside(stack'[j])) /\ ops' = ops
BY SpacesKept DEF RescueStep, Inv, CollectorTypeOK, LocalsTypeOK, ScansInside

(* A step of rescueEphemerons that leaves the objects alone. *)
LEMMA RescueInv ==
  ASSUME Inv, RescueStep, UNCHANGED <<heapVars, rememberedSet, rescuedCount>>,
         ephemerons' \in Seq(Address), unknowns' \in Seq(Address),
         scan' \in Scan, Inside(scan'),
         ControlTypeOK', RescuesAnUnknown'
  PROVE  Inv'
<1>1. HeapTypeOK' /\ HostTypeOK'
  BY HeapKept, HostKept DEF RescueStep, Inv, CollectorTypeOK
<1>2. LocalsTypeOK' /\ ScansInside'
  BY RescueStepKeeps DEF LocalsTypeOK, ScansInside
<1>3. QED
  BY <1>1, <1>2, RescueStepKeeps DEF Inv, CollectorTypeOK

LEMMA LookForEphemeronsInv == Inv /\ LookForEphemerons => Inv'
<1> SUFFICES ASSUME Inv, LookForEphemerons PROVE Inv'
  OBVIOUS
<1>1. ControlTypeOK' /\ RescuesAnUnknown'
  BY WentTo, RescueStepKeeps DEF LookForEphemerons, Inv, CollectorTypeOK, ControlTypeOK, Labels
<1>2. QED
  BY <1>1, RescueInv DEF LookForEphemerons, Inv, CollectorTypeOK, LocalsTypeOK, ScansInside

(* The scan of an ephemeron, all its slots but the behavior. *)
LEMMA EphemeronScanned ==
  ASSUME NEW ephemeron \in Address, ScanFrom(ephemeron, 1, Size(ephemeron))
  PROVE  scan' \in Scan /\ Inside(scan')
<1>1. Size(ephemeron) \in Int /\ 1 - 1 + Size(ephemeron) <= Size(ephemeron)
  BY Sizes
<1>2. QED
  BY <1>1, ScanTyped

LEMMA FollowEphemeronInv == Inv /\ FollowEphemeron => Inv'
<1> SUFFICES ASSUME Inv, FollowEphemeron PROVE Inv'
  OBVIOUS
<1>1. Last(ephemerons) \in Address /\ ephemerons' \in Seq(Address)
  BY LastAndFront DEF FollowEphemeron, Inv, CollectorTypeOK, LocalsTypeOK
<1>2. scan' \in Scan /\ Inside(scan')
  BY <1>1, EphemeronScanned DEF FollowEphemeron
<1>3. ControlTypeOK' /\ RescuesAnUnknown'
  BY RescueStepKeeps
     DEF FollowEphemeron, At, Inv, CollectorTypeOK, ControlTypeOK, RescuesAnUnknown
<1>4. QED
  BY <1>1, <1>2, <1>3, RescueInv DEF FollowEphemeron, Inv, CollectorTypeOK, LocalsTypeOK

LEMMA CollectUnknownInv == Inv /\ CollectUnknown => Inv'
<1> SUFFICES ASSUME Inv, CollectUnknown PROVE Inv'
  OBVIOUS
<1>1. Last(ephemerons) \in Address /\ ephemerons' \in Seq(Address)
  BY LastAndFront DEF CollectUnknown, Inv, CollectorTypeOK, LocalsTypeOK
<1>2. unknowns' \in Seq(Address)
  BY <1>1, AppendProperties DEF CollectUnknown, Inv, CollectorTypeOK, LocalsTypeOK
<1>3. ControlTypeOK' /\ RescuesAnUnknown'
  BY WentOn, RescueStepKeeps DEF CollectUnknown, At
<1>4. QED
  BY <1>1, <1>2, <1>3, RescueInv
     DEF CollectUnknown, Inv, CollectorTypeOK, LocalsTypeOK, ScansInside

LEMMA RescanInv == Inv /\ Rescan => Inv'
<1> SUFFICES ASSUME Inv, Rescan PROVE Inv'
  OBVIOUS
<1>1. ControlTypeOK' /\ RescuesAnUnknown'
  BY WentTo, RescueStepKeeps DEF Rescan, Inv, CollectorTypeOK, ControlTypeOK, Labels
<1>2. QED
  BY <1>1, RescueInv, EmptySeq DEF Rescan, Inv, CollectorTypeOK, LocalsTypeOK, ScansInside

LEMMA RescueUnknownsInv == Inv /\ RescueUnknowns => Inv'
<1> SUFFICES ASSUME Inv, RescueUnknowns PROVE Inv'
  OBVIOUS
<1>1. ControlTypeOK' /\ RescuesAnUnknown'
  BY WentTo, RescueStepKeeps DEF RescueUnknowns, Inv, CollectorTypeOK, ControlTypeOK, Labels
<1>2. QED
  BY <1>1, RescueInv DEF RescueUnknowns, Inv, CollectorTypeOK, LocalsTypeOK, ScansInside

LEMMA RescueEphemeronInv == Inv /\ RescueEphemeron => Inv'
<1> SUFFICES ASSUME Inv, RescueEphemeron PROVE Inv'
  OBVIOUS
<1>1. unknowns[i] \in Address
  BY ElementTyped DEF RescueEphemeron, Inv, CollectorTypeOK, LocalsTypeOK, ControlTypeOK
<1>2. scan' \in Scan /\ Inside(scan')
  BY <1>1, EphemeronScanned DEF RescueEphemeron
<1>3. "addRescued" \in Labels
  BY DEF Labels
<1>4. ControlTypeOK' /\ RescuesAnUnknown'
  BY <1>3, RescueStepKeeps DEF RescueEphemeron, Inv, CollectorTypeOK, ControlTypeOK, RescuesAnUnknown
<1>5. QED
  BY <1>2, <1>4, RescueInv DEF RescueEphemeron, Inv, CollectorTypeOK, LocalsTypeOK

(* Here the ephemeron that was followed has to exist, and the queue to have *)
(* room for it.                                                             *)
LEMMA AddRescuedInv == Inv /\ AddRescued => Inv'
<1> SUFFICES ASSUME Inv, AddRescued PROVE Inv'
  OBVIOUS
<1>1. unknowns[i] \in Address
  BY ElementTyped
     DEF AddRescued, At, Inv, CollectorTypeOK, LocalsTypeOK, ControlTypeOK, RescuesAnUnknown
<1>2. HeapTypeOK'
  BY <1>1, SlotWritten DEF AddRescued, Inv, CollectorTypeOK, HeapTypeOK
<1>3. rescuedCount' \in 0 .. RescuedSize
  BY SizesAssumption DEF AddRescued, Inv, CollectorTypeOK, HostTypeOK
<1>4. HostTypeOK'
  BY <1>3 DEF AddRescued, RescueStep, hostVars, Inv, CollectorTypeOK, HostTypeOK
<1>5. LocalsTypeOK' /\ ScansInside'
  BY RescueStepKeeps DEF AddRescued, Inv, CollectorTypeOK, LocalsTypeOK, ScansInside
<1>6. i' \in Nat \ {0} /\ "rescueEphemeron" \in Labels
  BY DEF AddRescued, Inv, CollectorTypeOK, ControlTypeOK, Labels
<1>7. ControlTypeOK' /\ RescuesAnUnknown'
  BY <1>6, RescueStepKeeps
     DEF AddRescued, Inv, CollectorTypeOK, ControlTypeOK, RescuesAnUnknown
<1>8. SpacesTypeOK'
  BY RescueStepKeeps DEF AddRescued
<1>9. QED
  BY <1>2, <1>4, <1>5, <1>7, <1>8 DEF Inv, CollectorTypeOK

LEMMA UnknownsRescuedInv == Inv /\ UnknownsRescued => Inv'
<1> SUFFICES ASSUME Inv, UnknownsRescued PROVE Inv'
  OBVIOUS
<1>1. ControlTypeOK' /\ RescuesAnUnknown'
  BY WentTo, RescueStepKeeps DEF UnknownsRescued, Inv, CollectorTypeOK, ControlTypeOK, Labels
<1>2. QED
  BY <1>1, RescueInv, EmptySeq DEF UnknownsRescued, Inv, CollectorTypeOK, LocalsTypeOK, ScansInside

LEMMA EphemeronsDecidedInv == Inv /\ EphemeronsDecided => Inv'
<1> SUFFICES ASSUME Inv, EphemeronsDecided PROVE Inv'
  OBVIOUS
<1>1. header' \in [Address -> Header] /\ rememberedSet' \in Seq(Address)
  <2>1. header \in [Address -> Header] /\ rememberedSet \in Seq(Address)
    BY DEF Inv, CollectorTypeOK, HeapTypeOK, HostTypeOK
  <2>2. [header EXCEPT ![RescuedArray].inRememberedSet = TRUE] \in [Address -> Header]
    BY <2>1, FlagSet
  <2>3. Append(rememberedSet, RescuedArray) \in Seq(Address)
    BY <2>1, Layout, AppendProperties
  <2>4. QED
    BY <2>1, <2>2, <2>3 DEF EphemeronsDecided, HoldReferenceTo
<1>2. HeapTypeOK' /\ HostTypeOK'
  BY <1>1
     DEF EphemeronsDecided, RescueStep, hostVars, Inv, CollectorTypeOK, HeapTypeOK, HostTypeOK
<1>3. LocalsTypeOK' /\ ScansInside'
  BY RescueStepKeeps DEF EphemeronsDecided, Inv, CollectorTypeOK, LocalsTypeOK, ScansInside
<1>4. ControlTypeOK' /\ RescuesAnUnknown'
  BY WentTo, RescueStepKeeps DEF EphemeronsDecided, Inv, CollectorTypeOK, ControlTypeOK, Labels
<1>5. SpacesTypeOK'
  BY RescueStepKeeps DEF EphemeronsDecided
<1>6. QED
  BY <1>2, <1>3, <1>4, <1>5 DEF Inv, CollectorTypeOK

LEMMA RescueEphemeronsInv == Inv /\ RescueEphemerons => Inv'
BY LookForEphemeronsInv, FollowEphemeronInv, CollectUnknownInv, RescanInv, RescueUnknownsInv,
   RescueEphemeronInv, AddRescuedInv, UnknownsRescuedInv, EphemeronsDecidedInv
   DEF RescueEphemerons

-----------------------------------------------------------------------------
(* The end of the collection. *)
LEMMA MakeRescuedEphemeronsNonWeakInv == Inv /\ MakeRescuedEphemeronsNonWeak => Inv'
<1> SUFFICES ASSUME Inv, MakeRescuedEphemeronsNonWeak PROVE Inv'
  OBVIOUS
<1>1. HeapTypeOK'
  <2>1. \A a \in Address : header[a] \in Header /\ [header[a] EXCEPT !.hasWeaks = FALSE] \in Header
    BY HeaderFlags DEF Inv, CollectorTypeOK, HeapTypeOK
  <2>2. header' \in [Address -> Header]
    BY <2>1 DEF MakeRescuedEphemeronsNonWeak
  <2>3. QED
    BY <2>2 DEF MakeRescuedEphemeronsNonWeak, Inv, CollectorTypeOK, HeapTypeOK
<1>2. SpacesTypeOK' /\ HostTypeOK'
  BY SpacesKept, HostKept DEF MakeRescuedEphemeronsNonWeak, Inv, CollectorTypeOK
<1>3. LocalsTypeOK' /\ ScansInside'
  BY LocalsKept DEF MakeRescuedEphemeronsNonWeak
<1>4. ControlTypeOK' /\ RescuesAnUnknown'
  BY WentTo DEF MakeRescuedEphemeronsNonWeak, Inv, CollectorTypeOK, ControlTypeOK, Labels
<1>5. QED
  BY <1>1, <1>2, <1>3, <1>4 DEF Inv, CollectorTypeOK

LEMMA WeakReferenceTyped ==
  ASSUME Inv, NEW v \in Address
  PROVE  WeakReference(v) \in Address
<1>1. header[v].proxee \in Address
  BY DEF Inv, CollectorTypeOK, HeapTypeOK, Header
<1>2. QED
  BY <1>1, Layout DEF WeakReference

LEMMA FixWeakContainersInv == Inv /\ FixWeakContainers => Inv'
<1> SUFFICES ASSUME Inv, FixWeakContainers PROVE Inv'
  OBVIOUS
<1>1. HeapTypeOK'
  <2>1. ASSUME NEW a \in Address
        PROVE  slots'[a] \in [SlotIndex(a) -> Address]
    <3>1. \A k \in SlotIndex(a) : slots[a][k] \in Address /\ WeakReference(slots[a][k]) \in Address
      BY SlotRead, WeakReferenceTyped DEF Inv, CollectorTypeOK, HeapTypeOK
    <3>2. slots[a] \in [SlotIndex(a) -> Address]
      BY DEF Inv, CollectorTypeOK, HeapTypeOK, IsSlots
    <3>3. [k \in SlotIndex(a) |-> IF k = -1 THEN slots[a][k] ELSE WeakReference(slots[a][k])]
            \in [SlotIndex(a) -> Address]
      BY <3>1
    <3>4. QED
      BY <3>2, <3>3 DEF FixWeakContainers
  <2>2. slots' = [a \in Address |-> slots'[a]]
    BY DEF FixWeakContainers
  <2>3. IsSlots(slots')
    BY <2>1, <2>2 DEF IsSlots
  <2>4. QED
    BY <2>3 DEF FixWeakContainers, Inv, CollectorTypeOK, HeapTypeOK
<1>2. SpacesTypeOK' /\ HostTypeOK'
  BY SpacesKept, HostKept DEF FixWeakContainers, Inv, CollectorTypeOK
<1>3. LocalsTypeOK' /\ ScansInside'
  BY ScansKept, EmptySeq DEF FixWeakContainers, Inv, CollectorTypeOK, LocalsTypeOK
<1>4. ControlTypeOK' /\ RescuesAnUnknown'
  BY WentTo DEF FixWeakContainers, Inv, CollectorTypeOK, ControlTypeOK, Labels
<1>5. QED
  BY <1>1, <1>2, <1>3, <1>4 DEF Inv, CollectorTypeOK

(* A space that was emptied. *)
LEMMA Emptied ==
  ASSUME NEW space, NEW n \in Nat, IsSpace(space, n), space.base \in Nat
  PROVE  /\ IsSpace([space EXCEPT !.nextFree = space.base], n)
         /\ [space EXCEPT !.nextFree = space.base].base = space.base
<1> DEFINE after == [space EXCEPT !.nextFree = space.base]
<1>1. space \in Space /\ space.limit = space.base + n
      /\ space.base <= space.nextFree /\ space.nextFree <= space.limit
  BY DEF IsSpace
<1>2. after = [base |-> space.base, nextFree |-> space.base, limit |-> space.limit]
  BY <1>1 DEF Space
<1>3. space.base \in Address /\ space.limit \in Nat
  BY <1>1 DEF Space
<1>4. after \in Space
  BY <1>2, <1>3 DEF Space
<1>5. /\ after.base = space.base /\ after.nextFree = space.base
      /\ after.limit = space.base + n
  BY <1>1, <1>2
<1>6. QED
  BY <1>4, <1>5 DEF IsSpace

LEMMA FlipSpacesInv == Inv /\ FlipSpaces => Inv'
<1> SUFFICES ASSUME Inv, FlipSpaces PROVE Inv'
  OBVIOUS
<1>1. HeapTypeOK'
  <2>1. header' \in [Address -> Header]
    BY FreeHeaderTyped DEF FlipSpaces, Inv, CollectorTypeOK, HeapTypeOK
  <2>2. slots' = [a \in Address |-> slots'[a]]
    BY DEF FlipSpaces
  <2>3. \A a \in Address : slots'[a] \in [SlotIndex(a) -> Address]
    BY EmptySlotsTyped DEF FlipSpaces, Inv, CollectorTypeOK, HeapTypeOK, IsSlots
  <2>4. IsSlots(slots')
    BY <2>2, <2>3 DEF IsSlots
  <2>5. QED
    BY <2>1, <2>4 DEF HeapTypeOK
<1>2. SpacesTypeOK'
  <2>1. SpacesTypeOK /\ SemiSize \in Nat
    BY SizesAssumption DEF Inv, CollectorTypeOK
  <2>2. /\ fromSpace' = toSpace /\ oldSpace' = oldSpace
        /\ toSpace' = [fromSpace EXCEPT !.nextFree = fromSpace.base]
    BY DEF FlipSpaces, SwapSpaces
  <2>3. toSpace'.base = fromSpace.base /\ IsSpace(toSpace', SemiSize)
    BY <2>1, <2>2, Emptied, Layout DEF SpacesTypeOK
  <2>4. QED
    BY <2>1, <2>2, <2>3 DEF SpacesTypeOK
<1>3. HostTypeOK'
  BY HostKept DEF FlipSpaces, Inv, CollectorTypeOK
<1>4. LocalsTypeOK' /\ ScansInside'
  BY LocalsKept DEF FlipSpaces
<1>5. ControlTypeOK' /\ RescuesAnUnknown'
  BY WentTo DEF FlipSpaces, Inv, CollectorTypeOK, ControlTypeOK, Labels
<1>6. QED
  BY <1>1, <1>2, <1>3, <1>4, <1>5 DEF Inv, CollectorTypeOK

LEMMA LiteralsTyped ==
  ASSUME Inv, NEW offset
  PROVE  LiteralsAt(offset) \subseteq Address
<1> DEFINE Ref == [literal : Address, offset : 0 .. NumOffsets - 1]
<1>1. literalsReferences \in Seq(Ref)
  BY DEF Inv, CollectorTypeOK, HostTypeOK
<1>2. ToSet(literalsReferences) \subseteq Ref
  <2>1. DOMAIN literalsReferences = 1 .. Len(literalsReferences)
    BY <1>1, LenProperties
  <2>2. \A j \in 1 .. Len(literalsReferences) : literalsReferences[j] \in Ref
    BY <1>1, ElementOfSeq
  <2>3. QED
    BY <2>1, <2>2 DEF ToSet
<1>3. QED
  BY <1>2 DEF LiteralsAt

LEMMA FixReferencesFromNativeMethodsInv == Inv /\ FixReferencesFromNativeMethods => Inv'
<1> SUFFICES ASSUME Inv, FixReferencesFromNativeMethods PROVE Inv'
  OBVIOUS
<1> DEFINE code == [o \in SlotIndex(CodeCache) |->
                      IF LiteralsAt(o) # {} THEN CHOOSE v \in LiteralsAt(o) : TRUE
                                            ELSE slots[CodeCache][o]]
<1>1. ASSUME NEW o \in SlotIndex(CodeCache)
      PROVE  code[o] \in Address
  <2>1. slots[CodeCache][o] \in Address
    BY SlotRead, Layout DEF Inv, CollectorTypeOK, HeapTypeOK
  <2>2. LiteralsAt(o) # {} => (CHOOSE v \in LiteralsAt(o) : TRUE) \in LiteralsAt(o)
    OBVIOUS
  <2>3. QED
    BY <2>1, <2>2, LiteralsTyped
<1>2. code \in [SlotIndex(CodeCache) -> Address]
  BY <1>1
<1>3. slots' = [slots EXCEPT ![CodeCache] = code]
  BY DEF FixReferencesFromNativeMethods
<1>4. HeapTypeOK'
  <2> HIDE DEF code
  <2>1. IsSlots(slots')
    BY <1>2, <1>3, SlotsCopied, Layout DEF Inv, CollectorTypeOK, HeapTypeOK
  <2>2. QED
    BY <2>1 DEF FixReferencesFromNativeMethods, Inv, CollectorTypeOK, HeapTypeOK
<1>5. SpacesTypeOK' /\ HostTypeOK'
  BY SpacesKept, HostKept DEF FixReferencesFromNativeMethods, Inv, CollectorTypeOK
<1>6. LocalsTypeOK' /\ ScansInside'
  BY LocalsKept DEF FixReferencesFromNativeMethods
<1>7. ControlTypeOK' /\ RescuesAnUnknown'
  BY WentTo DEF FixReferencesFromNativeMethods, Inv, CollectorTypeOK, ControlTypeOK, Labels
<1>8. QED
  BY <1>4, <1>5, <1>6, <1>7 DEF Inv, CollectorTypeOK

LEMMA CleanRememberedInv == Inv /\ CleanRemembered => Inv'
<1> SUFFICES ASSUME Inv, CleanRemembered PROVE Inv'
  OBVIOUS
<1>1. HeapTypeOK' /\ SpacesTypeOK'
  BY HeapKept, SpacesKept DEF CleanRemembered, Inv, CollectorTypeOK
<1>2. rememberedSet' \in Seq(Address)
  BY WithoutTyped DEF CleanRemembered, Inv, CollectorTypeOK, HostTypeOK, ControlTypeOK
<1>3. HostTypeOK'
  BY <1>2 DEF CleanRemembered, hostVars, Inv, CollectorTypeOK, HostTypeOK
<1>4. LocalsTypeOK' /\ ScansInside'
  BY LocalsKept DEF CleanRemembered
<1>5. ControlTypeOK' /\ RescuesAnUnknown'
  BY WentOn DEF CleanRemembered, At
<1>6. QED
  BY <1>1, <1>3, <1>4, <1>5 DEF Inv, CollectorTypeOK

(* What the host has kept of the set is a set as well.                      *)
DetachedTypeOK == detached \in Seq(Address)

LEMMA EndScavengeInv == Inv /\ DetachedTypeOK /\ EndScavenge => Inv'
<1> SUFFICES ASSUME Inv, DetachedTypeOK, EndScavenge PROVE Inv'
  OBVIOUS
<1>1. HeapTypeOK' /\ SpacesTypeOK' /\ HostTypeOK'
  <2>1. rememberedSet' \in Seq(Address)
    BY DEF EndScavenge, DetachedTypeOK, Inv, CollectorTypeOK, HostTypeOK
  <2>2. HostTypeOK'
    BY <2>1 DEF EndScavenge, hostVars, Inv, CollectorTypeOK, HostTypeOK
  <2>3. QED
    BY <2>2, HeapKept, SpacesKept DEF EndScavenge, Inv, CollectorTypeOK
<1>2. NoScan \in Scan /\ Inside(NoScan)
  BY Layout, Sizes, SizesAssumption DEF NoScan, Scan, Inside
<1>3. LocalsTypeOK' /\ ScansInside'
  BY <1>2 DEF EndScavenge, localVars, Inv, CollectorTypeOK, LocalsTypeOK, ScansInside
<1>4. ControlTypeOK' /\ RescuesAnUnknown'
  BY WentTo DEF EndScavenge, Labels
<1>5. QED
  BY <1>1, <1>3, <1>4 DEF Inv, CollectorTypeOK

-----------------------------------------------------------------------------
(* All steps. *)
LEMMA FollowCodeCacheReferencesInv == Inv /\ FollowCodeCacheReferences => Inv'
<1> SUFFICES ASSUME Inv, FollowCodeCacheReferences PROVE Inv'
  OBVIOUS
<1>1. CASE NativizedMethodsMoved
  BY <1>1, ProceedInv DEF NativizedMethodsMoved, Labels
<1>2. CASE LiteralsReferencesMoved
  BY <1>2, ProceedInv DEF LiteralsReferencesMoved, Labels
<1>3. QED
  BY <1>1, <1>2, ClearGlobalLookupCacheInv, MoveClassCheckReferenceInv,
     ClassCheckReferencesMovedInv, CheckNativizedMethodsInv, MoveNativizedMethodInv,
     MoveLiteralReferenceInv
     DEF FollowCodeCacheReferences

LEMMA CollectorInv == Inv /\ DetachedTypeOK /\ Collector => Inv'
<1> SUFFICES ASSUME Inv, DetachedTypeOK, Collector PROVE Inv'
  OBVIOUS
<1>1. CASE LiteralsReferencesPurged
  BY <1>1, ProceedInv DEF LiteralsReferencesPurged, Labels
<1>2. CASE RememberedSetPurged
  BY <1>2, ProceedInv DEF RememberedSetPurged, Labels
<1>3. CASE RememberedSetFollowed
  BY <1>3, ProceedInv DEF RememberedSetFollowed, Labels
<1>4. QED
  BY <1>1, <1>2, <1>3, PurgeLiteralInv, PurgeRememberedInv, FollowCodeCacheReferencesInv,
     FollowRememberedInv, FollowStackInv, RescueEphemeronsInv, MakeRescuedEphemeronsNonWeakInv,
     FixWeakContainersInv, FlipSpacesInv, FixReferencesFromNativeMethodsInv,
     CleanRememberedInv, EndScavengeInv, TraversalInv
     DEF Collector

LEMMA StutteringInv == Inv /\ UNCHANGED vars => Inv'
<1> SUFFICES ASSUME Inv, UNCHANGED vars PROVE Inv'
  OBVIOUS
<1>1. HeapTypeOK' /\ SpacesTypeOK' /\ HostTypeOK'
  BY HeapKept, SpacesKept, HostKept DEF vars, Inv, CollectorTypeOK
<1>2. LocalsTypeOK' /\ ScansInside'
  BY LocalsKept DEF vars
<1>3. ControlTypeOK' /\ RescuesAnUnknown'
  BY DEF vars, localVars, controlVars, Inv, CollectorTypeOK, ControlTypeOK, RescuesAnUnknown
<1>4. QED
  BY <1>1, <1>2, <1>3 DEF Inv, CollectorTypeOK

LEMMA NextInv == Inv /\ DetachedTypeOK /\ [Next]_vars => Inv'
BY MutatorInv, StartScavengeInv, CollectorInv, StutteringInv DEF Next

(* Only the collector's array grows, and the host keeps what was full.      *)
LEMMA NextDetached == Inv /\ DetachedTypeOK /\ [Next]_vars => DetachedTypeOK'
<1> SUFFICES ASSUME Inv, DetachedTypeOK, [Next]_vars PROVE DetachedTypeOK'
  OBVIOUS
<1>1. CASE detached' = detached
  BY <1>1 DEF DetachedTypeOK
<1>2. CASE GrowWhenFull
  <2>1. detached' = rememberedSet \/ detached' = detached
    BY <1>2 DEF GrowWhenFull
  <2>2. QED
    BY <2>1 DEF DetachedTypeOK, Inv, CollectorTypeOK, HostTypeOK
<1>3. CASE EndScavenge
  BY <1>3, EmptySeq DEF EndScavenge, DetachedTypeOK
<1>4. Mutator \/ StartScavenge \/ UNCHANGED vars => detached' = detached
  BY DEF Mutator, Allocate, Store, WriteBarrier, Load, Drop, Take, SetTemporary, EmbedLiteral,
         EmbedClassCheck, Nativize, FillLookupCache, StartScavenge, vars
<1>5. FollowCodeCacheReferences => detached' = detached \/ GrowWhenFull
  BY DEF FollowCodeCacheReferences, ClearGlobalLookupCache, MoveClassCheckReference,
         ClassCheckReferencesMoved, CheckNativizedMethods, MoveNativizedMethod,
         NativizedMethodsMoved, MoveLiteralReference, LiteralsReferencesMoved, Proceed, Tenure,
         MoveToOldSpace
<1>6. RescueEphemerons => detached' = detached \/ GrowWhenFull
  BY DEF RescueEphemerons, LookForEphemerons, FollowEphemeron, CollectUnknown, Rescan,
         RescueUnknowns, RescueEphemeron, AddRescued, UnknownsRescued, EphemeronsDecided,
         HoldReferenceTo
<1>7. FollowCountStartingAt => detached' = detached \/ GrowWhenFull
  BY DEF FollowCountStartingAt, ScanOutside, ScanProxy, ScanCopy, ScanPop, MoveToOldOrTo,
         MoveToOldSpace, MoveToToSpace
<1>8. /\ PurgeLiteral \/ LiteralsReferencesPurged \/ PurgeRemembered \/ RememberedSetPurged
         => detached' = detached
      /\ FollowRemembered \/ RememberedSetFollowed \/ FollowStack => detached' = detached
      /\ MakeRescuedEphemeronsNonWeak \/ FixWeakContainers \/ FlipSpaces
         \/ FixReferencesFromNativeMethods \/ CleanRemembered => detached' = detached
  BY DEF PurgeLiteral, LiteralsReferencesPurged, PurgeRemembered, RememberedSetPurged,
         FollowRemembered, RememberedSetFollowed, FollowStack, MakeRescuedEphemeronsNonWeak,
         FixWeakContainers, FlipSpaces, FixReferencesFromNativeMethods, CleanRemembered, Proceed
<1>9. QED
  BY <1>1, <1>2, <1>3, <1>4, <1>5, <1>6, <1>7, <1>8 DEF Next, Collector

(* The invariant holds in every state of every behavior of the program and  *)
(* its collector, whatever the sizes of the spaces, of objects and of the   *)
(* queue, and whatever kinds of objects the program makes.                  *)
THEOREM AlwaysInv == Spec => [](Inv /\ DetachedTypeOK)
<1>1. Init => Inv /\ DetachedTypeOK
  BY Initially, EmptySeq DEF Init, DetachedTypeOK
<1>2. Inv /\ DetachedTypeOK /\ [Next]_vars => Inv' /\ DetachedTypeOK'
  BY NextInv, NextDetached
<1>3. QED
  BY <1>1, <1>2, PTL DEF Spec

(* Headers, slots, spaces and the arrays of doCollect hold what their names *)
(* say, through moves, flips, the program's stores and the growth of the    *)
(* remembered set.                                                          *)
THEOREM TypeCorrect == Spec => []TypeOK
<1>1. Inv /\ DetachedTypeOK => TypeOK
  BY DEF Inv, DetachedTypeOK, TypeOK
<1>2. QED
  BY <1>1, AlwaysInv, PTL

(* followCountStartingAt never reads or writes a slot that the object it    *)
(* scans does not have, though it changes objects, starts and sizes each    *)
(* time it goes into an object or comes back from one.                      *)
THEOREM ScansStayInside == Spec => []ScansInside
<1>1. Inv => ScansInside
  BY DEF Inv
<1>2. QED
  BY <1>1, AlwaysInv, PTL


-----------------------------------------------------------------------------
(* The remembered set.                                                     *)

(* Addresses of the two new spaces, whichever of them is in use. *)
IsNew(v) == NewBase1 <= v /\ v < OldBase

(* What is not going away with this scavenge, and all objects. *)
Copies == ObjectsIn(toSpace) \cup ObjectsIn(oldSpace)
Objects == ObjectsIn(fromSpace) \cup Copies

(* Addresses that are no objects of the spaces. *)
Special == {Nil, Tombstone, Stack, RescuedArray, CodeCache}

(* The inductive invariant: the set has old objects only, none of them      *)
(* twice, and the flag of an object, moved or not, tells whether it is      *)
(* there.                                                                   *)
HoldsOldObjects == ToSet(rememberedSet) \subseteq OldObjects

HoldsThemOnce == \A j, k \in DOMAIN rememberedSet : rememberedSet[j] = rememberedSet[k] => j = k

FlagsAgree ==
  \A a \in Objects \cup {RescuedArray} :
    header[a].inRememberedSet <=> a \in ToSet(rememberedSet)

RememberedInv == HoldsOldObjects /\ HoldsThemOnce /\ FlagsAgree

-----------------------------------------------------------------------------
(* Sequences as sets. *)
LEMMA SetOf ==
  ASSUME NEW S, NEW s \in Seq(S)
  PROVE  /\ DOMAIN s = 1 .. Len(s) /\ Len(s) \in Nat
         /\ ToSet(s) = {s[j] : j \in 1 .. Len(s)}
         /\ ToSet(s) \subseteq S
<1>1. DOMAIN s = 1 .. Len(s) /\ Len(s) \in Nat
  BY LenProperties
<1>2. \A j \in 1 .. Len(s) : s[j] \in S
  BY ElementOfSeq
<1>3. QED
  BY <1>1, <1>2 DEF ToSet

LEMMA SetOfEmpty == ToSet(<< >>) = {}
BY DEF ToSet

LEMMA Appended ==
  ASSUME NEW S, NEW s \in Seq(S), NEW e \in S
  PROVE  /\ Append(s, e) \in Seq(S)
         /\ Len(Append(s, e)) = Len(s) + 1
         /\ \A j \in 1 .. Len(s) : Append(s, e)[j] = s[j]
         /\ Append(s, e)[Len(s) + 1] = e
         /\ ToSet(Append(s, e)) = ToSet(s) \cup {e}
<1>1. /\ Append(s, e) \in Seq(S)
      /\ Len(Append(s, e)) = Len(s) + 1
      /\ \A j \in 1 .. Len(s) : Append(s, e)[j] = s[j]
      /\ Append(s, e)[Len(s) + 1] = e
  BY AppendProperties
<1>2. Len(s) \in Nat /\ ToSet(s) = {s[j] : j \in 1 .. Len(s)}
  BY SetOf
<1>3. ToSet(Append(s, e)) = {Append(s, e)[j] : j \in 1 .. Len(s) + 1}
  BY <1>1, SetOf
<1>4. 1 .. Len(s) + 1 = (1 .. Len(s)) \cup {Len(s) + 1}
  BY <1>2
<1>5. QED
  BY <1>1, <1>2, <1>3, <1>4

LEMMA RemovedAt ==
  ASSUME NEW S, NEW s \in Seq(S), NEW j \in 1 .. Len(s)
  PROVE  /\ RemoveAt(s, j) \in Seq(S)
         /\ Len(RemoveAt(s, j)) = Len(s) - 1
         /\ \A k \in 1 .. Len(s) - 1 : RemoveAt(s, j)[k] = IF k < j THEN s[k] ELSE s[k + 1]
<1> DEFINE before == SubSeq(s, 1, j - 1)
           behind == SubSeq(s, j + 1, Len(s))
<1>1. Len(s) \in Nat /\ \A k \in 1 .. Len(s) : s[k] \in S
  BY SetOf, ElementOfSeq
<1>2. /\ before \in Seq(S) /\ Len(before) = j - 1
      /\ \A k \in 1 .. j - 1 : before[k] = s[k]
  <2>1. /\ SubSeq(s, 1, j - 1) \in Seq(S)
        /\ Len(SubSeq(s, 1, j - 1)) = IF 1 <= j - 1 THEN j - 1 - 1 + 1 ELSE 0
        /\ \A k \in 1 .. j - 1 - 1 + 1 : SubSeq(s, 1, j - 1)[k] = s[1 + k - 1]
    BY <1>1, SubSeqProperties
  <2>2. (IF 1 <= j - 1 THEN j - 1 - 1 + 1 ELSE 0) = j - 1 /\ j - 1 - 1 + 1 = j - 1
    BY <1>1
  <2>3. QED
    BY <2>1, <2>2
<1>3. /\ behind \in Seq(S) /\ Len(behind) = Len(s) - j
      /\ \A k \in 1 .. Len(s) - j : behind[k] = s[j + k]
  <2>1. /\ SubSeq(s, j + 1, Len(s)) \in Seq(S)
        /\ Len(SubSeq(s, j + 1, Len(s))) = IF j + 1 <= Len(s) THEN Len(s) - (j + 1) + 1 ELSE 0
        /\ \A k \in 1 .. Len(s) - (j + 1) + 1 : SubSeq(s, j + 1, Len(s))[k] = s[(j + 1) + k - 1]
    BY <1>1, SubSeqProperties
  <2>2. /\ (IF j + 1 <= Len(s) THEN Len(s) - (j + 1) + 1 ELSE 0) = Len(s) - j
        /\ Len(s) - (j + 1) + 1 = Len(s) - j
    BY <1>1
  <2>3. \A k \in 1 .. Len(s) - j : (j + 1) + k - 1 = j + k
    BY <1>1
  <2>4. QED
    BY <2>1, <2>2, <2>3
<1> HIDE DEF before, behind
<1>4. RemoveAt(s, j) = before \o behind
  BY DEF RemoveAt, before, behind
<1>5. /\ RemoveAt(s, j) \in Seq(S)
      /\ Len(RemoveAt(s, j)) = (j - 1) + (Len(s) - j)
      /\ \A k \in 1 .. (j - 1) + (Len(s) - j) :
           RemoveAt(s, j)[k] = IF k <= j - 1 THEN before[k] ELSE behind[k - (j - 1)]
  <2>1. /\ before \o behind \in Seq(S)
        /\ Len(before \o behind) = Len(before) + Len(behind)
        /\ \A k \in 1 .. Len(before) + Len(behind) :
             (before \o behind)[k] = IF k <= Len(before) THEN before[k]
                                                       ELSE behind[k - Len(before)]
    BY <1>2, <1>3, ConcatProperties
  <2>2. Len(before) = j - 1 /\ Len(behind) = Len(s) - j
    BY <1>2, <1>3
  <2>3. QED
    BY <1>4, <2>1, <2>2
<1>6. ASSUME NEW k \in 1 .. Len(s) - 1
      PROVE  RemoveAt(s, j)[k] = IF k < j THEN s[k] ELSE s[k + 1]
  <2>1. CASE k < j
    <3>1. k \in 1 .. j - 1 /\ k <= j - 1 /\ k \in 1 .. (j - 1) + (Len(s) - j)
      BY <1>1, <2>1
    <3>2. QED
      BY <1>2, <1>5, <2>1, <3>1
  <2>2. CASE ~(k < j)
    <3>1. /\ k - (j - 1) \in 1 .. Len(s) - j /\ ~(k <= j - 1) /\ j + (k - (j - 1)) = k + 1
          /\ k \in 1 .. (j - 1) + (Len(s) - j)
      BY <1>1, <2>2
    <3>2. QED
      BY <1>3, <1>5, <2>2, <3>1
  <2>3. QED
    BY <2>1, <2>2
<1>7. (j - 1) + (Len(s) - j) = Len(s) - 1
  BY <1>1
<1>8. QED
  BY <1>5, <1>6, <1>7

LEMMA SetWithout ==
  ASSUME NEW S, NEW s \in Seq(S), NEW j \in 1 .. Len(s)
  PROVE  /\ ToSet(RemoveAt(s, j)) \subseteq ToSet(s)
         /\ ToSet(s) \subseteq ToSet(RemoveAt(s, j)) \cup {s[j]}
<1> DEFINE r == RemoveAt(s, j)
<1>1. /\ r \in Seq(S) /\ Len(r) = Len(s) - 1
      /\ \A k \in 1 .. Len(s) - 1 : r[k] = IF k < j THEN s[k] ELSE s[k + 1]
  BY RemovedAt
<1> HIDE DEF r
<1>2. Len(s) \in Nat /\ ToSet(s) = {s[k] : k \in 1 .. Len(s)}
  BY SetOf
<1>3. ToSet(r) = {r[k] : k \in 1 .. Len(s) - 1}
  BY <1>1, SetOf
<1>4. \A k \in 1 .. Len(s) - 1 : r[k] \in ToSet(s)
  BY <1>1, <1>2
<1>5. ASSUME NEW k \in 1 .. Len(s), k # j PROVE s[k] \in ToSet(r)
  <2>1. CASE k < j
    <3>1. k \in 1 .. Len(s) - 1 /\ r[k] = s[k]
      BY <1>1, <1>2, <2>1
    <3>2. QED
      BY <1>3, <3>1
  <2>2. CASE k > j
    <3>1. k - 1 \in 1 .. Len(s) - 1 /\ r[k - 1] = s[k]
      BY <1>1, <1>2, <2>2
    <3>2. QED
      BY <1>3, <3>1
  <2>3. QED
    BY <1>2, <1>5, <2>1, <2>2
<1>6. ToSet(s) \subseteq ToSet(r) \cup {s[j]}
  BY <1>2, <1>5
<1>7. QED
  BY <1>3, <1>4, <1>6 DEF r

(* Taking an element out of a sequence without duplicates. *)
LEMMA DistinctWithout ==
  ASSUME NEW S, NEW s \in Seq(S), NEW j \in 1 .. Len(s),
         \A k, l \in DOMAIN s : s[k] = s[l] => k = l
  PROVE  /\ \A k, l \in DOMAIN RemoveAt(s, j) : RemoveAt(s, j)[k] = RemoveAt(s, j)[l] => k = l
         /\ s[j] \notin ToSet(RemoveAt(s, j))
<1> DEFINE r == RemoveAt(s, j)
<1>1. /\ r \in Seq(S) /\ Len(r) = Len(s) - 1
      /\ \A k \in 1 .. Len(s) - 1 : r[k] = IF k < j THEN s[k] ELSE s[k + 1]
  BY RemovedAt
<1> HIDE DEF r
<1>2. Len(s) \in Nat /\ DOMAIN s = 1 .. Len(s)
  BY SetOf
<1>3. DOMAIN r = 1 .. Len(s) - 1 /\ ToSet(r) = {r[k] : k \in 1 .. Len(s) - 1}
  BY <1>1, SetOf
<1> DEFINE place(k) == IF k < j THEN k ELSE k + 1
<1>4. ASSUME NEW k \in 1 .. Len(s) - 1
      PROVE  r[k] = s[place(k)] /\ place(k) \in 1 .. Len(s) /\ place(k) # j
  BY <1>1, <1>2
<1>5. ASSUME NEW k \in DOMAIN r, NEW l \in DOMAIN r, r[k] = r[l] PROVE k = l
  <2>1. s[place(k)] = s[place(l)] /\ place(k) \in 1 .. Len(s) /\ place(l) \in 1 .. Len(s)
    BY <1>3, <1>4, <1>5
  <2>2. place(k) = place(l)
    BY <1>2, <2>1
  <2>3. QED
    BY <1>2, <1>3, <2>2
<1>6. s[j] \notin ToSet(r)
  <2>1. \A k \in 1 .. Len(s) - 1 : s[place(k)] # s[j]
    BY <1>2, <1>4
  <2>2. QED
    BY <1>3, <1>4, <2>1
<1>7. QED
  BY <1>5, <1>6 DEF r

LEMMA DistinctWith ==
  ASSUME NEW S, NEW s \in Seq(S), NEW e \in S, e \notin ToSet(s),
         \A k, l \in DOMAIN s : s[k] = s[l] => k = l
  PROVE  \A k, l \in DOMAIN Append(s, e) : Append(s, e)[k] = Append(s, e)[l] => k = l
<1>1. /\ Append(s, e) \in Seq(S) /\ Len(Append(s, e)) = Len(s) + 1
      /\ \A j \in 1 .. Len(s) : Append(s, e)[j] = s[j]
      /\ Append(s, e)[Len(s) + 1] = e
  BY Appended
<1>2. DOMAIN Append(s, e) = 1 .. Len(s) + 1 /\ DOMAIN s = 1 .. Len(s) /\ Len(s) \in Nat
  BY <1>1, SetOf
<1>3. \A j \in 1 .. Len(s) : s[j] # e
  BY SetOf
<1>4. QED
  BY <1>1, <1>2, <1>3

-----------------------------------------------------------------------------
(* The spaces. *)
LEMMA Bounds ==
  ASSUME SpacesTypeOK
  PROVE  /\ fromSpace \in Space /\ toSpace \in Space /\ oldSpace \in Space
         /\ NewBase1 = 1 /\ OldBase \in Nat /\ OldSize \in Nat
         /\ NewBase1 <= fromSpace.base /\ fromSpace.limit <= OldBase
         /\ NewBase1 <= toSpace.base /\ toSpace.limit <= OldBase
         /\ fromSpace.limit <= toSpace.base \/ toSpace.limit <= fromSpace.base
         /\ fromSpace.base \in Nat /\ fromSpace.nextFree \in Nat /\ fromSpace.limit \in Nat
         /\ toSpace.base \in Nat /\ toSpace.nextFree \in Nat /\ toSpace.limit \in Nat
         /\ fromSpace.base <= fromSpace.nextFree /\ fromSpace.nextFree <= fromSpace.limit
         /\ toSpace.base <= toSpace.nextFree /\ toSpace.nextFree <= toSpace.limit
         /\ oldSpace.base = OldBase /\ oldSpace.limit = OldBase + OldSize
         /\ oldSpace.nextFree \in Nat
         /\ OldBase <= oldSpace.nextFree /\ oldSpace.nextFree <= oldSpace.limit
<1>1. /\ fromSpace \in Space /\ fromSpace.nextFree \in Nat
      /\ fromSpace.limit = fromSpace.base + SemiSize
      /\ fromSpace.base <= fromSpace.nextFree /\ fromSpace.nextFree <= fromSpace.limit
  BY DEF SpacesTypeOK, IsSpace, Space
<1>2. /\ toSpace \in Space /\ toSpace.nextFree \in Nat
      /\ toSpace.limit = toSpace.base + SemiSize
      /\ toSpace.base <= toSpace.nextFree /\ toSpace.nextFree <= toSpace.limit
  BY DEF SpacesTypeOK, IsSpace, Space
<1>3. /\ oldSpace \in Space /\ oldSpace.nextFree \in Nat
      /\ oldSpace.base = OldBase /\ oldSpace.limit = OldBase + OldSize
      /\ OldBase <= oldSpace.nextFree /\ oldSpace.nextFree <= oldSpace.limit
  BY DEF SpacesTypeOK, IsSpace, Space
<1>4. \/ fromSpace.base = 1 /\ toSpace.base = SemiSize + 1
      \/ fromSpace.base = SemiSize + 1 /\ toSpace.base = 1
  BY Layout DEF SpacesTypeOK
<1>5. NewBase1 = 1 /\ OldBase = 2 * SemiSize + 1 /\ SemiSize \in Nat /\ OldSize \in Nat
  BY Layout
<1>6. QED
  BY <1>1, <1>2, <1>3, <1>4, <1>5

LEMMA Places ==
  ASSUME SpacesTypeOK
  PROVE  /\ Objects \subseteq Address /\ \A a \in Objects : a > 0
         /\ Special \subseteq Address /\ Special \cap Objects = {}
         /\ ObjectsIn(fromSpace) \cap Copies = {}
         /\ ObjectsIn(toSpace) \cap ObjectsIn(oldSpace) = {}
         /\ \A a \in ObjectsIn(fromSpace) : ArenaIncludes(a)
         /\ \A a \in Copies \cup Special : ~ArenaIncludes(a)
         /\ \A a \in Special \cup ObjectsIn(oldSpace) : ~IsNew(a) /\ ~Includes(toSpace, a)
         /\ \A a \in ObjectsIn(fromSpace) \cup ObjectsIn(toSpace) : IsNew(a)
         /\ \A a \in ObjectsIn(oldSpace) : Includes(oldSpace, a)
         /\ \A a \in ObjectsIn(fromSpace) \cup ObjectsIn(toSpace) : ~Includes(oldSpace, a)
         /\ \A a \in Int : ArenaIncludes(a) => IsNew(a)
<1>1. Special = {0, -1, -2, -3, -4}
  BY Layout DEF Special
<1>2. \A a \in Special : a \in Address /\ a <= 0
  BY <1>1, Layout
<1>3. \A a \in ObjectsIn(fromSpace) :
        /\ a \in Address /\ a > 0 /\ ArenaIncludes(a) /\ IsNew(a) /\ a \notin Copies
        /\ ~Includes(oldSpace, a)
  <2>1. \A a \in ObjectsIn(fromSpace) :
          /\ a \in Int /\ fromSpace.base <= a /\ a < fromSpace.nextFree
    BY Bounds DEF ObjectsIn
  <2>2. \A a \in ObjectsIn(fromSpace) : a \in Address /\ a > 0 /\ ArenaIncludes(a) /\ IsNew(a)
    BY <2>1, Bounds, Layout DEF ArenaIncludes, Includes, IsNew
  <2>3. \A a \in ObjectsIn(fromSpace) : a \notin ObjectsIn(toSpace)
    BY <2>1, Bounds DEF ObjectsIn
  <2>4. \A a \in ObjectsIn(fromSpace) : a \notin ObjectsIn(oldSpace) /\ ~Includes(oldSpace, a)
    BY <2>1, Bounds DEF ObjectsIn, Includes
  <2>5. QED
    BY <2>2, <2>3, <2>4 DEF Copies
<1>4. \A a \in ObjectsIn(toSpace) :
        /\ a \in Address /\ a > 0 /\ ~ArenaIncludes(a) /\ IsNew(a) /\ a \notin ObjectsIn(oldSpace)
        /\ ~Includes(oldSpace, a)
  BY Bounds, Layout DEF ObjectsIn, ArenaIncludes, Includes, IsNew
<1>5. \A a \in ObjectsIn(oldSpace) :
        /\ a \in Address /\ a > 0 /\ ~ArenaIncludes(a) /\ ~IsNew(a) /\ ~Includes(toSpace, a)
        /\ Includes(oldSpace, a)
  BY Bounds, Layout DEF ObjectsIn, ArenaIncludes, Includes, IsNew
<1>6. \A a \in Special : ~ArenaIncludes(a) /\ ~IsNew(a) /\ ~Includes(toSpace, a)
  BY <1>1, Bounds, Layout DEF ArenaIncludes, Includes, IsNew
<1>7. \A a \in Int : ArenaIncludes(a) => IsNew(a)
  BY Bounds, Layout DEF ArenaIncludes, Includes, IsNew
<1>8. \A a \in Objects : a \in Address /\ a > 0
  BY <1>3, <1>4, <1>5 DEF Objects, Copies
<1>9. Special \cap Objects = {}
  <2>1. \A a \in Special : ~(a > 0)
    BY <1>1
  <2>2. QED
    BY <1>8, <2>1
<1>10. QED
  BY <1>2, <1>3, <1>4, <1>5, <1>6, <1>7, <1>8, <1>9 DEF Copies

(* The cell of the next object of a space is none of the objects. *)
LEMMA FreeCells ==
  ASSUME SpacesTypeOK
  PROVE  /\ fromSpace.nextFree < fromSpace.limit =>
              /\ fromSpace.nextFree \in Address \ (Objects \cup Special)
              /\ fromSpace.nextFree > 0 /\ Includes(fromSpace, fromSpace.nextFree)
         /\ toSpace.nextFree < toSpace.limit =>
              /\ toSpace.nextFree \in Address \ (Objects \cup Special)
              /\ toSpace.nextFree > 0 /\ ~ArenaIncludes(toSpace.nextFree)
              /\ IsNew(toSpace.nextFree)
         /\ oldSpace.nextFree < oldSpace.limit =>
              /\ oldSpace.nextFree \in Address \ (Objects \cup Special)
              /\ oldSpace.nextFree > 0 /\ ~ArenaIncludes(oldSpace.nextFree)
              /\ ~IsNew(oldSpace.nextFree)
<1>1. Special = {0, -1, -2, -3, -4}
  BY Layout DEF Special
<1>2. ASSUME fromSpace.nextFree < fromSpace.limit
      PROVE  /\ fromSpace.nextFree \in Address /\ fromSpace.nextFree > 0
             /\ fromSpace.nextFree \notin Objects /\ Includes(fromSpace, fromSpace.nextFree)
  <2>1. fromSpace.nextFree \in Address /\ fromSpace.nextFree > 0
    BY <1>2, Bounds, Layout
  <2>2. fromSpace.nextFree \notin ObjectsIn(fromSpace) /\ Includes(fromSpace, fromSpace.nextFree)
    BY <1>2, Bounds DEF ObjectsIn, Includes
  <2>3. fromSpace.nextFree \notin ObjectsIn(toSpace)
    BY <1>2, Bounds DEF ObjectsIn
  <2>4. fromSpace.nextFree \notin ObjectsIn(oldSpace)
    BY <1>2, Bounds DEF ObjectsIn
  <2>5. QED
    BY <2>1, <2>2, <2>3, <2>4 DEF Objects, Copies
<1>3. ASSUME toSpace.nextFree < toSpace.limit
      PROVE  /\ toSpace.nextFree \in Address /\ toSpace.nextFree > 0
             /\ toSpace.nextFree \notin Objects /\ ~ArenaIncludes(toSpace.nextFree)
             /\ IsNew(toSpace.nextFree)
  <2>1. toSpace.nextFree \in Address /\ toSpace.nextFree > 0 /\ IsNew(toSpace.nextFree)
    BY <1>3, Bounds, Layout DEF IsNew
  <2>2. toSpace.nextFree \notin ObjectsIn(toSpace)
    BY <1>3, Bounds DEF ObjectsIn
  <2>3. toSpace.nextFree \notin ObjectsIn(fromSpace) /\ ~ArenaIncludes(toSpace.nextFree)
    BY <1>3, Bounds DEF ObjectsIn, ArenaIncludes, Includes
  <2>4. toSpace.nextFree \notin ObjectsIn(oldSpace)
    BY <1>3, Bounds DEF ObjectsIn
  <2>5. QED
    BY <2>1, <2>2, <2>3, <2>4 DEF Objects, Copies
<1>4. ASSUME oldSpace.nextFree < oldSpace.limit
      PROVE  /\ oldSpace.nextFree \in Address /\ oldSpace.nextFree > 0
             /\ oldSpace.nextFree \notin Objects /\ ~ArenaIncludes(oldSpace.nextFree)
             /\ ~IsNew(oldSpace.nextFree)
  <2>1. oldSpace.nextFree \in Address /\ oldSpace.nextFree > 0 /\ ~IsNew(oldSpace.nextFree)
    BY <1>4, Bounds, Layout DEF IsNew
  <2>2. oldSpace.nextFree \notin ObjectsIn(oldSpace)
    BY <1>4, Bounds DEF ObjectsIn
  <2>3. oldSpace.nextFree \notin ObjectsIn(fromSpace) /\ ~ArenaIncludes(oldSpace.nextFree)
    BY <1>4, Bounds DEF ObjectsIn, ArenaIncludes, Includes
  <2>4. oldSpace.nextFree \notin ObjectsIn(toSpace)
    BY <1>4, Bounds DEF ObjectsIn
  <2>5. QED
    BY <2>1, <2>2, <2>3, <2>4 DEF Objects, Copies
<1>5. \A a \in Int : a > 0 => a \notin Special
  BY <1>1
<1>6. QED
  BY <1>2, <1>3, <1>4, <1>5, Layout

LEMMA OneMore ==
  ASSUME NEW space \in Space, space.base \in Nat, space.base <= space.nextFree
  PROVE  /\ ObjectsIn([space EXCEPT !.nextFree = space.nextFree + 1])
              = ObjectsIn(space) \cup {space.nextFree}
         /\ \A a : Includes([space EXCEPT !.nextFree = space.nextFree + 1], a) <=> Includes(space, a)
<1>1. space.nextFree \in Nat
  BY DEF Space
<1>2. [space EXCEPT !.nextFree = space.nextFree + 1]
        = [base |-> space.base, nextFree |-> space.nextFree + 1, limit |-> space.limit]
  BY DEF Space
<1>3. space.base .. space.nextFree + 1 - 1 = (space.base .. space.nextFree - 1) \cup {space.nextFree}
  BY <1>1
<1>4. QED
  BY <1>2, <1>3 DEF ObjectsIn, Includes

-----------------------------------------------------------------------------
(* What moving an object does, wherever it goes. *)
Relocates(object, copy) ==
  /\ copy \in Address \ (Objects \cup Special) /\ copy > 0 /\ ~ArenaIncludes(copy)
  /\ fromSpace' = fromSpace
  /\ Copies' = Copies \cup {copy}
  /\ Objects' = Objects \cup {copy}
  /\ \A a \in Address \ {object, copy} : header'[a] = header[a]
  /\ header'[object] = [header[object] EXCEPT !.proxee = copy]
  /\ header'[copy].hash = header[object].hash
  /\ header'[copy].hasWeaks = header[object].hasWeaks
  /\ header'[copy].isEphemeron = header[object].isEphemeron
  /\ header'[copy].proxee = header[object].proxee

LEMMA HeadersAfter ==
  ASSUME header \in [Address -> Header], NEW object \in Address, NEW copy \in Address,
         object # copy, NEW flags \in Header, CopyTo(object, copy, flags)
  PROVE  /\ \A a \in Address \ {object, copy} : header'[a] = header[a]
         /\ header'[object] = [header[object] EXCEPT !.proxee = copy]
         /\ header'[copy] = flags
<1>1. header' = [[header EXCEPT ![copy] = flags] EXCEPT ![object].proxee = copy]
  BY DEF CopyTo
<1>2. QED
  BY <1>1

LEMMA MoveToOldRelocates ==
  ASSUME Inv, NEW object \in Address, ArenaIncludes(object), MoveToOldSpace(object)
  PROVE  /\ Relocates(object, oldSpace.nextFree)
         /\ ObjectsIn(oldSpace)' = ObjectsIn(oldSpace) \cup {oldSpace.nextFree}
         /\ ~IsNew(oldSpace.nextFree)
         /\ toSpace' = toSpace
         /\ rememberedSet' = Append(rememberedSet, oldSpace.nextFree)
         /\ header'[oldSpace.nextFree].inRememberedSet
<1> DEFINE copy == oldSpace.nextFree
<1>1. /\ copy < oldSpace.limit /\ oldSpace' = [oldSpace EXCEPT !.nextFree = copy + 1]
      /\ CopyTo(object, copy, [header[object] EXCEPT !.inRememberedSet = TRUE])
      /\ rememberedSet' = Append(rememberedSet, copy)
      /\ fromSpace' = fromSpace /\ toSpace' = toSpace
  BY DEF MoveToOldSpace
<1>2. /\ copy \in Address \ (Objects \cup Special) /\ copy > 0
      /\ ~ArenaIncludes(copy) /\ ~IsNew(copy)
  BY <1>1, FreeCells DEF Inv, CollectorTypeOK
<1>3. header \in [Address -> Header] /\ header[object] \in Header
  BY DEF Inv, CollectorTypeOK, HeapTypeOK
<1>4. [header[object] EXCEPT !.inRememberedSet = TRUE] \in Header
  BY <1>3, HeaderFlags
<1>5. object # copy
  BY <1>2
<1>6. /\ \A a \in Address \ {object, copy} : header'[a] = header[a]
      /\ header'[object] = [header[object] EXCEPT !.proxee = copy]
      /\ header'[copy] = [header[object] EXCEPT !.inRememberedSet = TRUE]
  BY <1>1, <1>2, <1>3, <1>4, <1>5, HeadersAfter
<1>7. /\ header'[copy].inRememberedSet
      /\ header'[copy].hash = header[object].hash
      /\ header'[copy].hasWeaks = header[object].hasWeaks
      /\ header'[copy].isEphemeron = header[object].isEphemeron
      /\ header'[copy].proxee = header[object].proxee
  BY <1>3, <1>6 DEF Header
<1>8. ObjectsIn(oldSpace') = ObjectsIn(oldSpace) \cup {copy}
  <2>1. oldSpace \in Space /\ oldSpace.base \in Nat /\ oldSpace.base <= oldSpace.nextFree
    BY Bounds, Layout DEF Inv, CollectorTypeOK
  <2>2. QED
    BY <1>1, <2>1, OneMore
<1>9. Copies' = Copies \cup {copy} /\ Objects' = Objects \cup {copy}
  BY <1>1, <1>8 DEF Copies, Objects
<1>10. QED
  BY <1>1, <1>2, <1>6, <1>7, <1>8, <1>9 DEF Relocates

LEMMA MoveToToRelocates ==
  ASSUME Inv, NEW object \in Address, ArenaIncludes(object), MoveToToSpace(object)
  PROVE  /\ Relocates(object, toSpace.nextFree)
         /\ oldSpace' = oldSpace
         /\ rememberedSet' = rememberedSet
         /\ ~header'[toSpace.nextFree].inRememberedSet
<1> DEFINE copy == toSpace.nextFree
           flags == [header[object] EXCEPT !.secondGeneration = TRUE, !.inRememberedSet = FALSE]
<1>1. /\ copy < toSpace.limit /\ toSpace' = [toSpace EXCEPT !.nextFree = copy + 1]
      /\ CopyTo(object, copy, flags)
      /\ fromSpace' = fromSpace /\ oldSpace' = oldSpace /\ rememberedSet' = rememberedSet
  BY DEF MoveToToSpace
<1>2. copy \in Address \ (Objects \cup Special) /\ copy > 0 /\ ~ArenaIncludes(copy)
  BY <1>1, FreeCells DEF Inv, CollectorTypeOK
<1>3. header \in [Address -> Header] /\ header[object] \in Header
  BY DEF Inv, CollectorTypeOK, HeapTypeOK
<1>4. flags \in Header
  BY <1>3, HeaderFlags
<1>5. object # copy
  BY <1>2
<1>6. /\ \A a \in Address \ {object, copy} : header'[a] = header[a]
      /\ header'[object] = [header[object] EXCEPT !.proxee = copy]
      /\ header'[copy] = flags
  <2> HIDE DEF flags
  <2>1. QED
    BY <1>1, <1>2, <1>3, <1>4, <1>5, HeadersAfter
<1>7. /\ ~header'[copy].inRememberedSet
      /\ header'[copy].hash = header[object].hash
      /\ header'[copy].hasWeaks = header[object].hasWeaks
      /\ header'[copy].isEphemeron = header[object].isEphemeron
      /\ header'[copy].proxee = header[object].proxee
  BY <1>3, <1>6 DEF Header
<1>8. ObjectsIn(toSpace') = ObjectsIn(toSpace) \cup {copy}
  BY <1>1, OneMore, Bounds DEF Inv, CollectorTypeOK
<1>9. Copies' = Copies \cup {copy} /\ Objects' = Objects \cup {copy}
  BY <1>1, <1>8 DEF Copies, Objects
<1>10. QED
  BY <1>1, <1>2, <1>6, <1>7, <1>9 DEF Relocates

-----------------------------------------------------------------------------
(* The steps that concern the remembered set; the others leave headers,     *)
(* spaces and the set alone.                                                *)
LEMMA RememberedInitially == Init => RememberedInv
<1> SUFFICES ASSUME Init PROVE RememberedInv
  OBVIOUS
<1>1. rememberedSet = << >> /\ ToSet(rememberedSet) = {}
  BY SetOfEmpty DEF Init
<1>2. HoldsOldObjects /\ HoldsThemOnce
  BY <1>1 DEF HoldsOldObjects, HoldsThemOnce
<1>3. Objects \subseteq Address /\ RescuedArray \in Address
  BY Initially, Places, Layout DEF Inv, CollectorTypeOK
<1>4. \A a \in Address : ~header[a].inRememberedSet
  BY DEF Init, FreeHeader
<1>5. FlagsAgree
  BY <1>1, <1>3, <1>4 DEF FlagsAgree
<1>6. QED
  BY <1>2, <1>5 DEF RememberedInv

LEMMA RememberedKept ==
  ASSUME RememberedInv, UNCHANGED <<header, spaceVars, rememberedSet>>
  PROVE  RememberedInv'
<1>1. /\ Objects' = Objects /\ OldObjects' = OldObjects
      /\ header' = header /\ rememberedSet' = rememberedSet
  BY DEF spaceVars, Objects, Copies, OldObjects, ObjectsIn
<1>2. QED
  BY <1>1 DEF RememberedInv, HoldsOldObjects, HoldsThemOnce, FlagsAgree

(* Nothing that matters to the set happened to an object that was there.    *)
LEMMA RememberedSame ==
  ASSUME RememberedInv, OldObjects \subseteq OldObjects', rememberedSet' = rememberedSet,
         \A a \in Objects' \cup {RescuedArray} :
           \/ a \in Objects \cup {RescuedArray}
                /\ header'[a].inRememberedSet = header[a].inRememberedSet
           \/ ~header'[a].inRememberedSet /\ a \notin OldObjects
  PROVE  RememberedInv'
<1>1. HoldsOldObjects' /\ HoldsThemOnce'
  BY DEF RememberedInv, HoldsOldObjects, HoldsThemOnce
<1>2. FlagsAgree'
  BY DEF RememberedInv, HoldsOldObjects, FlagsAgree
<1>3. QED
  BY <1>1, <1>2 DEF RememberedInv

(* An old object or the queue is entered, its flag set. *)
LEMMA RememberedMore ==
  ASSUME RememberedInv, rememberedSet \in Seq(Address), NEW e \in Address, e \notin ToSet(rememberedSet),
         e \in OldObjects', OldObjects \subseteq OldObjects',
         rememberedSet' = Append(rememberedSet, e), header'[e].inRememberedSet,
         \A a \in (Objects' \cup {RescuedArray}) \ {e} :
           /\ a \in Objects \cup {RescuedArray}
           /\ header'[a].inRememberedSet = header[a].inRememberedSet
  PROVE  RememberedInv'
<1>1. ToSet(rememberedSet') = ToSet(rememberedSet) \cup {e}
  BY Appended
<1>2. HoldsOldObjects'
  BY <1>1 DEF RememberedInv, HoldsOldObjects
<1>3. HoldsThemOnce'
  BY DistinctWith DEF RememberedInv, HoldsThemOnce
<1>4. FlagsAgree'
  BY <1>1 DEF RememberedInv, FlagsAgree
<1>5. QED
  BY <1>2, <1>3, <1>4 DEF RememberedInv

LEMMA OldAmongObjects ==
  ASSUME Inv
  PROVE  /\ OldObjects \subseteq Objects \cup {RescuedArray}
         /\ RescuedArray \in Special /\ RescuedArray \in Address
         /\ OldObjects = ObjectsIn(oldSpace) \cup {RescuedArray}
BY Layout DEF OldObjects, Objects, Copies, Special

LEMMA MoveToOldRemembered ==
  ASSUME Inv, RememberedInv, NEW object \in Address, ArenaIncludes(object), MoveToOldSpace(object)
  PROVE  RememberedInv'
<1> DEFINE copy == oldSpace.nextFree
<1>1. /\ Relocates(object, copy)
      /\ ObjectsIn(oldSpace)' = ObjectsIn(oldSpace) \cup {copy}
      /\ rememberedSet' = Append(rememberedSet, copy) /\ header'[copy].inRememberedSet
  BY MoveToOldRelocates
<1>2. /\ copy \in Address \ (Objects \cup Special)
      /\ Objects' = Objects \cup {copy} /\ Objects \subseteq Address
  BY <1>1, Places DEF Relocates, Inv, CollectorTypeOK
<1>3. OldObjects' = OldObjects \cup {copy}
  BY <1>1 DEF OldObjects
<1>4. copy \notin ToSet(rememberedSet)
  BY <1>2, OldAmongObjects DEF RememberedInv, HoldsOldObjects
<1>5. ASSUME NEW a \in (Objects \cup {RescuedArray}) \ {copy}
      PROVE  header'[a].inRememberedSet = header[a].inRememberedSet
  <2>1. a \in Address
    BY <1>2, OldAmongObjects
  <2>2. CASE a = object
    <3>1. header'[a] = [header[a] EXCEPT !.proxee = copy] /\ header[a] \in Header
      BY <1>1, <2>1, <2>2 DEF Relocates, Inv, CollectorTypeOK, HeapTypeOK
    <3>2. QED
      BY <3>1 DEF Header
  <2>3. CASE a # object
    BY <1>1, <2>1, <2>3 DEF Relocates
  <2>4. QED
    BY <2>2, <2>3
<1>6. QED
  BY <1>1, <1>2, <1>3, <1>4, <1>5, RememberedMore DEF Inv, CollectorTypeOK, HostTypeOK

LEMMA MoveToToRemembered ==
  ASSUME Inv, RememberedInv, NEW object \in Address, ArenaIncludes(object), MoveToToSpace(object)
  PROVE  RememberedInv'
<1> DEFINE copy == toSpace.nextFree
<1>1. /\ Relocates(object, copy) /\ oldSpace' = oldSpace
      /\ rememberedSet' = rememberedSet /\ ~header'[copy].inRememberedSet
  BY MoveToToRelocates
<1>2. /\ copy \in Address \ (Objects \cup Special)
      /\ Objects' = Objects \cup {copy} /\ Objects \subseteq Address
  BY <1>1, Places DEF Relocates, Inv, CollectorTypeOK
<1>3. OldObjects' = OldObjects /\ copy \notin OldObjects
  BY <1>1, <1>2, OldAmongObjects DEF OldObjects
<1>4. ASSUME NEW a \in (Objects \cup {RescuedArray}) \ {copy}
      PROVE  header'[a].inRememberedSet = header[a].inRememberedSet
  <2>1. a \in Address
    BY <1>2, OldAmongObjects
  <2>2. CASE a = object
    <3>1. header'[a] = [header[a] EXCEPT !.proxee = copy] /\ header[a] \in Header
      BY <1>1, <2>1, <2>2 DEF Relocates, Inv, CollectorTypeOK, HeapTypeOK
    <3>2. QED
      BY <3>1 DEF Header
  <2>3. CASE a # object
    BY <1>1, <2>1, <2>3 DEF Relocates
  <2>4. QED
    BY <2>2, <2>3
<1>5. QED
  BY <1>1, <1>2, <1>3, <1>4, RememberedSame

LEMMA TenureRemembered ==
  ASSUME Inv, RememberedInv, NEW object \in Address, Tenure(object)
  PROVE  RememberedInv'
BY MoveToOldRemembered, RememberedKept DEF Tenure, ToBeMoved

LEMMA AllocateRemembered ==
  ASSUME Inv, RememberedInv, NEW kind, NEW hash, NEW r, Allocate(kind, hash, r)
  PROVE  RememberedInv'
<1> DEFINE new == fromSpace.nextFree
<1>1. /\ new < fromSpace.limit /\ fromSpace' = [fromSpace EXCEPT !.nextFree = new + 1]
      /\ UNCHANGED <<toSpace, oldSpace, rememberedSet>>
      /\ header' = [header EXCEPT ![new] =
                      [FreeHeader EXCEPT !.hash = hash,
                                         !.hasWeaks = (kind # "plain"),
                                         !.isEphemeron = (kind = "ephemeron")]]
  BY DEF Allocate
<1>2. new \in Address \ (Objects \cup Special)
  BY <1>1, FreeCells DEF Inv, CollectorTypeOK
<1>3. Objects' = Objects \cup {new}
  <2>1. ObjectsIn(fromSpace') = ObjectsIn(fromSpace) \cup {new}
    BY <1>1, OneMore, Bounds DEF Inv, CollectorTypeOK
  <2>2. QED
    BY <1>1, <2>1 DEF Objects, Copies
<1>4. ~header'[new].inRememberedSet
  BY <1>1, <1>2 DEF FreeHeader, Inv, CollectorTypeOK, HeapTypeOK
<1>5. \A a \in Address \ {new} : header'[a] = header[a]
  BY <1>1 DEF Inv, CollectorTypeOK, HeapTypeOK
<1>6. OldObjects' = OldObjects /\ new \notin OldObjects
  BY <1>1, <1>2, OldAmongObjects DEF OldObjects
<1>7. Objects \cup {RescuedArray} \subseteq Address
  BY Places, OldAmongObjects DEF Inv, CollectorTypeOK
<1>8. QED
  BY <1>1, <1>2, <1>3, <1>4, <1>5, <1>6, <1>7, OldAmongObjects, RememberedSame

(* The write barrier looks at the flag of an old object that is not a       *)
(* proxy: it agrees with the set.                                           *)
LEMMA StoreRemembered ==
  ASSUME Inv, RememberedInv, NEW r, NEW k, NEW v, Store(r, k, v)
  PROVE  RememberedInv'
<1> DEFINE a == slots[Stack][r]
<1>1. a \in ProgramObjects /\ WriteBarrier(a, v) /\ UNCHANGED spaceVars
  BY DEF Store
<1>2. CASE Includes(oldSpace, a) /\ Includes(fromSpace, v) /\ ~header[a].inRememberedSet
  <2>1. /\ header' = [header EXCEPT ![a].inRememberedSet = TRUE]
        /\ rememberedSet' = Append(rememberedSet, a)
    BY <1>1, <1>2 DEF WriteBarrier
  <2>2. a \in ObjectsIn(oldSpace) /\ a \in Address /\ a \in Objects
    BY <1>1, <1>2, Places DEF ProgramObjects, Objects, Copies, Inv, CollectorTypeOK
  <2>3. a \notin ToSet(rememberedSet)
    BY <1>2, <2>2 DEF RememberedInv, FlagsAgree
  <2>4. Objects' = Objects /\ OldObjects' = OldObjects
    BY <1>1 DEF spaceVars, Objects, Copies, OldObjects, ObjectsIn
  <2>5. Objects \cup {RescuedArray} \subseteq Address
    BY Places, OldAmongObjects DEF Inv, CollectorTypeOK
  <2>6. header \in [Address -> Header] /\ rememberedSet \in Seq(Address)
    BY DEF Inv, CollectorTypeOK, HeapTypeOK, HostTypeOK
  <2>7. header'[a].inRememberedSet /\ \A b \in Address \ {a} : header'[b] = header[b]
    BY <2>1, <2>2, <2>6 DEF Header
  <2>8. a \in OldObjects
    BY <2>2 DEF OldObjects
  <2>9. QED
    BY <2>1, <2>2, <2>3, <2>4, <2>5, <2>6, <2>7, <2>8, RememberedMore
<1>3. CASE ~(Includes(oldSpace, a) /\ Includes(fromSpace, v) /\ ~header[a].inRememberedSet)
  BY <1>1, <1>3, RememberedKept DEF WriteBarrier
<1>4. QED
  BY <1>2, <1>3

LEMMA PurgeRememberedRemembered ==
  ASSUME Inv, RememberedInv, PurgeRemembered
  PROVE  RememberedInv'
<1> DEFINE object == rememberedSet[i]
<1>1. /\ rememberedSet \in Seq(Address) /\ i \in 1 .. Len(rememberedSet)
      /\ UNCHANGED spaceVars
  BY SetOf DEF PurgeRemembered, Inv, CollectorTypeOK, HostTypeOK, ControlTypeOK
<1>2. CASE HasToPurge(object)
  <2>1. /\ header' = [header EXCEPT ![object].inRememberedSet = FALSE]
        /\ rememberedSet' = RemoveAt(rememberedSet, i)
    BY <1>2 DEF PurgeRemembered, NotInRememberedSet
  <2>2. /\ ToSet(rememberedSet') \subseteq ToSet(rememberedSet)
        /\ ToSet(rememberedSet) \subseteq ToSet(rememberedSet') \cup {object}
    BY <1>1, <2>1, SetWithout
  <2>3. object \notin ToSet(rememberedSet') /\ HoldsThemOnce'
    BY <1>1, <2>1, DistinctWithout DEF RememberedInv, HoldsThemOnce
  <2>4. Objects' = Objects /\ OldObjects' = OldObjects
    BY <1>1 DEF spaceVars, Objects, Copies, OldObjects, ObjectsIn
  <2>5. HoldsOldObjects'
    BY <2>2, <2>4 DEF RememberedInv, HoldsOldObjects
  <2>6. header \in [Address -> Header] /\ Objects \cup {RescuedArray} \subseteq Address
    BY Places, OldAmongObjects DEF Inv, CollectorTypeOK, HeapTypeOK
  <2>7. ASSUME NEW a \in Objects \cup {RescuedArray}
        PROVE  header'[a].inRememberedSet <=> a \in ToSet(rememberedSet')
    <3>1. CASE a = object
      BY <2>1, <2>3, <2>6, <3>1 DEF Header
    <3>2. CASE a # object
      <4>1. header'[a] = header[a]
        BY <2>1, <2>6, <3>2
      <4>2. QED
        BY <2>2, <3>2, <4>1 DEF RememberedInv, FlagsAgree
    <3>3. QED
      BY <3>1, <3>2
  <2>8. FlagsAgree'
    BY <2>4, <2>7 DEF FlagsAgree
  <2>9. QED
    BY <2>3, <2>5, <2>8 DEF RememberedInv
<1>3. CASE ~HasToPurge(object)
  BY <1>1, <1>3, RememberedKept DEF PurgeRemembered
<1>4. QED
  BY <1>2, <1>3

LEMMA EphemeronsDecidedRemembered ==
  ASSUME Inv, RememberedInv, EphemeronsDecided
  PROVE  RememberedInv'
<1>1. UNCHANGED spaceVars
  BY DEF EphemeronsDecided, RescueStep
<1>2. CASE anyRescued /\ ~header[RescuedArray].inRememberedSet
  <2>1. /\ header' = [header EXCEPT ![RescuedArray].inRememberedSet = TRUE]
        /\ rememberedSet' = Append(rememberedSet, RescuedArray)
    BY <1>2 DEF EphemeronsDecided, HoldReferenceTo
  <2>2. RescuedArray \notin ToSet(rememberedSet)
    BY <1>2 DEF RememberedInv, FlagsAgree
  <2>3. Objects' = Objects /\ OldObjects' = OldObjects
    BY <1>1 DEF spaceVars, Objects, Copies, OldObjects, ObjectsIn
  <2>4. /\ Objects \cup {RescuedArray} \subseteq Address /\ RescuedArray \in OldObjects
        /\ header \in [Address -> Header] /\ rememberedSet \in Seq(Address)
    BY Places, OldAmongObjects DEF Inv, CollectorTypeOK, HeapTypeOK, HostTypeOK
  <2>5. /\ header'[RescuedArray].inRememberedSet
        /\ \A b \in Address \ {RescuedArray} : header'[b] = header[b]
    BY <2>1, <2>4 DEF Header
  <2>6. QED
    BY <2>1, <2>2, <2>3, <2>4, <2>5, RememberedMore
<1>3. CASE ~(anyRescued /\ ~header[RescuedArray].inRememberedSet)
  <2>1. UNCHANGED <<header, rememberedSet>>
    BY <1>3 DEF EphemeronsDecided, HoldReferenceTo
  <2>2. QED
    BY <1>1, <2>1, RememberedKept
<1>4. QED
  BY <1>2, <1>3

LEMMA MakeRescuedEphemeronsNonWeakRemembered ==
  ASSUME Inv, RememberedInv, MakeRescuedEphemeronsNonWeak
  PROVE  RememberedInv'
<1>1. Objects' = Objects /\ OldObjects' = OldObjects /\ rememberedSet' = rememberedSet
  BY DEF MakeRescuedEphemeronsNonWeak, spaceVars, Objects, Copies, OldObjects, ObjectsIn
<1>2. Objects \cup {RescuedArray} \subseteq Address /\ header \in [Address -> Header]
  BY Places, OldAmongObjects DEF Inv, CollectorTypeOK, HeapTypeOK
<1>3. \A a \in Address : header'[a].inRememberedSet = header[a].inRememberedSet
  BY <1>2 DEF MakeRescuedEphemeronsNonWeak, Header
<1>4. QED
  BY <1>1, <1>2, <1>3, RememberedSame

(* The space that is emptied holds nothing of the set. *)
LEMMA FlippedSpaces ==
  ASSUME Inv, FlipSpaces
  PROVE  /\ Objects' = Copies /\ ObjectsIn(fromSpace)' = ObjectsIn(toSpace)
         /\ Copies' = ObjectsIn(oldSpace) /\ toSpace'.nextFree = toSpace'.base
         /\ \A a \in Address : ~ArenaIncludes(a) => header'[a] = header[a] /\ slots'[a] = slots[a]
<1>1. /\ fromSpace' = toSpace /\ oldSpace' = oldSpace
      /\ toSpace' = [fromSpace EXCEPT !.nextFree = fromSpace.base]
  BY DEF FlipSpaces, SwapSpaces
<1>2. fromSpace \in Space /\ fromSpace.base \in Nat
  BY Bounds DEF Inv, CollectorTypeOK
<1>3. toSpace'.base = fromSpace.base /\ toSpace'.nextFree = fromSpace.base
  BY <1>1, <1>2 DEF Space
<1>4. ObjectsIn(toSpace') = {}
  BY <1>2, <1>3 DEF ObjectsIn
<1>5. \A a \in Address : ~ArenaIncludes(a) => header'[a] = header[a] /\ slots'[a] = slots[a]
  BY DEF FlipSpaces
<1>6. QED
  BY <1>1, <1>3, <1>4, <1>5 DEF Objects, Copies

LEMMA FlipSpacesRemembered ==
  ASSUME Inv, RememberedInv, FlipSpaces
  PROVE  RememberedInv'
<1>1. Objects' = Copies /\ OldObjects' = OldObjects /\ rememberedSet' = rememberedSet
  BY FlippedSpaces DEF FlipSpaces, OldObjects
<1>2. \A a \in Copies \cup {RescuedArray} : a \in Address /\ ~ArenaIncludes(a)
  BY Places, OldAmongObjects DEF Objects, Inv, CollectorTypeOK
<1>3. \A a \in Copies \cup {RescuedArray} : header'[a] = header[a]
  BY <1>2, FlippedSpaces
<1>4. QED
  BY <1>1, <1>3, RememberedSame DEF Objects

(* Nothing is taken out of the set: it holds no new objects. *)
LEMMA NothingToClean ==
  ASSUME Inv, RememberedInv, CleanRemembered
  PROVE  UNCHANGED <<header, spaceVars, rememberedSet>>
<1>1. rememberedSet \in Seq(Address) /\ i \in 1 .. Len(rememberedSet)
  BY SetOf DEF CleanRemembered, Inv, CollectorTypeOK, HostTypeOK, ControlTypeOK
<1>2. rememberedSet[i] \in ToSet(rememberedSet)
  BY <1>1, SetOf
<1>3. ~Includes(toSpace, rememberedSet[i])
  BY <1>2, OldAmongObjects, Places DEF RememberedInv, HoldsOldObjects, Inv, CollectorTypeOK
<1>4. QED
  BY <1>3 DEF CleanRemembered, heapVars

-----------------------------------------------------------------------------
(* All steps. *)
LEMMA ScanCopyRemembered ==
  ASSUME Inv, RememberedInv, ScanCopy
  PROVE  RememberedInv'
<1>1. Scanned \in Address /\ ArenaIncludes(Scanned) /\ MoveToOldOrTo(Scanned)
  BY ScannedTyped DEF ScanCopy
<1>2. QED
  BY <1>1, MoveToOldRemembered, MoveToToRemembered DEF MoveToOldOrTo

LEMMA MutatorRemembered ==
  ASSUME Inv, RememberedInv, Mutator
  PROVE  RememberedInv'
<1>1. CASE \E kind \in Kinds, hash \in 1 .. SemiSize + OldSize, r \in 0 .. NumRoots - 1 :
             Allocate(kind, hash, r)
  BY <1>1, AllocateRemembered
<1>2. CASE \/ \E r, q \in 0 .. NumRoots - 1, k \in StoredSlots : Store(r, k, slots[Stack][q])
           \/ \E r \in 0 .. NumRoots - 1, k \in StoredSlots : Store(r, k, Nil)
  BY <1>2, StoreRemembered
<1>3. CASE \/ \E r, q \in 0 .. NumRoots - 1, k \in StoredSlots : Load(r, k, q)
           \/ \E r \in 0 .. NumRoots - 1 : Drop(r) \/ Take(r)
           \/ \E o \in 0 .. NumOffsets - 1, r \in 0 .. NumRoots - 1 :
                EmbedLiteral(o, r) \/ EmbedClassCheck(o, r)
           \/ \E r \in 0 .. NumRoots - 1 : Nativize(r) \/ FillLookupCache(r)
  <2>1. UNCHANGED <<header, spaceVars, rememberedSet>>
    BY <1>3 DEF Load, Drop, Take, SetTemporary, EmbedLiteral, EmbedClassCheck, Nativize,
                FillLookupCache, heapVars
  <2>2. QED
    BY <2>1, RememberedKept
<1>4. QED
  BY <1>1, <1>2, <1>3 DEF Mutator

LEMMA CodeCacheRemembered ==
  ASSUME Inv, RememberedInv, FollowCodeCacheReferences
  PROVE  RememberedInv'
<1>1. CASE MoveClassCheckReference
  <2> DEFINE offset == classCheckReferences[i]
  <2>1. offset \in 0 .. NumOffsets - 1
    BY <1>1, ElementTyped DEF MoveClassCheckReference, Inv, CollectorTypeOK, HostTypeOK, ControlTypeOK
  <2>2. offset \in SlotIndex(CodeCache)
    BY <2>1, Sizes, SizesAssumption DEF SlotIndex
  <2>3. slots[CodeCache][offset] \in Address
    BY <2>2, SlotRead, Layout DEF Inv, CollectorTypeOK, HeapTypeOK
  <2>4. QED
    BY <1>1, <2>3, TenureRemembered DEF MoveClassCheckReference
<1>2. CASE MoveNativizedMethod
  <2>1. nativizedMethods[i] \in Address
    BY <1>2, ElementTyped DEF MoveNativizedMethod, Inv, CollectorTypeOK, HostTypeOK, ControlTypeOK
  <2>2. QED
    BY <1>2, <2>1, TenureRemembered DEF MoveNativizedMethod
<1>3. CASE MoveLiteralReference
  <2> DEFINE Ref == [literal : Address, offset : 0 .. NumOffsets - 1]
  <2>1. literalsReferences[i] \in Ref
    BY <1>3, ElementTyped DEF MoveLiteralReference, Inv, CollectorTypeOK, HostTypeOK, ControlTypeOK
  <2>2. literalsReferences[i].literal \in Address
    BY <2>1
  <2>3. QED
    BY <1>3, <2>2, TenureRemembered DEF MoveLiteralReference
<1>4. CASE \/ ClearGlobalLookupCache \/ ClassCheckReferencesMoved \/ CheckNativizedMethods
           \/ NativizedMethodsMoved \/ LiteralsReferencesMoved
  <2>1. UNCHANGED <<header, spaceVars, rememberedSet>>
    BY <1>4 DEF ClearGlobalLookupCache, ClassCheckReferencesMoved, CheckNativizedMethods,
                NativizedMethodsMoved, LiteralsReferencesMoved, Proceed, heapVars
  <2>2. QED
    BY <2>1, RememberedKept
<1>5. QED
  BY <1>1, <1>2, <1>3, <1>4 DEF FollowCodeCacheReferences

LEMMA RescueRemembered ==
  ASSUME Inv, RememberedInv, RescueEphemerons
  PROVE  RememberedInv'
<1>1. CASE EphemeronsDecided
  BY <1>1, EphemeronsDecidedRemembered
<1>2. CASE ~EphemeronsDecided
  <2>1. UNCHANGED <<header, spaceVars, rememberedSet>>
    BY <1>2 DEF RescueEphemerons, LookForEphemerons, FollowEphemeron, CollectUnknown, Rescan,
                RescueUnknowns, RescueEphemeron, AddRescued, UnknownsRescued, RescueStep, heapVars
  <2>2. QED
    BY <2>1, RememberedKept
<1>3. QED
  BY <1>1, <1>2

LEMMA CollectorRemembered ==
  ASSUME Inv, RememberedInv, HostHasTheSet, Collector
  PROVE  RememberedInv'
<1>1. CASE \/ PurgeLiteral \/ LiteralsReferencesPurged \/ RememberedSetPurged
           \/ FollowRemembered \/ RememberedSetFollowed \/ FollowStack
           \/ FixWeakContainers \/ FixReferencesFromNativeMethods \/ CleanRemembered
           \/ EndScavenge \/ ScanOutside \/ ScanProxy \/ ScanPop
  <2>1. UNCHANGED <<header, spaceVars, rememberedSet>>
    BY <1>1, NothingToClean
       DEF PurgeLiteral, LiteralsReferencesPurged, RememberedSetPurged, FollowRemembered,
           RememberedSetFollowed, FollowStack, FixWeakContainers,
           FixReferencesFromNativeMethods, EndScavenge, HostHasTheSet, ScanOutside, ScanProxy,
           ScanPop, Proceed, heapVars, At
  <2>2. QED
    BY <2>1, RememberedKept
<1>2. QED
  BY <1>1, PurgeRememberedRemembered, CodeCacheRemembered, RescueRemembered,
     MakeRescuedEphemeronsNonWeakRemembered, FlipSpacesRemembered, ScanCopyRemembered
     DEF Collector, FollowCountStartingAt

LEMMA NextRemembered == Inv /\ RememberedInv /\ HostHasTheSet /\ [Next]_vars => RememberedInv'
<1> SUFFICES ASSUME Inv, RememberedInv, HostHasTheSet, [Next]_vars PROVE RememberedInv'
  OBVIOUS
<1>1. CASE StartScavenge \/ UNCHANGED vars
  <2>1. UNCHANGED <<header, spaceVars, rememberedSet>>
    BY <1>1 DEF StartScavenge, vars, heapVars
  <2>2. QED
    BY <2>1, RememberedKept
<1>2. QED
  BY <1>1, MutatorRemembered, CollectorRemembered DEF Next

THEOREM AlwaysRemembered == Spec /\ []HostHasTheSet => []RememberedInv
<1>1. Init => RememberedInv
  BY RememberedInitially
<1>2. Inv /\ RememberedInv /\ HostHasTheSet /\ [Next]_vars => RememberedInv'
  BY NextRemembered
<1>3. QED
  BY <1>1, <1>2, AlwaysInv, PTL DEF Spec

(* At every step of a scavenge, and while the program runs, the flag in the *)
(* header of an object and the remembered set tell the same, and the set    *)
(* has no object twice: the write barrier and holdReferenceTo may look at   *)
(* the flag alone, though objects are tenured, purged and flipped in        *)
(* between.  So it is as long as no scavenge ends with a set that has       *)
(* outgrown its array: the next one is given the array that was full, while *)
(* the flags of what was added to the new one stay set.                     *)
THEOREM FlagTellsTheSet == Spec /\ []HostHasTheSet => []RememberedFlagAgrees
<1>1. RememberedInv => RememberedFlagAgrees
  BY DEF RememberedInv, HoldsThemOnce, FlagsAgree, RememberedFlagAgrees, Live, Objects, Copies,
         OldObjects
<1>2. QED
  BY <1>1, AlwaysRemembered, PTL

=============================================================================
