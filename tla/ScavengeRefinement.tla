------------------------- MODULE ScavengeRefinement -------------------------
(***************************************************************************)
(* The scavenger implements ObjectMemory: whatever the program and the     *)
(* collector do, step by step, the program sees its own operations and     *)
(* whole collections that keep what ObjectMemory promises.                 *)
(***************************************************************************)
EXTENDS ScavengeProofs, MCHeapGC, FiniteSetTheorems

(* What the program calls its objects, its slots and their contents.        *)
Identities == 1 .. SemiSize + OldSize
SlotNames == -1 .. NumSlots - 1

(* Identity, for an object or its copy, at every step of a collection.      *)
Hash(v) == IF v \in Objects THEN header[v].hash ELSE v

SeenKind(h) == seen.graph[h].kind
SeenSlot(h, k) == seen.graph[h].slots[k]

(* The objects that survive, once the traversals have ended.                *)
Survivors == IF BeforeFlip THEN Copies ELSE Objects
Kept == {header[a].hash : a \in Survivors}

-----------------------------------------------------------------------------
(* Until the queue of rescued ephemerons is made of ordinary objects, and   *)
(* until weak slots are fixed, objects look as they did when the collection *)
(* began.                                                                   *)
KindLabels ==
  Labels \ {"fixWeakContainers", "flipSpaces", "fixReferencesFromNativeMethods",
            "cleanRememberedSet"}
SlotLabels == KindLabels \cup {"fixWeakContainers"}

KindsShown(a) ==
  IF pc \in KindLabels
  THEN KindOf(a) = SeenKind(header[a].hash)
  ELSE KindOf(a) = IF \E j \in 1 .. rescuedCount : Hash(slots[RescuedArray][j]) = header[a].hash
                   THEN "plain"
                   ELSE SeenKind(header[a].hash)

SlotShown(a, k) ==
  LET h == header[a].hash
      v == Hash(slots[a][k])
  IN  IF pc \in SlotLabels
      THEN v = SeenSlot(h, k)
      ELSE v = IF SeenKind(h) = "weak" /\ k # -1 /\ SeenSlot(h, k) \in Identities
                  /\ SeenSlot(h, k) \notin Kept
               THEN Tombstone
               ELSE SeenSlot(h, k)

(* Those of which it holds.                                                 *)
Shown == IF pc \in KindLabels THEN Standing ELSE Survivors

GraphShown ==
  \A a \in Shown :
    /\ header[a].hash \in DOMAIN seen.graph
    /\ KindsShown(a)
    /\ \A k \in SlotNames : SlotShown(a, k)

RootsShown == \A r \in 0 .. NumRoots - 1 : Hash(slots[Stack][r]) = seen.roots[r]

(* What was queued before the collection, and what it has added.            *)
Rescuable ==
  {h \in Identities :
     /\ SeenKind(h) = "ephemeron"
     /\ SeenSlot(h, 0) \in Identities
     /\ Program!Dying(SeenSlot(h, 0))}

QueueShown ==
  /\ Len(seen.rescued) \in 0 .. rescuedCount
  /\ \A j \in 1 .. Len(seen.rescued) : Hash(slots[RescuedArray][j]) = seen.rescued[j]
  /\ \A j \in Len(seen.rescued) + 1 .. rescuedCount :
       /\ slots[RescuedArray][j] \in Survivors
       /\ header[slots[RescuedArray][j]].hash \in Rescuable

(* The native code; literals are kept in a list until they are fixed.       *)
LiteralsShown ==
  \A j \in 1 .. Len(literalsReferences) :
    /\ literalsReferences[j].literal \in Objects
    /\ header[literalsReferences[j].literal].hash = seen.code[literalsReferences[j].offset]

CodeShown ==
  \A o \in 0 .. NumOffsets - 1 :
    \/ Hash(slots[CodeCache][o]) = seen.code[o]
    \/ pc = "fixReferencesFromNativeMethods" /\ IsNew(slots[CodeCache][o])

(* What the program saw has the form of what it sees.                       *)
SeenShape ==
  /\ seen.roots = [r \in 0 .. NumRoots - 1 |-> seen.roots[r]]
  /\ seen.code = [o \in 0 .. NumOffsets - 1 |-> seen.code[o]]
  /\ seen.rescued = [j \in 1 .. Len(seen.rescued) |-> seen.rescued[j]]

HashesNamed ==
  /\ \A a \in Objects : header[a].hash \in Identities
  /\ \A a \in ObjectsIn(fromSpace) :
       header[a].proxee # Nil => header[header[a].proxee].hash = header[a].hash

(* The ephemerons that are still to be decided are such, the weak objects   *)
(* were seen to be weak, and those to be rescued have a key that only weak  *)
(* references and ephemerons lead to.                                       *)
Unreached(v) == ArenaIncludes(v) /\ header[v].proxee = Nil

KindsTold ==
  /\ \A e \in ToSet(ephemerons) \cup ToSet(unknowns) : header[e].hasWeaks
  /\ \A a \in ToSet(weakContainers) : SeenKind(header[a].hash) = "weak"

KeysTold ==
  /\ pc = "collectUnknowns" /\ ~rescan =>
       ~Traversing /\ \A e \in ToSet(unknowns) : Unreached(slots[e][0])
  /\ pc \in {"rescueEphemeron", "addRescued"} =>
       \A e \in ToSet(unknowns) : header[e].hash \in Rescuable

RefInv ==
  /\ pc = "mutator" => seen = View
  /\ SeenShape /\ HashesNamed
  /\ GraphShown /\ RootsShown /\ QueueShown /\ LiteralsShown /\ CodeShown
  /\ KindsTold /\ KeysTold

-----------------------------------------------------------------------------
LEMMA RefFacts ==
  ASSUME HeapInv
  PROVE  /\ Nil \notin Objects /\ Tombstone \notin Objects
         /\ Hash(Nil) = Nil /\ Hash(Tombstone) = Tombstone
         /\ Nil \notin Identities /\ Tombstone \notin Identities /\ Nil # Tombstone
         /\ \A a \in Objects : Hash(a) = header[a].hash /\ SlotIndex(a) = SlotNames
         /\ Standing \subseteq Objects /\ Copies \subseteq Standing
         /\ \A a \in ObjectsIn(fromSpace) : header[a].proxee = Nil => a \in Standing
         /\ Survivors \subseteq Standing
         /\ 0 \in SlotNames /\ -1 \in SlotNames
         /\ {RescuedArray, Stack, CodeCache} \cap Objects = {}
<1>1. SpacesTypeOK /\ Objects = ObjectsIn(fromSpace) \cup Copies
  BY HeapFacts
<1>2. Special \cap Objects = {} /\ {Nil, Tombstone, RescuedArray, Stack, CodeCache} \subseteq Special
  BY <1>1, Places DEF Special
<1>3. Nil \notin Identities /\ Tombstone \notin Identities /\ Nil # Tombstone
  BY SizesAssumption DEF Identities, Nil, Tombstone
<1>4. ASSUME NEW a \in Objects PROVE SlotIndex(a) = SlotNames
  <2>1. a \in Address /\ a > 0
    BY <1>1, Places
  <2>2. Size(a) = NumSlots
    BY <2>1, Sizes, Layout
  <2>3. QED
    BY <2>2 DEF SlotIndex, SlotNames
<1>5. 0 \in SlotNames /\ -1 \in SlotNames
  BY SizesAssumption DEF SlotNames
<1>6. Standing \subseteq Objects /\ Copies \subseteq Standing
  BY <1>1 DEF Standing
<1>7. \A a \in ObjectsIn(fromSpace) : header[a].proxee = Nil => a \in Standing
  BY DEF Standing, IsProxy
<1>8. Survivors \subseteq Standing
  <2>1. CASE BeforeFlip
    BY <2>1, <1>6 DEF Survivors
  <2>2. CASE ~BeforeFlip
    <3>1. \A a \in ObjectsIn(fromSpace) : header[a].proxee = Nil
      BY <2>2 DEF HeapInv, ProxiesLead
    <3>2. QED
      BY <1>1, <1>6, <1>7, <2>2, <3>1 DEF Survivors
  <2>3. QED
    BY <2>1, <2>2
<1>9. QED
  BY <1>2, <1>3, <1>4, <1>5, <1>6, <1>7, <1>8 DEF Hash

(* A reference is seen as an identity exactly when it is to an object.      *)
LEMMA SeenReference ==
  ASSUME HeapInv, HashesNamed, NEW v, Valid(v)
  PROVE  /\ Hash(v) \in Identities \cup {Nil, Tombstone}
         /\ Hash(v) \in Identities <=> v \in Objects
         /\ v \notin Objects => Hash(v) = v
BY RefFacts DEF Valid, Hash, HashesNamed

LEMMA RefTypes ==
  ASSUME HeapInv
  PROVE  /\ literalsReferences \in Seq(HostTypes) /\ Len(literalsReferences) \in Nat
         /\ ephemerons \in Seq(Address) /\ unknowns \in Seq(Address) /\ weakContainers \in Seq(Address)
         /\ rescuedCount \in Nat /\ rescuedCount \in 0 .. RescuedSize /\ pc \in Labels
         /\ \A j \in 1 .. rescuedCount : j \in SlotIndex(RescuedArray) /\ Valid(slots[RescuedArray][j])
         /\ \A r \in 0 .. NumRoots - 1 : Valid(slots[Stack][r]) /\ r \in SlotIndex(Stack)
         /\ \A a \in Objects : \A k \in SlotNames : Valid(slots[a][k])
         /\ \A o \in 0 .. NumOffsets - 1 : o \in SlotIndex(CodeCache)
<1>1. /\ literalsReferences \in Seq(HostTypes) /\ Len(literalsReferences) \in Nat
      /\ ephemerons \in Seq(Address) /\ unknowns \in Seq(Address) /\ weakContainers \in Seq(Address)
  BY HostSequences, ScanTypes
<1>2. rescuedCount \in 0 .. RescuedSize /\ pc \in Labels
  BY DEF HeapInv, Inv, CollectorTypeOK, HostTypeOK, ControlTypeOK
<1>3. rescuedCount \in Nat /\ RescuedSize \in Nat
  BY <1>2, SizesAssumption
<1>4. \A j \in 1 .. rescuedCount : j \in SlotIndex(RescuedArray)
  BY <1>2, <1>3, Sizes DEF SlotIndex
<1>5. \A j \in 1 .. rescuedCount : Valid(slots[RescuedArray][j])
  BY <1>4, ReadValid
<1>6. \A a \in Objects : \A k \in SlotNames : Valid(slots[a][k])
  BY RefFacts, ReadValid
<1>7. \A o \in 0 .. NumOffsets - 1 : o \in SlotIndex(CodeCache)
  BY Sizes, SizesAssumption DEF SlotIndex
<1>8. QED
  BY <1>1, <1>2, <1>3, <1>4, <1>5, <1>6, <1>7, TemporaryValid

-----------------------------------------------------------------------------
(* The view, between collections.                                           *)
ViewTold ==
  /\ ProgramObjects = Objects /\ Standing = Objects
  /\ DOMAIN View.graph = {header[a].hash : a \in Objects}
  /\ \A v : Identity(v) = Hash(v)
  /\ \A a \in Objects : ObjectWith(header[a].hash) = a
  /\ \A a \in Objects : View.graph[header[a].hash] =
       [kind |-> KindOf(a), slots |-> [k \in SlotNames |-> Hash(slots[a][k])]]
  /\ View.graph = [h \in DOMAIN View.graph |-> View.graph[h]]
  /\ View.roots = [r \in 0 .. NumRoots - 1 |-> Hash(slots[Stack][r])]
  /\ View.code = [o \in 0 .. NumOffsets - 1 |-> Hash(slots[CodeCache][o])]
  /\ View.rescued = [j \in 1 .. rescuedCount |-> Hash(slots[RescuedArray][j])]

LEMMA ViewFacts == HeapInv /\ pc = "mutator" => ViewTold
<1> SUFFICES ASSUME HeapInv, pc = "mutator" PROVE ViewTold
  OBVIOUS
<1>1. ProgramObjects = Objects /\ Standing = Objects
  BY AtMutator
<1>2. \A v : Identity(v) = Hash(v)
  BY <1>1 DEF Identity, Hash
<1>3. ASSUME NEW a \in Objects PROVE ObjectWith(header[a].hash) = a
  <2>1. \A b \in ProgramObjects : header[b].hash = header[a].hash => b = a
    BY <1>1 DEF HeapInv, HashesDistinct
  <2>2. QED
    BY <1>1, <2>1 DEF ObjectWith
<1>4. /\ View.roots = [r \in 0 .. NumRoots - 1 |-> Hash(slots[Stack][r])]
      /\ View.code = [o \in 0 .. NumOffsets - 1 |-> Hash(slots[CodeCache][o])]
      /\ View.rescued = [j \in 1 .. rescuedCount |-> Hash(slots[RescuedArray][j])]
  BY <1>2 DEF View
<1>5. View.graph = [h \in {header[a].hash : a \in Objects} |->
                      [kind  |-> KindOf(ObjectWith(h)),
                       slots |-> [k \in SlotNames |-> Hash(slots[ObjectWith(h)][k])]]]
  BY <1>1, <1>2 DEF View, SlotNames
<1>6. QED
  BY <1>1, <1>2, <1>3, <1>4, <1>5 DEF ViewTold

-----------------------------------------------------------------------------
(* Steps of a collection, up to the fixing of weak containers, after which  *)
(* every object and every copy still looks as one looked before.            *)
Continues ==
  /\ seen' = seen
  /\ pc \in KindLabels /\ pc' \in KindLabels \ {"mutator"}
  /\ \A v : Valid(v) => Hash(v)' = Hash(v)
  /\ \A a \in Standing' : \E b \in Standing :
       /\ header'[a].hash = header[b].hash
       /\ KindOf(a)' = KindOf(b)
       /\ \A k \in SlotNames : Hash(slots[a][k])' = Hash(slots[b][k])
  /\ \A r \in 0 .. NumRoots - 1 : Hash(slots[Stack][r])' = Hash(slots[Stack][r])

LEMMA ShownContinues ==
  ASSUME HeapInv, RefInv, Continues
  PROVE  GraphShown' /\ RootsShown' /\ SeenShape'
<1>1. pc \in SlotLabels /\ pc' \in SlotLabels /\ pc \in KindLabels /\ pc' \in KindLabels
  BY DEF Continues, SlotLabels
<1>2. Shown = Standing /\ Shown' = Standing'
  BY <1>1 DEF Shown
<1>3. ASSUME NEW a \in Standing'
      PROVE  /\ header'[a].hash \in DOMAIN seen'.graph
             /\ KindsShown(a)'
             /\ \A k \in SlotNames : SlotShown(a, k)'
  <2>1. PICK b \in Standing :
          /\ header'[a].hash = header[b].hash
          /\ KindOf(a)' = KindOf(b)
          /\ \A k \in SlotNames : Hash(slots[a][k])' = Hash(slots[b][k])
    BY DEF Continues
  <2>2. /\ header[b].hash \in DOMAIN seen.graph
        /\ KindOf(b) = SeenKind(header[b].hash)
        /\ \A k \in SlotNames : Hash(slots[b][k]) = SeenSlot(header[b].hash, k)
    BY <1>1, <1>2 DEF RefInv, GraphShown, KindsShown, SlotShown
  <2>3. seen' = seen
    BY DEF Continues
  <2>4. KindOf(a)' = SeenKind(header[a].hash)'
    BY <2>1, <2>2, <2>3 DEF SeenKind
  <2>5. \A k \in SlotNames : Hash(slots[a][k])' = SeenSlot(header[a].hash, k)'
    BY <2>1, <2>2, <2>3 DEF SeenSlot
  <2>6. QED
    BY <1>1, <2>1, <2>2, <2>3, <2>4, <2>5 DEF KindsShown, SlotShown
<1>4. GraphShown'
  BY <1>2, <1>3 DEF GraphShown
<1>5. RootsShown' /\ SeenShape'
  BY DEF RefInv, RootsShown, SeenShape, Continues
<1>6. QED
  BY <1>4, <1>5

(* Nothing moves, and the slots that are written still lead to the same.    *)
Rewrites ==
  /\ UNCHANGED spaceVars
  /\ \A a \in Address :
       /\ header'[a].hash = header[a].hash /\ header'[a].proxee = header[a].proxee
       /\ header'[a].isEphemeron = header[a].isEphemeron
       /\ header'[a].hasWeaks = header[a].hasWeaks
  /\ \A a \in Objects \cup {Stack} : \A k \in SlotIndex(a) : Hash(slots[a][k])' = Hash(slots[a][k])

LEMMA RewritesFacts ==
  ASSUME HeapInv, Rewrites
  PROVE  /\ Objects' = Objects /\ Copies' = Copies /\ Standing' = Standing
         /\ ObjectsIn(fromSpace)' = ObjectsIn(fromSpace)
         /\ \A v : Hash(v)' = Hash(v)
         /\ \A a \in Address : KindOf(a)' = KindOf(a)
<1>1. Objects \subseteq Address /\ ObjectsIn(fromSpace) \subseteq Objects
  BY HeapFacts
<1>2. /\ Objects' = Objects /\ Copies' = Copies
      /\ ObjectsIn(fromSpace)' = ObjectsIn(fromSpace)
  BY SpacesSame DEF Rewrites
<1>3. Standing' = Standing
  BY <1>1, <1>2 DEF Standing, IsProxy, Rewrites
<1>4. \A v : Hash(v)' = Hash(v)
  BY <1>1, <1>2 DEF Hash, Rewrites
<1>5. \A a \in Address : KindOf(a)' = KindOf(a)
  BY DEF KindOf, Rewrites
<1>6. QED
  BY <1>2, <1>3, <1>4, <1>5

LEMMA RewritesContinues ==
  ASSUME HeapInv, Rewrites, seen' = seen, pc \in KindLabels, pc' \in KindLabels \ {"mutator"}
  PROVE  Continues
<1>1. Standing \subseteq Objects /\ Objects \subseteq Address
  BY RefFacts, HeapFacts
<1>2. \A a \in Objects : SlotIndex(a) = SlotNames
  BY RefFacts
<1>3. \A a \in Standing' : a \in Standing /\ a \in Address /\ a \in Objects
  BY <1>1, RewritesFacts
<1>4. \A a \in Standing' :
        /\ header'[a].hash = header[a].hash
        /\ KindOf(a)' = KindOf(a)
        /\ \A k \in SlotNames : Hash(slots[a][k])' = Hash(slots[a][k])
  BY <1>2, <1>3, RewritesFacts DEF Rewrites
<1>5. \A r \in 0 .. NumRoots - 1 : Hash(slots[Stack][r])' = Hash(slots[Stack][r])
  BY RefTypes DEF Rewrites
<1>6. QED
  BY <1>3, <1>4, <1>5, RewritesFacts DEF Continues

LEMMA RewritesNames ==
  ASSUME HeapInv, HashesNamed, Rewrites
  PROVE  HashesNamed'
<1>1. Objects \subseteq Address /\ ObjectsIn(fromSpace) \subseteq Objects /\ Copies \subseteq Objects
  BY HeapFacts
<1>2. \A a \in ObjectsIn(fromSpace) : header[a].proxee # Nil => header[a].proxee \in Copies
  BY DEF HeapInv, ProxiesLead
<1>3. Identities' = Identities
  BY DEF Identities
<1>4. \A a \in Objects' : header'[a].hash \in Identities
  BY <1>1, RewritesFacts DEF HashesNamed, Rewrites
<1>5. ASSUME NEW a \in ObjectsIn(fromSpace)', header'[a].proxee # Nil
      PROVE  header'[header'[a].proxee].hash = header'[a].hash
  <2>1. a \in ObjectsIn(fromSpace) /\ a \in Address
    BY <1>1, RewritesFacts
  <2>2. header'[a].proxee = header[a].proxee /\ header'[a].hash = header[a].hash
    BY <2>1 DEF Rewrites
  <2>3. header[a].proxee \in Address
    BY <1>1, <1>2, <1>5, <2>1, <2>2
  <2>4. header'[header[a].proxee].hash = header[header[a].proxee].hash
    BY <2>3 DEF Rewrites
  <2>5. header[header[a].proxee].hash = header[a].hash
    BY <1>5, <2>1, <2>2 DEF HashesNamed
  <2>6. QED
    BY <2>2, <2>4, <2>5
<1>6. QED
  BY <1>3, <1>4, <1>5 DEF HashesNamed

(* An object is copied.                                                     *)
LEMMA CopyingNames ==
  ASSUME HeapInv, HashesNamed, NEW object, NEW copy, Copying(object, copy)
  PROVE  /\ HashesNamed'
         /\ \A v : Valid(v) => Hash(v)' = Hash(v)
         /\ Hash(copy)' = Hash(object)
<1>1. /\ copy \in Address /\ copy \notin Objects /\ object \in Address /\ object # copy
      /\ Objects' = Objects \cup {copy} /\ Copies' = Copies \cup {copy}
      /\ ObjectsIn(fromSpace)' = ObjectsIn(fromSpace)
  BY CopyingFacts
<1>2. /\ object \in ObjectsIn(fromSpace) /\ object \in Objects
      /\ \A a \in Address \ {object, copy} : header'[a] = header[a]
      /\ header'[object] = [header[object] EXCEPT !.proxee = copy]
      /\ header'[copy].hash = header[object].hash
  BY DEF Copying, Relocates, Objects
<1>3. header \in [Address -> Header] /\ Objects \subseteq Address /\ Copies \subseteq Objects
      /\ ObjectsIn(fromSpace) \subseteq Objects /\ ObjectsIn(fromSpace) \cap Copies = {}
  BY HeapFacts DEF Staying
<1>4. header'[object].hash = header[object].hash /\ header'[object].proxee = copy
  BY <1>1, <1>2, <1>3 DEF Header
<1>5. \A a \in Objects : header'[a].hash = header[a].hash
  BY <1>1, <1>2, <1>3, <1>4
<1>6. \A a \in Objects' : header'[a].hash \in Identities
  BY <1>1, <1>2, <1>5 DEF HashesNamed
<1>7. ASSUME NEW a \in ObjectsIn(fromSpace), header'[a].proxee # Nil
      PROVE  header'[header'[a].proxee].hash = header'[a].hash
  <2>1. CASE a = object
    BY <1>2, <1>4, <2>1
  <2>2. CASE a # object
    <3>1. header'[a] = header[a]
      BY <1>1, <1>2, <1>3, <2>2
    <3>2. header[a].proxee \in Copies
      BY <1>7, <3>1 DEF HeapInv, ProxiesLead
    <3>3. header'[header[a].proxee].hash = header[header[a].proxee].hash
      BY <1>3, <1>5, <3>2
    <3>4. QED
      BY <1>7, <3>1, <3>3 DEF HashesNamed
  <2>3. QED
    BY <2>1, <2>2
<1>8. HashesNamed'
  BY <1>1, <1>6, <1>7 DEF HashesNamed, Identities
<1>9. \A v : Valid(v) => Hash(v)' = Hash(v)
  <2>1. \A v : Valid(v) => (v \in Objects' <=> v \in Objects)
    BY <1>1, CopyingFacts, RefFacts DEF Valid, Relocates, Copying, Special
  <2>2. QED
    BY <1>5, <2>1 DEF Hash
<1>10. Hash(copy)' = Hash(object)
  BY <1>1, <1>2 DEF Hash
<1>11. QED
  BY <1>8, <1>9, <1>10

LEMMA CopyingContinues ==
  ASSUME HeapInv, HashesNamed, NEW object, NEW copy, Copying(object, copy),
         seen' = seen, pc \in KindLabels, pc' \in KindLabels \ {"mutator"}
  PROVE  Continues
<1>1. /\ copy \in Address /\ copy \notin Objects /\ object \in Address /\ object # copy
      /\ Objects' = Objects \cup {copy} /\ Copies' = Copies \cup {copy}
      /\ ObjectsIn(fromSpace)' = ObjectsIn(fromSpace)
  BY CopyingFacts
<1>2. /\ object \in ObjectsIn(fromSpace) /\ object \in Objects /\ header[object].proxee = Nil
      /\ \A a \in Address \ {object, copy} : header'[a] = header[a]
      /\ header'[object] = [header[object] EXCEPT !.proxee = copy]
      /\ header'[copy].hash = header[object].hash
      /\ header'[copy].hasWeaks = header[object].hasWeaks
      /\ header'[copy].isEphemeron = header[object].isEphemeron
      /\ slots'[copy] = slots[object]
      /\ \A a \in Objects \cup {RescuedArray, Stack} : \A k \in SlotIndex(a) :
           slots'[a][k] = slots[a][k] \/ (slots[a][k] = object /\ slots'[a][k] = copy)
  BY DEF Copying, Relocates, Objects
<1>3. /\ header \in [Address -> Header] /\ Objects \subseteq Address /\ Copies \subseteq Objects
      /\ ObjectsIn(fromSpace) \subseteq Objects
  BY HeapFacts
<1>4. object \in Standing /\ \A a \in Objects : SlotIndex(a) = SlotNames
  BY <1>2, RefFacts
<1>5. \A v : Valid(v) => Hash(v)' = Hash(v)
  BY CopyingNames
<1>6. ASSUME NEW a \in Objects \cup {Stack}, NEW k \in SlotIndex(a)
      PROVE  Hash(slots[a][k])' = Hash(slots[a][k])
  <2>1. Valid(slots[a][k])
    BY ReadValid
  <2>2. CASE slots'[a][k] = slots[a][k]
    <3>1. \A v : v = slots[a][k] => Hash(v)' = Hash(v)
      BY <1>5, <2>1
    <3>2. QED
      BY <2>2, <3>1 DEF Hash
  <2>3. CASE slots[a][k] = object /\ slots'[a][k] = copy
    BY <2>3, CopyingNames DEF Hash
  <2>4. QED
    BY <1>2, <2>2, <2>3
<1>7. ASSUME NEW a \in Standing'
      PROVE  \E b \in Standing :
               /\ header'[a].hash = header[b].hash
               /\ KindOf(a)' = KindOf(b)
               /\ \A k \in SlotNames : Hash(slots[a][k])' = Hash(slots[b][k])
  <2>1. CASE a = copy
    <3>1. KindOf(copy)' = KindOf(object)
      BY <1>2 DEF KindOf
    <3>2. ASSUME NEW k \in SlotNames PROVE Hash(slots[copy][k])' = Hash(slots[object][k])
      <4>1. Valid(slots[object][k])
        BY <1>2, RefTypes
      <4>2. \A v : v = slots[object][k] => Hash(v)' = Hash(v)
        BY <1>5, <4>1
      <4>3. slots'[copy][k] = slots[object][k]
        BY <1>2
      <4>4. QED
        BY <4>2, <4>3 DEF Hash
    <3>3. QED
      BY <1>2, <1>4, <2>1, <3>1, <3>2
  <2>2. CASE a # copy
    <3>1. a \in Objects /\ a # object
      <4>1. header'[object].proxee = copy
        BY <1>1, <1>2, <1>3 DEF Header
      <4>2. copy # Nil
        BY DEF Copying, Relocates, Special
      <4>3. object \notin Copies'
        BY <1>1, <1>2, CopyingFacts DEF Staying
      <4>4. a \in Objects'
        BY <1>1, <1>3 DEF Standing
      <4>5. QED
        BY <1>1, <2>2, <4>1, <4>2, <4>3, <4>4 DEF Standing, IsProxy
    <3>2. header'[a] = header[a] /\ a \in Address
      BY <1>1, <1>2, <1>3, <2>2, <3>1
    <3>3. a \in Standing
      BY <1>1, <2>2, <3>2 DEF Standing, IsProxy
    <3>4. KindOf(a)' = KindOf(a)
      BY <3>2 DEF KindOf
    <3>5. QED
      BY <1>4, <1>6, <3>1, <3>2, <3>3, <3>4
  <2>3. QED
    BY <2>1, <2>2
<1>8. \A r \in 0 .. NumRoots - 1 : Hash(slots[Stack][r])' = Hash(slots[Stack][r])
  BY <1>6, RefTypes
<1>9. QED
  BY <1>5, <1>7, <1>8 DEF Continues


-----------------------------------------------------------------------------
(* The queue.                                                               *)
LEMMA RescuableKept == seen' = seen => Rescuable' = Rescuable
BY DEF Rescuable, Identities, SeenKind, SeenSlot, Program!Dying, Program!RootObjects,
       Program!Closed, Program!Target, Program!HoldsKey, Program!IsObject


LEMMA QueueContinues ==
  ASSUME HeapInv, RefInv, seen' = seen, rescuedCount' = rescuedCount,
         \A j \in 1 .. rescuedCount : Hash(slots[RescuedArray][j])' = Hash(slots[RescuedArray][j]),
         \A j \in Len(seen.rescued) + 1 .. rescuedCount :
           slots[RescuedArray][j] \in Survivors =>
             /\ slots'[RescuedArray][j] = slots[RescuedArray][j]
             /\ slots[RescuedArray][j] \in Survivors'
             /\ header'[slots[RescuedArray][j]].hash = header[slots[RescuedArray][j]].hash
  PROVE  QueueShown'
<1>1. Rescuable' = Rescuable
  BY RescuableKept
<1>2. Len(seen.rescued) \in 0 .. rescuedCount /\ rescuedCount \in Nat
  BY RefTypes DEF RefInv, QueueShown
<1>3. \A j \in 1 .. Len(seen'.rescued) : Hash(slots[RescuedArray][j])' = seen'.rescued[j]
  BY <1>2 DEF RefInv, QueueShown
<1>4. \A j \in Len(seen'.rescued) + 1 .. rescuedCount' :
        /\ slots'[RescuedArray][j] \in Survivors'
        /\ header'[slots'[RescuedArray][j]].hash \in Rescuable'
  BY <1>1 DEF RefInv, QueueShown
<1>5. QED
  BY <1>2, <1>3, <1>4 DEF QueueShown

(* The native code and its literals.                                        *)
HashesKept ==
  /\ Objects \subseteq Objects'
  /\ \A a \in Objects : header'[a].hash = header[a].hash
  /\ \A v : Valid(v) => Hash(v)' = Hash(v)

LEMMA LiteralsContinue ==
  ASSUME HeapInv, RefInv, seen' = seen,
         \A j \in 1 .. Len(literalsReferences') : \E m \in 1 .. Len(literalsReferences) :
           /\ literalsReferences'[j].offset = literalsReferences[m].offset
           /\ literalsReferences'[j].literal \in Objects'
           /\ header'[literalsReferences'[j].literal].hash = header[literalsReferences[m].literal].hash
  PROVE  LiteralsShown'
BY DEF RefInv, LiteralsShown

LEMMA LiteralsSame ==
  ASSUME HeapInv, RefInv, seen' = seen, HashesKept, literalsReferences' = literalsReferences
  PROVE  LiteralsShown'
BY DEF RefInv, LiteralsShown, HashesKept

LEMMA CodeSame ==
  ASSUME HeapInv, RefInv, seen' = seen, HashesKept, pc # "fixReferencesFromNativeMethods",
         slots'[CodeCache] = slots[CodeCache]
  PROVE  CodeShown'
<1>1. ASSUME NEW o \in 0 .. NumOffsets - 1 PROVE Hash(slots[CodeCache][o])' = seen'.code[o]
  <2>1. Valid(slots[CodeCache][o])
    BY RefTypes DEF HeapInv, CodeKnown
  <2>2. \A v : v = slots[CodeCache][o] => Hash(v)' = Hash(v)
    BY <2>1 DEF HashesKept
  <2>3. Hash(slots[CodeCache][o]) = seen.code[o]
    BY DEF RefInv, CodeShown
  <2>4. QED
    BY <2>2, <2>3 DEF Hash
<1>2. QED
  BY <1>1 DEF CodeShown

LEMMA RewritesKeep ==
  ASSUME HeapInv, Rewrites
  PROVE  HashesKept
<1>1. Objects \subseteq Address
  BY HeapFacts
<1>2. QED
  BY <1>1, RewritesFacts DEF HashesKept, Rewrites

LEMMA CopyingKeeps ==
  ASSUME HeapInv, HashesNamed, NEW object, NEW copy, Copying(object, copy)
  PROVE  HashesKept
<1>1. /\ Objects' = Objects \cup {copy} /\ copy \notin Objects /\ object \in Address
      /\ copy \in Address /\ object # copy
  BY CopyingFacts
<1>2. /\ \A a \in Address \ {object, copy} : header'[a] = header[a]
      /\ header'[object] = [header[object] EXCEPT !.proxee = copy]
  BY DEF Copying, Relocates
<1>3. Objects \subseteq Address /\ header \in [Address -> Header]
  BY HeapFacts
<1>4. header'[object].hash = header[object].hash
  BY <1>1, <1>2, <1>3 DEF Header
<1>5. \A a \in Objects : header'[a].hash = header[a].hash
  BY <1>1, <1>2, <1>3, <1>4
<1>6. QED
  BY <1>1, <1>5, CopyingNames DEF HashesKept

(* What was found.                                                          *)
LEMMA ToldKept ==
  ASSUME HeapInv, RefInv, seen' = seen,
         ToSet(ephemerons') \cup ToSet(unknowns') \subseteq ToSet(ephemerons) \cup ToSet(unknowns),
         ToSet(weakContainers') \subseteq ToSet(weakContainers),
         \A a \in Copies : header'[a].hash = header[a].hash
                             /\ (header[a].hasWeaks => header'[a].hasWeaks)
  PROVE  KindsTold'
<1>1. ToSet(ephemerons) \cup ToSet(unknowns) \cup ToSet(weakContainers) \subseteq Copies
  BY DEF HeapInv, FoundInCopies
<1>2. QED
  BY <1>1 DEF RefInv, KindsTold, SeenKind

LEMMA KeysKept ==
  ASSUME HeapInv, RefInv, seen' = seen, unknowns' = unknowns,
         pc' = "collectUnknowns" => pc = "collectUnknowns" /\ (rescan' \/ Traversing),
         pc \in {"collectUnknowns", "rescueEphemeron", "addRescued"} => (rescan => rescan'),
         pc' \in {"rescueEphemeron", "addRescued"} => pc \in {"rescueEphemeron", "addRescued"},
         \A a \in Copies : header'[a].hash = header[a].hash
  PROVE  KeysTold'
<1>1. ToSet(unknowns) \subseteq Copies
  BY DEF HeapInv, FoundInCopies
<1>2. pc' = "collectUnknowns" => rescan'
  BY DEF RefInv, KeysTold
<1>3. Rescuable' = Rescuable
  BY RescuableKept
<1>4. QED
  BY <1>1, <1>2, <1>3 DEF RefInv, KeysTold


-----------------------------------------------------------------------------
(* Steps that move nothing and write no slot outside of the native code.    *)
Unmoved ==
  /\ UNCHANGED spaceVars
  /\ \A a \in Address \ {CodeCache} : slots'[a] = slots[a]
  /\ \A a \in Address :
       /\ header'[a].hash = header[a].hash /\ header'[a].proxee = header[a].proxee
       /\ header'[a].isEphemeron = header[a].isEphemeron
       /\ header'[a].hasWeaks = header[a].hasWeaks

LEMMA QuietUnmoved == HeapQuiet => Unmoved
BY DEF HeapQuiet, Unmoved

LEMMA UnmovedRewrites ==
  ASSUME HeapInv, Unmoved
  PROVE  /\ Rewrites
         /\ \A a \in Objects \cup {RescuedArray, Stack} : slots'[a] = slots[a]
<1>1. Objects \cup {RescuedArray, Stack} \subseteq Address \ {CodeCache}
  BY HeapFacts
<1>2. \A a \in Objects \cup {RescuedArray, Stack} : slots'[a] = slots[a]
  BY <1>1 DEF Unmoved
<1>3. Objects' = Objects
  BY SpacesSame DEF Unmoved
<1>4. \A v : Hash(v)' = Hash(v)
  BY <1>1, <1>3 DEF Hash, Unmoved
<1>5. \A a \in Objects \cup {Stack} : \A k \in SlotIndex(a) : Hash(slots[a][k])' = Hash(slots[a][k])
  BY <1>2, <1>4 DEF Hash
<1>6. QED
  BY <1>2, <1>5 DEF Rewrites, Unmoved

LEMMA UnmovedRef ==
  ASSUME HeapInv, RefInv, Unmoved, seen' = seen, rescuedCount' = rescuedCount,
         pc \in KindLabels, pc' \in KindLabels \ {"mutator"},
         LiteralsShown', CodeShown', KindsTold', KeysTold'
  PROVE  RefInv'
<1>1. Rewrites /\ \A a \in Objects \cup {RescuedArray, Stack} : slots'[a] = slots[a]
  BY UnmovedRewrites
<1>2. GraphShown' /\ RootsShown' /\ SeenShape'
  BY <1>1, RewritesContinues, ShownContinues
<1>3. HashesNamed'
  BY <1>1, RewritesNames DEF RefInv
<1>4. /\ Objects \subseteq Address /\ Copies \subseteq Address
      /\ \A v : Hash(v)' = Hash(v)
  BY <1>1, RewritesFacts, HeapFacts
<1>5. QueueShown'
  <2>1. \A j \in 1 .. rescuedCount : Hash(slots[RescuedArray][j])' = Hash(slots[RescuedArray][j])
    BY <1>1, <1>4 DEF Hash
  <2>2. CASE pc = "mutator"
    <3>1. seen.rescued = [j \in 1 .. rescuedCount |-> Hash(slots[RescuedArray][j])]
      BY <2>2, ViewFacts DEF RefInv, ViewTold
    <3>2. Len(seen.rescued) = rescuedCount
      BY <3>1, RefTypes
    <3>3. Len(seen.rescued) + 1 .. rescuedCount = {}
      BY <3>2, RefTypes
    <3>4. QED
      BY <2>1, <3>3, QueueContinues
  <2>3. CASE pc # "mutator"
    <3>1. BeforeFlip /\ BeforeFlip'
      BY <2>3 DEF BeforeFlip, KindLabels
    <3>2. Survivors' = Survivors /\ Survivors \subseteq Address
      BY <1>1, <1>4, <3>1, RewritesFacts DEF Survivors
    <3>3. \A a \in Survivors : header'[a].hash = header[a].hash
      BY <3>2 DEF Unmoved
    <3>4. QED
      BY <1>1, <2>1, <3>2, <3>3, QueueContinues
  <2>4. QED
    BY <2>2, <2>3
<1>6. QED
  BY <1>2, <1>3, <1>5 DEF RefInv

LEMMA UnmovedCode ==
  ASSUME HeapInv, RefInv, Unmoved, seen' = seen, pc \in KindLabels,
         literalsReferences' = literalsReferences, slots'[CodeCache] = slots[CodeCache]
  PROVE  LiteralsShown' /\ CodeShown'
<1>1. HashesKept
  BY UnmovedRewrites, RewritesKeep
<1>2. pc # "fixReferencesFromNativeMethods"
  BY DEF KindLabels
<1>3. QED
  BY <1>1, <1>2, LiteralsSame, CodeSame

(* The steps of the collection that do nothing else.                        *)
BeginningRef ==
  \/ StartScavenge \/ LiteralsReferencesPurged \/ RememberedSetPurged
  \/ ClearGlobalLookupCache \/ ClassCheckReferencesMoved \/ CheckNativizedMethods
  \/ NativizedMethodsMoved \/ LiteralsReferencesMoved \/ RememberedSetFollowed \/ FollowStack

LEMMA BeginningRefInv ==
  ASSUME HeapInv, RefInv, BeginningRef
  PROVE  RefInv'
<1>1. QuietStep
  BY BeginningQuiet, TraversalQuiet DEF BeginningRef
<1>2. Unmoved /\ rescuedCount' = rescuedCount
  BY <1>1, QuietUnmoved DEF QuietStep
<1>3. /\ seen' = seen /\ literalsReferences' = literalsReferences /\ slots' = slots
      /\ header' = header
  BY DEF BeginningRef, StartScavenge, LiteralsReferencesPurged, RememberedSetPurged,
         ClearGlobalLookupCache, ClassCheckReferencesMoved, CheckNativizedMethods,
         NativizedMethodsMoved, LiteralsReferencesMoved, RememberedSetFollowed, FollowStack,
         Proceed, heapVars, hostVars
<1>4. /\ pc \in {"mutator", "purgeLiteralsReferences", "purgeRememberedSet", "followCodeCacheReferences",
                 "moveClassCheckReferences", "checkNativizedMethods", "moveNativizedMethods",
                 "moveLiteralsReferences", "followRememberedSet", "followStack"}
      /\ pc' \in {"purgeLiteralsReferences", "purgeRememberedSet", "followCodeCacheReferences",
                 "moveClassCheckReferences", "checkNativizedMethods", "moveNativizedMethods",
                 "moveLiteralsReferences", "followRememberedSet", "followStack", "rescueEphemerons"}
  BY DEF BeginningRef, StartScavenge, LiteralsReferencesPurged, RememberedSetPurged,
         ClearGlobalLookupCache, ClassCheckReferencesMoved, CheckNativizedMethods,
         NativizedMethodsMoved, LiteralsReferencesMoved, RememberedSetFollowed, FollowStack,
         Proceed, At, GoTo
<1>5. pc \in KindLabels /\ pc' \in KindLabels \ {"mutator"}
  BY <1>4 DEF KindLabels, Labels
<1>6. /\ ToSet(ephemerons') \subseteq ToSet(ephemerons) /\ ToSet(unknowns') \subseteq ToSet(unknowns)
      /\ ToSet(weakContainers') \subseteq ToSet(weakContainers)
  BY SetOfEmpty DEF BeginningRef, StartScavenge, LiteralsReferencesPurged, RememberedSetPurged,
         ClearGlobalLookupCache, ClassCheckReferencesMoved, CheckNativizedMethods,
         NativizedMethodsMoved, LiteralsReferencesMoved, RememberedSetFollowed, FollowStack,
         Proceed, localVars
<1>7. KindsTold'
  BY <1>3, <1>6, ToldKept
<1>8. KeysTold'
  BY <1>4 DEF KeysTold
<1>9. QED
  BY <1>2, <1>3, <1>5, <1>7, <1>8, UnmovedCode, UnmovedRef


LEMMA PurgeLiteralRef ==
  ASSUME HeapInv, RefInv, PurgeLiteral
  PROVE  RefInv'
<1>1. QuietStep
  BY BeginningQuiet
<1>2. Unmoved /\ rescuedCount' = rescuedCount
  BY <1>1, QuietUnmoved DEF QuietStep
<1>3. /\ seen' = seen /\ slots' = slots /\ header' = header
      /\ ephemerons' = ephemerons /\ unknowns' = unknowns /\ weakContainers' = weakContainers
      /\ pc = "purgeLiteralsReferences" /\ pc' = pc /\ i <= Len(literalsReferences)
  BY DEF PurgeLiteral, heapVars, localVars, At
<1>4. pc \in KindLabels /\ pc' \in KindLabels \ {"mutator"}
  BY <1>3 DEF KindLabels, Labels
<1>5. KindsTold' /\ KeysTold'
  BY <1>3, ToldKept DEF KeysTold
<1>6. HashesKept
  BY <1>2, UnmovedRewrites, RewritesKeep
<1>7. CodeShown'
  BY <1>3, <1>6, CodeSame
<1>8. LiteralsShown'
  <2>1. CASE literalsReferences' = literalsReferences
    BY <1>3, <1>6, <2>1, LiteralsSame
  <2>2. CASE literalsReferences' = RemoveAt(literalsReferences, i)
    <3>1. literalsReferences \in Seq(HostTypes) /\ Len(literalsReferences) \in Nat
          /\ i \in 1 .. Len(literalsReferences)
      BY <1>3, HostSequences
    <3>2. /\ Len(literalsReferences') = Len(literalsReferences) - 1
          /\ \A k \in 1 .. Len(literalsReferences) - 1 :
               literalsReferences'[k] = IF k < i THEN literalsReferences[k] ELSE literalsReferences[k + 1]
      BY <2>2, <3>1, RemovedAt
    <3>3. \A j \in 1 .. Len(literalsReferences') : \E m \in 1 .. Len(literalsReferences) :
            literalsReferences'[j] = literalsReferences[m]
      BY <3>1, <3>2
    <3>4. ASSUME NEW j \in 1 .. Len(literalsReferences')
          PROVE  \E m \in 1 .. Len(literalsReferences) :
                   /\ literalsReferences'[j].offset = literalsReferences[m].offset
                   /\ literalsReferences'[j].literal \in Objects'
                   /\ header'[literalsReferences'[j].literal].hash
                        = header[literalsReferences[m].literal].hash
      <4>1. PICK m \in 1 .. Len(literalsReferences) : literalsReferences'[j] = literalsReferences[m]
        BY <3>3
      <4>2. literalsReferences[m].literal \in Objects
        BY DEF RefInv, LiteralsShown
      <4>3. QED
        BY <1>6, <4>1, <4>2 DEF HashesKept
    <3>5. QED
      BY <1>3, <3>4, LiteralsContinue
  <2>3. QED
    BY <2>1, <2>2 DEF PurgeLiteral
<1>9. QED
  BY <1>2, <1>3, <1>4, <1>5, <1>7, <1>8, UnmovedRef

LEMMA PurgeRememberedRef ==
  ASSUME HeapInv, RefInv, PurgeRemembered
  PROVE  RefInv'
<1>1. /\ seen' = seen /\ slots' = slots /\ literalsReferences' = literalsReferences
      /\ ephemerons' = ephemerons /\ unknowns' = unknowns /\ weakContainers' = weakContainers
      /\ pc = "purgeRememberedSet" /\ pc' = pc
  BY DEF PurgeRemembered, hostVars, localVars, At
<1>2. pc \in KindLabels /\ pc' \in KindLabels \ {"mutator"}
  BY <1>1 DEF KindLabels, Labels
<1>3. Unmoved /\ rescuedCount' = rescuedCount
  <2>1. FlagsOnly /\ rescuedCount' = rescuedCount
    BY PurgeFlags
  <2>2. header \in [Address -> Header]
    BY HeapFacts
  <2>3. \A a \in Address : header'[a].hasWeaks = header[a].hasWeaks
    BY <2>2 DEF PurgeRemembered, NotInRememberedSet, Header
  <2>4. QED
    BY <2>1, <2>3 DEF FlagsOnly, Unmoved
<1>4. \A a \in Copies : header'[a].hash = header[a].hash
                          /\ (header[a].hasWeaks => header'[a].hasWeaks)
  BY <1>3, HeapFacts DEF Unmoved
<1>5. KindsTold' /\ KeysTold'
  BY <1>1, <1>4, ToldKept DEF KeysTold
<1>6. QED
  BY <1>1, <1>2, <1>3, <1>5, UnmovedCode, UnmovedRef

(* A weak object that is found was seen to be weak.                         *)
LEMMA KindFound ==
  ASSUME HeapInv, RefInv, pc \in KindLabels, NEW a \in Standing, header[a].hasWeaks,
         ~header[a].isEphemeron
  PROVE  SeenKind(header[a].hash) = "weak"
<1>1. KindOf(a) = "weak"
  BY DEF KindOf
<1>2. KindOf(a) = SeenKind(header[a].hash)
  BY DEF RefInv, GraphShown, KindsShown, Shown
<1>3. QED
  BY <1>1, <1>2

LEMMA FollowRememberedRef ==
  ASSUME HeapInv, RefInv, FollowRemembered
  PROVE  RefInv'
<1> DEFINE object == rememberedSet[i]
<1>1. /\ seen' = seen /\ slots' = slots /\ literalsReferences' = literalsReferences
      /\ header' = header /\ pc = "followRememberedSet" /\ pc' = pc
  BY DEF FollowRemembered, hostVars, heapVars, At
<1>2. pc \in KindLabels /\ pc' \in KindLabels \ {"mutator"}
  BY <1>1 DEF KindLabels, Labels
<1>3. Unmoved /\ rescuedCount' = rescuedCount
  BY TraversalQuiet, QuietUnmoved DEF QuietStep
<1>4. object \in OldObjects /\ object \in Address
  BY StartFacts, HeapFacts
<1>5. /\ unknowns' = unknowns
      /\ ToSet(ephemerons') = ToSet(ephemerons)
           \cup (IF header[object].hasWeaks /\ header[object].isEphemeron THEN {object} ELSE {})
      /\ ToSet(weakContainers') = ToSet(weakContainers)
           \cup (IF header[object].hasWeaks /\ ~header[object].isEphemeron THEN {object} ELSE {})
  BY <1>4, WeakTold DEF FollowRemembered
<1>6. header[object].hasWeaks => object \in Standing
  <2>1. ~header[RescuedArray].hasWeaks
    BY DEF HeapInv, ProxiesLead
  <2>2. QED
    BY <1>4, <2>1, RefFacts DEF OldObjects, Copies
<1>7. header[object].hasWeaks /\ ~header[object].isEphemeron => SeenKind(header[object].hash) = "weak"
  BY <1>2, <1>6, KindFound
<1> HIDE DEF object
<1>8. KindsTold'
  BY <1>1, <1>5, <1>7 DEF RefInv, KindsTold, SeenKind
<1>9. KeysTold'
  BY <1>1 DEF KeysTold
<1>10. QED
  BY <1>1, <1>2, <1>3, <1>8, <1>9, UnmovedCode, UnmovedRef

LEMMA ScanQuietRef ==
  ASSUME HeapInv, RefInv, ScanOutside \/ ScanPop
  PROVE  RefInv'
<1>1. /\ seen' = seen /\ slots' = slots /\ literalsReferences' = literalsReferences
      /\ header' = header /\ pc' = pc /\ rescan' = rescan
      /\ ephemerons' = ephemerons /\ unknowns' = unknowns /\ weakContainers' = weakContainers
      /\ Traversing
  BY DEF ScanOutside, ScanPop, Scanning, hostVars, heapVars, localVars, controlVars, Traversing
<1>2. pc \in TraversalLabels
  BY <1>1 DEF HeapInv, ScansStay
<1>3. pc \in KindLabels /\ pc' \in KindLabels \ {"mutator"}
  BY <1>1, <1>2 DEF KindLabels, Labels, TraversalLabels
<1>4. Unmoved /\ rescuedCount' = rescuedCount
  BY TraversalQuiet, QuietUnmoved DEF QuietStep
<1>5. KindsTold'
  BY <1>1, ToldKept
<1>6. KeysTold'
  BY <1>1, KeysKept
<1>7. QED
  BY <1>1, <1>3, <1>4, <1>5, <1>6, UnmovedCode, UnmovedRef


-----------------------------------------------------------------------------
(* rescueEphemerons.                                                        *)
RescueLabels == {"rescueEphemerons", "collectUnknowns", "rescueEphemeron", "addRescued"}

LEMMA RescueQuietRef ==
  ASSUME HeapInv, RefInv, RescueStep, Unmoved, rescuedCount' = rescuedCount, slots' = slots,
         pc \in RescueLabels, pc' \in RescueLabels \cup {"makeRescuedEphemeronsNonWeak"},
         ToSet(ephemerons') \cup ToSet(unknowns') \subseteq ToSet(ephemerons) \cup ToSet(unknowns),
         KeysTold'
  PROVE  RefInv'
<1>1. /\ seen' = seen /\ literalsReferences' = literalsReferences
      /\ weakContainers' = weakContainers
  BY DEF RescueStep, hostVars
<1>2. pc \in KindLabels /\ pc' \in KindLabels \ {"mutator"}
  BY DEF KindLabels, Labels, RescueLabels
<1>3. \A a \in Copies : header'[a].hash = header[a].hash
                          /\ (header[a].hasWeaks => header'[a].hasWeaks)
  BY HeapFacts DEF Unmoved
<1>4. KindsTold'
  BY <1>1, <1>3, ToldKept
<1>5. QED
  BY <1>1, <1>2, <1>4, UnmovedCode, UnmovedRef

LEMMA LookForEphemeronsRef ==
  ASSUME HeapInv, RefInv, LookForEphemerons
  PROVE  RefInv'
<1>1. /\ RescueStep /\ slots' = slots /\ ephemerons' = ephemerons /\ unknowns' = unknowns
      /\ pc = "rescueEphemerons" /\ pc' = "collectUnknowns" /\ ~Traversing
      /\ scan' = scan /\ stack' = stack
  BY DEF LookForEphemerons, heapVars, At, GoTo, RescueStep
<1>2. Unmoved /\ rescuedCount' = rescuedCount
  BY RescueQuiet, QuietUnmoved DEF QuietStep
<1>3. unknowns = << >>
  BY <1>1 DEF HeapInv, FoundInCopies
<1>4. ToSet(unknowns') = {}
  BY <1>1, <1>3, SetOfEmpty
<1>5. ~Traversing'
  BY <1>1 DEF Traversing
<1>6. KeysTold'
  BY <1>1, <1>4, <1>5 DEF KeysTold
<1>7. QED
  BY <1>1, <1>2, <1>6, RescueQuietRef DEF RescueLabels

LEMMA FollowEphemeronRef ==
  ASSUME HeapInv, RefInv, FollowEphemeron
  PROVE  RefInv'
<1>1. /\ RescueStep /\ slots' = slots /\ ephemerons' = Front(ephemerons) /\ unknowns' = unknowns
      /\ pc = "collectUnknowns" /\ pc' = pc /\ rescan' /\ ephemerons # << >>
  BY DEF FollowEphemeron, heapVars, At
<1>2. Unmoved /\ rescuedCount' = rescuedCount
  BY RescueQuiet, QuietUnmoved DEF QuietStep
<1>3. ToSet(ephemerons') \subseteq ToSet(ephemerons)
  BY <1>1, LastTaken, RefTypes
<1>4. KeysTold'
  BY <1>1 DEF KeysTold
<1>5. QED
  BY <1>1, <1>2, <1>3, <1>4, RescueQuietRef DEF RescueLabels

LEMMA CollectUnknownRef ==
  ASSUME HeapInv, RefInv, CollectUnknown
  PROVE  RefInv'
<1> DEFINE ephemeron == Last(ephemerons)
<1>1. /\ RescueStep /\ slots' = slots /\ header' = header
      /\ ephemerons' = Front(ephemerons) /\ unknowns' = Append(unknowns, ephemeron)
      /\ pc = "collectUnknowns" /\ pc' = pc /\ rescan' = rescan /\ ephemerons # << >>
      /\ ~Traversing /\ scan' = scan /\ stack' = stack /\ ~KeyReached(ephemeron)
  BY DEF CollectUnknown, heapVars, At, RescueStep
<1>2. Unmoved /\ rescuedCount' = rescuedCount
  BY RescueQuiet, QuietUnmoved DEF QuietStep
<1>3. /\ ToSet(ephemerons') \subseteq ToSet(ephemerons) /\ ephemeron \in ToSet(ephemerons)
      /\ ephemeron \in Address
  BY <1>1, LastTaken, LastAndFront, RefTypes
<1>4. ToSet(unknowns') = ToSet(unknowns) \cup {ephemeron}
  BY <1>1, <1>3, Appended, RefTypes
<1>5. ~Traversing'
  BY <1>1 DEF Traversing
<1>6. fromSpace' = fromSpace
  BY DEF CollectUnknown, RescueStep, spaceVars
<1>7. ~rescan => Unreached(slots[ephemeron][0])
  BY <1>1 DEF KeyReached, Unreached, IsProxy
<1> HIDE DEF ephemeron
<1>8. ~rescan => \A e \in ToSet(unknowns') : Unreached(slots[e][0])
  BY <1>1, <1>4, <1>7 DEF RefInv, KeysTold
<1>9. \A e : Unreached(slots[e][0]) => Unreached(slots[e][0])'
  BY <1>1, <1>6 DEF Unreached, ArenaIncludes, Includes
<1>10. KeysTold'
  BY <1>1, <1>5, <1>8, <1>9 DEF KeysTold
<1>11. QED
  BY <1>1, <1>2, <1>3, <1>4, <1>10, RescueQuietRef DEF RescueLabels

LEMMA RescanRef ==
  ASSUME HeapInv, RefInv, Rescan
  PROVE  RefInv'
<1>1. /\ RescueStep /\ slots' = slots /\ ephemerons' = unknowns /\ unknowns' = << >>
      /\ pc = "collectUnknowns" /\ pc' = "rescueEphemerons"
  BY DEF Rescan, heapVars, At, GoTo
<1>2. Unmoved /\ rescuedCount' = rescuedCount
  BY RescueQuiet, QuietUnmoved DEF QuietStep
<1>3. ToSet(ephemerons') \cup ToSet(unknowns') \subseteq ToSet(ephemerons) \cup ToSet(unknowns)
  BY <1>1, SetOfEmpty
<1>4. KeysTold'
  BY <1>1 DEF KeysTold
<1>5. QED
  BY <1>1, <1>2, <1>3, <1>4, RescueQuietRef DEF RescueLabels

LEMMA UnknownsRescuedRef ==
  ASSUME HeapInv, RefInv, UnknownsRescued
  PROVE  RefInv'
<1>1. /\ RescueStep /\ slots' = slots /\ ephemerons' = ephemerons /\ unknowns' = << >>
      /\ pc = "rescueEphemeron" /\ pc' = "rescueEphemerons"
  BY DEF UnknownsRescued, heapVars, At, GoTo
<1>2. Unmoved /\ rescuedCount' = rescuedCount
  BY RescueQuiet, QuietUnmoved DEF QuietStep
<1>3. ToSet(ephemerons') \cup ToSet(unknowns') \subseteq ToSet(ephemerons) \cup ToSet(unknowns)
  BY <1>1, SetOfEmpty
<1>4. KeysTold'
  BY <1>1 DEF KeysTold
<1>5. QED
  BY <1>1, <1>2, <1>3, <1>4, RescueQuietRef DEF RescueLabels

LEMMA RescueEphemeronRef ==
  ASSUME HeapInv, RefInv, RescueEphemeron
  PROVE  RefInv'
<1>1. /\ RescueStep /\ slots' = slots /\ ephemerons' = ephemerons /\ unknowns' = unknowns
      /\ pc = "rescueEphemeron" /\ pc' = "addRescued" /\ rescan' = rescan /\ seen' = seen
  BY DEF RescueEphemeron, heapVars, At, RescueStep
<1>2. Unmoved /\ rescuedCount' = rescuedCount
  BY RescueQuiet, QuietUnmoved DEF QuietStep
<1>3. \A a \in Copies : header'[a].hash = header[a].hash
  BY <1>2, HeapFacts DEF Unmoved
<1>4. KeysTold'
  BY <1>1, <1>3, KeysKept
<1>5. QED
  BY <1>1, <1>2, <1>4, RescueQuietRef DEF RescueLabels

LEMMA EphemeronsDecidedRef ==
  ASSUME HeapInv, RefInv, EphemeronsDecided
  PROVE  RefInv'
<1>1. /\ RescueStep /\ slots' = slots /\ ephemerons' = ephemerons /\ unknowns' = unknowns
      /\ pc = "rescueEphemerons" /\ pc' = "makeRescuedEphemeronsNonWeak"
  BY DEF EphemeronsDecided, At, GoTo
<1>2. Unmoved /\ rescuedCount' = rescuedCount
  BY DecidedFlags DEF FlagsOnly, Unmoved
<1>3. KeysTold'
  BY <1>1 DEF KeysTold
<1>4. QED
  BY <1>1, <1>2, <1>3, RescueQuietRef DEF RescueLabels


(* A set of objects that the program holds, closed under references that    *)
(* count, shows that what is outside of it is dying.                        *)
LEMMA DyingWhen ==
  ASSUME SeenShape, NEW id, NEW S, S \subseteq DOMAIN seen.graph, id \notin S,
         \A r \in 0 .. NumRoots - 1 : seen.roots[r] \in Identities => seen.roots[r] \in S,
         \A j \in 1 .. Len(seen.rescued) : seen.rescued[j] \in Identities => seen.rescued[j] \in S,
         \A o \in 0 .. NumOffsets - 1 : seen.code[o] \in Identities => seen.code[o] \in S,
         \A h \in S : SeenSlot(h, -1) \in Identities => SeenSlot(h, -1) \in S,
         \A h \in S :
           \/ SeenKind(h) = "plain"
           \/ SeenKind(h) = "ephemeron" /\ (SeenSlot(h, 0) \notin Identities \/ SeenSlot(h, 0) \in S)
           => \A k \in SlotNames : SeenSlot(h, k) \in Identities => SeenSlot(h, k) \in S
  PROVE  Program!Dying(id)
<1>1. Program!RootObjects \subseteq S
  <2>1. DOMAIN seen.roots = 0 .. NumRoots - 1 /\ DOMAIN seen.code = 0 .. NumOffsets - 1
        /\ DOMAIN seen.rescued = 1 .. Len(seen.rescued)
    BY DEF SeenShape
  <2>2. QED
    BY <2>1 DEF Program!RootObjects, Program!Range, Program!ToSet, Identities
<1>2. Program!Closed(S)
  <2>1. ASSUME NEW h \in S
        PROVE  /\ Program!Target(seen.graph[h].slots[-1]) \subseteq S
               /\ seen.graph[h].kind = "plain"
                  \/ (seen.graph[h].kind = "ephemeron" /\ Program!HoldsKey(seen.graph[h], S))
                    => \A k \in -1 .. NumSlots - 1 : Program!Target(seen.graph[h].slots[k]) \subseteq S
    BY DEF Program!Target, Program!HoldsKey, Program!IsObject, Identities, SlotNames, SeenSlot, SeenKind
  <2>2. QED
    BY <2>1 DEF Program!Closed
<1>3. QED
  BY <1>1, <1>2 DEF Program!Dying

(* The ephemerons that are left when nothing is rescanned: only weak slots  *)
(* and they still refer to the space being emptied, so what was copied is   *)
(* a set as DyingWhen wants it, and it misses their keys.                   *)
LEMMA OnlyUndecided ==
  ASSUME HeapInv, pc = "collectUnknowns", ~Traversing, ephemerons = << >>,
         NEW a \in Staying, NEW k \in SlotIndex(a), ArenaIncludes(slots[a][k])
  PROVE  /\ k # -1 /\ header[a].hasWeaks
         /\ header[a].isEphemeron => a \in ToSet(unknowns)
<1>1. Pending(a, k)
  BY DEF HeapInv, NothingForgotten, BeforeFlip
<1>2. WeakAhead(a, k)
  BY <1>1, PendingLater DEF RootsBefore
<1>3. UnknownsAhead = ToSet(unknowns)
  BY UnknownsSet
<1>4. ToSet(ephemerons) = {}
  BY SetOfEmpty
<1>5. QED
  BY <1>2, <1>3, <1>4 DEF WeakAhead

LEMMA CopiedReference ==
  ASSUME HeapInv, HashesNamed, NEW v, Valid(v), ~ArenaIncludes(v), Hash(v) \in Identities
  PROVE  v \in Copies /\ Hash(v) = header[v].hash
<1>1. v \in Objects
  BY SeenReference
<1>2. v \in Copies
  BY <1>1, HeapFacts, Places
<1>3. QED
  BY <1>1, <1>2, RefFacts

LEMMA CodeHash ==
  ASSUME HeapInv, RefInv, pc = "collectUnknowns", NEW o \in 0 .. NumOffsets - 1,
         seen.code[o] \in Identities
  PROVE  \E c \in Copies : seen.code[o] = header[c].hash
<1>1. /\ o \in SlotIndex(CodeCache) /\ Valid(slots[CodeCache][o])
      /\ IsNew(slots[CodeCache][o]) => LiteralKept(o) \/ ClassCheckAhead(o)
  BY RefTypes DEF HeapInv, CodeKnown
<1>2. Hash(slots[CodeCache][o]) = seen.code[o]
  BY DEF RefInv, CodeShown
<1>3. CASE ~IsNew(slots[CodeCache][o])
  <2>1. ~ArenaIncludes(slots[CodeCache][o])
    BY <1>1, <1>3, ArenaObject
  <2>2. QED
    BY <1>1, <1>2, <2>1, CopiedReference DEF RefInv
<1>4. CASE IsNew(slots[CodeCache][o])
  <2>1. LiteralKept(o)
    BY <1>1, <1>4 DEF ClassCheckAhead, CacheLabels
  <2>2. PICK j \in 1 .. Len(literalsReferences) : literalsReferences[j].offset = o
    BY <2>1 DEF LiteralKept
  <2>3. /\ literalsReferences[j].literal \in Objects
        /\ header[literalsReferences[j].literal].hash = seen.code[o]
    BY <2>2 DEF RefInv, LiteralsShown
  <2>4. Valid(literalsReferences[j].literal) /\ ~IsNew(literalsReferences[j].literal)
    BY DEF HeapInv, LiteralsKnown, LiteralAhead, MethodLabels, CheckLabels, CacheLabels
  <2>5. literalsReferences[j].literal \in Copies
    BY <2>3, <2>4, ArenaObject, HeapFacts, Places
  <2>6. QED
    BY <2>3, <2>5
<1>5. QED
  BY <1>3, <1>4

LEMMA UnknownsDie ==
  ASSUME HeapInv, RefInv, pc = "collectUnknowns", ~rescan, ~Traversing, ephemerons = << >>,
         NEW e \in ToSet(unknowns)
  PROVE  header[e].hash \in Rescuable
<1> DEFINE S == {header[c].hash : c \in Copies}
           h == header[e].hash
           key == slots[e][0]
<1>1. /\ e \in Copies /\ header[e].isEphemeron /\ header[e].hasWeaks /\ Unreached(key)
  BY DEF HeapInv, FoundInCopies, RefInv, KindsTold, KeysTold
<1>2. /\ Copies \subseteq Standing /\ Copies \subseteq Objects /\ Copies \subseteq Staying
      /\ Shown = Standing /\ pc \in KindLabels /\ pc \in SlotLabels
  BY RefFacts, HeapFacts DEF Shown, KindLabels, SlotLabels, Labels
<1>3. HashesNamed /\ SeenShape
  BY DEF RefInv
<1>4. \A a \in Standing : /\ header[a].hash \in DOMAIN seen.graph
                          /\ KindOf(a) = SeenKind(header[a].hash)
                          /\ \A k \in SlotNames : Hash(slots[a][k]) = SeenSlot(header[a].hash, k)
  BY <1>2 DEF RefInv, GraphShown, KindsShown, SlotShown
<1>5. \A a \in Objects : SlotIndex(a) = SlotNames
  BY RefFacts
<1>6. h \in Identities /\ SeenKind(h) = "ephemeron"
  <2>1. KindOf(e) = "ephemeron"
    BY <1>1 DEF KindOf
  <2>2. QED
    BY <1>1, <1>2, <1>3, <1>4, <2>1 DEF HashesNamed
<1>7. /\ key \in Standing /\ key \notin Copies /\ key \in Objects
      /\ SeenSlot(h, 0) = header[key].hash /\ SeenSlot(h, 0) \in Identities
  <2>1. Valid(key) /\ 0 \in SlotNames
    BY <1>1, <1>2, RefTypes, RefFacts
  <2>2. key \in ObjectsIn(fromSpace) /\ header[key].proxee = Nil
    BY <1>1, <2>1, ArenaObject DEF Unreached
  <2>3. key \in Standing /\ key \in Objects /\ key \notin Copies
    BY <2>2, RefFacts, HeapFacts
  <2>4. QED
    BY <1>1, <1>2, <1>3, <1>4, <2>1, <2>3, RefFacts DEF HashesNamed
<1>8. SeenSlot(h, 0) \notin S
  BY <1>2, <1>7 DEF HeapInv, HashesDistinct
<1>9. S \subseteq DOMAIN seen.graph
  BY <1>2, <1>4
<1>10. \A a \in Staying : \A k \in SlotIndex(a) : ArenaIncludes(slots[a][k]) =>
         /\ k # -1 /\ header[a].hasWeaks
         /\ header[a].isEphemeron => a \in ToSet(unknowns)
  BY OnlyUndecided
<1>11. \A v : Valid(v) /\ ~ArenaIncludes(v) /\ Hash(v) \in Identities => Hash(v) \in S
  BY <1>3, CopiedReference
<1>12. ASSUME NEW r \in 0 .. NumRoots - 1, seen.roots[r] \in Identities PROVE seen.roots[r] \in S
  <2>1. Valid(slots[Stack][r]) /\ r \in SlotIndex(Stack) /\ Hash(slots[Stack][r]) = seen.roots[r]
    BY RefTypes DEF RefInv, RootsShown
  <2>2. ~header[Stack].hasWeaks /\ Stack \in Staying
    BY DEF HeapInv, ProxiesLead, Staying
  <2>3. QED
    BY <1>10, <1>11, <1>12, <2>1, <2>2
<1>13. ASSUME NEW j \in 1 .. Len(seen.rescued), seen.rescued[j] \in Identities
       PROVE  seen.rescued[j] \in S
  <2>1. j \in 1 .. rescuedCount
    BY RefTypes DEF RefInv, QueueShown
  <2>2. /\ Valid(slots[RescuedArray][j]) /\ j \in SlotIndex(RescuedArray)
        /\ Hash(slots[RescuedArray][j]) = seen.rescued[j]
    BY <2>1, RefTypes DEF RefInv, QueueShown
  <2>3. ~header[RescuedArray].hasWeaks /\ RescuedArray \in Staying
    BY DEF HeapInv, ProxiesLead, Staying
  <2>4. QED
    BY <1>10, <1>11, <1>13, <2>2, <2>3
<1>14. \A o \in 0 .. NumOffsets - 1 : seen.code[o] \in Identities => seen.code[o] \in S
  BY CodeHash
<1>15. ASSUME NEW g \in S, NEW k \in SlotNames, SeenSlot(g, k) \in Identities,
              k = -1 \/ SeenKind(g) = "plain"
                \/ (SeenKind(g) = "ephemeron"
                      /\ (SeenSlot(g, 0) \notin Identities \/ SeenSlot(g, 0) \in S))
       PROVE  SeenSlot(g, k) \in S
  <2>1. PICK c \in Copies : g = header[c].hash
    OBVIOUS
  <2>2. /\ KindOf(c) = SeenKind(g) /\ Hash(slots[c][k]) = SeenSlot(g, k)
        /\ Valid(slots[c][k]) /\ k \in SlotIndex(c) /\ c \in Staying
        /\ Hash(slots[c][0]) = SeenSlot(g, 0) /\ Valid(slots[c][0])
    BY <1>2, <1>4, <1>5, <2>1, RefTypes, RefFacts
  <2>3. ~ArenaIncludes(slots[c][k])
    <3> SUFFICES ASSUME ArenaIncludes(slots[c][k]) PROVE FALSE
      OBVIOUS
    <3>1. k # -1 /\ header[c].hasWeaks /\ (header[c].isEphemeron => c \in ToSet(unknowns))
      BY <1>10, <2>2
    <3>2. SeenKind(g) # "plain" /\ (SeenKind(g) = "ephemeron" => header[c].isEphemeron)
      BY <2>2, <3>1 DEF KindOf
    <3>3. /\ header[c].isEphemeron /\ c \in ToSet(unknowns)
          /\ SeenSlot(g, 0) \notin Identities \/ SeenSlot(g, 0) \in S
      BY <1>15, <3>1, <3>2
    <3>4. Unreached(slots[c][0])
      BY <3>3 DEF RefInv, KeysTold
    <3>5. slots[c][0] \in ObjectsIn(fromSpace) /\ header[slots[c][0]].proxee = Nil
      BY <2>2, <3>4, ArenaObject DEF Unreached
    <3>6. slots[c][0] \in Standing /\ slots[c][0] \notin Copies /\ slots[c][0] \in Objects
      BY <3>5, RefFacts, HeapFacts
    <3>7. SeenSlot(g, 0) = header[slots[c][0]].hash /\ SeenSlot(g, 0) \in Identities
      BY <1>3, <2>2, <3>6, RefFacts DEF HashesNamed
    <3>8. SeenSlot(g, 0) \notin S
      BY <1>2, <3>6, <3>7 DEF HeapInv, HashesDistinct
    <3>9. QED
      BY <3>3, <3>7, <3>8
  <2>4. QED
    BY <1>11, <1>15, <2>2, <2>3
<1> HIDE DEF S, h, key
<1>16. /\ \A g \in S : SeenSlot(g, -1) \in Identities => SeenSlot(g, -1) \in S
       /\ \A g \in S :
            \/ SeenKind(g) = "plain"
            \/ SeenKind(g) = "ephemeron" /\ (SeenSlot(g, 0) \notin Identities \/ SeenSlot(g, 0) \in S)
            => \A k \in SlotNames : SeenSlot(g, k) \in Identities => SeenSlot(g, k) \in S
  BY <1>15, RefFacts
<1>17. \A id : id \notin S => Program!Dying(id)
  BY <1>3, <1>9, <1>12, <1>13, <1>14, <1>16, DyingWhen
<1>18. Program!Dying(SeenSlot(h, 0))
  BY <1>8, <1>17
<1>19. QED
  BY <1>6, <1>7, <1>18 DEF Rescuable, h

LEMMA RescueUnknownsRef ==
  ASSUME HeapInv, RefInv, RescueUnknowns
  PROVE  RefInv'
<1>1. /\ RescueStep /\ slots' = slots /\ ephemerons' = ephemerons /\ unknowns' = unknowns
      /\ pc = "collectUnknowns" /\ pc' = "rescueEphemeron" /\ seen' = seen /\ header' = header
      /\ ~Traversing /\ ephemerons = << >> /\ ~rescan
  BY DEF RescueUnknowns, heapVars, At, GoTo, RescueStep
<1>2. Unmoved /\ rescuedCount' = rescuedCount
  BY RescueQuiet, QuietUnmoved DEF QuietStep
<1>3. \A e \in ToSet(unknowns) : header[e].hash \in Rescuable
  BY <1>1, UnknownsDie
<1>4. Rescuable' = Rescuable
  BY <1>1, RescuableKept
<1>5. KeysTold'
  BY <1>1, <1>3, <1>4 DEF KeysTold
<1>6. QED
  BY <1>1, <1>2, <1>5, RescueQuietRef DEF RescueLabels


-----------------------------------------------------------------------------
(* Steps that move an object or redirect a reference.                       *)
LEMMA ContinuesRef ==
  ASSUME HeapInv, RefInv, Continues, HashesNamed', HashesKept, rescuedCount' = rescuedCount,
         BeforeFlip, BeforeFlip', Copies \subseteq Copies',
         \A j \in 1 .. rescuedCount :
           \/ slots'[RescuedArray][j] = slots[RescuedArray][j]
           \/ /\ slots[RescuedArray][j] \notin Copies
              /\ Hash(slots[RescuedArray][j])' = Hash(slots[RescuedArray][j]),
         LiteralsShown', CodeShown', KindsTold', KeysTold'
  PROVE  RefInv'
<1>1. GraphShown' /\ RootsShown' /\ SeenShape'
  BY ShownContinues
<1>2. seen' = seen /\ pc' # "mutator"
  BY DEF Continues
<1>3. Survivors = Copies /\ Survivors' = Copies' /\ Copies \subseteq Objects
  BY HeapFacts DEF Survivors
<1>4. ASSUME NEW j \in 1 .. rescuedCount
      PROVE  Hash(slots[RescuedArray][j])' = Hash(slots[RescuedArray][j])
  <2>1. CASE slots'[RescuedArray][j] = slots[RescuedArray][j]
    <3>1. \A v : v = slots[RescuedArray][j] => Hash(v)' = Hash(v)
      BY RefTypes DEF HashesKept
    <3>2. QED
      BY <2>1, <3>1 DEF Hash
  <2>2. QED
    BY <2>1
<1>5. ASSUME NEW j \in Len(seen.rescued) + 1 .. rescuedCount
      PROVE  j \in 1 .. rescuedCount
  BY RefTypes DEF RefInv, QueueShown
<1>6. QueueShown'
  BY <1>2, <1>3, <1>4, <1>5, QueueContinues DEF HashesKept
<1>7. QED
  BY <1>1, <1>2, <1>6 DEF RefInv

LEMMA TraversalPlace ==
  ASSUME HeapInv, Scanning
  PROVE  /\ pc' = pc /\ pc \in KindLabels /\ pc' \in KindLabels \ {"mutator"}
         /\ BeforeFlip /\ BeforeFlip' /\ Traversing /\ rescan' = rescan /\ i' = i
         /\ seen' = seen /\ rescuedCount' = rescuedCount /\ literalsReferences' = literalsReferences
         /\ pc # "fixReferencesFromNativeMethods"
<1>1. pc \in TraversalLabels /\ pc' = pc /\ BeforeFlip /\ BeforeFlip'
  BY ScanningFacts
<1>2. pc \in KindLabels \ {"mutator"} /\ pc # "fixReferencesFromNativeMethods"
  BY <1>1 DEF KindLabels, Labels, TraversalLabels
<1>3. Traversing
  BY DEF Scanning, Traversing
<1>4. QED
  BY <1>1, <1>2, <1>3 DEF Scanning, hostVars, controlVars

LEMMA ScanProxyRef ==
  ASSUME HeapInv, RefInv, ScanProxy
  PROVE  RefInv'
<1> DEFINE copy == header[Scanned].proxee
<1>1. Scanning /\ ArenaIncludes(Scanned) /\ header[Scanned].proxee # Nil
  BY DEF ScanProxy, IsProxy
<1>2. /\ copy \in Copies
      /\ slots'[scan.objects][scan.index] = copy
      /\ \A a \in Address \ {scan.objects} : slots'[a] = slots[a]
      /\ \A k \in SlotIndex(scan.objects) \ {scan.index} :
           slots'[scan.objects][k] = slots[scan.objects][k]
      /\ UNCHANGED <<header, spaceVars>>
  BY ProxyFacts
<1>3. /\ scan.objects \in Staying /\ scan.index \in SlotIndex(scan.objects)
      /\ Scanned \in ObjectsIn(fromSpace) /\ Valid(Scanned)
  BY <1>1, ScanningFacts
<1>4. /\ Objects \cup {RescuedArray, Stack} \subseteq Address /\ Copies \subseteq Objects
      /\ ObjectsIn(fromSpace) \subseteq Objects /\ CodeCache \notin Staying
      /\ Scanned \notin Copies /\ CodeCache \in Address
      /\ RescuedArray \in Staying
  BY <1>3, HeapFacts DEF Staying
<1>5. Objects' = Objects /\ Copies' = Copies
  BY <1>2, SpacesSame
<1>6. \A v : Hash(v)' = Hash(v)
  BY <1>2, <1>5 DEF Hash
<1>7. Hash(copy) = Hash(Scanned)
  <2>1. header[copy].hash = header[Scanned].hash
    BY <1>1, <1>3 DEF RefInv, HashesNamed
  <2>2. QED
    BY <1>2, <1>3, <1>4, <2>1 DEF Hash
<1>8. Scanned = slots[scan.objects][scan.index]
  BY DEF Scanned
<1> HIDE DEF copy
<1>9. ASSUME NEW a \in Objects \cup {RescuedArray, Stack}, NEW k \in SlotIndex(a)
      PROVE  /\ Hash(slots[a][k])' = Hash(slots[a][k])
             /\ slots'[a][k] = slots[a][k] \/ slots[a][k] \notin Copies
  <2>1. CASE slots'[a][k] = slots[a][k]
    BY <1>6, <2>1 DEF Hash
  <2>2. CASE slots'[a][k] # slots[a][k]
    <3>1. a = scan.objects /\ k = scan.index
      BY <1>2, <1>4, <2>2
    <3>2. slots'[a][k] = copy /\ slots[a][k] = Scanned
      BY <1>2, <1>8, <3>1
    <3>3. QED
      BY <1>4, <1>6, <1>7, <3>2 DEF Hash
  <2>3. QED
    BY <2>1, <2>2
<1>10. Rewrites
  BY <1>2, <1>9 DEF Rewrites
<1>11. /\ pc' = pc /\ pc \in KindLabels /\ pc' \in KindLabels \ {"mutator"}
       /\ BeforeFlip /\ BeforeFlip' /\ Traversing /\ rescan' = rescan
       /\ seen' = seen /\ rescuedCount' = rescuedCount /\ literalsReferences' = literalsReferences
       /\ pc # "fixReferencesFromNativeMethods"
  BY <1>1, TraversalPlace
<1>12. Continues /\ HashesNamed' /\ HashesKept
  BY <1>10, <1>11, RewritesContinues, RewritesNames, RewritesKeep DEF RefInv
<1>13. slots'[CodeCache] = slots[CodeCache]
  BY <1>2, <1>3, <1>4
<1>14. LiteralsShown' /\ CodeShown'
  BY <1>11, <1>12, <1>13, LiteralsSame, CodeSame
<1>15. ephemerons' = ephemerons /\ unknowns' = unknowns /\ weakContainers' = weakContainers
  BY DEF ScanProxy, localVars
<1>16. KindsTold' /\ KeysTold'
  BY <1>2, <1>11, <1>15, ToldKept, KeysKept
<1>17. \A j \in 1 .. rescuedCount :
           \/ slots'[RescuedArray][j] = slots[RescuedArray][j]
           \/ /\ slots[RescuedArray][j] \notin Copies
              /\ Hash(slots[RescuedArray][j])' = Hash(slots[RescuedArray][j])
  BY <1>9, RefTypes
<1>18. QED
  BY <1>5, <1>11, <1>12, <1>14, <1>16, <1>17, ContinuesRef

LEMMA CopyingRef ==
  ASSUME HeapInv, RefInv, NEW object, NEW copy, Copying(object, copy), seen' = seen,
         rescuedCount' = rescuedCount, pc' = pc, pc \in KindLabels \ {"mutator"},
         LiteralsShown', CodeShown', KindsTold', KeysTold'
  PROVE  RefInv'
<1>1. HashesNamed' /\ HashesKept /\ Continues /\ Hash(copy)' = Hash(object)
  BY CopyingNames, CopyingKeeps, CopyingContinues DEF RefInv
<1>2. BeforeFlip /\ BeforeFlip'
  BY DEF BeforeFlip, KindLabels
<1>3. /\ Copies \subseteq Copies' /\ object \in ObjectsIn(fromSpace) /\ object \notin Copies
      /\ \A k \in SlotIndex(RescuedArray) :
           slots'[RescuedArray][k] = slots[RescuedArray][k]
             \/ (slots[RescuedArray][k] = object /\ slots'[RescuedArray][k] = copy)
  BY CopyingFacts DEF Copying, Staying
<1>4. \A j \in 1 .. rescuedCount :
        \/ slots'[RescuedArray][j] = slots[RescuedArray][j]
        \/ /\ slots[RescuedArray][j] \notin Copies
           /\ Hash(slots[RescuedArray][j])' = Hash(slots[RescuedArray][j])
  BY <1>1, <1>3, RefTypes DEF Hash
<1>5. QED
  BY <1>1, <1>2, <1>3, <1>4, ContinuesRef

LEMMA CopyingSeen ==
  ASSUME HeapInv, RefInv, NEW object, NEW copy, Copying(object, copy)
  PROVE  /\ object \in Standing /\ copy \in Address
         /\ header'[copy].hash = header[object].hash
         /\ header'[copy].hasWeaks = header[object].hasWeaks
         /\ \A a \in Copies : header'[a] = header[a]
<1>1. object \in Standing /\ object \notin Staying
  BY CopyingFacts, RefFacts DEF Copying
<1>2. \A a \in Copies : header'[a] = header[a]
  BY <1>1, CopyingFacts DEF Objects, Staying
<1>3. QED
  BY <1>1, <1>2, CopyingFacts DEF Copying, Relocates

LEMMA ScanCopyRef ==
  ASSUME HeapInv, RefInv, ScanCopy
  PROVE  RefInv'
<1> DEFINE object == Scanned
           copy == Destination(object)
<1>1. Scanning /\ RememberIfWeak(object, copy)
  BY DEF ScanCopy
<1>2. /\ Copying(object, copy) /\ scan.objects # copy
      /\ \A a \in Address \ {copy, scan.objects} : slots'[a] = slots[a]
  BY ScanCopies
<1>3. /\ pc' = pc /\ pc \in KindLabels /\ pc' \in KindLabels \ {"mutator"}
      /\ BeforeFlip /\ BeforeFlip' /\ Traversing /\ rescan' = rescan
      /\ seen' = seen /\ rescuedCount' = rescuedCount /\ literalsReferences' = literalsReferences
      /\ pc # "fixReferencesFromNativeMethods"
  BY <1>1, TraversalPlace
<1> HIDE DEF object, copy
<1>4. HashesKept
  BY <1>2, CopyingKeeps DEF RefInv
<1>5. CodeCache # copy /\ CodeCache # scan.objects /\ CodeCache \in Address
  <2>1. copy \notin Special
    BY <1>2 DEF Copying, Relocates
  <2>2. QED
    BY <1>1, <2>1, ScanningFacts, HeapFacts DEF Special
<1>6. LiteralsShown' /\ CodeShown'
  BY <1>2, <1>3, <1>4, <1>5, LiteralsSame, CodeSame
<1>7. /\ object \in Standing /\ copy \in Address
      /\ header'[copy].hash = header[object].hash
      /\ header'[copy].hasWeaks = header[object].hasWeaks
      /\ \A a \in Copies : header'[a] = header[a]
  BY <1>2, CopyingSeen
<1>8. /\ unknowns' = unknowns
      /\ ToSet(ephemerons') = ToSet(ephemerons)
           \cup (IF header[object].hasWeaks /\ header[object].isEphemeron THEN {copy} ELSE {})
      /\ ToSet(weakContainers') = ToSet(weakContainers)
           \cup (IF header[object].hasWeaks /\ ~header[object].isEphemeron THEN {copy} ELSE {})
  BY <1>1, <1>7, WeakTold
<1>9. header[object].hasWeaks /\ ~header[object].isEphemeron => SeenKind(header[object].hash) = "weak"
  BY <1>3, <1>7, KindFound
<1>10. ToSet(ephemerons) \cup ToSet(unknowns) \cup ToSet(weakContainers) \subseteq Copies
  BY DEF HeapInv, FoundInCopies
<1>11. KindsTold'
  BY <1>3, <1>7, <1>8, <1>9, <1>10 DEF RefInv, KindsTold, SeenKind
<1>12. KeysTold'
  BY <1>3, <1>7, <1>8, KeysKept
<1>13. QED
  BY <1>2, <1>3, <1>6, <1>11, <1>12, CopyingRef


(* What native code refers to is tenured, or was.                           *)
LEMMA TenuredSeen ==
  ASSUME HeapInv, RefInv, NEW object, Valid(object), Tenure(object),
         \A a \in Address \ {CodeCache} : slots'[a] = SlotsWithTenured(object)[a]
  PROVE  /\ HashesKept
         /\ ToBeMoved(object) \/ Unmoved
         /\ \A v : v = Tenured(object) => Hash(v)' = Hash(object)
         /\ object \in Objects =>
              /\ Tenured(object) \in Objects'
              /\ header'[Tenured(object)].hash = header[object].hash
<1>1. CASE ToBeMoved(object)
  <2>1. Copying(object, oldSpace.nextFree)
    BY <1>1, TenureCopies
  <2>2. Tenured(object) = oldSpace.nextFree
    <3>1. ~(ArenaIncludes(object) /\ IsProxy(object))
      BY <1>1 DEF ToBeMoved
    <3>2. QED
      BY <1>1, <3>1 DEF Tenured
  <2>3. \A c : Copying(object, c) =>
          /\ HashesKept /\ Hash(c)' = Hash(object)
          /\ c \in Objects' /\ header'[c].hash = header[object].hash
    BY CopyingNames, CopyingKeeps, CopyingFacts DEF RefInv, Copying, Relocates
  <2>4. QED
    BY <1>1, <2>1, <2>2, <2>3
<1>2. CASE ~ToBeMoved(object)
  <2>1. UNCHANGED <<header, spaceVars>> /\ \A a \in Address \ {CodeCache} : slots'[a] = slots[a]
    BY <1>2, TenureCopies
  <2>2. Unmoved
    BY <2>1 DEF Unmoved
  <2>3. HashesKept
    BY <2>2, UnmovedRewrites, RewritesKeep
  <2>4. Objects' = Objects /\ \A v : Hash(v)' = Hash(v)
    BY <2>2, UnmovedRewrites, RewritesFacts
  <2>5. CASE ArenaIncludes(object) /\ IsProxy(object)
    <3>1. object \in ObjectsIn(fromSpace) /\ header[object].proxee # Nil
      BY <2>5, ArenaObject DEF IsProxy
    <3>2. /\ header[object].proxee \in Copies
          /\ header[header[object].proxee].hash = header[object].hash
      BY <3>1 DEF HeapInv, ProxiesLead, RefInv, HashesNamed
    <3>3. Tenured(object) = header[object].proxee
      BY <1>2, <2>5 DEF Tenured
    <3>4. Copies \subseteq Objects /\ object \in Objects
      BY <3>1, HeapFacts
    <3>5. Hash(Tenured(object)) = Hash(object)
      BY <3>2, <3>3, <3>4 DEF Hash
    <3>6. QED
      BY <2>1, <2>2, <2>3, <2>4, <3>2, <3>3, <3>4, <3>5
  <2>6. CASE ~(ArenaIncludes(object) /\ IsProxy(object))
    <3>1. Tenured(object) = object
      BY <1>2, <2>6 DEF Tenured
    <3>2. QED
      BY <2>1, <2>2, <2>3, <2>4, <3>1
  <2>7. QED
    BY <2>5, <2>6
<1>3. QED
  BY <1>1, <1>2

LEMMA TenureRef ==
  ASSUME HeapInv, RefInv, NEW object, Valid(object), Tenure(object),
         \A a \in Address \ {CodeCache} : slots'[a] = SlotsWithTenured(object)[a],
         Iterate, pc \in RootsBefore, LiteralsShown', CodeShown'
  PROVE  RefInv'
<1>1. /\ pc' = pc /\ seen' = seen /\ rescuedCount' = rescuedCount
      /\ ephemerons' = ephemerons /\ unknowns' = unknowns /\ weakContainers' = weakContainers
  BY DEF Iterate, localVars
<1>2. pc \in KindLabels \ {"mutator"}
  BY DEF RootsBefore, KindLabels, Labels
<1>3. KeysTold'
  BY <1>1 DEF KeysTold, RootsBefore
<1>4. CASE ToBeMoved(object)
  <2>1. Copying(object, oldSpace.nextFree)
    BY <1>4, TenureCopies
  <2>2. \A c : Copying(object, c) => \A a \in Copies : header'[a] = header[a]
    BY CopyingSeen
  <2>3. KindsTold'
    BY <1>1, <2>1, <2>2, ToldKept
  <2>4. \A c : Copying(object, c) => RefInv'
    BY <1>1, <1>2, <1>3, <2>3, CopyingRef
  <2>5. QED
    BY <2>1, <2>4
<1>5. CASE ~ToBeMoved(object)
  <2>1. Unmoved
    BY <1>5, TenuredSeen
  <2>2. \A a \in Copies : header'[a].hash = header[a].hash
                            /\ (header[a].hasWeaks => header'[a].hasWeaks)
    BY <2>1, HeapFacts DEF Unmoved
  <2>3. KindsTold'
    BY <1>1, <2>2, ToldKept
  <2>4. QED
    BY <1>1, <1>2, <1>3, <2>1, <2>3, UnmovedRef
<1>6. QED
  BY <1>4, <1>5

LEMMA MoveClassCheckRef ==
  ASSUME HeapInv, RefInv, MoveClassCheckReference
  PROVE  RefInv'
<1> DEFINE offset == classCheckReferences[i]
           object == slots[CodeCache][offset]
<1>1. /\ Valid(object) /\ Tenure(object) /\ offset \in SlotIndex(CodeCache)
      /\ \A a \in Address \ {CodeCache} : slots'[a] = SlotsWithTenured(object)[a]
      /\ slots'[CodeCache][offset] = Tenured(object)
      /\ \A o \in SlotIndex(CodeCache) \ {offset} : slots'[CodeCache][o] = slots[CodeCache][o]
  BY ClassCheckFacts
<1>2. /\ Iterate /\ pc = "moveClassCheckReferences" /\ pc' = pc /\ seen' = seen
      /\ literalsReferences' = literalsReferences
  BY DEF MoveClassCheckReference, At, Iterate
<1>3. pc \in RootsBefore
  BY <1>2 DEF RootsBefore
<1>4. HashesKept /\ \A v : v = Tenured(object) => Hash(v)' = Hash(object)
  BY <1>1, TenuredSeen
<1>5. LiteralsShown'
  BY <1>2, <1>4, LiteralsSame
<1>6. ASSUME NEW o \in 0 .. NumOffsets - 1 PROVE Hash(slots[CodeCache][o])' = seen'.code[o]
  <2>1. /\ o \in SlotIndex(CodeCache) /\ Valid(slots[CodeCache][o])
        /\ Hash(slots[CodeCache][o]) = seen.code[o]
    BY <1>2, RefTypes DEF HeapInv, CodeKnown, RefInv, CodeShown
  <2>2. CASE o = offset
    <3>1. \A v : v = slots'[CodeCache][o] => Hash(v)' = seen.code[o]
      BY <1>1, <1>4, <2>1, <2>2
    <3>2. QED
      BY <1>2, <3>1 DEF Hash
  <2>3. CASE o # offset
    <3>1. \A v : v = slots[CodeCache][o] => Hash(v)' = seen.code[o]
      BY <1>4, <2>1 DEF HashesKept
    <3>2. slots'[CodeCache][o] = slots[CodeCache][o]
      BY <1>1, <2>1, <2>3
    <3>3. QED
      BY <1>2, <3>1, <3>2 DEF Hash
  <2>4. QED
    BY <2>2, <2>3
<1>7. CodeShown'
  BY <1>6 DEF CodeShown
<1>8. QED
  BY <1>1, <1>2, <1>3, <1>5, <1>7, TenureRef

LEMMA MoveNativizedRef ==
  ASSUME HeapInv, RefInv, MoveNativizedMethod
  PROVE  RefInv'
<1> DEFINE object == nativizedMethods[i]
<1>1. Valid(object) /\ Tenure(object) /\ slots' = SlotsWithTenured(object)
  BY NativizedFacts
<1>2. /\ Iterate /\ pc = "moveNativizedMethods" /\ pc' = pc /\ seen' = seen
      /\ literalsReferences' = literalsReferences
  BY DEF MoveNativizedMethod, At, Iterate
<1>3. pc \in RootsBefore /\ pc # "fixReferencesFromNativeMethods"
  BY <1>2 DEF RootsBefore
<1>4. HashesKept
  BY <1>1, TenuredSeen
<1>5. slots'[CodeCache] = slots[CodeCache]
  BY <1>1, CodeRowTenured
<1>6. LiteralsShown' /\ CodeShown'
  BY <1>2, <1>3, <1>4, <1>5, LiteralsSame, CodeSame
<1>7. QED
  BY <1>1, <1>2, <1>3, <1>6, TenureRef

LEMMA MoveLiteralRef ==
  ASSUME HeapInv, RefInv, MoveLiteralReference
  PROVE  RefInv'
<1> DEFINE object == literalsReferences[i].literal
<1>1. /\ Valid(object) /\ Tenure(object) /\ slots' = SlotsWithTenured(object)
      /\ i \in 1 .. Len(literalsReferences)
      /\ literalsReferences' = [literalsReferences EXCEPT ![i].literal = Tenured(object)]
  BY LiteralFacts
<1>2. Iterate /\ pc = "moveLiteralsReferences" /\ pc' = pc /\ seen' = seen
  BY DEF MoveLiteralReference, At, Iterate
<1>3. pc \in RootsBefore /\ pc # "fixReferencesFromNativeMethods"
  BY <1>2 DEF RootsBefore
<1>4. /\ HashesKept
      /\ object \in Objects => /\ Tenured(object) \in Objects'
                               /\ header'[Tenured(object)].hash = header[object].hash
  BY <1>1, TenuredSeen
<1>5. slots'[CodeCache] = slots[CodeCache]
  BY <1>1, CodeRowTenured
<1>6. CodeShown'
  BY <1>2, <1>3, <1>4, <1>5, CodeSame
<1>7. object \in Objects
  BY <1>1 DEF RefInv, LiteralsShown
<1>8. literalsReferences \in Seq(HostTypes)
  BY RefTypes
<1> HIDE DEF object
<1>9. /\ Len(literalsReferences') = Len(literalsReferences)
      /\ literalsReferences'[i].offset = literalsReferences[i].offset
      /\ literalsReferences'[i].literal = Tenured(object)
      /\ \A j \in 1 .. Len(literalsReferences) : j # i => literalsReferences'[j] = literalsReferences[j]
  BY <1>1, <1>8 DEF HostTypes
<1>10. ASSUME NEW j \in 1 .. Len(literalsReferences')
       PROVE  /\ literalsReferences'[j].offset = literalsReferences[j].offset
              /\ literalsReferences'[j].literal \in Objects'
              /\ header'[literalsReferences'[j].literal].hash = header[literalsReferences[j].literal].hash
  <2>1. CASE j = i
    BY <1>4, <1>7, <1>9, <2>1 DEF object
  <2>2. CASE j # i
    <3>1. literalsReferences[j].literal \in Objects
      BY <1>9 DEF RefInv, LiteralsShown
    <3>2. QED
      BY <1>4, <1>9, <2>2, <3>1 DEF HashesKept
  <2>3. QED
    BY <2>1, <2>2
<1>11. LiteralsShown'
  BY <1>2, <1>9, <1>10, LiteralsContinue
<1>12. QED
  BY <1>1, <1>2, <1>3, <1>6, <1>11, TenureRef


LEMMA AddRescuedRef ==
  ASSUME HeapInv, RefInv, AddRescued
  PROVE  RefInv'
<1> DEFINE last == rescuedCount + 1
<1>1. /\ unknowns[i] \in ToSet(unknowns) /\ unknowns[i] \in Copies
      /\ last \in SlotIndex(RescuedArray)
      /\ slots'[RescuedArray][last] = unknowns[i]
      /\ \A a \in Address \ {RescuedArray} : slots'[a] = slots[a]
      /\ \A k \in SlotIndex(RescuedArray) \ {last} :
           slots'[RescuedArray][k] = slots[RescuedArray][k]
      /\ UNCHANGED <<header, spaceVars>>
  BY AddRescuedFacts
<1>2. /\ pc = "addRescued" /\ pc' = "rescueEphemeron" /\ rescuedCount' = last
      /\ seen' = seen /\ literalsReferences' = literalsReferences /\ rescan' = rescan
      /\ ephemerons' = ephemerons /\ unknowns' = unknowns /\ weakContainers' = weakContainers
  BY DEF AddRescued, At, RescueStep, hostVars
<1>3. pc \in KindLabels /\ pc' \in KindLabels \ {"mutator"} /\ BeforeFlip /\ BeforeFlip'
      /\ pc # "fixReferencesFromNativeMethods"
  BY <1>2 DEF KindLabels, Labels, BeforeFlip
<1>4. Objects' = Objects /\ Copies' = Copies
  BY <1>1, SpacesSame
<1>5. \A v : Hash(v)' = Hash(v)
  BY <1>1, <1>4 DEF Hash
<1>6. /\ Objects \cup {Stack} \subseteq Address \ {RescuedArray} /\ CodeCache \in Address \ {RescuedArray}
      /\ Copies \subseteq Objects
  BY HeapFacts, RefFacts
<1>7. Rewrites
  BY <1>1, <1>5, <1>6 DEF Rewrites, Hash
<1>8. GraphShown' /\ RootsShown' /\ SeenShape' /\ HashesNamed' /\ HashesKept
  BY <1>2, <1>3, <1>7, RewritesContinues, ShownContinues, RewritesNames, RewritesKeep DEF RefInv
<1>9. LiteralsShown' /\ CodeShown'
  BY <1>1, <1>2, <1>3, <1>6, <1>8, LiteralsSame, CodeSame
<1>10. KindsTold' /\ KeysTold'
  BY <1>1, <1>2, ToldKept, KeysKept
<1>11. QueueShown'
  <2>1. /\ rescuedCount \in Nat /\ Len(seen.rescued) \in 0 .. rescuedCount
        /\ \A j \in 1 .. rescuedCount : j \in SlotIndex(RescuedArray) /\ j # last
    <3>1. rescuedCount \in Nat /\ \A j \in 1 .. rescuedCount : j \in SlotIndex(RescuedArray)
      BY RefTypes
    <3>2. Len(seen.rescued) \in 0 .. rescuedCount
      BY DEF RefInv, QueueShown
    <3>3. \A j \in 1 .. rescuedCount : j # last
      BY <3>1
    <3>4. QED
      BY <3>1, <3>2, <3>3
  <2>2. \A j \in 1 .. rescuedCount : slots'[RescuedArray][j] = slots[RescuedArray][j]
    BY <1>1, <2>1
  <2>3. Survivors' = Survivors /\ Survivors = Copies
    BY <1>3, <1>4 DEF Survivors
  <2>4. Rescuable' = Rescuable
    BY <1>2, RescuableKept
  <2>5. header[unknowns[i]].hash \in Rescuable
    BY <1>1, <1>2 DEF RefInv, KeysTold
  <2>6. \A j \in Len(seen.rescued) + 1 .. last : j = last \/ j \in Len(seen.rescued) + 1 .. rescuedCount
    BY <2>1
  <2>7. ASSUME NEW j \in Len(seen.rescued) + 1 .. last
        PROVE  /\ slots'[RescuedArray][j] \in Survivors'
               /\ header'[slots'[RescuedArray][j]].hash \in Rescuable'
    <3>1. CASE j = last
      BY <1>1, <2>3, <2>4, <2>5, <3>1
    <3>2. CASE j # last
      <4>1. j \in Len(seen.rescued) + 1 .. rescuedCount /\ j \in 1 .. rescuedCount
        BY <2>1, <2>6, <3>2
      <4>2. QED
        BY <1>1, <2>2, <2>3, <2>4, <4>1 DEF RefInv, QueueShown
    <3>3. QED
      BY <3>1, <3>2
  <2>8. \A j \in 1 .. Len(seen.rescued) : Hash(slots[RescuedArray][j])' = seen.rescued[j]
    BY <1>5, <2>1, <2>2 DEF RefInv, QueueShown, Hash
  <2>9. Len(seen.rescued) \in 0 .. last
    BY <2>1
  <2>10. QED
    BY <1>2, <2>7, <2>8, <2>9 DEF QueueShown
<1>12. QED
  BY <1>2, <1>8, <1>9, <1>10, <1>11 DEF RefInv


-----------------------------------------------------------------------------
(* The end of the collection.                                               *)
LEMMA HashesSame ==
  ASSUME HeapInv, HashesNamed, UNCHANGED spaceVars,
         \A a \in Address : header'[a].hash = header[a].hash /\ header'[a].proxee = header[a].proxee
  PROVE  /\ Objects' = Objects /\ Copies' = Copies
         /\ \A v : Hash(v)' = Hash(v)
         /\ HashesNamed' /\ HashesKept
<1>1. Objects \subseteq Address /\ ObjectsIn(fromSpace) \subseteq Objects /\ Copies \subseteq Objects
  BY HeapFacts
<1>2. Objects' = Objects /\ Copies' = Copies /\ ObjectsIn(fromSpace)' = ObjectsIn(fromSpace)
  BY SpacesSame
<1>3. \A v : Hash(v)' = Hash(v)
  BY <1>1, <1>2 DEF Hash
<1>4. \A a \in ObjectsIn(fromSpace) : header[a].proxee # Nil => header[a].proxee \in Copies
  BY DEF HeapInv, ProxiesLead
<1>5. \A a \in ObjectsIn(fromSpace) : header'[a].proxee # Nil =>
        header'[header'[a].proxee].hash = header'[a].hash
  <2>1. ASSUME NEW a \in ObjectsIn(fromSpace), header'[a].proxee # Nil
        PROVE  header'[header'[a].proxee].hash = header'[a].hash
    <3>1. a \in Address /\ header'[a].proxee = header[a].proxee /\ header'[a].hash = header[a].hash
      BY <1>1
    <3>2. header[a].proxee \in Address /\ header[header[a].proxee].hash = header[a].hash
      BY <1>1, <1>4, <2>1, <3>1 DEF HashesNamed
    <3>3. QED
      BY <3>1, <3>2
  <2>2. QED
    BY <2>1
<1>6. HashesNamed'
  BY <1>1, <1>2, <1>5 DEF HashesNamed, Identities
<1>7. QED
  BY <1>1, <1>2, <1>3, <1>6 DEF HashesKept

(* No reference to the space being emptied is left in the queue.            *)
LEMMA NoneInQueue ==
  ASSUME HeapInv, At("makeRescuedEphemeronsNonWeak") \/ At("fixWeakContainers"), NEW a \in Staying,
         NEW k \in SlotIndex(a), ArenaIncludes(slots[a][k])
  PROVE  a \in ToSet(weakContainers) /\ k # -1 /\ header[a].hasWeaks
<1>1. /\ BeforeFlip /\ ~Traversing
      /\ pc \in {"makeRescuedEphemeronsNonWeak", "fixWeakContainers"}
  BY DEF At, BeforeFlip
<1>2. ephemerons = << >> /\ unknowns = << >>
  BY <1>1 DEF HeapInv, FoundInCopies, FindingLabels, TraversalLabels
<1>3. ToSet(ephemerons) = {} /\ UnknownsAhead = {}
  BY <1>1, <1>2, SetOfEmpty DEF UnknownsAhead, FirstUnknown
<1>4. Pending(a, k)
  BY <1>1 DEF HeapInv, NothingForgotten
<1>5. ~ScanAhead(a, k)
  BY <1>1, NoneAhead DEF SlotIndex
<1>6. ~ToBeFollowed(a)
  BY <1>1 DEF ToBeFollowed, RootsBefore
<1>7. QED
  BY <1>3, <1>4, <1>5, <1>6 DEF Pending, WeakAhead

LEMMA NonWeakRef ==
  ASSUME HeapInv, RefInv, MakeRescuedEphemeronsNonWeak
  PROVE  RefInv'
<1>1. /\ At("makeRescuedEphemeronsNonWeak") /\ pc = "makeRescuedEphemeronsNonWeak"
      /\ pc' = "fixWeakContainers" /\ seen' = seen
      /\ slots' = slots /\ rescuedCount' = rescuedCount /\ literalsReferences' = literalsReferences
      /\ ephemerons' = ephemerons /\ unknowns' = unknowns /\ weakContainers' = weakContainers
      /\ UNCHANGED spaceVars
  BY DEF MakeRescuedEphemeronsNonWeak, At, GoTo, hostVars, localVars
<1>2. /\ \A a \in Address :
           /\ header'[a].hash = header[a].hash /\ header'[a].proxee = header[a].proxee
           /\ header'[a].isEphemeron = header[a].isEphemeron
      /\ \A a \in Address \ Rescued : header'[a] = header[a]
  BY NonWeakFlags DEF FlagsOnly
<1>3. \A a \in Address \cap Rescued : header'[a].hasWeaks = FALSE
  BY HeapFacts DEF MakeRescuedEphemeronsNonWeak, Header
<1>4. /\ Objects' = Objects /\ Copies' = Copies
      /\ \A v : Hash(v)' = Hash(v)
      /\ HashesNamed' /\ HashesKept
  BY <1>1, <1>2, HashesSame DEF RefInv
<1>5. /\ pc \in KindLabels /\ pc \in SlotLabels /\ pc' \notin KindLabels /\ pc' \in SlotLabels
      /\ BeforeFlip /\ BeforeFlip' /\ pc # "fixReferencesFromNativeMethods"
  BY <1>1 DEF KindLabels, SlotLabels, Labels, BeforeFlip
<1>6. Survivors = Copies /\ Survivors' = Copies /\ Shown = Standing /\ Shown' = Copies
  BY <1>4, <1>5 DEF Survivors, Shown
<1>7. /\ Copies \subseteq Standing /\ Copies \subseteq Objects /\ Copies \subseteq Address
      /\ RescuedArray \in Staying
  BY RefFacts, HeapFacts DEF Staying
<1>8. ASSUME NEW a \in Copies
      PROVE  /\ header'[a].hash \in DOMAIN seen'.graph
             /\ KindsShown(a)'
             /\ \A k \in SlotNames : SlotShown(a, k)'
  <2>1. /\ header[a].hash \in DOMAIN seen.graph
        /\ KindOf(a) = SeenKind(header[a].hash)
        /\ \A k \in SlotNames : Hash(slots[a][k]) = SeenSlot(header[a].hash, k)
    BY <1>5, <1>6, <1>7 DEF RefInv, GraphShown, KindsShown, SlotShown
  <2>2. \A k \in SlotNames : SlotShown(a, k)'
    BY <1>1, <1>2, <1>4, <1>5, <1>7, <2>1 DEF SlotShown, SeenSlot, Hash
  <2>3. (\E j \in 1 .. rescuedCount : Hash(slots[RescuedArray][j]) = header[a].hash) <=> a \in Rescued
    <3>1. ASSUME a \in Rescued
          PROVE  \E j \in 1 .. rescuedCount : Hash(slots[RescuedArray][j]) = header[a].hash
      BY <1>7, <3>1, RefFacts DEF Rescued
    <3>2. ASSUME NEW j \in 1 .. rescuedCount, Hash(slots[RescuedArray][j]) = header[a].hash
          PROVE  a \in Rescued
      <4>1. Valid(slots[RescuedArray][j]) /\ j \in SlotIndex(RescuedArray)
        BY RefTypes
      <4>2. ~header[RescuedArray].hasWeaks
        BY DEF HeapInv, ProxiesLead
      <4>3. ~ArenaIncludes(slots[RescuedArray][j])
        BY <1>1, <1>7, <4>1, <4>2, NoneInQueue
      <4>4. header[a].hash \in Identities
        BY <1>7 DEF RefInv, HashesNamed
      <4>5. slots[RescuedArray][j] \in Copies /\ header[slots[RescuedArray][j]].hash = header[a].hash
        BY <3>2, <4>1, <4>3, <4>4, CopiedReference DEF RefInv
      <4>6. slots[RescuedArray][j] = a
        BY <1>7, <4>5 DEF HeapInv, HashesDistinct
      <4>7. QED
        BY <4>6 DEF Rescued
    <3>3. QED
      BY <3>1, <3>2
  <2>4. KindOf(a)' = IF a \in Rescued THEN "plain" ELSE KindOf(a)
    BY <1>2, <1>3, <1>7 DEF KindOf
  <2>5. header'[a].hash = header[a].hash
    BY <1>2, <1>7
  <2>6. (\E j \in 1 .. rescuedCount' : Hash(slots[RescuedArray][j])' = header'[a].hash) <=> a \in Rescued
    BY <1>1, <1>4, <2>3, <2>5 DEF Hash
  <2>7. KindsShown(a)'
    BY <1>1, <1>5, <2>1, <2>4, <2>5, <2>6 DEF KindsShown, SeenKind
  <2>8. QED
    BY <1>1, <2>1, <2>2, <2>5, <2>7
<1>9. GraphShown'
  BY <1>6, <1>8 DEF GraphShown
<1>10. RootsShown' /\ SeenShape'
  BY <1>1, <1>4 DEF RefInv, RootsShown, SeenShape, Hash
<1>11. QueueShown'
  BY <1>1, <1>2, <1>4, <1>6, <1>7, QueueContinues DEF Hash
<1>12. LiteralsShown' /\ CodeShown'
  BY <1>1, <1>4, <1>5, LiteralsSame, CodeSame
<1>13. KeysTold'
  BY <1>1 DEF KeysTold
<1>14. KindsTold'
  <2>1. ephemerons = << >> /\ unknowns = << >> /\ ToSet(weakContainers) \subseteq Copies
    BY <1>1 DEF HeapInv, FoundInCopies, FindingLabels, TraversalLabels
  <2>2. ToSet(ephemerons') \cup ToSet(unknowns') = {}
    BY <1>1, <2>1, SetOfEmpty
  <2>3. QED
    BY <1>1, <1>2, <1>7, <2>1, <2>2 DEF RefInv, KindsTold, SeenKind
<1>15. QED
  BY <1>1, <1>4, <1>9, <1>10, <1>11, <1>12, <1>13, <1>14 DEF RefInv


LEMMA FixWeakRef ==
  ASSUME HeapInv, RefInv, FixWeakContainers
  PROVE  RefInv'
<1>1. /\ At("fixWeakContainers") /\ pc = "fixWeakContainers" /\ pc' = "flipSpaces" /\ seen' = seen
      /\ rescuedCount' = rescuedCount /\ literalsReferences' = literalsReferences
      /\ ephemerons' = ephemerons /\ unknowns' = unknowns /\ weakContainers' = << >>
      /\ UNCHANGED <<header, spaceVars>>
  BY DEF FixWeakContainers, At, GoTo, hostVars
<1>2. /\ \A a \in Address \ ToSet(weakContainers) : slots'[a] = slots[a]
      /\ \A a \in ToSet(weakContainers) :
           /\ slots'[a][-1] = slots[a][-1]
           /\ \A k \in SlotIndex(a) \ {-1} : slots'[a][k] = WeakReference(slots[a][k])
      /\ ToSet(weakContainers) \subseteq Copies
  BY FixWeakFacts
<1>3. /\ Objects' = Objects /\ Copies' = Copies
      /\ \A v : Hash(v)' = Hash(v)
      /\ HashesNamed' /\ HashesKept
  BY <1>1, HashesSame DEF RefInv
<1>4. /\ pc \notin KindLabels /\ pc \in SlotLabels /\ pc' \notin KindLabels /\ pc' \notin SlotLabels
      /\ BeforeFlip /\ BeforeFlip' /\ pc # "fixReferencesFromNativeMethods"
  BY <1>1 DEF KindLabels, SlotLabels, Labels, BeforeFlip
<1>5. Survivors = Copies /\ Survivors' = Copies /\ Shown = Copies /\ Shown' = Copies
  BY <1>3, <1>4 DEF Survivors, Shown
<1>6. Kept = {header[c].hash : c \in Copies} /\ Kept' = {header[c].hash : c \in Copies}
  BY <1>1, <1>5 DEF Kept
<1>7. /\ Copies \subseteq Standing /\ Copies \subseteq Objects /\ Copies \subseteq Staying
      /\ Objects \cup {RescuedArray, Stack, CodeCache} \subseteq Address
      /\ {RescuedArray, Stack, CodeCache} \cap Copies = {}
  BY RefFacts, HeapFacts
<1>8. slots'[RescuedArray] = slots[RescuedArray] /\ slots'[Stack] = slots[Stack]
      /\ slots'[CodeCache] = slots[CodeCache]
  BY <1>2, <1>7
<1>9. ASSUME NEW v, Valid(v), ArenaIncludes(v)
      PROVE  Hash(WeakReference(v)) =
               IF Hash(v) \in Identities /\ Hash(v) \notin Kept THEN Tombstone ELSE Hash(v)
  <2>1. v \in ObjectsIn(fromSpace) /\ v \in Objects
    BY <1>9, ArenaObject, HeapFacts
  <2>2. Hash(v) = header[v].hash /\ Hash(v) \in Identities
    BY <2>1, RefFacts DEF RefInv, HashesNamed
  <2>3. CASE IsProxy(v)
    <3>1. /\ header[v].proxee \in Copies /\ header[header[v].proxee].hash = header[v].hash
          /\ WeakReference(v) = header[v].proxee
      BY <1>9, <2>1, <2>3 DEF HeapInv, ProxiesLead, RefInv, HashesNamed, IsProxy, WeakReference
    <3>2. Hash(WeakReference(v)) = Hash(v) /\ Hash(v) \in Kept
      BY <1>6, <1>7, <2>2, <3>1, RefFacts
    <3>3. QED
      BY <3>2
  <2>4. CASE ~IsProxy(v)
    <3>1. WeakReference(v) = Tombstone
      BY <1>9, <2>4 DEF WeakReference
    <3>2. v \in Standing /\ v \notin Copies
      BY <2>1, <2>4, HeapFacts DEF Standing
    <3>3. Hash(v) \notin Kept
      BY <1>6, <1>7, <2>2, <3>2 DEF HeapInv, HashesDistinct
    <3>4. QED
      BY <2>2, <3>1, <3>3, RefFacts
  <2>5. QED
    BY <2>3, <2>4
<1>10. ASSUME NEW v, Valid(v), ~ArenaIncludes(v)
       PROVE  ~(Hash(v) \in Identities /\ Hash(v) \notin Kept)
  BY <1>6, <1>10, CopiedReference DEF RefInv
<1>11. ASSUME NEW a \in Copies, NEW k \in SlotNames
       PROVE  Hash(slots[a][k])' = IF SeenKind(header[a].hash) = "weak" /\ k # -1
                                      /\ Hash(slots[a][k]) \in Identities /\ Hash(slots[a][k]) \notin Kept
                                   THEN Tombstone
                                   ELSE Hash(slots[a][k])
  <2>1. Valid(slots[a][k]) /\ k \in SlotIndex(a)
    BY <1>7, RefTypes, RefFacts
  <2>2. CASE a \in ToSet(weakContainers) /\ k # -1
    <3>1. SeenKind(header[a].hash) = "weak" /\ slots'[a][k] = WeakReference(slots[a][k])
      BY <1>2, <2>1, <2>2 DEF RefInv, KindsTold
    <3>2. Hash(slots[a][k])' = Hash(WeakReference(slots[a][k]))
      BY <1>3, <3>1 DEF Hash
    <3>3. CASE ArenaIncludes(slots[a][k])
      BY <1>9, <2>1, <2>2, <3>1, <3>2, <3>3
    <3>4. CASE ~ArenaIncludes(slots[a][k])
      <4>1. WeakReference(slots[a][k]) = slots[a][k]
        BY <3>4 DEF WeakReference
      <4>2. QED
        BY <1>10, <2>1, <3>2, <3>4, <4>1
    <3>5. QED
      BY <3>3, <3>4
  <2>3. CASE ~(a \in ToSet(weakContainers) /\ k # -1)
    <3>1. slots'[a][k] = slots[a][k]
      BY <1>2, <1>7, <2>3
    <3>2. Hash(slots[a][k])' = Hash(slots[a][k])
      BY <1>3, <3>1 DEF Hash
    <3>3. ~ArenaIncludes(slots[a][k])
      BY <1>1, <1>7, <2>1, <2>3, NoneInQueue
    <3>4. QED
      BY <1>10, <2>1, <3>2, <3>3
  <2>4. QED
    BY <2>2, <2>3
<1>12. ASSUME NEW a \in Copies
       PROVE  /\ header'[a].hash \in DOMAIN seen'.graph
              /\ KindsShown(a)'
              /\ \A k \in SlotNames : SlotShown(a, k)'
  <2>1. /\ header[a].hash \in DOMAIN seen.graph
        /\ KindsShown(a)
        /\ \A k \in SlotNames : Hash(slots[a][k]) = SeenSlot(header[a].hash, k)
    BY <1>4, <1>5 DEF RefInv, GraphShown, SlotShown
  <2>2. KindsShown(a)'
    BY <1>1, <1>3, <1>4, <1>8, <2>1 DEF KindsShown, SeenKind, KindOf, Hash
  <2>3. ASSUME NEW k \in SlotNames PROVE SlotShown(a, k)'
    <3>1. Hash(slots[a][k])' = IF SeenKind(header[a].hash) = "weak" /\ k # -1
                                      /\ SeenSlot(header[a].hash, k) \in Identities
                                      /\ SeenSlot(header[a].hash, k) \notin Kept
                               THEN Tombstone
                               ELSE SeenSlot(header[a].hash, k)
      BY <1>11, <2>1
    <3>2. SeenKind(header[a].hash)' = SeenKind(header[a].hash)
          /\ SeenSlot(header[a].hash, k)' = SeenSlot(header[a].hash, k) /\ Kept' = Kept
      BY <1>1, <1>6 DEF SeenKind, SeenSlot
    <3>3. QED
      BY <1>4, <3>1, <3>2 DEF SlotShown, Identities
  <2>4. QED
    BY <1>1, <2>1, <2>2, <2>3
<1>13. GraphShown'
  BY <1>5, <1>12 DEF GraphShown
<1>14. RootsShown' /\ SeenShape'
  BY <1>1, <1>3, <1>8 DEF RefInv, RootsShown, SeenShape, Hash
<1>15. QueueShown'
  BY <1>1, <1>3, <1>5, <1>8, QueueContinues DEF Hash
<1>16. LiteralsShown' /\ CodeShown'
  BY <1>1, <1>3, <1>4, <1>8, LiteralsSame, CodeSame
<1>17. KeysTold'
  BY <1>1 DEF KeysTold
<1>18. KindsTold'
  <2>1. ToSet(weakContainers') = {}
    BY <1>1, SetOfEmpty
  <2>2. QED
    BY <1>1, <2>1 DEF RefInv, KindsTold
<1>19. QED
  BY <1>1, <1>3, <1>13, <1>14, <1>15, <1>16, <1>17, <1>18 DEF RefInv

LEMMA FlipSpacesRef ==
  ASSUME HeapInv, RefInv, FlipSpaces
  PROVE  RefInv'
<1>1. /\ pc = "flipSpaces" /\ pc' = "fixReferencesFromNativeMethods" /\ seen' = seen
      /\ rescuedCount' = rescuedCount /\ literalsReferences' = literalsReferences
      /\ ephemerons' = ephemerons /\ unknowns' = unknowns /\ weakContainers' = weakContainers
  BY DEF FlipSpaces, At, GoTo, hostVars, localVars
<1>2. /\ Objects' = Copies /\ ObjectsIn(fromSpace)' = ObjectsIn(toSpace)
      /\ \A a \in Staying : header'[a] = header[a] /\ slots'[a] = slots[a]
      /\ \A a \in Staying : \A k \in SlotIndex(a) : slots[a][k] \in Copies \cup {Nil, Tombstone}
  BY FlipFacts
<1>3. /\ pc \notin KindLabels /\ pc \notin SlotLabels /\ pc' \notin KindLabels /\ pc' \notin SlotLabels
      /\ BeforeFlip /\ ~BeforeFlip'
  BY <1>1 DEF KindLabels, SlotLabels, Labels, BeforeFlip
<1>4. Survivors = Copies /\ Survivors' = Copies /\ Shown = Copies /\ Shown' = Copies
  BY <1>2, <1>3 DEF Survivors, Shown
<1>5. /\ Copies \subseteq Objects /\ Copies \subseteq Staying /\ RescuedArray \in Staying
      /\ Stack \in Staying /\ Nil \notin Objects /\ Tombstone \notin Objects
      /\ ObjectsIn(toSpace) \subseteq Copies
      /\ \A a \in Objects : SlotIndex(a) = SlotNames
  BY RefFacts, HeapFacts DEF Staying, Copies
<1>6. Kept' = Kept
  BY <1>2, <1>4, <1>5 DEF Kept
<1>7. \A v \in Copies \cup {Nil, Tombstone} : Hash(v)' = Hash(v)
  BY <1>2, <1>5 DEF Hash
<1>8. ASSUME NEW a \in Staying, NEW k \in SlotIndex(a)
      PROVE  Hash(slots[a][k])' = Hash(slots[a][k])
  <2>1. \A v : v = slots[a][k] => Hash(v)' = Hash(v)
    BY <1>2, <1>7
  <2>2. QED
    BY <1>2, <2>1 DEF Hash
<1>9. \A j \in 1 .. rescuedCount : Hash(slots[RescuedArray][j])' = Hash(slots[RescuedArray][j])
  BY <1>5, <1>8, RefTypes
<1>10. ASSUME NEW a \in Copies
       PROVE  /\ header'[a].hash \in DOMAIN seen'.graph
              /\ KindsShown(a)'
              /\ \A k \in SlotNames : SlotShown(a, k)'
  <2>1. /\ header[a].hash \in DOMAIN seen.graph
        /\ KindsShown(a)
        /\ \A k \in SlotNames : SlotShown(a, k)
    BY <1>4 DEF RefInv, GraphShown
  <2>2. header'[a] = header[a] /\ \A k \in SlotNames : Hash(slots[a][k])' = Hash(slots[a][k])
    BY <1>2, <1>5, <1>8
  <2>3. KindsShown(a)'
    BY <1>1, <1>3, <1>9, <2>1, <2>2 DEF KindsShown, SeenKind, KindOf
  <2>4. \A k \in SlotNames : SlotShown(a, k)'
    BY <1>1, <1>3, <1>6, <2>1, <2>2 DEF SlotShown, SeenKind, SeenSlot, Identities
  <2>5. QED
    BY <1>1, <2>1, <2>2, <2>3, <2>4
<1>11. GraphShown'
  BY <1>4, <1>10 DEF GraphShown
<1>12. RootsShown' /\ SeenShape'
  BY <1>1, <1>5, <1>8, RefTypes DEF RefInv, RootsShown, SeenShape
<1>13. HashesNamed'
  <2>1. \A a \in ObjectsIn(fromSpace)' : header'[a].proxee = Nil
    BY <1>2, <1>5 DEF HeapInv, ProxiesLead
  <2>2. \A a \in Objects' : header'[a].hash \in Identities
    BY <1>2, <1>5 DEF RefInv, HashesNamed
  <2>3. QED
    BY <2>1, <2>2 DEF HashesNamed, Identities
<1>14. QueueShown'
  BY <1>1, <1>2, <1>4, <1>5, <1>9, QueueContinues
<1>15. LiteralsShown'
  <2>1. ASSUME NEW j \in 1 .. Len(literalsReferences)
        PROVE  literalsReferences[j].literal \in Copies
    <3>1. Valid(literalsReferences[j].literal) /\ ~IsNew(literalsReferences[j].literal)
      BY <1>1 DEF HeapInv, LiteralsKnown, LiteralAhead, MethodLabels, CheckLabels, CacheLabels
    <3>2. literalsReferences[j].literal \in Objects
      BY DEF RefInv, LiteralsShown
    <3>3. QED
      BY <1>5, <3>1, <3>2, ArenaObject DEF Copies
  <2>2. QED
    BY <1>1, <1>2, <1>5, <2>1 DEF RefInv, LiteralsShown
<1>16. CodeShown'
  <2>1. slots'[CodeCache] = slots[CodeCache]
    <3>1. ~ArenaIncludes(CodeCache) /\ CodeCache \in Address
      BY HeapFacts, Places DEF Special
    <3>2. QED
      BY <3>1 DEF FlipSpaces
  <2>2. ASSUME NEW o \in 0 .. NumOffsets - 1, ~IsNew(slots[CodeCache][o])
        PROVE  Hash(slots[CodeCache][o])' = seen.code[o]
    <3>1. Valid(slots[CodeCache][o]) /\ Hash(slots[CodeCache][o]) = seen.code[o]
      BY <1>1, RefTypes DEF HeapInv, CodeKnown, RefInv, CodeShown
    <3>2. slots[CodeCache][o] \in Copies \cup {Nil, Tombstone}
      BY <2>2, <3>1, ArenaObject DEF Copies
    <3>3. \A v : v = slots[CodeCache][o] => Hash(v)' = Hash(v)
      BY <1>7, <3>2
    <3>4. QED
      BY <2>1, <3>1, <3>3 DEF Hash
  <2>3. QED
    BY <1>1, <2>1, <2>2 DEF CodeShown, IsNew
<1>17. KeysTold'
  BY <1>1 DEF KeysTold
<1>18. KindsTold'
  <2>1. ephemerons = << >> /\ unknowns = << >> /\ weakContainers = << >>
    BY <1>1 DEF HeapInv, FoundInCopies, FixingLabels, FindingLabels, TraversalLabels
  <2>2. ToSet(ephemerons') \cup ToSet(unknowns') = {} /\ ToSet(weakContainers') = {}
    BY <1>1, <2>1, SetOfEmpty
  <2>3. QED
    BY <2>2 DEF KindsTold
<1>19. QED
  BY <1>1, <1>11, <1>12, <1>13, <1>14, <1>15, <1>16, <1>17, <1>18 DEF RefInv


(* Once the spaces are swapped, only native code and the remembered set     *)
(* change.                                                                  *)
LEMMA AfterFlipRef ==
  ASSUME HeapInv, RefInv, seen' = seen, rescuedCount' = rescuedCount,
         pc \in {"fixReferencesFromNativeMethods", "cleanRememberedSet"}, pc' = "cleanRememberedSet",
         UNCHANGED <<header, spaceVars, literalsReferences, localVars>>,
         \A a \in Address \ {CodeCache} : slots'[a] = slots[a],
         CodeShown'
  PROVE  RefInv'
<1>1. /\ Objects' = Objects /\ Copies' = Copies
      /\ \A v : Hash(v)' = Hash(v)
      /\ HashesNamed' /\ HashesKept
  BY HashesSame DEF RefInv
<1>2. /\ pc \notin KindLabels /\ pc \notin SlotLabels /\ pc' \notin KindLabels /\ pc' \notin SlotLabels
      /\ ~BeforeFlip /\ ~BeforeFlip'
  BY DEF KindLabels, SlotLabels, Labels, BeforeFlip
<1>3. Survivors = Objects /\ Survivors' = Objects /\ Shown = Objects /\ Shown' = Objects
  BY <1>1, <1>2 DEF Survivors, Shown
<1>4. Kept' = Kept
  BY <1>3 DEF Kept
<1>5. Objects \cup {RescuedArray, Stack} \subseteq Address \ {CodeCache}
  BY HeapFacts
<1>6. ASSUME NEW a \in Objects
      PROVE  header'[a].hash \in DOMAIN seen'.graph /\ KindsShown(a)' /\ \A k \in SlotNames : SlotShown(a, k)'
  <2>1. /\ header[a].hash \in DOMAIN seen.graph
        /\ KindsShown(a)
        /\ \A k \in SlotNames : SlotShown(a, k)
    BY <1>3 DEF RefInv, GraphShown
  <2>2. slots'[a] = slots[a] /\ slots'[RescuedArray] = slots[RescuedArray]
    BY <1>5
  <2>3. KindsShown(a)'
    BY <1>1, <1>2, <2>1, <2>2 DEF KindsShown, SeenKind, KindOf, Hash
  <2>4. \A k \in SlotNames : SlotShown(a, k)'
    BY <1>1, <1>2, <1>4, <2>1, <2>2 DEF SlotShown, SeenKind, SeenSlot, Identities, Hash
  <2>5. QED
    BY <2>1, <2>3, <2>4
<1>7. GraphShown'
  BY <1>3, <1>6 DEF GraphShown
<1>8. RootsShown' /\ SeenShape'
  BY <1>1, <1>5 DEF RefInv, RootsShown, SeenShape, Hash
<1>9. QueueShown'
  BY <1>1, <1>3, <1>5, QueueContinues DEF Hash
<1>10. LiteralsShown'
  BY <1>1, LiteralsSame
<1>11. KindsTold'
  BY DEF RefInv, KindsTold, SeenKind, localVars
<1>12. KeysTold'
  BY DEF KeysTold
<1>13. QED
  BY <1>1, <1>7, <1>8, <1>9, <1>10, <1>11, <1>12 DEF RefInv

LEMMA FixReferencesRef ==
  ASSUME HeapInv, RefInv, FixReferencesFromNativeMethods
  PROVE  RefInv'
<1> DEFINE row == [p \in SlotIndex(CodeCache) |->
                     IF LiteralsAt(p) # {} THEN CHOOSE v \in LiteralsAt(p) : TRUE
                                           ELSE slots[CodeCache][p]]
<1>1. /\ pc = "fixReferencesFromNativeMethods" /\ pc' = "cleanRememberedSet"
      /\ UNCHANGED <<header, spaceVars, literalsReferences, localVars>>
      /\ seen' = seen /\ rescuedCount' = rescuedCount
      /\ slots' = [slots EXCEPT ![CodeCache] = row]
  BY DEF FixReferencesFromNativeMethods, At, GoTo, hostVars
<1>2. \A a \in Address \ {CodeCache} : slots'[a] = slots[a]
  BY <1>1, CodeSlotWritten
<1>3. \A v : Hash(v)' = Hash(v)
  BY <1>1, HashesSame DEF RefInv
<1>4. ToSet(literalsReferences) = {literalsReferences[j] : j \in 1 .. Len(literalsReferences)}
  BY HostSequences, SetOf
<1>5. ASSUME NEW o \in 0 .. NumOffsets - 1 PROVE Hash(slots[CodeCache][o])' = seen.code[o]
  <2>1. o \in SlotIndex(CodeCache)
    BY RefTypes
  <2>2. row[o] = IF LiteralsAt(o) # {} THEN CHOOSE v \in LiteralsAt(o) : TRUE
                                       ELSE slots[CodeCache][o]
    BY <2>1
  <2> HIDE DEF row
  <2>3. slots'[CodeCache] = row
    BY <1>1, HeapFacts DEF IsSlots
  <2>4. CASE LiteralsAt(o) # {}
    <3>1. \A v \in LiteralsAt(o) : Hash(v) = seen.code[o]
      <4>1. ASSUME NEW v \in LiteralsAt(o) PROVE Hash(v) = seen.code[o]
        <5>1. PICK j \in 1 .. Len(literalsReferences) :
                literalsReferences[j].offset = o /\ literalsReferences[j].literal = v
          BY <1>4 DEF LiteralsAt
        <5>2. QED
          BY <5>1, RefFacts DEF RefInv, LiteralsShown
      <4>2. QED
        BY <4>1
    <3>2. Hash(row[o]) = seen.code[o]
      BY <2>2, <2>4, <3>1
    <3>3. QED
      BY <1>3, <2>3, <3>2 DEF Hash
  <2>5. CASE LiteralsAt(o) = {}
    <3>1. ~LiteralKept(o)
      BY <1>4, <2>5 DEF LiteralKept, LiteralsAt
    <3>2. ~ClassCheckAhead(o)
      BY <1>1 DEF ClassCheckAhead, CacheLabels
    <3>3. ~IsNew(slots[CodeCache][o])
      BY <2>1, <3>1, <3>2 DEF HeapInv, CodeKnown
    <3>4. Hash(slots[CodeCache][o]) = seen.code[o]
      BY <3>3 DEF RefInv, CodeShown
    <3>5. QED
      BY <1>3, <2>2, <2>3, <2>5, <3>4 DEF Hash
  <2>6. QED
    BY <2>4, <2>5
<1>6. CodeShown'
  BY <1>1, <1>5 DEF CodeShown
<1>7. QED
  BY <1>1, <1>2, <1>6, AfterFlipRef

LEMMA CleanRememberedRef ==
  ASSUME HeapInv, RefInv, CleanRemembered
  PROVE  RefInv'
<1>1. /\ pc = "cleanRememberedSet" /\ pc' = "cleanRememberedSet"
      /\ UNCHANGED <<header, spaceVars, literalsReferences, localVars>>
      /\ seen' = seen /\ rescuedCount' = rescuedCount /\ slots' = slots
  BY DEF CleanRemembered, At, hostVars, heapVars
<1>2. \A v : Hash(v)' = Hash(v)
  BY <1>1, HashesSame DEF RefInv
<1>3. CodeShown'
  BY <1>1, <1>2 DEF RefInv, CodeShown, Hash
<1>4. QED
  BY <1>1, <1>3, AfterFlipRef

(* Until collect() returns the program sees nothing.                        *)
LEMMA CollectorRef ==
  ASSUME HeapInv, RefInv, StartScavenge \/ Collector, ~EndScavenge
  PROVE  RefInv' /\ seen' = seen
<1>1. CASE BeginningRef \/ PurgeLiteral \/ PurgeRemembered \/ FollowRemembered
  BY <1>1, BeginningRefInv, PurgeLiteralRef, PurgeRememberedRef, FollowRememberedRef
     DEF BeginningRef, StartScavenge, LiteralsReferencesPurged, RememberedSetPurged,
         ClearGlobalLookupCache, ClassCheckReferencesMoved, CheckNativizedMethods,
         NativizedMethodsMoved, LiteralsReferencesMoved, RememberedSetFollowed, FollowStack,
         Proceed, PurgeLiteral, PurgeRemembered, FollowRemembered
<1>2. CASE MoveClassCheckReference \/ MoveNativizedMethod \/ MoveLiteralReference
  BY <1>2, MoveClassCheckRef, MoveNativizedRef, MoveLiteralRef
     DEF MoveClassCheckReference, MoveNativizedMethod, MoveLiteralReference, Iterate
<1>3. CASE RescueEphemerons
  BY <1>3, LookForEphemeronsRef, FollowEphemeronRef, CollectUnknownRef, RescanRef, RescueUnknownsRef,
     RescueEphemeronRef, AddRescuedRef, UnknownsRescuedRef, EphemeronsDecidedRef
     DEF RescueEphemerons, LookForEphemerons, FollowEphemeron, CollectUnknown, Rescan, RescueUnknowns,
         RescueEphemeron, AddRescued, UnknownsRescued, EphemeronsDecided, RescueStep
<1>4. CASE FollowCountStartingAt
  BY <1>4, ScanQuietRef, ScanProxyRef, ScanCopyRef
     DEF FollowCountStartingAt, ScanOutside, ScanPop, ScanProxy, ScanCopy, Scanning
<1>5. CASE \/ MakeRescuedEphemeronsNonWeak \/ FixWeakContainers \/ FlipSpaces
           \/ FixReferencesFromNativeMethods \/ CleanRemembered
  BY <1>5, NonWeakRef, FixWeakRef, FlipSpacesRef, FixReferencesRef, CleanRememberedRef
     DEF MakeRescuedEphemeronsNonWeak, FixWeakContainers, FlipSpaces, FixReferencesFromNativeMethods,
         CleanRemembered
<1>6. QED
  BY <1>1, <1>2, <1>3, <1>4, <1>5 DEF Collector, FollowCodeCacheReferences, BeginningRef


-----------------------------------------------------------------------------
(* Between collections what the program saw last is what it sees, which is  *)
(* all of RefInv but for hashes and literals.                               *)
Between == pc = "mutator"
Current == seen = View

LEMMA ViewBetween == HeapInv /\ Between => ViewTold
BY ViewFacts DEF Between

LEMMA MutatorRef == HeapInv /\ Between /\ Current /\ HashesNamed /\ LiteralsShown => RefInv
<1> SUFFICES ASSUME HeapInv, pc = "mutator", seen = View, HashesNamed, LiteralsShown
             PROVE  RefInv
  BY DEF Between, Current
<1>1. ViewTold
  BY ViewFacts
<1>2. pc \in KindLabels /\ pc \in SlotLabels
  BY DEF KindLabels, SlotLabels, Labels
<1>3. Shown = Objects
  BY <1>1, <1>2 DEF Shown, ViewTold
<1>4. ASSUME NEW a \in Objects
      PROVE  /\ header[a].hash \in DOMAIN seen.graph
             /\ KindsShown(a) /\ \A k \in SlotNames : SlotShown(a, k)
  <2>1. /\ header[a].hash \in DOMAIN seen.graph
        /\ seen.graph[header[a].hash]
             = [kind |-> KindOf(a), slots |-> [k \in SlotNames |-> Hash(slots[a][k])]]
    BY <1>1 DEF ViewTold
  <2>2. QED
    BY <1>2, <2>1 DEF KindsShown, SlotShown, SeenKind, SeenSlot
<1>5. GraphShown
  BY <1>3, <1>4 DEF GraphShown
<1>6. RootsShown /\ CodeShown
  BY <1>1 DEF ViewTold, RootsShown, CodeShown
<1>7. seen.rescued = [j \in 1 .. rescuedCount |-> Hash(slots[RescuedArray][j])]
      /\ Len(seen.rescued) = rescuedCount
  BY <1>1, RefTypes DEF ViewTold
<1>8. QueueShown
  BY <1>7, RefTypes DEF QueueShown
<1>9. SeenShape
  BY <1>1, <1>7 DEF ViewTold, SeenShape
<1>10. KindsTold /\ KeysTold
  BY SetOfEmpty DEF HeapInv, FoundInCopies, FindingLabels, FixingLabels, TraversalLabels, KindsTold, KeysTold
<1>11. QED
  BY <1>5, <1>6, <1>8, <1>9, <1>10 DEF RefInv

(* The queue, as a sequence.                                                *)
Contents == Identities \cup {Nil, Tombstone}

LEMMA SeenQueue ==
  ASSUME HeapInv, RefInv
  PROVE  /\ seen.rescued \in Seq(Contents) /\ Len(seen.rescued) \in Nat
         /\ Len(seen.rescued) \in 0 .. rescuedCount
         /\ \A v : Valid(v) => Hash(v) \in Contents
         /\ [j \in 1 .. rescuedCount |-> Hash(slots[RescuedArray][j])] \in Seq(Contents)
         /\ Len([j \in 1 .. rescuedCount |-> Hash(slots[RescuedArray][j])]) = rescuedCount
<1>1. \A v : Valid(v) => Hash(v) \in Contents
  BY SeenReference DEF RefInv, Contents
<1>2. Len(seen.rescued) \in 0 .. rescuedCount /\ rescuedCount \in Nat
  BY RefTypes DEF RefInv, QueueShown
<1>3. \A j \in 1 .. rescuedCount : Hash(slots[RescuedArray][j]) \in Contents
  BY <1>1, RefTypes
<1>4. \A j \in 1 .. Len(seen.rescued) : seen.rescued[j] \in Contents
  BY <1>2, <1>3 DEF RefInv, QueueShown
<1>5. seen.rescued \in Seq(Contents)
  BY <1>2, <1>4 DEF RefInv, SeenShape
<1>6. QED
  BY <1>1, <1>2, <1>3, <1>5

(* What is seen when collect() returns.                                     *)
LEMMA EndFacts ==
  ASSUME HeapInv, RefInv, HeapInv', EndScavenge
  PROVE  /\ pc = "cleanRememberedSet" /\ Survivors = Objects /\ Shown = Objects
         /\ Kept = {header[a].hash : a \in Objects}
         /\ pc' = "mutator" /\ seen' = View'
         /\ DOMAIN seen'.graph = Kept
         /\ \A a \in Objects : seen'.graph[header[a].hash] =
              [kind |-> KindOf(a), slots |-> [k \in SlotNames |-> Hash(slots[a][k])]]
         /\ seen'.roots = seen.roots
         /\ seen'.code = seen.code
         /\ seen'.rescued = [j \in 1 .. rescuedCount |-> Hash(slots[RescuedArray][j])]
         /\ HashesNamed' /\ LiteralsShown'
<1>1. /\ pc = "cleanRememberedSet" /\ pc' = "mutator" /\ seen' = View'
      /\ slots' = slots /\ UNCHANGED <<header, spaceVars, rescuedCount, literalsReferences>>
  BY DEF EndScavenge, At, GoTo, heapVars, hostVars
<1>2. /\ Objects' = Objects /\ Copies' = Copies
      /\ \A v : Hash(v)' = Hash(v)
      /\ HashesNamed' /\ HashesKept
  BY <1>1, HashesSame DEF RefInv
<1>3. ViewTold'
  <2>1. Between'
    BY <1>1 DEF Between
  <2>2. QED
    BY <2>1, ViewBetween, PTL
<1>4. pc \notin KindLabels /\ ~BeforeFlip
  BY <1>1 DEF KindLabels, Labels, BeforeFlip
<1>5. Survivors = Objects /\ Shown = Objects
  BY <1>4 DEF Survivors, Shown
<1>6. DOMAIN seen'.graph = Kept /\ Kept = {header[a].hash : a \in Objects}
  BY <1>1, <1>2, <1>3, <1>5 DEF ViewTold, Kept
<1>7. ASSUME NEW a \in Objects
      PROVE  seen'.graph[header[a].hash] =
               [kind |-> KindOf(a), slots |-> [k \in SlotNames |-> Hash(slots[a][k])]]
  <2>1. seen'.graph[header'[a].hash] =
          [kind |-> KindOf(a)', slots |-> [k \in SlotNames |-> Hash(slots[a][k])']]
    BY <1>1, <1>2, <1>3 DEF ViewTold, SlotNames
  <2>2. KindOf(a)' = KindOf(a)
    BY <1>1 DEF KindOf
  <2>3. \A k \in SlotNames : Hash(slots[a][k])' = Hash(slots[a][k])
    BY <1>1, <1>2 DEF Hash
  <2>4. QED
    BY <1>1, <2>1, <2>2, <2>3
<1>8. seen'.roots = [r \in 0 .. NumRoots - 1 |-> Hash(slots[Stack][r])]
  BY <1>1, <1>2, <1>3 DEF ViewTold, Hash
<1>9. seen'.code = [o \in 0 .. NumOffsets - 1 |-> Hash(slots[CodeCache][o])]
  BY <1>1, <1>2, <1>3 DEF ViewTold, Hash
<1>10. seen'.rescued = [j \in 1 .. rescuedCount |-> Hash(slots[RescuedArray][j])]
  BY <1>1, <1>2, <1>3 DEF ViewTold, Hash
<1>11. seen'.roots = seen.roots
  BY <1>8 DEF RefInv, RootsShown, SeenShape
<1>12. \A o \in 0 .. NumOffsets - 1 : Hash(slots[CodeCache][o]) = seen.code[o]
  BY <1>1 DEF RefInv, CodeShown
<1>13. seen'.code = seen.code
  BY <1>9, <1>12 DEF RefInv, SeenShape
<1>14. LiteralsShown'
  BY <1>1, <1>2, <1>13 DEF RefInv, LiteralsShown
<1>15. QED
  BY <1>1, <1>2, <1>5, <1>6, <1>7, <1>10, <1>11, <1>13, <1>14

LEMMA EndScavengeRef ==
  ASSUME HeapInv, RefInv, HeapInv', EndScavenge
  PROVE  RefInv'
<1>1. Between' /\ Current' /\ HashesNamed' /\ LiteralsShown'
  BY EndFacts DEF Between, Current
<1>2. QED
  BY <1>1, MutatorRef, PTL


LEMMA SetOfRest ==
  \A S : \A s \in Seq(S) : \A m \in Nat : m <= Len(s) =>
    \A e \in ToSet(SubSeq(s, m + 1, Len(s))) : \E j \in m + 1 .. Len(s) : e = s[j]
<1> SUFFICES ASSUME NEW S, NEW s \in Seq(S), NEW m \in Nat, m <= Len(s)
             PROVE  \A e \in ToSet(SubSeq(s, m + 1, Len(s))) : \E j \in m + 1 .. Len(s) : e = s[j]
  OBVIOUS
<1> DEFINE rest == SubSeq(s, m + 1, Len(s))
           n == Len(s)
<1>1. n \in Int /\ m + 1 \in Int /\ \A j \in m + 1 .. n : s[j] \in S
  BY LenProperties, ElementOfSeq
<1>2. /\ rest \in Seq(S)
      /\ Len(rest) = IF m + 1 <= n THEN n - (m + 1) + 1 ELSE 0
      /\ \A j \in 1 .. n - (m + 1) + 1 : rest[j] = s[m + 1 + j - 1]
  <2>1. \A k \in Int, l \in Int : (\A j \in k .. l : s[j] \in S) =>
          /\ SubSeq(s, k, l) \in Seq(S)
          /\ Len(SubSeq(s, k, l)) = IF k <= l THEN l - k + 1 ELSE 0
          /\ \A j \in 1 .. l - k + 1 : SubSeq(s, k, l)[j] = s[k + j - 1]
    BY SubSeqProperties
  <2> HIDE DEF n
  <2>2. QED
    BY <1>1, <2>1 DEF n
<1> HIDE DEF rest, n
<1>3. ToSet(rest) = {rest[j] : j \in 1 .. Len(rest)} /\ Len(rest) \in Nat
  BY <1>2, SetOf
<1>4. ASSUME NEW j \in 1 .. Len(rest)
      PROVE  m + j \in m + 1 .. n /\ rest[j] = s[m + j]
  <2>1. Len(rest) = n - m /\ m + 1 <= n /\ j \in Int /\ j <= n - m /\ 1 <= j
    BY <1>1, <1>2, <1>3
  <2>2. j \in 1 .. n - (m + 1) + 1 /\ m + 1 + j - 1 = m + j /\ m + j \in m + 1 .. n
    BY <1>1, <2>1
  <2>3. QED
    BY <1>2, <2>2
<1>5. QED
  BY <1>3, <1>4 DEF rest, n

(* The whole of a scavenge, from collect() to its return, is one collection *)
(* of ObjectMemory.                                                         *)
LEMMA EndScavengeCollects ==
  ASSUME HeapInv, RefInv, HeapInv', EndScavenge
  PROVE  Program!Collect
<1> DEFINE new == SubSeq(seen'.rescued, Len(seen.rescued) + 1, Len(seen'.rescued))
<1>1. /\ pc = "cleanRememberedSet" /\ Survivors = Objects /\ Shown = Objects
      /\ Kept = {header[a].hash : a \in Objects}
      /\ DOMAIN seen'.graph = Kept
      /\ \A a \in Objects : seen'.graph[header[a].hash] =
           [kind |-> KindOf(a), slots |-> [k \in SlotNames |-> Hash(slots[a][k])]]
      /\ seen'.roots = seen.roots
      /\ seen'.code = seen.code
      /\ seen'.rescued = [j \in 1 .. rescuedCount |-> Hash(slots[RescuedArray][j])]
  BY EndFacts
<1>2. /\ \A a \in Objects : header[a].hash \in DOMAIN seen.graph /\ KindsShown(a)
                               /\ \A k \in SlotNames : SlotShown(a, k)
      /\ \A a \in Objects : header[a].hash \in Identities
      /\ pc \notin KindLabels /\ pc \notin SlotLabels
  BY <1>1 DEF RefInv, GraphShown, HashesNamed, KindLabels, SlotLabels, Labels
<1>3. \A v : Valid(v) /\ Hash(v) \in Identities => Hash(v) \in Kept
  <2>1. ASSUME NEW v, Valid(v), Hash(v) \in Identities PROVE Hash(v) \in Kept
    <3>1. v \in Objects /\ Hash(v) = header[v].hash
      BY <2>1, SeenReference, RefFacts DEF RefInv
    <3>2. QED
      BY <1>1, <3>1
  <2>2. QED
    BY <2>1
<1>4. /\ seen.rescued \in Seq(Contents) /\ seen'.rescued \in Seq(Contents)
      /\ Len(seen'.rescued) = rescuedCount /\ rescuedCount \in Nat
      /\ Len(seen.rescued) \in Nat /\ Len(seen.rescued) \in 0 .. rescuedCount
  BY <1>1, SeenQueue, RefTypes
<1>5. \A j \in 1 .. Len(seen.rescued) : j \in 1 .. rescuedCount /\ seen'.rescued[j] = seen.rescued[j]
  BY <1>1, <1>4 DEF RefInv, QueueShown
<1>6. IsPrefix(seen.rescued, seen'.rescued)
  <2>1. SubSeq(seen.rescued, 1, Len(seen.rescued)) = seen.rescued
    BY <1>4, SubSeqFull
  <2>2. \A j \in 1 .. Len(seen.rescued) : seen'.rescued[j] \in Contents
    BY <1>4, <1>5, ElementOfSeq
  <2>3. /\ SubSeq(seen'.rescued, 1, Len(seen.rescued)) \in Seq(Contents)
        /\ Len(SubSeq(seen'.rescued, 1, Len(seen.rescued))) = Len(seen.rescued)
        /\ \A j \in 1 .. Len(seen.rescued) :
             SubSeq(seen'.rescued, 1, Len(seen.rescued))[j] = seen'.rescued[j]
    BY <1>4, <2>2, SubSeqProperties
  <2>4. SubSeq(seen'.rescued, 1, Len(seen.rescued)) = seen.rescued
    BY <1>4, <1>5, <2>3, SeqEqual
  <2>5. QED
    BY <1>4, <2>1, <2>4 DEF IsPrefix
<1>7. \A e \in ToSet(new) : \E j \in Len(seen.rescued) + 1 .. rescuedCount : e = seen'.rescued[j]
  <2>1. \A s \in Seq(Contents) : \A m \in Nat : m <= Len(s) =>
          \A e \in ToSet(SubSeq(s, m + 1, Len(s))) : \E j \in m + 1 .. Len(s) : e = s[j]
    BY SetOfRest
  <2>2. QED
    BY <1>4, <2>1
<1>8. \A e \in ToSet(new) : e \in Kept /\ e \in Rescuable
  <2>1. ASSUME NEW j \in Len(seen.rescued) + 1 .. rescuedCount
        PROVE  seen'.rescued[j] \in Kept /\ seen'.rescued[j] \in Rescuable
    <3>1. j \in 1 .. rescuedCount
      BY <1>4
    <3>2. slots[RescuedArray][j] \in Objects /\ header[slots[RescuedArray][j]].hash \in Rescuable
      BY <1>1 DEF RefInv, QueueShown
    <3>3. seen'.rescued[j] = header[slots[RescuedArray][j]].hash
      BY <1>1, <3>1, <3>2, RefFacts
    <3>4. QED
      BY <1>1, <3>2, <3>3
  <2>2. QED
    BY <1>7, <2>1
<1>9. Program!RootObjects \subseteq Kept
  <2>1. DOMAIN seen.roots = 0 .. NumRoots - 1 /\ DOMAIN seen.code = 0 .. NumOffsets - 1
        /\ DOMAIN seen.rescued = 1 .. Len(seen.rescued)
    BY DEF RefInv, SeenShape
  <2>2. \A r \in 0 .. NumRoots - 1 : seen.roots[r] \in Identities => seen.roots[r] \in Kept
    BY <1>3, RefTypes DEF RefInv, RootsShown
  <2>3. \A j \in 1 .. Len(seen.rescued) : seen.rescued[j] \in Identities => seen.rescued[j] \in Kept
    BY <1>3, <1>5, RefTypes DEF RefInv, QueueShown
  <2>4. \A o \in 0 .. NumOffsets - 1 : seen.code[o] \in Identities => seen.code[o] \in Kept
    <3>1. ASSUME NEW o \in 0 .. NumOffsets - 1, seen.code[o] \in Identities PROVE seen.code[o] \in Kept
      <4>1. Valid(slots[CodeCache][o]) /\ Hash(slots[CodeCache][o]) = seen.code[o]
        BY <1>1, RefTypes DEF HeapInv, CodeKnown, RefInv, CodeShown
      <4>2. QED
        BY <1>3, <3>1, <4>1
    <3>2. QED
      BY <3>1
  <2>5. QED
    BY <2>1, <2>2, <2>3, <2>4 DEF Program!RootObjects, Program!Range, Program!ToSet, Identities
<1>10. ASSUME NEW id \in Kept, NEW k \in SlotNames
       PROVE  Program!Target(seen'.graph[id].slots[k]) \subseteq Kept
  <2>1. PICK a \in Objects : id = header[a].hash
    BY <1>1
  <2>2. seen'.graph[id] = [kind |-> KindOf(a), slots |-> [m \in SlotNames |-> Hash(slots[a][m])]]
    BY <1>1, <2>1
  <2>3. seen'.graph[id].slots[k] = Hash(slots[a][k])
    BY <2>2
  <2>4. Valid(slots[a][k])
    BY <2>1, RefTypes
  <2>5. QED
    BY <1>3, <2>3, <2>4 DEF Program!Target, Identities
<1>11. ASSUME NEW id \in Kept
       PROVE  seen'.graph[id] = Program!Survivor(id, Kept, seen'.rescued)
  <2>1. PICK a \in Objects : id = header[a].hash
    BY <1>1
  <2>2. ToSet(seen'.rescued) = {Hash(slots[RescuedArray][j]) : j \in 1 .. rescuedCount}
    <3>1. ToSet(seen'.rescued) = {seen'.rescued[j] : j \in 1 .. rescuedCount}
      BY <1>4, SetOf
    <3>2. \A j \in 1 .. rescuedCount : seen'.rescued[j] = Hash(slots[RescuedArray][j])
      BY <1>1
    <3>3. QED
      BY <3>1, <3>2
  <2>3. KindOf(a) = IF id \in ToSet(seen'.rescued) THEN "plain" ELSE seen.graph[id].kind
    BY <1>2, <2>1, <2>2 DEF KindsShown, SeenKind
  <2>4. ASSUME NEW k \in SlotNames
        PROVE  Hash(slots[a][k]) =
                 IF seen.graph[id].kind = "weak" /\ k # -1 /\ seen.graph[id].slots[k] \in Identities
                      /\ seen.graph[id].slots[k] \notin Kept
                 THEN Tombstone ELSE seen.graph[id].slots[k]
    BY <1>2, <2>1, <2>4 DEF SlotShown, SeenKind, SeenSlot
  <2>5. seen'.graph[id] = [kind |-> KindOf(a), slots |-> [k \in SlotNames |-> Hash(slots[a][k])]]
    BY <1>1, <2>1
  <2>6. ToSet(seen'.rescued) = Program!ToSet(seen'.rescued) /\ Tombstone = Program!Tombstone
    BY DEF ToSet, Program!ToSet, Tombstone, Program!Tombstone
  <2>7. QED
    BY <2>3, <2>4, <2>5, <2>6 DEF Program!Survivor, Program!IsObject, SlotNames, Identities
<1>12. Kept \subseteq DOMAIN seen.graph
  BY <1>1, <1>2
<1>13. Program!IsPrefix(seen.rescued, seen'.rescued)
  BY <1>6 DEF IsPrefix, Program!IsPrefix
<1>14. Program!ToSet(new) = ToSet(new)
  BY DEF ToSet, Program!ToSet
<1>15. ASSUME NEW e \in ToSet(new)
       PROVE  /\ seen.graph[e].kind = "ephemeron" /\ Program!IsObject(seen.graph[e].slots[0])
              /\ Program!Dying(seen.graph[e].slots[0])
  BY <1>8 DEF Rescuable, SeenKind, SeenSlot, Program!IsObject, Identities
<1>16. \A id \in Kept : \A k \in -1 .. NumSlots - 1 : Program!Target(seen'.graph[id].slots[k]) \subseteq Kept
  BY <1>10 DEF SlotNames
<1>17. Program!ToSet(new) \subseteq Kept
  BY <1>8, <1>14
<1>18. QED
  BY <1>1, <1>9, <1>11, <1>12, <1>13, <1>14, <1>15, <1>16, <1>17 DEF Program!Collect


-----------------------------------------------------------------------------
(* The operations of the program.                                           *)
LEMMA SeenBefore ==
  ASSUME HeapInv, RefInv, pc = "mutator"
  PROVE  /\ Objects = ProgramObjects
         /\ DOMAIN seen.graph = {header[a].hash : a \in Objects}
         /\ seen.graph = [h \in DOMAIN seen.graph |-> seen.graph[h]]
         /\ \A a \in Objects : seen.graph[header[a].hash] =
              [kind |-> KindOf(a), slots |-> [k \in SlotNames |-> Hash(slots[a][k])]]
         /\ seen.roots = [r \in 0 .. NumRoots - 1 |-> Hash(slots[Stack][r])]
         /\ seen.code = [o \in 0 .. NumOffsets - 1 |-> Hash(slots[CodeCache][o])]
         /\ seen.rescued = [j \in 1 .. rescuedCount |-> Hash(slots[RescuedArray][j])]
         /\ \A a, b \in Objects : header[a].hash = header[b].hash => a = b
         /\ \A a \in Objects : header[a].hash \in Identities /\ Hash(a) = header[a].hash
<1>1. seen = View /\ ViewTold
  BY ViewFacts DEF RefInv
<1>2. \A a, b \in Objects : header[a].hash = header[b].hash => a = b
  BY <1>1 DEF ViewTold, HeapInv, HashesDistinct
<1>3. \A a \in Objects : header[a].hash \in Identities /\ Hash(a) = header[a].hash
  BY RefFacts DEF RefInv, HashesNamed
<1>4. QED
  BY <1>1, <1>2, <1>3 DEF ViewTold

(* The headers keep what can be seen of them. *)
HeadersKept ==
  /\ UNCHANGED spaceVars
  /\ \A a \in Address :
       /\ header'[a].hash = header[a].hash /\ header'[a].proxee = header[a].proxee
       /\ header'[a].isEphemeron = header[a].isEphemeron
       /\ header'[a].hasWeaks = header[a].hasWeaks

LEMMA SeenAfter ==
  ASSUME HeapInv, RefInv, HeapInv', pc' = "mutator", seen' = View', HeadersKept
  PROVE  /\ Objects' = Objects /\ HashesNamed' /\ HashesKept
         /\ DOMAIN seen'.graph = {header[a].hash : a \in Objects}
         /\ seen'.graph = [h \in DOMAIN seen'.graph |-> seen'.graph[h]]
         /\ \A a \in Objects : seen'.graph[header[a].hash] =
              [kind |-> KindOf(a), slots |-> [k \in SlotNames |-> Hash(slots'[a][k])]]
         /\ seen'.roots = [r \in 0 .. NumRoots - 1 |-> Hash(slots'[Stack][r])]
         /\ seen'.code = [o \in 0 .. NumOffsets - 1 |-> Hash(slots'[CodeCache][o])]
         /\ seen'.rescued = [j \in 1 .. rescuedCount' |-> Hash(slots'[RescuedArray][j])]
<1>1. /\ Objects' = Objects /\ HashesNamed' /\ HashesKept /\ \A v : Hash(v)' = Hash(v)
  BY HashesSame DEF HeadersKept, RefInv
<1>2. ViewTold'
  <2>1. Between'
    BY DEF Between
  <2>2. QED
    BY <2>1, ViewBetween, PTL
<1>3. \A a \in Objects : header'[a].hash = header[a].hash /\ KindOf(a)' = KindOf(a)
  BY HeapFacts DEF HeadersKept, KindOf
<1>4. DOMAIN seen'.graph = {header[a].hash : a \in Objects}
  <2>1. DOMAIN seen'.graph = {header'[a].hash : a \in Objects'}
    BY <1>2 DEF ViewTold
  <2>2. QED
    BY <1>1, <1>3, <2>1
<1>5. seen'.graph = [h \in DOMAIN seen'.graph |-> seen'.graph[h]]
  BY <1>2 DEF ViewTold
<1>6. ASSUME NEW a \in Objects
      PROVE  seen'.graph[header[a].hash] =
               [kind |-> KindOf(a), slots |-> [k \in SlotNames |-> Hash(slots'[a][k])]]
  <2>1. seen'.graph[header'[a].hash] =
          [kind |-> KindOf(a)', slots |-> [k \in SlotNames |-> Hash(slots[a][k])']]
    BY <1>1, <1>2 DEF ViewTold, SlotNames
  <2>2. \A k \in SlotNames : Hash(slots[a][k])' = Hash(slots'[a][k])
    BY <1>1 DEF Hash
  <2>3. QED
    BY <1>3, <2>1, <2>2
<1>7. /\ seen'.roots = [r \in 0 .. NumRoots - 1 |-> Hash(slots'[Stack][r])]
      /\ seen'.code = [o \in 0 .. NumOffsets - 1 |-> Hash(slots'[CodeCache][o])]
      /\ seen'.rescued = [j \in 1 .. rescuedCount' |-> Hash(slots'[RescuedArray][j])]
  BY <1>1, <1>2 DEF ViewTold, Hash
<1>8. QED
  BY <1>1, <1>4, <1>5, <1>6, <1>7

(* Rows that are not written are seen as before. *)
LEMMA SeenSame ==
  ASSUME HeapInv, RefInv, HeapInv', pc = "mutator", pc' = "mutator", seen' = View', HeadersKept
  PROVE  /\ (\A a \in Objects : slots'[a] = slots[a]) => seen'.graph = seen.graph
         /\ slots'[Stack] = slots[Stack] => seen'.roots = seen.roots
         /\ slots'[CodeCache] = slots[CodeCache] => seen'.code = seen.code
         /\ slots'[RescuedArray] = slots[RescuedArray] /\ rescuedCount' = rescuedCount =>
              seen'.rescued = seen.rescued
<1>1. ASSUME \A a \in Objects : slots'[a] = slots[a] PROVE seen'.graph = seen.graph
  <2>1. DOMAIN seen'.graph = DOMAIN seen.graph
    BY SeenBefore, SeenAfter
  <2>2. ASSUME NEW h \in DOMAIN seen.graph PROVE seen'.graph[h] = seen.graph[h]
    <3>1. PICK a \in Objects : h = header[a].hash
      BY SeenBefore
    <3>2. seen.graph[h] = [kind |-> KindOf(a), slots |-> [k \in SlotNames |-> Hash(slots[a][k])]]
      BY <3>1, SeenBefore
    <3>3. seen'.graph[h] = [kind |-> KindOf(a), slots |-> [k \in SlotNames |-> Hash(slots'[a][k])]]
      BY <3>1, SeenAfter
    <3>4. QED
      BY <1>1, <3>2, <3>3
  <2>3. QED
    BY <2>1, <2>2, SeenBefore, SeenAfter
<1>2. slots'[Stack] = slots[Stack] => seen'.roots = seen.roots
  BY SeenBefore, SeenAfter
<1>3. slots'[CodeCache] = slots[CodeCache] => seen'.code = seen.code
  BY SeenBefore, SeenAfter
<1>4. slots'[RescuedArray] = slots[RescuedArray] /\ rescuedCount' = rescuedCount =>
        seen'.rescued = seen.rescued
  BY SeenBefore, SeenAfter
<1>5. QED
  BY <1>1, <1>2, <1>3, <1>4

LEMMA OperationRef ==
  ASSUME HeapInv, RefInv, HeapInv', pc' = "mutator", seen' = View', HeadersKept,
         literalsReferences' = literalsReferences, seen'.code = seen.code
  PROVE  RefInv'
<1>1. HashesNamed' /\ HashesKept
  BY SeenAfter
<1>2. LiteralsShown'
  BY <1>1 DEF RefInv, LiteralsShown, HashesKept
<1>3. Between' /\ Current'
  BY DEF Between, Current
<1>4. QED
  BY <1>1, <1>2, <1>3, MutatorRef, PTL

LEMMA StoreSeen ==
  ASSUME HeapInv, RefInv, HeapInv', NEW r \in 0 .. NumRoots - 1, NEW k \in StoredSlots,
         NEW v, Valid(v), v = Nil \/ (\E q \in 0 .. NumRoots - 1 : v = slots[Stack][q]),
         Store(r, k, v), seen' = View'
  PROVE  RefInv' /\ Program!Store(r, k, Hash(v)) /\ Hash(v) \in Contents
<1> DEFINE a == slots[Stack][r]
           h == header[a].hash
<1>1. /\ pc = "mutator" /\ pc' = "mutator" /\ rescuedCount' = rescuedCount
      /\ literalsReferences' = literalsReferences /\ UNCHANGED spaceVars
  BY DEF Store, Operation, controlVars, hostVars
<1>2. /\ a \in Objects /\ k \in SlotIndex(a)
      /\ slots'[a][k] = v
      /\ \A b \in Address \ {a} : slots'[b] = slots[b]
      /\ \A l \in SlotIndex(a) \ {k} : slots'[a][l] = slots[a][l]
  BY StoredTo
<1>3. HeadersKept
  <2>1. header' = header \/ header' = [header EXCEPT ![a].inRememberedSet = TRUE]
    BY DEF Store, WriteBarrier
  <2> HIDE DEF a
  <2>2. \A b \in Address :
       /\ header'[b].hash = header[b].hash /\ header'[b].proxee = header[b].proxee
       /\ header'[b].isEphemeron = header[b].isEphemeron
       /\ header'[b].hasWeaks = header[b].hasWeaks
    BY <2>1, HeapFacts DEF Header
  <2>3. QED
    BY <1>1, <2>2 DEF HeadersKept
<1>4. /\ {Stack, RescuedArray, CodeCache} \subseteq Address \ {a}
      /\ Objects \subseteq Address /\ k \in SlotNames /\ SlotIndex(a) = SlotNames
  BY <1>2, RefFacts, HeapFacts
<1>5. seen'.roots = seen.roots /\ seen'.code = seen.code /\ seen'.rescued = seen.rescued
  BY <1>1, <1>2, <1>3, <1>4, SeenSame
<1>6. RefInv'
  BY <1>1, <1>3, <1>5, OperationRef
<1>7. seen.roots[r] = h /\ h \in Identities /\ h \in DOMAIN seen.graph
  <2> HIDE DEF h
  <2>1. seen.roots[r] = Hash(a)
    BY <1>1, SeenBefore
  <2> HIDE DEF a
  <2>2. Hash(a) = header[a].hash /\ header[a].hash \in Identities
    BY <1>1, <1>2, SeenBefore
  <2>3. header[a].hash \in DOMAIN seen.graph
    BY <1>1, <1>2, SeenBefore
  <2>4. QED
    BY <2>1, <2>2, <2>3 DEF h
<1>8. Hash(v) \in Range(seen.roots) \cup {Nil}
  <2>1. CASE v = Nil
    BY <2>1, RefFacts
  <2>2. CASE \E q \in 0 .. NumRoots - 1 : v = slots[Stack][q]
    <3>1. PICK q \in 0 .. NumRoots - 1 : v = slots[Stack][q]
      BY <2>2
    <3>2. q \in DOMAIN seen.roots /\ seen.roots[q] = Hash(v)
      BY <1>1, <3>1, SeenBefore
    <3>3. QED
      BY <3>2 DEF Range
  <2>3. QED
    BY <2>1, <2>2
<1>9. seen'.graph = [seen.graph EXCEPT ![h].slots[k] = Hash(v)]
  <2>1. DOMAIN seen'.graph = DOMAIN seen.graph
    BY <1>1, <1>3, SeenBefore, SeenAfter
  <2>2. seen'.graph[h] = [seen.graph[h] EXCEPT !.slots[k] = Hash(v)]
    <3>1. seen.graph[h] = [kind |-> KindOf(a), slots |-> [m \in SlotNames |-> Hash(slots[a][m])]]
      BY <1>1, <1>2, SeenBefore
    <3>2. seen'.graph[h] = [kind |-> KindOf(a), slots |-> [m \in SlotNames |-> Hash(slots'[a][m])]]
      BY <1>1, <1>2, <1>3, SeenAfter
    <3>3. [m \in SlotNames |-> Hash(slots'[a][m])]
            = [[m \in SlotNames |-> Hash(slots[a][m])] EXCEPT ![k] = Hash(v)]
      BY <1>2, <1>4
    <3>4. QED
      BY <3>1, <3>2, <3>3
  <2>3. ASSUME NEW g \in DOMAIN seen.graph, g # h PROVE seen'.graph[g] = seen.graph[g]
    <3>1. PICK b \in Objects : g = header[b].hash
      BY <1>1, SeenBefore
    <3>2. seen.graph[g] = [kind |-> KindOf(b), slots |-> [m \in SlotNames |-> Hash(slots[b][m])]]
      BY <1>1, <3>1, SeenBefore
    <3>3. seen'.graph[g] = [kind |-> KindOf(b), slots |-> [m \in SlotNames |-> Hash(slots'[b][m])]]
      BY <1>1, <1>3, <3>1, SeenAfter
    <3>4. slots'[b] = slots[b]
      BY <1>2, <1>4, <2>3, <3>1
    <3>5. QED
      BY <3>2, <3>3, <3>4
  <2>4. seen.graph = [g \in DOMAIN seen.graph |-> seen.graph[g]]
        /\ seen'.graph = [g \in DOMAIN seen.graph |-> seen'.graph[g]]
    BY <1>1, <1>3, <2>1, SeenBefore, SeenAfter
  <2> HIDE DEF h
  <2>5. QED
    BY <1>7, <2>2, <2>3, <2>4
<1>10. Program!Store(r, k, Hash(v))
  <2>1. Range(seen.roots) = Program!Range(seen.roots) /\ Nil = Program!Nil
    BY DEF Range, Program!Range, Nil, Program!Nil
  <2> HIDE DEF h
  <2>2. QED
    BY <1>5, <1>7, <1>8, <1>9, <2>1 DEF Program!Store, Program!IsObject, Identities
<1>11. Hash(v) \in Contents
  BY SeenQueue
<1>12. QED
  BY <1>6, <1>10, <1>11


-----------------------------------------------------------------------------
(* Operations that set a temporary of the stack frame.                      *)
LEMMA TemporarySeen ==
  ASSUME HeapInv, RefInv, HeapInv', NEW r \in 0 .. NumRoots - 1, NEW v, Valid(v),
         SetTemporary(r, v), seen' = View'
  PROVE  /\ RefInv' /\ seen'.graph = seen.graph /\ seen'.code = seen.code
         /\ seen'.roots = [seen.roots EXCEPT ![r] = Hash(v)]
         /\ rescuedCount' = rescuedCount => seen'.rescued = seen.rescued
         /\ seen'.rescued = [j \in 1 .. rescuedCount' |-> Hash(slots[RescuedArray][j])]
<1>1. /\ pc = "mutator" /\ pc' = "mutator" /\ literalsReferences' = literalsReferences
      /\ UNCHANGED <<header, spaceVars>> /\ slots' = [slots EXCEPT ![Stack][r] = v]
  BY DEF SetTemporary, Operation, controlVars, hostVars
<1>2. \A a \in Address \ {Stack} : slots'[a] = slots[a]
  BY TemporarySlots
<1>3. HeadersKept
  BY <1>1 DEF HeadersKept
<1>4. {RescuedArray, CodeCache} \cup Objects \subseteq Address \ {Stack}
  BY RefFacts, HeapFacts
<1>5. seen'.graph = seen.graph /\ seen'.code = seen.code
      /\ (rescuedCount' = rescuedCount => seen'.rescued = seen.rescued)
  BY <1>1, <1>2, <1>3, <1>4, SeenSame
<1>6. RefInv'
  BY <1>1, <1>3, <1>5, OperationRef
<1>7. seen'.roots = [seen.roots EXCEPT ![r] = Hash(v)]
  <2>1. seen.roots = [q \in 0 .. NumRoots - 1 |-> Hash(slots[Stack][q])]
    BY <1>1, SeenBefore
  <2>2. seen'.roots = [q \in 0 .. NumRoots - 1 |-> Hash(slots'[Stack][q])]
    BY <1>1, <1>3, SeenAfter
  <2>3. r \in SlotIndex(Stack) /\ Stack \in Address /\ 0 .. NumRoots - 1 \subseteq SlotIndex(Stack)
    BY Layout, Sizes, SizesAssumption DEF SlotIndex
  <2>4. /\ slots'[Stack][r] = v
        /\ \A b \in Address \ {Stack} : slots'[b] = slots[b]
        /\ \A l \in SlotIndex(Stack) \ {r} : slots'[Stack][l] = slots[Stack][l]
    BY <1>1, <2>3, OneSlotWritten, HeapFacts
  <2>5. \A q \in 0 .. NumRoots - 1 : q # r => slots'[Stack][q] = slots[Stack][q]
    BY <2>3, <2>4
  <2>6. \A q \in 0 .. NumRoots - 1 :
          Hash(slots'[Stack][q]) = IF q = r THEN Hash(v) ELSE Hash(slots[Stack][q])
    BY <2>4, <2>5
  <2>7. [seen.roots EXCEPT ![r] = Hash(v)]
          = [q \in 0 .. NumRoots - 1 |-> IF q = r THEN Hash(v) ELSE Hash(slots[Stack][q])]
    BY <2>1
  <2>8. [q \in 0 .. NumRoots - 1 |-> Hash(slots'[Stack][q])]
          = [q \in 0 .. NumRoots - 1 |-> IF q = r THEN Hash(v) ELSE Hash(slots[Stack][q])]
    BY <2>6
  <2>9. QED
    BY <2>2, <2>7, <2>8
<1>8. seen'.rescued = [j \in 1 .. rescuedCount' |-> Hash(slots[RescuedArray][j])]
  <2>1. seen'.rescued = [j \in 1 .. rescuedCount' |-> Hash(slots'[RescuedArray][j])]
    BY <1>1, <1>3, SeenAfter
  <2>2. slots'[RescuedArray] = slots[RescuedArray]
    BY <1>2, <1>4
  <2>3. QED
    BY <2>1, <2>2
<1>9. QED
  BY <1>5, <1>6, <1>7, <1>8

LEMMA LoadSeen ==
  ASSUME HeapInv, RefInv, HeapInv', NEW r \in 0 .. NumRoots - 1, NEW q \in 0 .. NumRoots - 1,
         NEW k \in StoredSlots, Load(r, k, q), seen' = View'
  PROVE  RefInv' /\ Program!Load(r, k, q)
<1> DEFINE a == slots[Stack][r]
           v == slots[a][k]
<1>1. pc = "mutator" /\ a \in ProgramObjects /\ SetTemporary(q, v) /\ rescuedCount' = rescuedCount
  BY DEF Load, SetTemporary, Operation
<1>2. Valid(v)
  BY <1>1, LoadedValid
<1>3. /\ RefInv' /\ seen'.graph = seen.graph /\ seen'.code = seen.code
      /\ seen'.roots = [seen.roots EXCEPT ![q] = Hash(v)] /\ seen'.rescued = seen.rescued
  <2> HIDE DEF v
  <2>1. QED
    BY <1>1, <1>2, TemporarySeen
<1>4. seen.roots[r] = Hash(a)
  <2> HIDE DEF v
  <2>1. QED
    BY <1>1, SeenBefore
<1>5. k \in SlotNames
  BY StoredSlotsAssumption DEF SlotNames
<1>6. Hash(a) \in Identities /\ seen.graph[Hash(a)].slots[k] = Hash(v)
  <2> HIDE DEF a
  <2>1. a \in Objects /\ Hash(a) = header[a].hash /\ Hash(a) \in Identities
    BY <1>1, SeenBefore
  <2>2. seen.graph[header[a].hash] = [kind |-> KindOf(a), slots |-> [l \in SlotNames |-> Hash(slots[a][l])]]
    BY <1>1, <2>1, SeenBefore
  <2>3. QED
    BY <1>5, <2>1, <2>2
<1> HIDE DEF a, v
<1>7. QED
  BY <1>3, <1>4, <1>6 DEF Program!Load, Program!IsObject, Identities

LEMMA DropSeen ==
  ASSUME HeapInv, RefInv, HeapInv', NEW r \in 0 .. NumRoots - 1, Drop(r), seen' = View'
  PROVE  RefInv' /\ Program!Drop(r)
<1>1. SetTemporary(r, Nil) /\ rescuedCount' = rescuedCount
  BY DEF Drop
<1>2. Valid(Nil) /\ Hash(Nil) = Nil
  BY RefFacts DEF Valid
<1>3. /\ RefInv' /\ seen'.graph = seen.graph /\ seen'.code = seen.code
      /\ seen'.roots = [seen.roots EXCEPT ![r] = Nil] /\ seen'.rescued = seen.rescued
  <2>1. \A v : Valid(v) /\ SetTemporary(r, v) =>
          /\ RefInv' /\ seen'.graph = seen.graph /\ seen'.code = seen.code
          /\ seen'.roots = [seen.roots EXCEPT ![r] = Hash(v)]
          /\ rescuedCount' = rescuedCount => seen'.rescued = seen.rescued
    BY TemporarySeen
  <2>2. QED
    BY <1>1, <1>2, <2>1
<1>4. QED
  BY <1>3 DEF Program!Drop, Program!Nil, Nil

LEMMA TakeSeen ==
  ASSUME HeapInv, RefInv, HeapInv', NEW r \in 0 .. NumRoots - 1, Take(r), seen' = View'
  PROVE  RefInv' /\ Program!Take(r)
<1> DEFINE v == slots[RescuedArray][rescuedCount]
           n == rescuedCount
<1>1. pc = "mutator" /\ n > 0 /\ n \in Nat /\ SetTemporary(r, v) /\ rescuedCount' = n - 1
  BY DEF Take, SetTemporary, Operation, HeapInv, Inv, CollectorTypeOK, HostTypeOK
<1>2. Valid(v)
  BY <1>1, TakenValid
<1>3. /\ RefInv' /\ seen'.graph = seen.graph /\ seen'.code = seen.code
      /\ seen'.roots = [seen.roots EXCEPT ![r] = Hash(v)]
      /\ seen'.rescued = [j \in 1 .. rescuedCount' |-> Hash(slots[RescuedArray][j])]
  <2> HIDE DEF v
  <2>1. QED
    BY <1>1, <1>2, TemporarySeen
<1>4. seen.rescued = [j \in 1 .. n |-> Hash(slots[RescuedArray][j])]
  BY <1>1, SeenBefore
<1>5. seen.rescued \in Seq(Contents) /\ Len(seen.rescued) = n
  BY <1>4, SeenQueue
<1> HIDE DEF n
<1>6. seen.rescued # << >>
  BY <1>1, <1>5
<1>7. Program!Last(seen.rescued) = seen.rescued[n]
  BY <1>5 DEF Program!Last
<1>8. seen.rescued[n] = Hash(v)
  BY <1>1, <1>4 DEF n
<1>9. Program!Front(seen.rescued) = [j \in 1 .. n - 1 |-> seen.rescued[j]]
  <2>1. Program!Front(seen.rescued) = SubSeq(seen.rescued, 1, n - 1)
    BY <1>5 DEF Program!Front
  <2>2. QED
    BY <1>1, <1>5, <2>1
<1>10. seen'.rescued = [j \in 1 .. n - 1 |-> seen.rescued[j]]
  BY <1>1, <1>3, <1>4
<1> HIDE DEF v
<1>11. QED
  BY <1>3, <1>6, <1>7, <1>8, <1>9, <1>10 DEF Program!Take


-----------------------------------------------------------------------------
(* Operations of the host that the program does not notice.                 *)
LEMMA QuietSeen ==
  ASSUME HeapInv, RefInv, HeapInv', NEW r, Nativize(r) \/ FillLookupCache(r), seen' = View'
  PROVE  RefInv' /\ UNCHANGED <<seen.graph, seen.roots, seen.code, seen.rescued>>
<1>1. /\ pc = "mutator" /\ pc' = "mutator" /\ slots' = slots
      /\ UNCHANGED <<header, spaceVars, literalsReferences, rescuedCount>>
  BY DEF Nativize, FillLookupCache, Operation, controlVars, heapVars
<1>2. HeadersKept
  BY <1>1 DEF HeadersKept
<1>3. /\ seen'.graph = seen.graph /\ seen'.roots = seen.roots
      /\ seen'.code = seen.code /\ seen'.rescued = seen.rescued
  BY <1>1, <1>2, SeenSame
<1>4. RefInv'
  BY <1>1, <1>2, <1>3, OperationRef
<1>5. QED
  BY <1>3, <1>4

LEMMA CodeSeen ==
  ASSUME HeapInv, RefInv, HeapInv', NEW o \in 0 .. NumOffsets - 1, NEW r \in 0 .. NumRoots - 1,
         EmbedLiteral(o, r) \/ EmbedClassCheck(o, r), seen' = View'
  PROVE  /\ HeadersKept /\ Program!Embed(o, r)
         /\ seen'.code = [seen.code EXCEPT ![o] = Hash(slots[Stack][r])]
         /\ seen.code[o] = Nil
<1> DEFINE v == slots[Stack][r]
<1>1. /\ pc = "mutator" /\ pc' = "mutator" /\ slots' = [slots EXCEPT ![CodeCache][o] = v]
      /\ slots[CodeCache][o] = Nil
      /\ UNCHANGED <<header, spaceVars, rescuedCount>>
  BY DEF EmbedLiteral, EmbedClassCheck, Operation, controlVars
<1>2. HeadersKept
  BY <1>1 DEF HeadersKept
<1> HIDE DEF v
<1>3. /\ o \in SlotIndex(CodeCache) /\ slots'[CodeCache][o] = v
      /\ \A p \in SlotIndex(CodeCache) \ {o} : slots'[CodeCache][p] = slots[CodeCache][p]
  BY <1>1, CodeSlotSet
<1>4. \A a \in Address \ {CodeCache} : slots'[a] = slots[a]
  BY <1>1, HeapFacts DEF IsSlots
<1>5. {Stack, RescuedArray} \cup Objects \subseteq Address \ {CodeCache}
  BY RefFacts, HeapFacts
<1>6. seen'.graph = seen.graph /\ seen'.roots = seen.roots /\ seen'.rescued = seen.rescued
  BY <1>1, <1>2, <1>4, <1>5, SeenSame
<1>7. seen'.code = [seen.code EXCEPT ![o] = Hash(v)]
  <2>1. seen.code = [p \in 0 .. NumOffsets - 1 |-> Hash(slots[CodeCache][p])]
    BY <1>1, SeenBefore
  <2>2. seen'.code = [p \in 0 .. NumOffsets - 1 |-> Hash(slots'[CodeCache][p])]
    BY <1>1, <1>2, SeenAfter
  <2>3. 0 .. NumOffsets - 1 \subseteq SlotIndex(CodeCache)
    BY Sizes, SizesAssumption DEF SlotIndex
  <2>4. \A p \in 0 .. NumOffsets - 1 :
          Hash(slots'[CodeCache][p]) = IF p = o THEN Hash(v) ELSE Hash(slots[CodeCache][p])
    BY <1>3, <2>3
  <2>5. [seen.code EXCEPT ![o] = Hash(v)]
          = [p \in 0 .. NumOffsets - 1 |-> IF p = o THEN Hash(v) ELSE Hash(slots[CodeCache][p])]
    BY <2>1
  <2>6. [p \in 0 .. NumOffsets - 1 |-> Hash(slots'[CodeCache][p])]
          = [p \in 0 .. NumOffsets - 1 |-> IF p = o THEN Hash(v) ELSE Hash(slots[CodeCache][p])]
    BY <2>4
  <2>7. QED
    BY <2>2, <2>5, <2>6
<1>8. seen.roots[r] = Hash(v)
  BY <1>1, SeenBefore DEF v
<1>9. seen.code[o] = Nil
  BY <1>1, SeenBefore, RefFacts
<1>10. Program!Embed(o, r)
  BY <1>6, <1>7, <1>8 DEF Program!Embed
<1>11. QED
  BY <1>2, <1>7, <1>9, <1>10 DEF v

LEMMA EmbedSeen ==
  ASSUME HeapInv, RefInv, HeapInv', NEW o \in 0 .. NumOffsets - 1, NEW r \in 0 .. NumRoots - 1,
         EmbedLiteral(o, r) \/ EmbedClassCheck(o, r), seen' = View'
  PROVE  RefInv' /\ Program!Embed(o, r)
<1> DEFINE v == slots[Stack][r]
           entry == [literal |-> v, offset |-> o]
<1>1. /\ pc = "mutator" /\ pc' = "mutator" /\ v \in ProgramObjects
      /\ literalsReferences' = literalsReferences
           \/ literalsReferences' = Append(literalsReferences, entry)
  BY DEF EmbedLiteral, EmbedClassCheck, Operation, controlVars
<1>2. /\ HeadersKept /\ Program!Embed(o, r)
      /\ seen'.code = [seen.code EXCEPT ![o] = Hash(v)] /\ seen.code[o] = Nil
  BY CodeSeen
<1> HIDE DEF v
<1>3. HashesNamed' /\ HashesKept
  BY <1>1, <1>2, SeenAfter
<1>4. v \in Objects /\ Hash(v) = header[v].hash
  BY <1>1, SeenBefore
<1>5. seen.code = [p \in 0 .. NumOffsets - 1 |-> seen.code[p]]
  BY DEF RefInv, SeenShape
<1>6. literalsReferences \in Seq(HostTypes) /\ Len(literalsReferences) \in Nat
  BY HostSequences
<1>7. ASSUME NEW j \in 1 .. Len(literalsReferences)
      PROVE  /\ literalsReferences[j].literal \in Objects
             /\ header[literalsReferences[j].literal].hash = seen'.code[literalsReferences[j].offset]
  <2> DEFINE ref == literalsReferences[j]
  <2>1. ref.literal \in Objects /\ header[ref.literal].hash = seen.code[ref.offset]
    BY DEF RefInv, LiteralsShown
  <2>2. ref.offset \in 0 .. NumOffsets - 1
    <3>1. ref \in HostTypes
      BY <1>6, ElementOfSeq
    <3>2. QED
      BY <3>1 DEF HostTypes
  <2>3. header[ref.literal].hash \in Identities /\ Nil \notin Identities
    BY <1>1, <2>1, SeenBefore, RefFacts
  <2>4. ref.offset # o
    BY <1>2, <2>1, <2>3
  <2> HIDE DEF ref
  <2>5. seen'.code[ref.offset] = seen.code[ref.offset]
    BY <1>2, <1>5, <2>2, <2>4
  <2>6. QED
    BY <2>1, <2>5 DEF ref
<1>8. seen'.code[o] = header[v].hash
  BY <1>2, <1>4, <1>5
<1>9. \A j \in 1 .. Len(literalsReferences') :
        /\ literalsReferences'[j].literal \in Objects
        /\ header[literalsReferences'[j].literal].hash = seen'.code[literalsReferences'[j].offset]
  <2>1. CASE literalsReferences' = literalsReferences
    BY <1>7, <2>1
  <2>2. CASE literalsReferences' = Append(literalsReferences, entry)
    <3> HIDE DEF entry
    <3>1. /\ Len(literalsReferences') = Len(literalsReferences) + 1
          /\ literalsReferences'[Len(literalsReferences) + 1] = entry
          /\ \A j \in 1 .. Len(literalsReferences) : literalsReferences'[j] = literalsReferences[j]
      BY <1>6, <2>2, AppendProperties
    <3>2. entry.literal = v /\ entry.offset = o
      BY DEF entry
    <3>3. \A j \in 1 .. Len(literalsReferences) + 1 :
            j \in 1 .. Len(literalsReferences) \/ j = Len(literalsReferences) + 1
      BY <1>6
    <3>4. QED
      BY <1>4, <1>7, <1>8, <3>1, <3>2, <3>3
  <2>3. QED
    BY <1>1, <2>1, <2>2
<1>10. LiteralsShown'
  <2>1. \A j \in 1 .. Len(literalsReferences') :
          /\ literalsReferences'[j].literal \in Objects'
          /\ header'[literalsReferences'[j].literal].hash
               = seen'.code[literalsReferences'[j].offset]
    BY <1>3, <1>9 DEF HashesKept
  <2>2. QED
    BY <2>1 DEF LiteralsShown
<1>11. Between' /\ Current'
  BY <1>1 DEF Between, Current
<1>12. RefInv'
  BY <1>3, <1>10, <1>11, MutatorRef, PTL
<1>13. QED
  BY <1>2, <1>12


-----------------------------------------------------------------------------
(* A new object, of an identity no object has.                              *)
LEMMA NewObject ==
  ASSUME HeapInv, NEW kind \in Kinds, NEW hash \in Identities,
         NEW r \in 0 .. NumRoots - 1, Allocate(kind, hash, r)
  PROVE  \E new :
           /\ new \in Address \ (Objects \cup Special)
           /\ Objects' = Objects \cup {new} /\ Copies' = Copies
           /\ ObjectsIn(fromSpace)' = ObjectsIn(fromSpace) \cup {new}
           /\ \A a \in Address \ {new} : header'[a] = header[a]
           /\ header'[new].hash = hash /\ header'[new].proxee = Nil
           /\ KindOf(new)' = kind
           /\ \A a \in Address \ {new, Stack} : slots'[a] = slots[a]
           /\ \A k \in SlotNames : slots'[new][k] = Nil
           /\ slots'[Stack][r] = new
           /\ \A k \in SlotIndex(Stack) \ {r} : slots'[Stack][k] = slots[Stack][k]
<1>1. PICK new : new = fromSpace.nextFree
  OBVIOUS
<1>2. header' = [header EXCEPT ![new] = [FreeHeader EXCEPT !.hash = hash,
                                                           !.hasWeaks = (kind # "plain"),
                                                           !.isEphemeron = (kind = "ephemeron")]]
  BY <1>1 DEF Allocate
<1>3. /\ new \in Address \ (Objects \cup Special)
      /\ Objects' = Objects \cup {new} /\ Copies' = Copies
      /\ ObjectsIn(fromSpace)' = ObjectsIn(fromSpace) \cup {new}
      /\ \A a \in Address \ {new} : header'[a] = header[a]
      /\ header'[new].hash = hash /\ header'[new].proxee = Nil
      /\ \A a \in Address \ {new, Stack} : slots'[a] = slots[a]
      /\ \A k \in SlotIndex(new) : slots'[new][k] = Nil
      /\ slots'[Stack][r] = new
      /\ \A k \in SlotIndex(Stack) \ {r} : slots'[Stack][k] = slots[Stack][k]
  BY <1>1, AllocateFacts
<1>4. KindOf(new)' = kind
  <2>1. new \in Address /\ header \in [Address -> Header]
    BY <1>3, HeapFacts
  <2>2. header'[new].hasWeaks = (kind # "plain") /\ header'[new].isEphemeron = (kind = "ephemeron")
    BY <1>2, <2>1 DEF FreeHeader
  <2>3. kind \in {"plain", "weak", "ephemeron"}
    BY KindsAssumption
  <2>4. QED
    BY <2>2, <2>3 DEF KindOf
<1>5. SlotIndex(new) = SlotNames
  <2>1. new >= -1
    BY <1>3, Layout DEF Special
  <2>2. Size(new) = NumSlots
    BY <1>3, <2>1, Sizes
  <2>3. QED
    BY <2>2 DEF SlotIndex, SlotNames
<1>6. QED
  BY <1>3, <1>4, <1>5

LEMMA AllocateSeen ==
  ASSUME HeapInv, RefInv, HeapInv', NEW kind \in Kinds, NEW hash \in Identities,
         NEW r \in 0 .. NumRoots - 1, Allocate(kind, hash, r), seen' = View'
  PROVE  RefInv' /\ Program!Allocate(hash, kind, r)
<1>1. /\ pc = "mutator" /\ pc' = "mutator" /\ ~HashInUse(hash)
      /\ UNCHANGED <<rescuedCount, literalsReferences>>
  BY DEF Allocate, Operation, controlVars, hostVars
<1>2. PICK new :
        /\ new \in Address \ (Objects \cup Special)
        /\ Objects' = Objects \cup {new} /\ Copies' = Copies
        /\ ObjectsIn(fromSpace)' = ObjectsIn(fromSpace) \cup {new}
        /\ \A a \in Address \ {new} : header'[a] = header[a]
        /\ header'[new].hash = hash /\ header'[new].proxee = Nil
        /\ KindOf(new)' = kind
        /\ \A a \in Address \ {new, Stack} : slots'[a] = slots[a]
        /\ \A k \in SlotNames : slots'[new][k] = Nil
        /\ slots'[Stack][r] = new
        /\ \A k \in SlotIndex(Stack) \ {r} : slots'[Stack][k] = slots[Stack][k]
  BY NewObject
<1> DEFINE Fresh == [kind |-> kind, slots |-> [k \in SlotNames |-> Nil]]
<1>3. /\ Objects \subseteq Address \ {new, Stack} /\ RescuedArray \in Address \ {new, Stack}
      /\ CodeCache \in Address \ {new, Stack}
      /\ Nil # new /\ Nil \notin Objects
  <2>1. Nil \in Special /\ RescuedArray \in Special /\ CodeCache \in Special /\ Stack \in Special
    BY DEF Special
  <2>2. Special \cap Objects = {}
    BY HeapFacts, Places
  <2>3. QED
    BY <1>2, <2>1, <2>2, HeapFacts
<1>4. ASSUME NEW v, Valid(v) PROVE Hash(v)' = Hash(v)
  <2>1. CASE v \in Objects
    BY <1>2, <1>3, <2>1 DEF Hash
  <2>2. CASE v \notin Objects
    <3>1. v \in Special
      BY <1>4, <2>2 DEF Valid, Special
    <3>2. v # new
      BY <1>2, <3>1
    <3>3. v \notin Objects'
      BY <1>2, <2>2, <3>2
    <3>4. QED
      BY <2>2, <3>3 DEF Hash
  <2>3. QED
    BY <2>1, <2>2
<1>5. HashesNamed' /\ HashesKept
  <2>1. \A a \in Objects' : header'[a].hash \in Identities
    BY <1>2, <1>3 DEF RefInv, HashesNamed
  <2>2. ASSUME NEW a \in ObjectsIn(fromSpace), header'[a].proxee # Nil
        PROVE  header'[header'[a].proxee].hash = header'[a].hash
    <3>1. a \in Objects /\ a \in Address \ {new} /\ header'[a] = header[a]
      BY <1>2, <1>3, HeapFacts
    <3>2. header[a].proxee \in Objects /\ header[header[a].proxee].hash = header[a].hash
      BY <2>2, <3>1, HeapFacts DEF RefInv, HashesNamed, HeapInv, ProxiesLead
    <3>3. header'[header[a].proxee] = header[header[a].proxee]
      BY <1>2, <1>3, <3>2
    <3>4. QED
      BY <3>1, <3>2, <3>3
  <2>3. HashesNamed'
    BY <1>2, <2>1, <2>2 DEF HashesNamed
  <2>4. QED
    BY <1>2, <1>3, <1>4, <2>3 DEF HashesKept
<1>6. ViewTold' /\ seen' = View'
  <2>1. Between'
    BY <1>1 DEF Between
  <2>2. QED
    BY <2>1, ViewBetween, PTL
<1>7. \A k \in SlotNames : Hash(slots[new][k])' = Nil
  BY <1>2, <1>3 DEF Hash
<1>8. DOMAIN seen'.graph = DOMAIN seen.graph \cup {hash}
  <2>1. DOMAIN seen'.graph = {header'[a].hash : a \in Objects'}
    BY <1>6 DEF ViewTold
  <2>2. DOMAIN seen.graph = {header[a].hash : a \in Objects}
    BY <1>1, SeenBefore
  <2>3. \A a \in Objects : header'[a].hash = header[a].hash
    BY <1>2, <1>3
  <2>4. QED
    BY <1>2, <2>1, <2>2, <2>3
<1>9. hash \notin DOMAIN seen.graph
  BY <1>1, SeenBefore DEF HashInUse
<1>10. seen'.graph[hash] = Fresh
  <2>1. seen'.graph[header'[new].hash] =
          [kind |-> KindOf(new)', slots |-> [k \in SlotNames |-> Hash(slots[new][k])']]
    BY <1>2, <1>6 DEF ViewTold, SlotNames
  <2>2. QED
    BY <1>2, <1>7, <2>1
<1>11. ASSUME NEW h \in DOMAIN seen.graph PROVE seen'.graph[h] = seen.graph[h]
  <2>1. PICK a \in Objects : h = header[a].hash
    BY <1>1, SeenBefore
  <2>2. seen.graph[h] = [kind |-> KindOf(a), slots |-> [k \in SlotNames |-> Hash(slots[a][k])]]
    BY <1>1, <2>1, SeenBefore
  <2>3. header'[a] = header[a] /\ slots'[a] = slots[a] /\ a \in Objects'
    BY <1>2, <1>3
  <2>4. seen'.graph[header'[a].hash] =
          [kind |-> KindOf(a)', slots |-> [k \in SlotNames |-> Hash(slots[a][k])']]
    BY <1>6, <2>3 DEF ViewTold, SlotNames
  <2>5. KindOf(a)' = KindOf(a)
    BY <2>3 DEF KindOf
  <2>6. ASSUME NEW k \in SlotNames PROVE Hash(slots[a][k])' = Hash(slots[a][k])
    <3>1. Valid(slots[a][k])
      BY ReadValid, RefFacts
    <3>2. \A v : v = slots[a][k] => Hash(v)' = Hash(v)
      BY <1>4, <3>1
    <3>3. QED
      BY <2>3, <3>2 DEF Hash
  <2>7. QED
    BY <2>1, <2>2, <2>3, <2>4, <2>5, <2>6
<1>12. seen'.graph = [h \in DOMAIN seen.graph \cup {hash} |-> IF h = hash THEN Fresh ELSE seen.graph[h]]
  <2>1. seen'.graph = [h \in DOMAIN seen'.graph |-> seen'.graph[h]]
    BY <1>6 DEF ViewTold
  <2> HIDE DEF Fresh
  <2>2. \A h \in DOMAIN seen.graph \cup {hash} :
          seen'.graph[h] = IF h = hash THEN Fresh ELSE seen.graph[h]
    BY <1>9, <1>10, <1>11
  <2>3. QED
    BY <1>8, <2>1, <2>2


<1>13. seen'.roots = [seen.roots EXCEPT ![r] = hash]
  <2>1. seen.roots = [q \in 0 .. NumRoots - 1 |-> Hash(slots[Stack][q])]
    BY <1>1, SeenBefore
  <2>2. seen'.roots = [q \in 0 .. NumRoots - 1 |-> Hash(slots[Stack][q])']
    BY <1>6 DEF ViewTold
  <2>3. ASSUME NEW q \in 0 .. NumRoots - 1
        PROVE  Hash(slots[Stack][q])' = IF q = r THEN hash ELSE Hash(slots[Stack][q])
    <3>1. CASE q = r
      BY <1>2, <3>1 DEF Hash
    <3>2. CASE q # r
      <4>1. Valid(slots[Stack][q]) /\ slots'[Stack][q] = slots[Stack][q]
        BY <1>2, <3>2, RefTypes
      <4>2. \A v : v = slots[Stack][q] => Hash(v)' = Hash(v)
        BY <1>4, <4>1
      <4>3. QED
        BY <3>2, <4>1, <4>2 DEF Hash
    <3>3. QED
      BY <3>1, <3>2
  <2>4. [seen.roots EXCEPT ![r] = hash]
          = [q \in 0 .. NumRoots - 1 |-> IF q = r THEN hash ELSE Hash(slots[Stack][q])]
    BY <2>1
  <2>5. [q \in 0 .. NumRoots - 1 |-> Hash(slots[Stack][q])']
          = [q \in 0 .. NumRoots - 1 |-> IF q = r THEN hash ELSE Hash(slots[Stack][q])]
    BY <2>3
  <2>6. QED
    BY <2>2, <2>4, <2>5
<1>14. seen'.code = seen.code
  <2>1. seen.code = [o \in 0 .. NumOffsets - 1 |-> Hash(slots[CodeCache][o])]
    BY <1>1, SeenBefore
  <2>2. seen'.code = [o \in 0 .. NumOffsets - 1 |-> Hash(slots[CodeCache][o])']
    BY <1>6 DEF ViewTold
  <2>3. ASSUME NEW o \in 0 .. NumOffsets - 1
        PROVE  Hash(slots[CodeCache][o])' = Hash(slots[CodeCache][o])
    <3>1. slots'[CodeCache][o] = slots[CodeCache][o]
      BY <1>2, <1>3
    <3>2. Valid(slots[CodeCache][o])
      BY <1>1, RefTypes DEF HeapInv, CodeKnown
    <3>3. \A v : v = slots[CodeCache][o] => Hash(v)' = Hash(v)
      BY <1>4, <3>2
    <3>4. QED
      BY <3>1, <3>3 DEF Hash
  <2>4. QED
    BY <2>1, <2>2, <2>3
<1>15. seen'.rescued = seen.rescued
  <2>1. seen.rescued = [j \in 1 .. rescuedCount |-> Hash(slots[RescuedArray][j])]
    BY <1>1, SeenBefore
  <2>2. seen'.rescued = [j \in 1 .. rescuedCount |-> Hash(slots[RescuedArray][j])']
    BY <1>1, <1>6 DEF ViewTold
  <2>3. ASSUME NEW j \in 1 .. rescuedCount
        PROVE  Hash(slots[RescuedArray][j])' = Hash(slots[RescuedArray][j])
    <3>1. slots'[RescuedArray][j] = slots[RescuedArray][j]
      BY <1>2, <1>3
    <3>2. Valid(slots[RescuedArray][j])
      BY RefTypes
    <3>3. \A v : v = slots[RescuedArray][j] => Hash(v)' = Hash(v)
      BY <1>4, <3>2
    <3>4. QED
      BY <3>1, <3>3 DEF Hash
  <2>4. QED
    BY <2>1, <2>2, <2>3
<1>16. LiteralsShown'
  BY <1>1, <1>5, <1>14 DEF RefInv, LiteralsShown, HashesKept
<1>17. RefInv'
  <2>1. Between' /\ Current'
    BY <1>1 DEF Between, Current
  <2>2. QED
    BY <1>5, <1>16, <2>1, MutatorRef, PTL
<1>18. Program!Allocate(hash, kind, r)
  <2>1. Nil = Program!Nil
    BY DEF Nil, Program!Nil
  <2>2. QED
    BY <1>9, <1>12, <1>13, <1>14, <1>15, <2>1 DEF Program!Allocate, SlotNames
<1>19. QED
  BY <1>17, <1>18


-----------------------------------------------------------------------------
(* Nothing happens. *)
LEMMA StutterRef == RefInv /\ UNCHANGED vars => RefInv'
<1> SUFFICES ASSUME RefInv, UNCHANGED vars PROVE RefInv'
  OBVIOUS
<1>1. /\ header' = header /\ slots' = slots /\ fromSpace' = fromSpace /\ toSpace' = toSpace
      /\ oldSpace' = oldSpace /\ literalsReferences' = literalsReferences
      /\ rescuedCount' = rescuedCount /\ ephemerons' = ephemerons /\ unknowns' = unknowns
      /\ weakContainers' = weakContainers /\ stack' = stack /\ scan' = scan
      /\ rescan' = rescan /\ pc' = pc /\ seen' = seen
  BY DEF vars, heapVars, spaceVars, hostVars, localVars, scanVars, controlVars
<1>2. /\ Objects' = Objects /\ Survivors' = Survivors /\ Shown' = Shown /\ Kept' = Kept
      /\ View' = View
  BY <1>1 DEF Objects, Survivors, Shown, Kept, Standing, Copies, ObjectsIn, BeforeFlip, IsProxy,
              View, ProgramObjects, Identity, KindOf, ObjectWith
<1>3. /\ \A v : Hash(v)' = Hash(v)
      /\ \A a : KindsShown(a)' = KindsShown(a)
      /\ \A a, k : SlotShown(a, k)' = SlotShown(a, k)
  BY <1>1, <1>2 DEF Hash, KindsShown, SlotShown, SeenKind, SeenSlot, KindOf
<1>4. Rescuable' = Rescuable
  BY <1>1 DEF Rescuable, SeenKind, SeenSlot, Program!Dying, Program!RootObjects, Program!Closed,
              Program!Target, Program!HoldsKey, Program!IsObject, Program!Range, Program!ToSet
<1>5. SeenShape' /\ HashesNamed' /\ GraphShown'
  BY <1>1, <1>2, <1>3 DEF RefInv, SeenShape, HashesNamed, GraphShown, ObjectsIn
<1>6. RootsShown' /\ CodeShown'
  BY <1>1, <1>2 DEF RefInv, RootsShown, CodeShown, Hash, IsNew
<1>7. QueueShown' /\ LiteralsShown'
  BY <1>1, <1>2, <1>4 DEF RefInv, QueueShown, LiteralsShown, Hash
<1>8. KindsTold' /\ KeysTold'
  BY <1>1, <1>4 DEF RefInv, KindsTold, KeysTold, SeenKind, Traversing, Unreached, ArenaIncludes, Includes
<1>9. QED
  BY <1>1, <1>2, <1>5, <1>6, <1>7, <1>8 DEF RefInv

(* Before the program runs. *)
LEMMA RefInitially == Init => RefInv /\ Program!Init
<1> SUFFICES ASSUME Init PROVE RefInv /\ Program!Init
  OBVIOUS
<1>1. /\ HeapInv /\ pc = "mutator" /\ rescuedCount = 0 /\ literalsReferences = << >>
      /\ seen = EmptyView
  BY HeapInitially DEF Init
<1>2. ViewTold
  BY <1>1, ViewFacts
<1>3. Objects = {} /\ ObjectsIn(fromSpace) = {}
  <2>1. ObjectsIn(fromSpace) = {} /\ ObjectsIn(toSpace) = {} /\ ObjectsIn(oldSpace) = {}
    BY Layout DEF Init, NewSpace, ObjectsIn
  <2>2. QED
    BY <2>1 DEF Objects, Copies
<1>4. Hash(Nil) = Nil
  BY <1>1, RefFacts
<1>5. View.graph = << >>
  <2>1. DOMAIN View.graph = {} /\ View.graph = [h \in DOMAIN View.graph |-> View.graph[h]]
    BY <1>2, <1>3 DEF ViewTold
  <2>2. QED
    BY <2>1
<1>6. View.roots = [r \in 0 .. NumRoots - 1 |-> Nil]
  <2>1. \A r \in 0 .. NumRoots - 1 : slots[Stack][r] = Nil
    BY <1>1, RefTypes, Layout DEF Init, EmptySlots
  <2>2. QED
    BY <1>2, <1>4, <2>1 DEF ViewTold
<1>7. View.code = [o \in 0 .. NumOffsets - 1 |-> Nil]
  <2>1. \A o \in 0 .. NumOffsets - 1 : slots[CodeCache][o] = Nil
    BY <1>1, RefTypes, Layout DEF Init, EmptySlots
  <2>2. QED
    BY <1>2, <1>4, <2>1 DEF ViewTold
<1>8. View.rescued = << >>
  <2>1. View.rescued = [j \in 1 .. 0 |-> Hash(slots[RescuedArray][j])]
    BY <1>1, <1>2 DEF ViewTold
  <2>2. QED
    BY <2>1
<1>9. View = EmptyView
  BY <1>5, <1>6, <1>7, <1>8 DEF View, EmptyView
<1>10. RefInv
  <2>1. Between /\ Current
    BY <1>1, <1>9 DEF Between, Current
  <2>2. HashesNamed /\ LiteralsShown
    BY <1>1, <1>3 DEF HashesNamed, LiteralsShown
  <2>3. QED
    BY <1>1, <2>1, <2>2, MutatorRef
<1>11. Program!Init
  BY <1>1 DEF Program!Init, EmptyView, Nil, Program!Nil
<1>12. QED
  BY <1>10, <1>11

LEMMA MutatorSeen ==
  ASSUME HeapInv, RefInv, HeapInv', Mutator
  PROVE  RefInv' /\ [Program!Next]_(Program!vars)
<1>1. seen' = View'
  BY DEF Mutator
<1>2. CASE \E kind \in Kinds, hash \in 1 .. SemiSize + OldSize, r \in 0 .. NumRoots - 1 :
             Allocate(kind, hash, r)
  <2>1. PICK kind \in Kinds, hash \in Identities, r \in 0 .. NumRoots - 1 : Allocate(kind, hash, r)
    BY <1>2 DEF Identities
  <2>2. RefInv' /\ Program!Allocate(hash, kind, r)
    BY <1>1, <2>1, AllocateSeen
  <2>3. kind \in {"plain", "weak", "ephemeron"}
    BY KindsAssumption
  <2>4. QED
    BY <2>2, <2>3 DEF Program!Next, Identities
<1>3. CASE \E r, q \in 0 .. NumRoots - 1, k \in StoredSlots : Store(r, k, slots[Stack][q])
  <2>1. PICK r \in 0 .. NumRoots - 1, q \in 0 .. NumRoots - 1, k \in StoredSlots :
          Store(r, k, slots[Stack][q])
    BY <1>3
  <2>2. PICK v : v = slots[Stack][q]
    OBVIOUS
  <2>3. Store(r, k, v) /\ Valid(v)
    BY <2>1, <2>2, RefTypes
  <2>4. RefInv' /\ Program!Store(r, k, Hash(v)) /\ Hash(v) \in Contents
    BY <1>1, <2>2, <2>3, StoreSeen
  <2>5. QED
    BY <2>4, StoredSlotsAssumption DEF Program!Next, Contents, Identities, Nil, Tombstone,
                                       Program!Nil, Program!Tombstone
<1>4. CASE \E r \in 0 .. NumRoots - 1, k \in StoredSlots : Store(r, k, Nil)
  <2>1. PICK r \in 0 .. NumRoots - 1, k \in StoredSlots : Store(r, k, Nil)
    BY <1>4
  <2>2. PICK v : v = Nil
    OBVIOUS
  <2>3. Store(r, k, v) /\ Valid(v)
    BY <2>1, <2>2 DEF Valid
  <2>4. RefInv' /\ Program!Store(r, k, Hash(v)) /\ Hash(v) \in Contents
    BY <1>1, <2>2, <2>3, StoreSeen
  <2>5. QED
    BY <2>4, StoredSlotsAssumption DEF Program!Next, Contents, Identities, Nil, Tombstone,
                                       Program!Nil, Program!Tombstone
<1>5. CASE \E r, q \in 0 .. NumRoots - 1, k \in StoredSlots : Load(r, k, q)
  BY <1>1, <1>5, LoadSeen, StoredSlotsAssumption DEF Program!Next
<1>6. CASE \E r \in 0 .. NumRoots - 1 : Drop(r)
  BY <1>1, <1>6, DropSeen DEF Program!Next
<1>7. CASE \E r \in 0 .. NumRoots - 1 : Take(r)
  BY <1>1, <1>7, TakeSeen DEF Program!Next
<1>8. CASE \E o \in 0 .. NumOffsets - 1, r \in 0 .. NumRoots - 1 :
             EmbedLiteral(o, r) \/ EmbedClassCheck(o, r)
  BY <1>1, <1>8, EmbedSeen DEF Program!Next
<1>9. CASE \E r \in 0 .. NumRoots - 1 : Nativize(r) \/ FillLookupCache(r)
  BY <1>1, <1>9, QuietSeen DEF Program!vars
<1>10. QED
  BY <1>2, <1>3, <1>4, <1>5, <1>6, <1>7, <1>8, <1>9 DEF Mutator

(* Every step is one the program may see, or one it does not notice.        *)
LEMMA NextSeen ==
  ASSUME HeapInv, RefInv, HeapInv', [Next]_vars
  PROVE  RefInv' /\ [Program!Next]_(Program!vars)
<1>1. CASE Mutator
  BY <1>1, MutatorSeen
<1>2. CASE EndScavenge
  BY <1>2, EndScavengeRef, EndScavengeCollects DEF Program!Next
<1>3. CASE (StartScavenge \/ Collector) /\ ~EndScavenge
  BY <1>3, CollectorRef DEF Program!vars
<1>4. CASE UNCHANGED vars
  <2>1. seen' = seen
    BY <1>4 DEF vars
  <2>2. QED
    BY <1>4, <2>1, StutterRef DEF Program!vars
<1>5. QED
  BY <1>1, <1>2, <1>3, <1>4 DEF Next

(* The scavenger implements ObjectMemory: whatever the program does between *)
(* collections, and however many steps doCollect, rescueEphemerons and      *)
(* followCountStartingAt take in between, the program sees its own          *)
(* operations and collections that are one step, Collect.  Objects that it  *)
(* reaches survive with their identity, kind and slots; weak references to  *)
(* those that do not become tombstones; an ephemeron is queued only if      *)
(* nothing but weak references and ephemerons leads to its key.  So it is   *)
(* as long as no scavenge ends with a remembered set that has outgrown its  *)
(* array (HostHasTheSet): what only entries lost with the new array lead to *)
(* would be missed by the next one.                                         *)
THEOREM ScavengerImplementsObjectMemory == Spec /\ []HostHasTheSet => ImplementsObjectMemory
<1>1. Init => RefInv /\ Program!Init
  BY RefInitially
<1>2. HeapInv /\ HeapInv' /\ RefInv /\ [Next]_vars => RefInv' /\ [Program!Next]_(Program!vars)
  BY NextSeen
<1>3. QED
  BY <1>1, <1>2, AlwaysHeapInv, PTL DEF Spec, ImplementsObjectMemory, Program!Spec


-----------------------------------------------------------------------------
(* The heaps that MCHeapGC starts from: what the program can have built.    *)
LEMMA SetToSeqFacts ==
  ASSUME NEW S, IsFiniteSet(S)
  PROVE  /\ SetToSeq(S) \in Seq(S) /\ ToSet(SetToSeq(S)) = S
         /\ \A j, k \in DOMAIN SetToSeq(S) : SetToSeq(S)[j] = SetToSeq(S)[k] => j = k
<1> DEFINE n == Cardinality(S)
           Orders(f) == f \in [1 .. n -> S] /\ IsInjective(f)
<1>1. n \in Nat /\ ExistsBijection(1 .. n, S)
  BY FS_CardinalityType
<1>2. PICK b : b \in Bijection(1 .. n, S)
  BY <1>1 DEF ExistsBijection
<1>3. b \in [1 .. n -> S] /\ IsInjective(b)
  BY <1>2 DEF Bijection, Injection
<1>4. PICK s : s = SetToSeq(S)
  OBVIOUS
<1>5. s \in [1 .. n -> S] /\ IsInjective(s)
  BY <1>3, <1>4 DEF SetToSeq
<1>6. s \in Seq(S) /\ DOMAIN s = 1 .. n /\ \A j, k \in 1 .. n : s[j] = s[k] => j = k
  BY <1>1, <1>5 DEF IsInjective
<1>7. s \in Surjection(1 .. n, S)
  <2>1. IsFiniteSet(1 .. n) /\ Cardinality(1 .. n) = n
    BY <1>1, FS_Interval
  <2>2. s \in Injection(1 .. n, S)
    BY <1>5 DEF Injection
  <2>3. QED
    BY <2>1, <2>2, FS_Injection
<1>8. \A e \in S : \E j \in 1 .. n : s[j] = e
  BY <1>7 DEF Surjection
<1>9. ToSet(s) = S
  BY <1>5, <1>6, <1>8 DEF ToSet
<1>10. QED
  BY <1>4, <1>6, <1>9

Beginning ==
  /\ literalsReferences = << >> /\ classCheckReferences = << >> /\ nativizedMethods = << >>
  /\ lookupCache = Nil /\ rescuedCount = 0
  /\ vm = [globalCacheHasPointersToFrom |-> FALSE,
           anyCompiledMethodInFromSpace |-> FALSE,
           anyNativizedCompiledMethodInFromSpace |-> FALSE]
  /\ ephemerons = << >> /\ unknowns = << >> /\ weakContainers = << >>
  /\ stack = << >> /\ scan = NoScan
  /\ rescan = FALSE /\ anyRescued = FALSE
  /\ i = 1 /\ pc = "mutator" /\ seen = View /\ ops \in 0 .. MaxOps
  /\ detached = << >>

(* Young, those of Old and those of them that are remembered; what their    *)
(* headers and slots hold.                                                  *)
Populated(young, remembered) ==
  /\ SpacesTypeOK
  /\ ObjectsIn(fromSpace) = young /\ ObjectsIn(toSpace) = {} /\ ObjectsIn(oldSpace) = OldAddress
  /\ young \subseteq NewBase1 .. NewBase2 - 1
  /\ remembered \subseteq OldAddress
  /\ rememberedSet \in Seq(remembered) /\ ToSet(rememberedSet) = remembered /\ HoldsThemOnce

Labelled(young, remembered) ==
  /\ header \in [Address -> Header]
  /\ \A a \in Address : header[a].proxee = Nil
  /\ \A a \in young \cup OldAddress : header[a].hash = HashOf(a)
  /\ \A a \in Address : header[a].inRememberedSet <=> a \in remembered
  /\ \A a \in Address \ (young \cup OldAddress) : header[a] = FreeHeader

Connected(young, remembered) ==
  /\ IsSlots(slots)
  /\ \A a \in Address : \A k \in SlotIndex(a) : slots[a][k] \in young \cup OldAddress \cup {Nil}
  /\ \A k \in SlotIndex(CodeCache) : slots[CodeCache][k] = Nil
  /\ \A k \in SlotIndex(RescuedArray) : slots[RescuedArray][k] = Nil
  /\ slots[Stack][-1] = Nil
  /\ \A a \in OldAddress : \A k \in SlotIndex(a) : slots[a][k] \in young => a \in remembered

LEMMA HeapHeaderFacts ==
  ASSUME NEW a, HashOf(a) \in Nat, NEW kind, NEW second \in BOOLEAN, NEW remembered \in BOOLEAN
  PROVE  /\ HeapHeader(a, kind, second, remembered) \in Header
         /\ HeapHeader(a, kind, second, remembered).proxee = Nil
         /\ HeapHeader(a, kind, second, remembered).hash = HashOf(a)
         /\ HeapHeader(a, kind, second, remembered).inRememberedSet <=> remembered
<1>1. PICK hash : hash = HashOf(a)
  OBVIOUS
<1>2. PICK weak \in BOOLEAN : weak = (kind # "plain")
  OBVIOUS
<1>3. PICK ephemeron \in BOOLEAN : ephemeron = (kind = "ephemeron")
  OBVIOUS
<1>4. HeapHeader(a, kind, second, remembered) =
        [FreeHeader EXCEPT !.hash = hash, !.secondGeneration = second,
                           !.inRememberedSet = remembered, !.hasWeaks = weak,
                           !.isEphemeron = ephemeron]
  BY <1>1, <1>2, <1>3, Zenon DEF HeapHeader
<1>5. HeapHeader(a, kind, second, remembered) =
        [hash |-> hash, secondGeneration |-> second, inRememberedSet |-> remembered,
         hasWeaks |-> weak, isEphemeron |-> ephemeron, proxee |-> Nil]
  BY <1>4 DEF FreeHeader
<1>6. hash \in Nat /\ Nil \in Address
  BY <1>1, Layout
<1>7. QED
  BY <1>1, <1>5, <1>6 DEF Header

LEMMA HeapInitFacts ==
  ASSUME HeapInit
  PROVE  Beginning /\ \E young, remembered : /\ Populated(young, remembered)
                                             /\ Labelled(young, remembered)
                                             /\ Connected(young, remembered)
<1>1. PICK heap \in Heaps, second \in BOOLEAN :
      LET InHeap == YoungAddress(heap) \cup OldAddress
          Holding == {a \in InHeap : KindIn(heap, a) \in Holders}
      IN
      /\ \E refs \in [Holding -> [heap.stored -> InHeap \cup {Nil}]],
           temporaries \in [0 .. NumRoots - 1 -> InHeap] :
        LET remembered == {a \in OldAddress \cap Holding :
                            \E k \in heap.stored : refs[a][k] \in YoungAddress(heap)}
        IN  /\ NamedInOrder(heap, temporaries)
            /\ header = [a \in Address |->
                          IF a \in InHeap THEN HeapHeader(a, KindIn(heap, a), second, a \in remembered)
                                          ELSE FreeHeader]
            /\ slots = [a \in Address |->
                         CASE a \in Holding -> [k \in SlotIndex(a) |-> IF k \in heap.stored
                                                                       THEN refs[a][k] ELSE Nil]
                           [] a = Stack -> [k \in SlotIndex(a) |-> IF k = -1 THEN Nil ELSE temporaries[k]]
                           [] OTHER -> EmptySlots(a)]
            /\ rememberedSet = SetToSeq(remembered)
            /\ Len(rememberedSet) <= RememberedSize
      /\ detached = << >>
      /\ fromSpace = [NewSpace(NewBase1, SemiSize) EXCEPT !.nextFree = NewBase1 + Len(heap.young)]
      /\ toSpace = NewSpace(NewBase2, SemiSize)
      /\ oldSpace = [NewSpace(OldBase, OldSize) EXCEPT !.nextFree = OldBase + Len(Old)]
      /\ literalsReferences = << >> /\ classCheckReferences = << >> /\ nativizedMethods = << >>
      /\ lookupCache = Nil
      /\ rescuedCount = 0
      /\ vm = [globalCacheHasPointersToFrom |-> FALSE,
               anyCompiledMethodInFromSpace |-> FALSE,
               anyNativizedCompiledMethodInFromSpace |-> FALSE]
      /\ ephemerons = << >> /\ unknowns = << >> /\ weakContainers = << >>
      /\ stack = << >> /\ scan = NoScan
      /\ rescan = FALSE /\ anyRescued = FALSE
      /\ i = 1 /\ pc = "mutator"
      /\ seen = View
      /\ ops = MaxOps - heap.operations
  BY DEF HeapInit
<1> DEFINE InHeap == YoungAddress(heap) \cup OldAddress
           Holding == {a \in InHeap : KindIn(heap, a) \in Holders}
<1>2. PICK refs \in [Holding -> [heap.stored -> InHeap \cup {Nil}]],
           temporaries \in [0 .. NumRoots - 1 -> InHeap] :
        LET remembered == {a \in OldAddress \cap Holding :
                            \E k \in heap.stored : refs[a][k] \in YoungAddress(heap)}
        IN  /\ header = [a \in Address |->
                      IF a \in InHeap THEN HeapHeader(a, KindIn(heap, a), second, a \in remembered)
                                      ELSE FreeHeader]
            /\ slots = [a \in Address |->
                     CASE a \in Holding -> [k \in SlotIndex(a) |-> IF k \in heap.stored
                                                                   THEN refs[a][k] ELSE Nil]
                       [] a = Stack -> [k \in SlotIndex(a) |-> IF k = -1 THEN Nil ELSE temporaries[k]]
                       [] OTHER -> EmptySlots(a)]
            /\ rememberedSet = SetToSeq(remembered)
  BY <1>1
<1> DEFINE remembered == {a \in OldAddress \cap Holding :
                            \E k \in heap.stored : refs[a][k] \in YoungAddress(heap)}
           young == YoungAddress(heap)
<1>3. /\ Len(Old) \in 0 .. OldSize /\ Len(heap.young) \in 0 .. SemiSize
      /\ heap.stored \subseteq -1 .. NumSlots - 1 /\ heap.operations \in 0 .. MaxOps
  BY HeapsAssumption
<1>4. young = 1 .. Len(heap.young) /\ OldAddress = OldBase .. OldBase + Len(Old) - 1
  BY <1>3, Layout DEF YoungAddress, OldAddress
<1>5. /\ InHeap \subseteq Address /\ young \subseteq NewBase1 .. NewBase2 - 1
      /\ \A a \in InHeap : a > 0
  BY <1>3, <1>4, Layout
<1>6. /\ SpacesTypeOK
      /\ ObjectsIn(fromSpace) = young /\ ObjectsIn(toSpace) = {} /\ ObjectsIn(oldSpace) = OldAddress
  <2>1. /\ fromSpace = [base |-> NewBase1, nextFree |-> NewBase1 + Len(heap.young),
                         limit |-> NewBase1 + SemiSize]
        /\ toSpace = [base |-> NewBase2, nextFree |-> NewBase2, limit |-> NewBase2 + SemiSize]
        /\ oldSpace = [base |-> OldBase, nextFree |-> OldBase + Len(Old),
                        limit |-> OldBase + OldSize]
    BY <1>1 DEF NewSpace
  <2>2. IsSpace(fromSpace, SemiSize) /\ IsSpace(toSpace, SemiSize) /\ IsSpace(oldSpace, OldSize)
    BY <1>3, <2>1, Layout DEF IsSpace, Space
  <2>3. SpacesTypeOK
    BY <2>1, <2>2 DEF SpacesTypeOK
  <2>4. QED
    BY <1>3, <2>1, <2>3, Layout DEF ObjectsIn, YoungAddress, OldAddress
<1>7. remembered \subseteq OldAddress
  OBVIOUS
<1>8. IsFiniteSet(remembered)
  <2>1. IsFiniteSet(OldAddress)
    BY <1>3, <1>4, Layout, FS_Interval
  <2>2. QED
    BY <1>7, <2>1, FS_Subset
<1>9. Populated(young, remembered)
  BY <1>2, <1>5, <1>6, <1>7, <1>8, SetToSeqFacts DEF Populated, HoldsThemOnce
<1>10. Labelled(young, remembered)
  <2>1. FreeHeader \in Header /\ FreeHeader.proxee = Nil /\ ~FreeHeader.inRememberedSet
    BY Layout DEF FreeHeader, Header
  <2>2. ASSUME NEW a \in InHeap PROVE HashOf(a) \in Nat
    <3>1. a \in Int /\ a > 0 /\ (a \in OldAddress => a >= OldBase)
      <4>1. a \in Address /\ a > 0
        BY <1>5
      <4>2. a \in OldAddress => a >= OldBase
        BY <1>3, <1>4, Layout
      <4>3. QED
        BY <4>1, <4>2, Layout
    <3>2. CASE a \in OldAddress
      BY <3>1, <3>2, Layout DEF HashOf
    <3>3. CASE a \notin OldAddress
      BY <3>1, <3>3 DEF HashOf
    <3>4. QED
      BY <3>2, <3>3
  <2>3. ASSUME NEW a \in InHeap
        PROVE  /\ header[a] \in Header /\ header[a].proxee = Nil
               /\ header[a].hash = HashOf(a)
               /\ header[a].inRememberedSet <=> a \in remembered
    <3> DEFINE kind == KindIn(heap, a)
    <3>1. header[a] = HeapHeader(a, kind, second, a \in remembered)
      BY <1>2, <1>5
    <3>2. /\ (kind # "plain") \in BOOLEAN /\ (kind = "ephemeron") \in BOOLEAN
          /\ (a \in remembered) \in BOOLEAN
      OBVIOUS
    <3> HIDE DEF remembered, kind
    <3>3. QED
      <4>1. HashOf(a) \in Nat
        BY <2>2
      <4>2. PICK flag \in BOOLEAN : flag = (a \in remembered)
        BY <3>2
      <4>3. header[a] = HeapHeader(a, kind, second, flag)
        BY <3>1, <4>2, Zenon
      <4>4. /\ header[a] \in Header /\ header[a].proxee = Nil /\ header[a].hash = HashOf(a)
            /\ header[a].inRememberedSet <=> flag
        BY <4>1, <4>3, HeapHeaderFacts
      <4>5. QED
        BY <4>2, <4>4
  <2>4. \A a \in Address \ InHeap : header[a] = FreeHeader
    BY <1>2
  <2>5. header = [a \in Address |-> header[a]]
    BY <1>2
  <2>6. remembered \subseteq InHeap
    BY <1>7
  <2> HIDE DEF remembered
  <2>7. header \in [Address -> Header]
    BY <2>1, <2>3, <2>4, <2>5
  <2>8. \A a \in Address : header[a].proxee = Nil /\ (header[a].inRememberedSet <=> a \in remembered)
    BY <2>1, <2>3, <2>4, <2>6
  <2>9. QED
    BY <2>3, <2>4, <2>7, <2>8 DEF Labelled
<1>11. Connected(young, remembered)
  <2>1. Stack \in Address \ InHeap /\ CodeCache \in Address \ InHeap /\ RescuedArray \in Address \ InHeap
        /\ Stack # CodeCache /\ Stack # RescuedArray
    BY <1>5, Layout
  <2>2. ASSUME NEW a \in Holding
        PROVE  \A k \in SlotIndex(a) : /\ slots[a][k] \in InHeap \cup {Nil}
                                       /\ slots[a][k] \in InHeap => k \in heap.stored
                                       /\ k \in heap.stored => slots[a][k] = refs[a][k]
    <3>1. slots[a] = [k \in SlotIndex(a) |-> IF k \in heap.stored THEN refs[a][k] ELSE Nil]
      <4>1. a \in Address /\ a # Stack
        BY <1>5, <2>1
      <4> HIDE DEF Holding
      <4>2. QED
        BY <1>2, <4>1
    <3>2. \A k \in heap.stored : refs[a][k] \in InHeap \cup {Nil}
      <4> HIDE DEF Holding, InHeap
      <4>1. QED
        OBVIOUS
    <3>3. Nil \notin InHeap
      BY <1>5, Layout
    <3>4. QED
      BY <3>1, <3>2, <3>3
  <2>3. /\ slots[Stack] = [k \in SlotIndex(Stack) |-> IF k = -1 THEN Nil ELSE temporaries[k]]
        /\ SlotIndex(Stack) = -1 .. NumRoots - 1
    BY <1>2, <2>1, Sizes DEF SlotIndex
  <2>4. slots[Stack][-1] = Nil /\ \A k \in SlotIndex(Stack) : slots[Stack][k] \in InHeap \cup {Nil}
    <3>1. -1 \in SlotIndex(Stack) /\ \A k \in SlotIndex(Stack) : k # -1 => k \in 0 .. NumRoots - 1
      BY <2>3, SizesAssumption
    <3>2. \A k \in SlotIndex(Stack) : slots[Stack][k] = IF k = -1 THEN Nil ELSE temporaries[k]
      BY <2>3
    <3>3. \A k \in 0 .. NumRoots - 1 : temporaries[k] \in InHeap
      <4> HIDE DEF InHeap
      <4>1. QED
        OBVIOUS
    <3>4. QED
      BY <3>1, <3>2, <3>3
  <2>5. \A a \in Address \ (Holding \cup {Stack}) : slots[a] = EmptySlots(a)
    BY <1>2
  <2>6. \A a \in Address \ (Holding \cup {Stack}) : \A k \in SlotIndex(a) : slots[a][k] = Nil
    BY <2>5 DEF EmptySlots
  <2>7. \A a \in Address : \A k \in SlotIndex(a) : slots[a][k] \in InHeap \cup {Nil}
    BY <2>2, <2>4, <2>6
  <2>8. ASSUME NEW a \in Address PROVE DOMAIN slots[a] = SlotIndex(a) /\ slots[a] = [k \in SlotIndex(a) |-> slots[a][k]]
    <3>1. CASE a \in Holding
      BY <1>2, <3>1
    <3>2. CASE a = Stack
      BY <2>3, <3>2
    <3>3. CASE a \notin Holding \cup {Stack}
      BY <2>5, <3>3 DEF EmptySlots
    <3>4. QED
      BY <3>1, <3>2, <3>3
  <2>9. IsSlots(slots)
    <3>1. slots = [a \in Address |-> slots[a]]
      BY <1>2
    <3>2. ASSUME NEW a \in Address PROVE slots[a] \in [SlotIndex(a) -> Address]
      BY <1>5, <2>7, <2>8, Layout
    <3>3. QED
      BY <3>1, <3>2 DEF IsSlots
  <2>10. ASSUME NEW a \in OldAddress, NEW k \in SlotIndex(a), slots[a][k] \in young
         PROVE  a \in remembered
    <3>1. a \in Address /\ a # Stack /\ slots[a][k] # Nil
      BY <1>5, <2>1, <2>10, Layout
    <3>2. a \in Holding
      BY <2>6, <2>10, <3>1
    <3>3. k \in heap.stored /\ refs[a][k] \in young
      BY <2>2, <2>10, <3>2
    <3>4. QED
      BY <2>10, <3>2, <3>3
  <2>11. \A k \in SlotIndex(CodeCache) : slots[CodeCache][k] = Nil
    BY <2>1, <2>6
  <2>12. \A k \in SlotIndex(RescuedArray) : slots[RescuedArray][k] = Nil
    BY <2>1, <2>6
  <2>13. QED
    BY <2>4, <2>7, <2>9, <2>10, <2>11, <2>12 DEF Connected
<1>12. ops \in 0 .. MaxOps
  BY <1>1, <1>3, SizesAssumption
<1>13. Beginning
  BY <1>12 DEF HeapInit, Beginning
<1>14. QED
  BY <1>9, <1>10, <1>11, <1>13

LEMMA HeapBegins == HeapInit => HeapInv /\ RefInv
<1> SUFFICES ASSUME HeapInit PROVE HeapInv /\ RefInv
  OBVIOUS
<1>1. PICK young, remembered : /\ Beginning /\ Populated(young, remembered)
                               /\ Labelled(young, remembered) /\ Connected(young, remembered)
  BY HeapInitFacts
<1>2. /\ SpacesTypeOK
      /\ ObjectsIn(fromSpace) = young /\ ObjectsIn(toSpace) = {} /\ ObjectsIn(oldSpace) = OldAddress
      /\ Copies = OldAddress /\ Objects = young \cup OldAddress
      /\ OldObjects = OldAddress \cup {RescuedArray}
      /\ Staying = OldAddress \cup {RescuedArray, Stack}
  BY <1>1 DEF Populated, Copies, Objects, OldObjects, Staying
<1>3. /\ Objects \subseteq Address /\ \A a \in Objects : a > 0
      /\ RescuedArray \in Address /\ Stack \in Address /\ CodeCache \in Address /\ Nil \in Address
      /\ RescuedArray \notin Objects /\ Stack \notin Objects /\ CodeCache \notin Objects /\ Nil \notin Objects
      /\ RescuedArray # Stack
      /\ ~IsNew(Nil) /\ Valid(Nil) /\ \A v \in Objects : Valid(v)
  BY <1>2, Places, Layout DEF Special, IsNew, Valid
<1>4. /\ IsSlots(slots) /\ header \in [Address -> Header]
      /\ \A a \in Address : \A k \in SlotIndex(a) : slots[a][k] \in Objects \cup {Nil}
      /\ \A k \in SlotIndex(CodeCache) : slots[CodeCache][k] = Nil
      /\ \A k \in SlotIndex(RescuedArray) : slots[RescuedArray][k] = Nil
      /\ slots[Stack][-1] = Nil
      /\ \A a \in Address : header[a].proxee = Nil
      /\ \A a \in Address \ Objects : header[a] = FreeHeader
  BY <1>1, <1>2 DEF Labelled, Connected
<1>5. CollectorTypeOK
  <2>1. rememberedSet \in Seq(Address)
    BY <1>1, <1>2, <1>3 DEF Populated
  <2>2. HostTypeOK
    BY <1>1, <2>1, Layout, EmptySeq, SizesAssumption DEF Beginning, HostTypeOK
  <2>3. LocalsTypeOK
    BY <1>1, Layout, EmptySeq, SizesAssumption DEF Beginning, LocalsTypeOK, NoScan, Scan
  <2>4. ControlTypeOK
    <3>1. rescan = FALSE /\ anyRescued = FALSE /\ i = 1 /\ pc = "mutator" /\ ops \in 0 .. MaxOps
      BY <1>1 DEF Beginning
    <3>2. "mutator" \in Labels
      BY DEF Labels
    <3>3. rescan \in BOOLEAN /\ anyRescued \in BOOLEAN
      BY <3>1
    <3>4. QED
      BY <3>1, <3>2, <3>3 DEF ControlTypeOK
  <2>5. QED
    BY <1>2, <1>4, <2>2, <2>3, <2>4 DEF CollectorTypeOK, HeapTypeOK
<1>6. Inv
  <2>1. ScansInside
    BY <1>1, Sizes, SizesAssumption, EmptySeq DEF Beginning, ScansInside, Inside, NoScan
  <2>2. RescuesAnUnknown
    BY <1>1 DEF Beginning, RescuesAnUnknown
  <2>3. QED
    BY <1>5, <2>1, <2>2 DEF Inv
<1>7. RememberedInv
  <2>1. HoldsOldObjects /\ HoldsThemOnce /\ ToSet(rememberedSet) = remembered
    BY <1>1, <1>2 DEF Populated, HoldsOldObjects
  <2>2. FlagsAgree
    BY <1>1, <1>2, <1>3, <2>1 DEF Labelled, FlagsAgree
  <2>3. QED
    BY <2>1, <2>2 DEF RememberedInv
<1>8. SlotsValid
  BY <1>2, <1>3, <1>4 DEF SlotsValid
<1>9. ProxiesLead
  <2>1. \A a \in Staying : a \in Address
    BY <1>2, <1>3
  <2>2. ~header[RescuedArray].hasWeaks /\ ~header[Stack].hasWeaks
    BY <1>3, <1>4 DEF FreeHeader
  <2>3. \A a \in ObjectsIn(fromSpace) : a \in Address
    BY <1>2, <1>3
  <2>4. QED
    BY <1>4, <2>1, <2>2, <2>3 DEF ProxiesLead
<1>10. /\ ephemerons = << >> /\ unknowns = << >> /\ weakContainers = << >> /\ stack = << >>
       /\ pc = "mutator" /\ scan = NoScan /\ rescuedCount = 0 /\ lookupCache = Nil
       /\ nativizedMethods = << >> /\ literalsReferences = << >> /\ seen = View
  BY <1>1 DEF Beginning
<1>11. FoundInCopies
  BY <1>10, SetOfEmpty DEF FoundInCopies
<1>12. ScansStay
  <2>1. ~(scan.index < scan.limit) /\ ToSet(stack) = {}
    BY <1>10, SetOfEmpty DEF NoScan
  <2>2. QED
    BY <1>10, <2>1 DEF ScansStay, Traversing
<1>13. NothingForgotten /\ ToSpaceFilled
  BY <1>2, <1>10 DEF NothingForgotten, BeforeFlip, ToSpaceFilled
<1>14. ReferersKnown
  <2>1. \A a \in ObjectsIn(oldSpace) : ~IsNew(a)
    BY <1>2, Places
  <2>2. ASSUME NEW a \in OldAddress, NEW k \in SlotIndex(a), IsNew(slots[a][k])
        PROVE  a \in ToSet(rememberedSet)
    <3>1. slots[a][k] \in young
      BY <1>2, <1>3, <1>4, <2>1, <2>2
    <3>2. QED
      BY <1>1, <3>1 DEF Connected, Populated
  <2>3. \A k \in SlotIndex(RescuedArray) : ~IsNew(slots[RescuedArray][k])
    BY <1>3, <1>4
  <2>4. QED
    BY <1>2, <2>2, <2>3 DEF ReferersKnown
<1>15. QueueOfEphemerons /\ CacheKnown /\ MethodsKnown /\ LiteralsKnown
  BY <1>3, <1>10 DEF QueueOfEphemerons, CacheKnown, MethodsKnown, LiteralsKnown
<1>16. CodeKnown
  BY <1>3, <1>4 DEF CodeKnown
<1>17. \A a \in Objects : header[a].hash = HashOf(a) /\ HashOf(a) \in Identities
  <2>1. \A a \in young : a \in NewBase1 .. NewBase2 - 1
    BY <1>1 DEF Populated
  <2>2. \A a \in OldAddress : Includes(oldSpace, a) /\ OldBase <= a /\ a < OldBase + OldSize
    BY <1>2, Places, Layout DEF SpacesTypeOK, IsSpace, Space, Includes
  <2>3. \A a \in Objects : HashOf(a) \in Identities
    BY <1>2, <1>3, <2>1, <2>2, Layout DEF HashOf, Identities
  <2>4. QED
    BY <1>1, <1>2, <2>3 DEF Labelled
<1>18. HashesDistinct
  <2>1. \A a \in young : a \in NewBase1 .. NewBase2 - 1
    BY <1>1 DEF Populated
  <2>2. OldAddress \subseteq Int /\ \A a \in OldAddress : a >= OldBase
    BY <1>2, <1>3, Layout DEF OldAddress
  <2>3. \A a, b \in Objects : HashOf(a) = HashOf(b) => a = b
    <3>1. SUFFICES ASSUME NEW a \in Objects, NEW b \in Objects, HashOf(a) = HashOf(b) PROVE a = b
      OBVIOUS
    <3>2. a \in Int /\ b \in Int
      BY <1>3, Layout
    <3>3. \A o \in Objects :
             \/ HashOf(o) = SemiSize + 1 + o - OldBase /\ o >= OldBase
             \/ HashOf(o) = o /\ o <= SemiSize
      <4>1. SUFFICES ASSUME NEW o \in Objects
                     PROVE  \/ HashOf(o) = SemiSize + 1 + o - OldBase /\ o >= OldBase
                            \/ HashOf(o) = o /\ o <= SemiSize
        OBVIOUS
      <4>2. CASE o \in OldAddress
        BY <2>2, <4>2 DEF HashOf
      <4>3. CASE o \notin OldAddress
        <5>1. o \in 1 .. SemiSize
          BY <1>2, <2>1, <4>3, Layout
        <5>2. QED
          BY <4>3, <5>1 DEF HashOf
      <4>4. QED
        BY <4>2, <4>3
    <3>4. SemiSize \in Int /\ OldBase \in Int
      BY Layout
    <3>5. QED
      BY <3>1, <3>2, <3>3, <3>4
  <2>4. Standing \subseteq Objects
    BY DEF Standing, Objects
  <2>5. QED
    BY <1>17, <2>3, <2>4 DEF HashesDistinct
<1>19. HeapInv
  BY <1>6, <1>7, <1>8, <1>9, <1>11, <1>12, <1>13, <1>14, <1>15, <1>16, <1>18 DEF HeapInv
<1>20. HashesNamed
  BY <1>2, <1>3, <1>4, <1>17 DEF HashesNamed
<1>21. LiteralsShown
  BY <1>10 DEF LiteralsShown
<1>22. QED
  BY <1>10, <1>19, <1>20, <1>21, MutatorRef DEF Between, Current

(* The same from every heap of the shapes of MCHeapGC, with ephemerons that *)
(* refer to each other in any way: no step of a scavenge is noticed by the  *)
(* program but the last one, and that one keeps what ObjectMemory promises, *)
(* as long as the host has the whole remembered set (HostHasTheSet).        *)
THEOREM HeapsKeepWhatIsSeen == HeapSpec /\ []HostHasTheSet => StepsOfObjectMemory
<1>1. HeapInit => HeapInv /\ RefInv /\ DetachedTypeOK
  BY HeapBegins, HeapInitFacts, EmptySeq DEF Beginning, DetachedTypeOK
<1>2. HeapInv /\ DetachedTypeOK /\ HostHasTheSet /\ [Next]_vars => HeapInv' /\ DetachedTypeOK'
  BY NextHeapInv, NextDetached DEF HeapInv
<1>3. HeapInv /\ HeapInv' /\ RefInv /\ [Next]_vars => RefInv' /\ [Program!Next]_(Program!vars)
  BY NextSeen
<1>4. QED
  BY <1>1, <1>2, <1>3, PTL DEF HeapSpec, StepsOfObjectMemory
=============================================================================
