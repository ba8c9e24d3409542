# Verification of the BeeVM object memory

TLA+ models of the garbage collectors of BeeVM, the configurations that check
them with TLC, and theorems about them checked by the TLA+ proof system. Paths
below are relative to the repository; `vm/` stands for `src/vm/`.

BeeVM manages the memory of a Smalltalk whose runtime is elsewhere: a *host VM*
runs the program, generates native code, allocates objects and calls the two
collectors of this repository through a DLL. The collectors are sequential. The
program is suspended while one runs, so there is no concurrency between
threads: what makes the code hard is the long sequence of phases that each
leave the heap half-way, the state that survives from one collection to the
next, and the program that changes objects in between.

## 1. Inventory

| component | state | operations | talks to |
|---|---|---|---|
| `GenerationalGC` (`vm/GarbageCollector/GenerationalGC.cpp`) | none of its own; copies of the three spaces | `doCollect`: purge, follow code, roots and stack, rescue ephemerons, fix weak containers, flip, fix code, clean | everything below |
| `GarbageCollector` (base class) | spaces, five shared arrays, four arrays of its own, `residueObject` | `collect`, `rescueEphemerons`, `followStack`, `rememberIfWeak`, `fixWeakContainers`, `makeRescuedEphemeronsNonWeak` | calls virtual operations of the two collectors |
| `MarkAndCompactGC` | `tempArray`, libraries | `doCollect`: unmark, mark with threaded references, new positions, compaction, new arrays | the same |
| `VMArray` | `contents`, an object of the heap | `add`, `addAll`, `pop`, `reset`, `grow`, `emptyReserving` | allocates from a `GCSpace` |
| `ReferencedVMArray` | also `referer`, a cell of the host | `updateFromReferer`, `updateReference`, `grow` | the host |
| `GCSpace` | base, next free, soft, committed and reserved limits, region base | `shallowCopy`, `shallowCopyGrowingTo`, `allocate...`, `commit...`, `decommitSlack`, `includes`, `isReferredBy` | `_commit`, `_decommit` |
| `ObjectFormat` (`oop_t`) | headers and slots | flags, sizes, forwarding (`_setProxee`), threading | memory |
| `GCSpaceInfo`, `Memory`, `VMVariables`, `KnownObjects`, `SLLInfo` | words of the host at fixed addresses | accessors; copies of limits to and from the host | the host |
| `SanityChecker`, `EqualChecker` | a copy of the heap | comparison after a compaction, for debugging | |
| `dll`, wrappers, `main` | the `memory` global | the two calls of the host | `Memory` |

How they interact: the host calls `scavengeHostVMFromSpace`, which copies the
limits of the spaces from the host (`Memory::updateFromHostVM`) and calls
`collect()`. This copies them once more (`updateFromMemory`), allocates the
arrays of the collector (`setUpLocals`), takes the shared arrays from the cells
of the host (`setUpNonLocals`), runs `doCollect()` and copies the limits back.
The shared arrays (remembered set, literals references, nativized methods, class
check references, rescued ephemerons) are filled by the host between
collections and by the collector during one.

What makes each component correct:

* **VMArray**: it is a sequence; it never writes outside of its array object.
* **ReferencedVMArray**: host and collector see the same elements.
* **Scavenger**: whatever the program can reach survives, each object once, with
  the same slots; nothing refers to the space that was emptied; weak references
  to dead objects become tombstones, and only those; an ephemeron is queued when
  its key is dying, and only then; the remembered set is complete for the next
  scavenge; the collection ends.
* **Mark and compact**: the same for all spaces, and no object overwrites one not
  yet moved; the remembered set it starts anew agrees with the flags.
* **GCSpace**: base <= next free <= committed <= reserved; what is committed is
  what was asked for.
* **ObjectFormat**: flags, sizes and hashes survive moves, threading and growth.

Every hazard found while reading is listed in `PROJECT.json` with its line and the
properties that cover it, or the reason why none does yet.

## 2. Modules

| module | models |
|---|---|
| `VMSequence` | abstract: an unbounded sequence |
| `VMArray` | `VMArray`: array objects of the heap, growth by copying |
| `ReferencedVMArray` | `ReferencedVMArray`: the same with the cell of the host |
| `ObjectMemory` | abstract: what a collection may do to the program's objects |
| `GenerationalGC` | the scavenger, the part of `GarbageCollector` it inherits, and the host program |
| `MarkAndCompactGC` | the collector of old space, word by word, with threading, and what `EqualChecker` asserts of it |
| `GCSpace` | the limits of a space, and the arithmetic by which they move |
| `Memory` | the descriptors of the spaces in the host, in `Memory` and in the collectors, their allocations, and the pages of the system (extends `GCSpace`) |
| `ObjectFormat` | the format of objects, bit by bit: flags, sizes, forwarding, threading, copies |
| `ObjectHeap` | both collectors in turn over one heap of such bits (extends `ObjectFormat`) |
| `VMArrayProofs` | theorems on the arrays, the shared ones too |
| `GenerationalGCProofs` | types and bounds of the scavenger, the remembered set and its flags; lemmas on sequences and on the layout of spaces (extends `GenerationalGC`) |
| `ScavengeProofs` | a whole scavenge: slots, copies, references, native code (extends `GenerationalGCProofs`) |
| `ScavengeRefinement` | that the scavenger implements `ObjectMemory` (extends `ScavengeProofs` and `MCHeapGC`) |
| `MarkingProofs` | the layout of the arena, lists of slots, and the marking of a compaction (extends `MarkAndCompactGC`) |
| `CompactionProofs` | the two walks over the arena, and the theorems on whole compactions (extends `MarkingProofs`) |
| `CompactionRefinement` | that the compactor implements `ObjectMemory` (extends `CompactionProofs` and `MCMarkAndCompactGC`) |
| `MemoryProofs` | theorems on the limits of spaces, and on headers (extends `Memory` and `ObjectFormat`) |
| `MCReferencedVMArray`, `MCGenerationalGC`, `MCHeapGC`, `MCMarkAndCompactGC`, `MCMemory`, `MCLocalsKept`, `MCObjectHeap` | instances for TLC |

### VMArray and ReferencedVMArray

`memory` is the sequence of array objects allocated so far, `contents` the one in
use. `slot0` is the number in slot 0, from which `size()` is computed, `slots`
the slots from 1 on. Growing allocates a copy (`shallowCopyGrowingTo`) and
leaves the old array behind, as the code does. `add` and `addAll` are two actions
each, with and without growth. Nothing is cleared by `pop` or `reset`. `VMArray`
refines `VMSequence` with the first `size` slots as the sequence.

`ReferencedVMArray` adds the cell `referer`. `add` there is the inherited one,
which calls the non-virtual `VMArray::grow`; this is how the model does it too.

### GenerationalGC

Addresses are integers. The two new spaces and old space are intervals of them,
and every object takes one address: the collector's decisions depend on which
space an address lies in, never on sizes in bytes. Three things that are scanned
but are no objects of the program have addresses below: the stack frame
(`Stack`), the contents of `rescuedEphemerons` (`RescuedArray`) and the native
code (`CodeCache`). A header holds the flags the code tests, the identity hash
and, once the object was copied, the forwarding address, after which the code
reads nothing else of it. Slot -1 is the behavior, slot 0 the key of an
ephemeron.

| in the model | in the code |
|---|---|
| `StartScavenge`, `EndScavenge` | `collect()`, up to and after `doCollect()` |
| `pc`, `i`, `At`, `GoTo`, `Proceed` | the call of `doCollect()` that is executed, its loop index, the end of a loop |
| `PurgeLiteral`, `PurgeRemembered` | `purgeLiteralsReferences`, `purgeRememberedSet`, one element a step |
| `ClearGlobalLookupCache` .. `LiteralsReferencesMoved` | `followCodeCacheReferences` |
| `FollowRemembered`, `FollowStack` | `followRememberedSet`, `followStack` |
| `scan`, `stack`, `ScanOutside`, `ScanProxy`, `ScanCopy`, `ScanPop` | `followCountStartingAt`: its locals, the explicit stack, and one slot a step |
| `LookForEphemerons` .. `EphemeronsDecided` | `rescueEphemerons` and what it calls |
| `MakeRescuedEphemeronsNonWeak` .. `CleanRemembered` | the calls of the same names |
| `Mutator` | the host program, its write barrier and its code generator (not in the repository) |

A traversal runs between two steps of `doCollect()` until it has no slots left:
`At(label)` asks for that. The arrays of the collector (`stack`, `ephemerons`,
`unknowns`, `weakContainers`, the shared arrays) are sequences here; that a
`VMArray` is one is what `VMArray` shows and proves. Its three-word stack entries are
records. One of them has a capacity, the remembered set: `RememberedSize` is what its array has
room for (256 entries in an array of 0x101 slots). When `holdReferenceTo` or the
tenuring of an object finds it full, `VMArray::add` goes on in a larger array
and the cell of the host keeps the full one: `GrowWhenFull` leaves that in
`detached`. The next collection asks the host (`updateFromReferer`), so `EndScavenge` makes
`detached` the set, and the entries made after the growth are gone, while the flags in
their headers stay. The program, whose growth is not in the repository, stops at
a full set. The purge loops, which write what they keep over the beginning of
the array and set the size at the end, take elements out instead: nobody looks
at the array before the loop has ended. `PurgeRemembered` looks at each
element once, as the code does. The two loops whose iterations do not depend on
each other (`makeRescuedEphemeronsNonWeak`, `fixWeakContainers`) are one step each.
`FlipSpaces` clears the cells of the emptied space, so that states do not
differ in memory nobody may read: a reference to it that survived would be seen as
dangling or as an object that lost its slots.

The host is external: it allocates in from space, keeps references in the
temporaries of one frame, stores them with a write barrier that looks at
the remembered flag (as `holdReferenceTo` does), generates native code with
literals and class checks, fills its lookup cache, and takes rescued ephemerons
with `pop()`, which like the code's does not clear the entry. `collect()` may be
called between any two operations.

`seen` is a history variable: what the program sees of its objects, which a
collection changes only when it ends. `View` computes it from the heap: the
objects by identity hash with kind and slots, the temporaries, the native code
and the queue. `ImplementsObjectMemory` says that `seen` behaves as
`ObjectMemory` says, where a collection is a single step `Collect`.

### MarkAndCompactGC

This collector has no forwarding addresses. While it marks, it links the slots
that refer to an object into a list that starts in the header of the object and
ends with the bits of that header; when it knows where the object will be, it walks the
list, gives each slot the new address and the header its bits. What a word
means depends on the phase, so `memory` is a function from locations to tagged
words: references (`Oop`), small integers, links, header bits, and the first word
of an extended header. The tags stand for what the code tells by the low bit
of a rotated word. Objects have headers of two or three words (three or four
in the code, whose two words of header bits before the size are one here) and
are laid out as `OldShapes` and `YoungShapes` say, after the nil, the
residue object and an association of the libraries, the roots, and the
array of `rescuedEphemerons`, which is the first object of old space.

| in the model | in the code |
|---|---|
| `StartCollection` | `markAndCompactArena()` up to `doCollect()`: `EqualChecker` copies the memory |
| `UnmarkRememberedSet` | `unmarkRememberedSet` .. `clearGlobalLookupCache` |
| `FollowWellKnownObjects` .. `FollowRescuedEphemerons` | `followAll` |
| `IgnoreSmallInteger` .. `ResumeScan` | `followCountStartingAt`, one slot a step |
| `Threaded` | `_threadWithAt` |
| `StartUnthreading`, `UpdateReference`, `EndUnthreading`, `SkipUnseen` | `setNewPositions`, one word of a list a step |
| `CompactObject` | `compact`, one object a step |
| `EndCollection` | `updateOldSpace` .. `resetFrom` |
| `newToOld`, `copy`, `MovedObjectsEqual` | `EqualChecker` |

The arrays that the collector allocates in old space, the local ones and those that
`allocateArrays` makes for the host, take no room here, and the caches of the
host are not there. Everything a compaction does to the arena of the program is.
`Memory` has the sizes of these arrays, and `ObjectHeap` has arrays among the
objects.

### GCSpace and Memory

Here objects are sizes, and the question is whether there is memory where they
are put. A space is the record of its limits. The fields of the code hold
addresses with bit 0 set, which Smalltalk takes for small integers; the model has
the addresses, in words, and where the bit gets into a computation the definition
gives what the code then computes. In `decommitSlack`, `SlackStart`
is one page further than one would think, and `SlackPages` reaches into the page
that starts at the limit. In `commitMoreMemoryIfNeeded` the extent ends at `NeededEnd`, one
byte beyond the new limit: if that is the start of a page, one more page is
committed, and at the end of a reservation the system refuses.

`host`, `memory` and `gc` are the four copies of each descriptor: those of the
host, of `Memory`, and of the two collectors, which keep those of their last run.
`backed` is the set of addresses that can be accessed. `running` is the collector
at work, `pc` the phase it is in, and `remaining` what this phase has left
to allocate (while a scavenge runs, what it has moved so far). An allocation may
be of any size up to that, so the objects and arrays are cut in every way.

| in the model | in the code |
|---|---|
| `AllocateIfPossible` | `allocateIfPossible`, by the host |
| `StartCollection`, `EndCollection` | `updateFromHostVM` and `updateFromMemory`; `updateToMemory` and `updateToHostVM` |
| `SetUpLocals` | `initLocals`, which gives the arrays old space |
| `AllocateUnsafe` | `allocateUnsafe`, `commitMoreMemory`, `_commit` |
| `GrowArray` | `VMArray::grow`, of any array, during a traversal |
| `MoveTo`, `FlipSpaces` | `moveToOldOrTo`, `flipSpaces` |
| `DisableRememberedSet` .. `UpdateOldSpace` | `disableRememberedSet`, `initAuxSpace`, `setNewPositions`, `prepareForCompact` with `commitMoreMemoryIfNeeded`, `compact`, `updateOldSpace` |
| `AllocateArrays`, `EndCompaction` | `allocateArrays`; `resetFrom` and `decommitSlack` |

The system is that of Windows: `VirtualAlloc` and `VirtualFree` act on the whole
pages that an extent touches, refuse an extent that leaves its reservation, and
answer with an address rounded down to a page, which the code compares with the
one it asked for. `error()` and `osError()` stop the model (`pc = "stopped"`), with the end of what was
asked for and the limit of the reservation in `stopped`. `SizesAssumption` says that the arrays a
compaction makes for the host fit the padding of a commit (0x8000 bytes) with a
page to spare, as theirs do. `GuardAssumption` says that no other region is
reserved right behind old space. The code needs it: without it TLC finds a run in which
`decommitSlack`, with old space committed up to the end of its reservation, gives
back the first page of the space that begins there.

### ObjectFormat and ObjectHeap

`ObjectFormat` translates `oop_t`. A word is the set of its bits that are 1;
memory is a function from the byte addresses of words to words. Flags are at
their positions in the highest byte, the size of a basic object is in the
lowest one, the hash between; a forwarding address and the head of a list of
slots are rotated by 8 bits into the place of the header. `NumberBits` (9) bounds
addresses and sizes.

`ObjectHeap` runs both collectors, one after the other in any order, over such a
memory. `GenerationalGC` and `MarkAndCompactGC` have the order of the traversals;
here it is left open (`pending` is the set of slots yet to be followed, from
which any may be next), and what matters is that everything the collectors ask of
an object, and everything they do to it, goes through its bits, through
memory the other collector has left.

| in the model | in the code |
|---|---|
| `Allocate`, `Store`, `Drop` | the host, with the write barrier `Store` describes |
| `GrowArray` | `VMArray::grow`, which copies through `shallowCopyGrowingTo` |
| `StartScavenge` | `purgeRememberedSet`, `followRememberedSet` and `followStack` up to their first slot |
| `FollowProxy`, `Move` | `follow`: a slot that refers to a moved object, or to one that is moved now by `moveToOldOrTo` |
| `FollowEphemerons` | `rescueEphemerons`, of both |
| `FlipSpaces` | `makeRescuedEphemeronsNonWeak`, `fixWeakContainers`, `flipSpaces`, `cleanRememberedSet` |
| `StartCompaction` | `unmarkRememberedSet`, `disableRememberedSet`, `initAuxSpace`, `unseeWellKnownObjects` |
| `MarkInArena`, `MarkInLibrary`, `FixWeakContainer`, `FollowRescuedEphemerons` | `followAll` |
| `SetNewPosition`, `CompactObject`, `WalkedOn` | `setNewPositions` and `compact`, one object a step |
| `EndCompaction` | `updateOldSpace`, `makeRescuedEphemeronsNonWeak`, `allocateArrays`, `resetFrom` |

All arrays of the collectors are represented by one, `contents`: it is reserved
by each compaction, lies between the objects of old space, and may grow at any
time of a traversal. Its elements are not in memory; the lists (`weakContainers`,
`ephemerons`, `remembered`) are sets. The queue of rescued ephemerons is a row of
cells at fixed addresses, followed like roots. The objects of the libraries (nil,
the residue object, the empty array) are basic and without slots. Native code
and frames are not here. Memory that is free is cleared, so that states do not
differ in what nobody reads.

`shapes`, `objects`, `moved` and `threads` are history variables that say what the
bits ought to say: what was allocated, where headers begin, which objects were
moved where, which slots refer to an object. `seen` is as in `GenerationalGC`.

### ObjectMemory

`Collect` lets objects disappear that no reference leads to, never one that is
reachable; keeps temporaries, code and the slots of survivors as they are; sets a
tombstone in a weak slot exactly when what it referred to is gone; appends to the
queue only ephemerons whose key is dying, and makes the queued ones ordinary. What
is reachable (`Closed`, `Dying`) is defined by sets of objects closed under
strong references and under ephemerons whose key is in the set, without any
order of traversal.

## 3. Runs

Each run finishes within three minutes with two workers. The runs of arrays and of the
scavenger check for deadlock: the collector never gets stuck, and the program can
always start a collection. Those of `MarkAndCompactGC` and `ObjectHeap` bound the
collections, so the system does stop; that no compaction gets stuck is `CompactionEnds`.
In `Memory` the program stops when memory is exhausted, and `StopsOnlyWhenFull` says
that it does not stop otherwise: only when what it asks for, with the padding and
the byte of bit 0, ends beyond the reservation.

| run | config | checks | shows |
|---|---|---|---|
| `referenced_array` | `MCReferencedVMArray.cfg` | types, bounds of the array object, `DetachedOnlyByGrowth`, `DetachedIsFrozen`, refinement of `VMSequence` | growth by `add` (capacity 1 and 2, up to 4 elements: two growths in a row) and by `addAll` cannot be noticed by the collector; what host and collector see when they differ |
| `referer_lost` | `MCRefererLost.cfg` | `RefererFollowsContents`, violated | see section 4 |
| `scavenges` | `MCGenerationalGC.cfg` | all invariants, refinement of `ObjectMemory` | programs of 4 operations on plain objects, weak objects and ephemerons, with any number of scavenges: an object is copied, tenured, remembered and purged again, an ephemeron is rescued |
| `code` | `MCCodeGC.cfg` | refinement of `ObjectMemory` | native code with two places, methods, lookup cache: tenuring through code before the roots are followed |
| `ephemerons` | `MCEphemerons.cfg` | `StepsOfObjectMemory`, `NothingFloats`, `CollectionEnds` | every heap of two ephemerons of two slots and two keys: chains, cycles, an ephemeron that is the key of the other; and two ephemerons on one key, the queue through later scavenges, a program that takes from it |
| `rescued_once` | `MCRescuedOnce.cfg` | `RescuedOnce`, violated | see section 4 |
| `compact` | `MCCompact.cfg` | types, `ThreadsUndoable`, `CompactsAsPlanned`, `MovedObjectsEqual`, `StepsOfObjectMemory` | two compactions of every heap of two old plain objects, one with an extended header, and a young one; a root is dropped before, between or after |
| `compact_weak` | `MCCompactWeak.cfg` | `NoSlotThreadedTwice`, `NothingFoundLate`, `NothingFloats`, `StepsOfObjectMemory`, `CompactionEnds` | every heap of an old extended weak object and two young ephemerons of two slots and of one; the program takes one from the queue |
| `stale_weak` | `MCStaleWeak.cfg` | `MovedObjectsEqual`, violated | see section 4 |
| `headers` | `MCObjectHeap.cfg` | types, `WalksMeetObjects`, `FormatsKept`, `ReachedObjectsTold`, `RememberedForNext`, `StepsOfObjectMemory` | two collections of either kind with two operations of the program before, between or after them, on strings, plain and weak objects and ephemerons, basic and extended, new and to be tenured |
| `memory` | `MCMemory.cfg` | types, `Ordered`, `UsedMemoryCommitted`, `PlanIsCommitted`, `StopsOnlyWhenFull`, `AllocationsKept` | any number of collections of both kinds, from every committed size, until old space is exhausted |
| `locals_kept` | `MCLocalsKept.cfg` | `LocalsDiscarded`, violated | see section 4 |

The runs of `MCGenerationalGC` start from an empty heap, so that every state is
one a program reaches, but programs are short. Those of `MCHeapGC` start from
every heap of a given shape, with the remembered set that the write barrier leaves
behind; these heaps are reachable too, by longer programs.

**Bounds.** `SemiSize`, `OldSize`: the objects a space holds. Old space is large
enough in every run that it is never full, so no collection stops for that
reason: a step that finds it full would be reported as a deadlock. `RescuedSize`:
the entries of the queue, never more than needed for the same reason. `RememberedSize`
(8): more than any of these programs and heaps has old objects, so no set outgrows its
array; what happens beyond is stated with the proofs. `MaxOps`:
operations of the program; collections are not counted. Four operations are
enough to allocate an object, store a second one in it once the first was
tenured, and drop that one; native code has five, to embed a reference besides. Slots: one besides the behavior, which is
enough to refer to the next object and to be a key; two in `ephemerons`, where key and
value must differ. Two temporaries are needed to store one object in another.
`MaxArrays`, `MaxSize` bound the array runs: three arrays are two growths.

The heaps of `MarkAndCompactGC` have three objects: in old
space one that dies before one that stays, and a young one that moves after them.
One compaction reaches what matters in a heap, since every heap is an initial
one; two show that the first leaves marks, flags and spaces as it found them.
`QueueSize` is the number of ephemerons, so the queue has room for all.

In `MCObjectHeap` each heap has two objects in from space, and the program may
allocate two more; together the four heaps have each kind of header, bytes
with and without padding, weak slots and an ephemeron. Two collections are each
pair of scavenge and compaction, three arrays are the one of each compaction
and a growth. Old space begins at 48 and from space at 192, so that addresses have bit 7
set, where a flag byte says extended: a header that holds a link then looks
like an extended one, which is the case the two ways of reading a header
(`HeaderToObject` and `UnthreadedHeaderSizeInBytes`) exist for. TLC reaches the
write barrier, a last remembered object that keeps its flag, the queue, growth
and lists of three slots.

`MCMemory` has pages of two words, a padding of two pages, new spaces of one page and an
old space of five: a collection commits, gives back and runs out, also where only bit 0
reaches beyond the reservation. One new space
ends where old space starts, and a free page is behind it.

**Fairness.** `FairSpec` (of both collectors) and `FairHeapSpec` assume weak fairness of `Collector`:
a collection that has started takes steps until it ends. It is ordinary
sequential code and the program is suspended, so this is all that is assumed;
no action is assumed fair by itself, nor is the program.

**What the properties say.** `NoSlotForgotten` is the invariant behind the
traversal: a slot of an object that stays and still refers to the space being emptied is
ahead of some scan, or belongs to a remembered object yet to be followed, or is a
weak slot of an object in one of the lists. `RememberedSetComplete` is what
one scavenge leaves to the next. `RememberedFlagAgrees` ties the flag in the
header to the set at every step, because the write barrier and
`holdReferenceTo` look at the flag only. `NoObjectDuplicated` is about forwarding,
`NothingFloats` about exactness: a scavenge of new objects keeps nothing that
is dying. `CollectionEnds` is about the loop over the ephemerons, which
starts again as long as one of them had a live key.

`ThreadsUndoable` is the invariant behind threading: at any moment of the marking,
undoing every list gives back the memory from before, but for flags, tombstones in weak
slots and new entries of the queue. `NoSlotThreadedTwice`: no slot is looked
at again once it is in a list. `NothingFoundLate`: when the new positions are computed, no
weak object and no ephemeron waits to be dealt with. The code guarantees that only while
the queue is empty when the compaction starts (section 4, `stale_weak`). `CompactsAsPlanned` ties the two walks over the
arena: the second puts each object where the first said, and never over one that has
not moved. `MovedObjectsEqual` is what `EqualChecker` asserts after each compaction;
like it, the property does not see stale references into from space, which
`StepsOfObjectMemory` does.

`WalksMeetObjects`: whoever walks over a space meets its objects one after the other, with
right sizes and kinds of header, also where lists start in headers and after
collections of either kind. `FormatsKept`: an object keeps the header, flags and
size it was allocated with, and bytes keep what looks like a reference.
`ReachedObjectsTold`: during a traversal the header alone tells which objects were
reached and where they are, or who refers to them, although it holds an address
where flags were. `RememberedForNext` is `RememberedSetComplete` and
`RememberedFlagAgrees` across both collectors.

`Ordered` is what every subtraction of limits relies on. `UsedMemoryCommitted`
relates the limits to the pages of the system: nobody is handed memory that is not there,
and giving back takes nothing from any space. `PlanIsCommitted`: the copying of a
compaction needs no memory beyond what was committed for its plan, through
a second view of old space whose limits are older than those of the first.
`AllocationsKept` is an action property of the copies of descriptors: no step forgets
an allocation. `StepsOfSequence` says that growth, copies and the cell of the host
are invisible in the elements of an array.

For each property of each passing run `PROJECT.json` names a mutation of the code's
definitions that TLC finds to violate it; the mutated forms are the
definitions introduced by a comment with "Mutant".

## 4. Where code and documentation disagree

* **A shared array that grows is lost for the host** (`referer_lost`).
  `vm/GarbageCollector/GarbageCollector.h:91` says of the shared arrays "their
  referers need to be updated when the internal content is moved".
  `ReferencedVMArray::grow` does so, but is never called: `VMArray::add`
  (`VMArray.cpp:103`) calls the non-virtual `VMArray::grow`. After a growth the host's
  cell refers to the smaller array from before, which is not written any more
  (`DetachedIsFrozen`).
* **An ephemeron may be queued twice** (`rescued_once`). `testEphemeronOnce`
  (`tests/tests/GCFlipTest.cpp:157-183`) finds an ephemeron through two slots and
  expects one entry in the queue. When a remembered object refers to an
  ephemeron of the second generation, moving it tells it to the list of
  ephemerons and enters it in the remembered set, which is being followed: the
  loop comes to it and tells it again. `ObjectMemory` allows for that: an entry
  more is not a wrong object.
* **A weak object that only the queue keeps alive is not updated**
  (`stale_weak`). `followAll` (`MarkAndCompactGC.cpp:148-150`) follows the
  rescued ephemerons of earlier collections after it has fixed the weak
  containers. A weak object found there, such as the key of an ephemeron that the
  program has not taken yet, is never fixed: when what it refers to moves, its
  slot keeps the old address. `EqualChecker::checkAllEqual`, which `dll.cpp:109` calls
  after each compaction, reports it. The passing runs therefore compact once with
  ephemerons in the heap, and their queues are empty when the compaction starts.

* **The local arrays of a scavenge stay in old space** (`locals_kept`).
  `GarbageCollector.h:98` says of them "temporary growable arrays, they are
  discarded when GC finishes". `initLocals` (`GarbageCollector.cpp:37-44`) gives them
  old space: `localSpace` is not used for it. What a scavenge has allocated
  there is counted in `oldSpace.nextFree` from then on, until a compaction.

`unmarkRememberedSet` (`MarkAndCompactGC.cpp:59`) stops before the last remembered
object. An object of the arena loses the flag when it is copied, as
`RememberedForNext` shows, where any remembered object may be the last. An object of a library keeps it although
the set is new; library objects are not remembered in `ObjectHeap`, and what a later
scavenge would miss is on the list of hazards.

## 5. Proofs

Checked by TLAPS for all values of the constants, under the assumptions declared
with them: sizes are natural numbers, spaces and objects not empty, the kinds of
objects are the three there are, nil is not an element.

`VMArrayProofs`. The inductive invariant adds to the types that the slots in use
hold elements, and that the size stays below that of the array object; `pop`
needs the guard of its callers. Proved from it: `TypeCorrect`,
`ElementsStayInside`, `ElementsAreAdded`, and `Refinement`, that `VMArray` implements
`VMSequence`: each action maps to one of the abstract ones, growth to the push
that caused it.

The shared array, in the same module. `ReferencedTypeCorrect`, and `OnlyGrowthDetaches`: by
induction, the contents never gets smaller than the array the host sees while
they differ. `SharedArrayIsSequence`: the refinement, carried over to the shared array; a
step is one of the sequence, or the one that takes over what the host put into
its cell. `HostsArrayIsFrozen` (`DetachedIsFrozen`): whatever a step writes in place or
allocates is the array in use, never the one the host holds alone.

`MemoryProofs`. For every page size, padding, placement of the regions and sizes
within the assumptions: `MemoryTypeCorrect`, `LimitsOrdered`, `UsedIsCommitted`,
`PlanCommitted`, `StopsFull` (each an invariant that `memory` checks) and
`DescriptorsPassedOn` (`AllocationsKept`). But for the types they are not inductive. The invariant `Inv` says
in addition which region each descriptor describes (`Described`: base and reserved
limit are those of the region, the new spaces exchange theirs), what is behind the
second view of old space in each phase (`AuxOK`), and that the committed limit
either starts a page or leaves room for what is still to be allocated (`OldOK`,
`AlignedOrRoom`). This last part is why a commit is never refused: `commitMoreMemoryIfNeeded`
leaves a limit inside a page, at which `_commit` would fail, and only because the
six arrays fit what it committed does `decommitSlack` come first and round it.
There are lemmas for rounding, for extents and pages, and for each operation of a space.

`ObjectFormat`, in `MemoryProofs` too. `ForwardingFound`: an even address put in the place of a
header by `_setProxee` is told from one and read back, for every word of 32 bits.
`ThreadingFound`: `_threadWithAt` marks the object, leads from its header to the slot,
keeps what the header held in the slot, and changes nothing else. The lemmas are about
rotation and the lowest bit.

`GenerationalGCProofs`. `AlwaysInv` with `Inv == CollectorTypeOK /\ ScansInside /\
RescuesAnUnknown`, where `CollectorTypeOK` is `TypeOK` without `detached`. The types are not inductive alone: a step of the traversal writes
a slot of the object it scans, which keeps `slots` a table of slots only if that
slot exists, hence the bounds of the current scan and of all suspended ones;
and the scan of an ephemeron needs that the index of the loop is one of the
unknowns. One lemma per action; helper lemmas for the layout of addresses, slots
written and copied, moves, and sequences. `TypeCorrect` and `ScansStayInside` follow.

**What is proved while the host has the remembered set.** When a scavenge ends with a set that
has outgrown its array, the next one misses entries (section 4, `referer_lost`), and with
them whatever depends on the set being complete. `HostHasTheSet` says that no
scavenge ends like that. `FlagTellsTheSet`, the theorems of `ScavengeProofs` and those of
`ScavengeRefinement` have the form `Spec /\ []HostHasTheSet => ...`: of any heap and
program, as long as the set never has to grow while the collector adds to it. They need it: with
`RememberedSize = 1` in `MCGenerationalGC.cfg` TLC finds two objects tenured at once, the
second of which has the flag and is not in the set after the scavenge. The
hypothesis is about the last step of `doCollect` only: until then the collector has the
larger array, and all it does is right. `TypeCorrect` and `ScansStayInside` hold without it.

The remembered set, in the same module. `FlagTellsTheSet` (`RememberedFlagAgrees`): at every step, for
every live object, the flag in its header says whether it is in the set, and the
set has nothing twice. For the induction `RememberedInv` adds what the set
contains: only old objects, and none of the space that is emptied, so that a copy
never inherits a flag from the header it is made of. It follows that
`cleanRememberedSet` never finds anything to remove (`NothingToClean`).

`ScavengeProofs`. Four invariants of `scavenges`, for heaps, graphs and programs of
any size that `HostHasTheSet` holds of: `NoSlotIsForgotten`, `RememberedForTheNext`, `NothingDangles`,
`NothingDuplicated`. They need each other, so that they follow from one inductive
invariant, `HeapInv` (`AlwaysHeapInv`). Its parts, and why each is there:

* `NothingForgotten` is `NoSlotForgotten` with the unknown ephemerons still to be
  rescued in the place of all of them; `rescueEphemerons` follows them one by one, and
  a slot of one that was followed may not count as known. `ScansStay` says that
  what is scanned does not move, `FoundInCopies` that neither does what was found, and
  at which calls of `doCollect` these arrays are empty.
* `SlotsValid` says that slots lead to objects, old or copied, `ProxiesLead` that
  forwarding addresses are only in from space and lead to copies,
  `ToSpaceFilled` that there are no copies before the remembered set is followed. At
  `flipSpaces` no scan is left, nothing is to be followed and nothing found is undecided:
  with `NothingForgotten`, no slot leads to what goes away.
* `ReferersKnown` is `RememberedSetComplete` at every step. The queue of rescued
  ephemerons is the exception: it refers to copies before it is remembered, from
  the first `rescueEphemeron` to the end of `rescueEphemerons` (`QueueToBeHeld`).
* `CacheKnown`, `MethodsKnown`, `LiteralsKnown`, `CodeKnown`: the lookup cache, nativized methods,
  literals and native code refer to new objects only while a flag of the host,
  or the index of the loop, shows that they are still to be dealt with. Native code may
  even refer to the space just emptied, between `flipSpaces` and
  `fixReferencesFromNativeMethods`, and then the list of literals has the answer.
* `HashesDistinct`: counting an object that moved only as its copy, identity hashes
  differ.

One lemma per action and part, except where many actions leave a part alone.

`ScavengeRefinement`. `ScavengerImplementsObjectMemory` (`ImplementsObjectMemory`): each
operation of the program is the one of `ObjectMemory`, `EndScavenge` is `Collect`, and
every other step leaves what is seen as it was. What a collection promises
relates its end to its beginning; `RefInv` carries that over all steps between, on top
of `HeapInv`. It compares the heap with `seen`, which stays as it was when the
collection began:

* `GraphShown`: an object, or its copy once it moved, has the kind and slots that were
  seen. `makeRescuedEphemeronsNonWeak` makes an exception for kinds,
  `fixWeakContainers` one for weak slots: from then on copies look as `Survivor` of
  `ObjectMemory` says. `Hash` is the identity of an object under its old and its new
  address, so that forwarding a slot changes nothing of this. `RootsShown`,
  `LiteralsShown` and `CodeShown` say the same of temporaries and native code.
* `KeysTold`: when nothing is left to traverse and no key of an unknown ephemeron was
  reached, the copies are a set closed under what `ObjectMemory` calls `Closed`, that
  contains its roots and misses these keys. So they are `Dying`, and the ephemerons
  are `Rescuable`, although rescuing the first of them copies the keys of the
  others. `QueueShown` keeps it until the end.
* `HashesNamed`: a copy has the hash of its original, and hashes are identities.

That reached objects survive is not part of `RefInv`: at the end every slot and root
leads to an object that survives (`HeapInv`), and they are the slots seen before.

`HeapsKeepWhatIsSeen` (`StepsOfObjectMemory`) says the same of the heaps `MCHeapGC` starts
from: whatever the kinds of the objects, as long as they fit in the spaces
(`HeapsAssumption`), and however they refer to each other. `HeapBegins` shows that
`HeapInv` and `RefInv` hold of every such heap, so neither depends on how the
program of `GenerationalGC` builds one.

`MarkingProofs` and `CompactionProofs`. A compaction does not keep even its types in every
instance: once a weak slot is stale (`stale_weak`), the next compaction follows it to a
place without an object, where `fixWeakContainers` reads a header that is none. What goes
wrong has one cause. `followAll` deals with ephemerons and weak objects, then follows the
queue of earlier collections, and what it finds there is dealt with by nobody.
`NothingFoundLate` says that nothing was found there, and the theorems say that this is
all it takes:

* `CompactorTypeCorrect` (`TypeOK`), `NoSlotIsThreadedTwice` (`NoSlotThreadedTwice`),
  `ThreadingLosesNothing` (`ThreadsUndoable`), `CompactionFollowsPlan`
  (`CompactsAsPlanned`) and `CompactionKeepsObjects` (`MovedObjectsEqual`, what
  `EqualChecker` asserts), each of every behaviour in which `NothingFoundLate` holds.
* `CompactionWithoutEphemerons`: all of these and `NothingFoundLate` itself, without a
  hypothesis on the behaviour, if no object is an ephemeron, whatever else is weak. Any
  number of collections. The queue stays empty then, so nothing is found through it.
* `FirstCollection`: all of these and `NothingFoundLate` itself, without a hypothesis, with
  weak objects and ephemerons, up to the start of a second collection. So the sequence of
  calls that `stale_weak` shows is not an accident of its instance: it takes an ephemeron and
  two collections.

They follow from one inductive invariant, `CycleInv` (`CycleInvariant`), which is one of four, by the phase. The phases
are described with the values of what the code no longer has, quantified: `u`, the
memory as it would be without lists; `L`, the list of slots of each object; `M`, the objects
marked; `T`, the slots still to be looked at.

* `QuietInv`, between collections: memory holds objects of the shapes of the spaces
  one behind the other, unmarked, and references lead to objects. `FirstQueue`: before
  a collection has marked, the queue leads nowhere. `Undisturbed`: nor does it ever, if there
  are no ephemerons.
* `MarkInv`: memory is `u` with the lists in `L` threaded through it. A marked object has a list
  of different slots, an unmarked one none. A slot that is not in a list is one that is
  still to be looked at, or belongs to an object not reached, or to a weak one in
  the list of weak containers, or is the key of an unknown ephemeron. The scans suspended in `stack` do not
  overlap, which is why no slot is threaded twice. `Narrow` carries
  `FirstCollection` and `CompactionWithoutEphemerons`: what the empty queue and the well-known
  objects lead to. `Entombed`, a part of it, says of heaps without ephemerons that weak
  slots are as before until the weak containers are fixed, and that then a
  tombstone stands only where the referent was not reached.
* `WalkInv`: the objects the walk has passed have their new addresses in the
  slots that refer to them and header bits in their headers; for the others the lists
  stand. In the middle of a list, a part of it is undone.
* `CompactInv`: what is in front of the second walk has been copied as planned, and what
  is behind it is as the first walk left it. A copy never reaches an object that has not moved, for
  new addresses grow with the old ones and do not exceed them.

That a list of any length is walked to its end (`BitsAfter`, `ListedAfter`) would be an
induction over data; the proof gives the list in `L` as its witness instead, and shows
by a least counterexample that the walk along it ends with the bits of the header. Sums of
sizes are functions over the indices of shapes, with the same kind of induction.

`CompactionRefinement`. `CompactorImplementsObjectMemory` (`StepsOfObjectMemory`): if no
object is an ephemeron, every step of the program is one of `ObjectMemory`,
`EndCollection` is `Collect`, and all the words that a collection writes in between are
not seen. `SeenInv`, on top of `CycleInv`, says what `seen` shows: between collections
the memory there is, during one the copy it began with. At `EndCollection`, `CompactInv`
gives the memory in terms of that copy, and

* `CompactOver`, `HashedNamed` and `NamedSays`: where the copy of a marked object is, that
  no two have one name, and that its name is the hash of its original;
* `CollectionSeen`: the marked objects are closed under the references in the copy and
  contain what roots and remembered set lead to, so what is reached is marked,
  and each marked object shows the kind and the slots it had, renamed. `WeakTold`
  says which weak slots became tombstones (`Buried`).

**Only model-checked.**

* Liveness (`CollectionEnds`, `CompactionEnds`).
* `NothingFloats` of both collectors. That of the scavenger holds of the heaps of its runs, not of every one: old
  objects keep what they refer to, and `pop` leaves what it returns in the array
  behind the queue, where it keeps objects alive until a push overwrites it. That of the compactor is
  about a queue that is empty when the collection starts, for the same reason.
* `StepsOfObjectMemory` of `MarkAndCompactGC` with ephemerons. After a first
  collection it may fail even when `NothingFoundLate` holds, when a plain object that only
  the queue reaches is found after weak slots were given tombstones. For a first
  collection it needs what `RefInv` is for the scavenger: which of the ephemerons that
  are queued have a key that was not reached, in terms of `Closed` and `Dying`.
* The invariants of `ObjectHeap`. The model makes no assumption on the number of bits, the
  alignment of shapes or the size of old space that would keep the program within what
  its addresses can hold: its instance does. `NumberOf` sums over the bits of a word with a
  fold over sets, of which the provers know nothing.

## 6. Not modelled

* The walk over stack frames, callback gaps and debug frames: one frame, scanned from 1. That the
  starts 3 and 9 fit `followCountStartingAt` is not checked.
* Small integers as values of slots, but for the sizes in arrays. That
  `checkReachablePropertyOf` looks at the header of a key that may be a small
  integer, and `fixReferencesOrSetTombstone` at that of a weak slot's value, is a
  hazard on the list: what the read finds is undefined.
* Growth of `rescuedEphemerons` and of the arrays of the code generator during a scavenge
  (section 4 says what it does to the host; `GenerationalGC` has that of the remembered
  set), the program's own growth of the remembered set, and old space running out in the middle of a traversal (in `Memory` the program
  stops then).
* What `error()` leaves behind: on Windows the process exits or reads a null
  pointer. `mmap` on Linux, where the address is a hint and nothing is given back. Where
  the host reserves its regions, which is not in the repository (`GuardAssumption`).
* Code that nothing in the repository calls: `growIfTime`, `commitMoreSpace`,
  `dispenseReservedSpace`, `commitDelta`, `percentageOfCommitedUsed`,
  `VMArray::includes`, `setBehavior`, `equalsStr`, `SanityChecker` apart from
  `EqualChecker`; and `base_3`, which is saved to the host and never read.
* The size of the copy that `EqualChecker` makes. `KnownObjects` and `SLLInfo`,
  which are addresses, and the attaching of the DLL.
* Library objects in the remembered set, native code and stack frames in
  `ObjectHeap`, and the capacity of its remembered set: the heaps of its run have a few
  objects each.

## 7. Plan

Done: the arrays with proofs of every safety property checked; `GenerationalGC` with
`ObjectMemory`, runs, and proofs of every property that `scavenges` checks;
`MarkAndCompactGC` with runs, proofs of its types and of every invariant of threading
and moving that they check, and that it implements `ObjectMemory` without ephemerons; `GCSpace` and `Memory` with proofs of every
property checked; `ObjectFormat` with proofs about headers, and `ObjectHeap`, both
collectors over one heap. Next, in this order:

1. That a first compaction implements `ObjectMemory` with ephemerons too, on top of
   `CycleInv`.
2. Assumptions on the layout of `ObjectHeap` under which `WalksMeetObjects` can be proved, with
   numbers of words that need no fold.
3. The stack walk, checked against a reference definition of the slots of a chain
   of frames.
4. Library objects with slots in `ObjectHeap`, so that the flag the last one of them keeps
   meets a later scavenge.
