------------------------------ MODULE GCSpace -------------------------------
(***************************************************************************)
(* The limits of a GCSpace, and how they move when memory is taken from    *)
(* the operating system and given back.                                    *)
(*                                                                         *)
(* A space is a part of a reservation of addresses:                        *)
(*                                                                         *)
(*   base <= nextFree <= commitedLimit <= reservedLimit                    *)
(*                                                                         *)
(* Objects are allocated at nextFree.  Memory below commitedLimit can be   *)
(* accessed, up to reservedLimit more can be committed.  softLimit is      *)
(* where the program stops allocating and asks for a collection.           *)
(*                                                                         *)
(* The fields hold addresses with bit 0 set, so that Smalltalk takes them  *)
(* for small integers; the code sets the bit (pointerConst) and clears it  *)
(* (asUObject) around its arithmetic.  Here they are the addresses, in     *)
(* words.  Where the bit gets into a computation, in decommitSlack and in  *)
(* commitMoreMemoryIfNeeded, the definition does what the code then        *)
(* computes.  regionBase, which is always the base, and base_3, which is   *)
(* written to the host and never read, are left out.                       *)
(***************************************************************************)
EXTENDS Integers

CONSTANTS
  Page,      \* 0x1000, the granularity of committed memory
  Padding    \* 0x8000, what is committed beyond the limit that is needed

ASSUME PageAssumption == Page \in Nat \ {0} /\ Padding \in Nat

(* The fields of a space, as they are kept in GCSpace and GCSpaceInfo. *)
Space == [base : Nat, nextFree : Nat, softLimit : Nat, commitedLimit : Nat, reservedLimit : Nat]

(* & -0x1000, and the pages an extent of addresses touches. *)
RoundDown(a) == a - (a % Page)
RoundUp(a) == RoundDown(a + Page - 1)
Aligned(a) == RoundDown(a) = a
Extent(first, last) == first .. last - 1
PagesOf(first, last) == Extent(RoundDown(first), RoundUp(last))

(* VirtualAlloc and VirtualFree work on the pages of one reservation.       *)
Within(first, last, reservations) ==
  \E r \in reservations : r.base <= RoundDown(first) /\ RoundUp(last) <= r.limit

(* allocateIfPossible: the program allocates below the soft limit. *)
FitsSoftly(space, size) == space.nextFree + size <= space.softLimit

(* Mutant: what is there before the allocation is compared. *)
FitsBefore(space, size) == space.nextFree <= space.commitedLimit

(* Mutant: allocates downwards. *)
TakingBelow(space, size) == [space EXCEPT !.nextFree = @ - size]

(* allocateUnsafe: the collectors allocate below the committed limit, and   *)
(* move that when they have to.                                             *)
FitsCommitted(space, size) == space.nextFree + size <= space.commitedLimit
Taking(space, size) == [space EXCEPT !.nextFree = @ + size]

Reset(space) == [space EXCEPT !.nextFree = space.base]

(* Mutant: the new limit is not rounded. *)
PaddedUnrounded(needed) == needed + Padding

(* commitMoreMemory commits from the limit to the padded one.  An error     *)
(* unless something is left of the reservation, and the system answers with *)
(* the very address it was asked for: it rounds that down to a page.        *)
Padded(needed) == RoundDown(needed + Padding)
CanCommitMore(space, needed, reservations) ==
  /\ needed < space.reservedLimit
  /\ space.commitedLimit < Padded(needed)
  /\ Within(space.commitedLimit, Padded(needed), reservations)
  /\ Aligned(space.commitedLimit)
CommittingMore(space, needed) == [space EXCEPT !.commitedLimit = Padded(needed)]

(* commitMoreMemoryIfNeeded commits from the base, and does not round.  It  *)
(* leaves bit 0 set at both ends, so the extent reaches one byte beyond the *)
(* new limit: into the next page, when the limit is aligned.                *)
NeedsMore(space) == space.nextFree > space.commitedLimit
NeededEnd(space) == space.nextFree + Padding + 1
CanCommitNeeded(space, reservations) ==
  /\ space.nextFree < space.reservedLimit
  /\ Within(space.base, NeededEnd(space), reservations)
CommittingNeeded(space) == [space EXCEPT !.commitedLimit = space.nextFree + Padding]

(* Mutant: rounds down instead of up. *)
SlackFromUsedPage(space) == RoundDown(space.nextFree)

(* decommitSlack keeps the pages up to the one after nextFree: with bit 0   *)
(* set, an aligned nextFree is already in the next page.  The size is odd   *)
(* for the same reason, so what is given back reaches into the page that    *)
(* starts at an aligned limit.  An extent that leaves the reservation is    *)
(* refused, which goes unnoticed.                                           *)
SlackStart(space) == RoundDown(space.nextFree + Page)
HasSlack(space) == space.commitedLimit >= SlackStart(space)
SlackPages(space, reservations) ==
  IF Within(SlackStart(space), space.commitedLimit + 1, reservations)
  THEN PagesOf(SlackStart(space), space.commitedLimit + 1)
  ELSE {}
WithoutSlack(space) == [space EXCEPT !.commitedLimit = SlackStart(space)]
=============================================================================
