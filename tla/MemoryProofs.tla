---------------------------- MODULE MemoryProofs ----------------------------
(***************************************************************************)
(* Theorems about Memory: for pages and reservations of any size, the      *)
(* limits of the spaces tell the truth about the memory of the system, and *)
(* collections stop only for want of it.  And about ObjectFormat, at the   *)
(* end: what the words in that memory mean.                                *)
(***************************************************************************)
EXTENDS Memory, ObjectFormat, TLAPS

USE DEF Extent

(***************************************************************************)
(* Pages.                                                                  *)
(***************************************************************************)
LEMMA PaddingCoversPage ==
  /\ Page \in Nat \ {0} /\ Padding \in Nat /\ Page + HostArraysSize <= Padding
  /\ HostArraysSize \in Nat \ {0} /\ LocalArraysSize \in Nat \ {0} /\ RememberedSize \in Nat
BY PageAssumption, SizesAssumption

LEMMA RoundDownBounds ==
  ASSUME NEW a \in Nat
  PROVE  RoundDown(a) \in Nat /\ RoundDown(a) <= a /\ a < RoundDown(a) + Page
BY PageAssumption, SMT DEF RoundDown

LEMMA RoundDownAligned == ASSUME NEW a \in Nat PROVE Aligned(RoundDown(a))
BY PageAssumption, SMTT(30) DEF RoundDown, Aligned

LEMMA RoundDownMonotonic ==
  ASSUME NEW a \in Nat, NEW b \in Nat, a <= b PROVE RoundDown(a) <= RoundDown(b)
BY PageAssumption, SMTT(30) DEF RoundDown

LEMMA MultiplesApart ==
  ASSUME NEW p \in Nat \ {0}, NEW k \in Int, NEW m \in Int, p * k < p * m + p
  PROVE  p * k <= p * m
<1>1. p * k < p * (m + 1)
  BY SMT
<1>2. k < m + 1
  BY <1>1, SMT
<1>3. QED
  BY <1>2, SMT

LEMMA Division ==
  ASSUME NEW p \in Nat \ {0}, NEW a \in Nat
  PROVE  a = p * (a \div p) + (a % p) /\ a \div p \in Int
BY SMT

(* Nothing is between an aligned address and the next one. *)
LEMMA RoundDownBelow ==
  ASSUME NEW a \in Nat, NEW b \in Nat, Aligned(b), a < b + Page
  PROVE  RoundDown(a) <= b
<1>1. a - (a % Page) = Page * (a \div Page) /\ b = Page * (b \div Page)
  BY Division, PageAssumption, SMT DEF RoundDown, Aligned
<1>2. Page * (a \div Page) < Page * (b \div Page) + Page
  BY <1>1, PageAssumption, SMT
<1>3. QED
  BY <1>1, <1>2, MultiplesApart, Division, PageAssumption DEF RoundDown

LEMMA RoundUpBounds ==
  ASSUME NEW a \in Nat PROVE RoundUp(a) \in Nat /\ a <= RoundUp(a)
BY PageAssumption, RoundDownBounds DEF RoundUp

LEMMA RoundUpBelow ==
  ASSUME NEW a \in Nat, NEW b \in Nat, Aligned(b), a <= b PROVE RoundUp(a) <= b
BY PageAssumption, RoundDownBelow DEF RoundUp

LEMMA PagesCover ==
  ASSUME NEW a \in Nat, NEW b \in Nat
  PROVE  Extent(a, b) \subseteq PagesOf(a, b) /\ PagesOf(a, b) \subseteq Nat
<1>1. RoundDown(a) \in Nat /\ RoundDown(a) <= a /\ RoundUp(b) \in Nat /\ b <= RoundUp(b)
  BY RoundDownBounds, RoundUpBounds
<1>2. QED
  BY <1>1 DEF PagesOf

(* Reservations do not overlap. *)
LEMMA OneReservation ==
  ASSUME NEW r \in Regions, NEW q \in Reservations, NEW a \in Nat,
         Reservation[r].base <= a, a < Reservation[r].limit, q.base <= a, a < q.limit
  PROVE  q = Reservation[r]
<1>1. PICK p \in Regions : q = Reservation[p]
  BY DEF Reservations
<1>2. /\ Reservation[r].base \in Nat /\ Reservation[r].limit \in Nat
      /\ q.base \in Nat /\ q.limit \in Nat
  BY <1>1, ReservationAssumption
<1>3. QED
  BY <1>1, <1>2, ReservationAssumption

(***************************************************************************)
(* One space.  The limits of a descriptor of region r are in order, and    *)
(* what is below the committed limit is backed.                            *)
(***************************************************************************)
Described(space, r, b) ==
  /\ space \in Space
  /\ space.base = Reservation[r].base
  /\ space.reservedLimit = Reservation[r].limit
  /\ space.base <= space.nextFree
  /\ space.nextFree <= space.commitedLimit
  /\ space.commitedLimit <= space.reservedLimit
  /\ Extent(space.base, space.commitedLimit) \subseteq b

LEMMA RegionFacts ==
  ASSUME NEW r \in Regions
  PROVE  /\ Reservation[r] \in Reservations
         /\ Reservation[r].base \in Nat /\ Reservation[r].limit \in Nat
         /\ Reservation[r].base < Reservation[r].limit
         /\ Aligned(Reservation[r].base) /\ Aligned(Reservation[r].limit)
BY ReservationAssumption DEF Reservations

LEMMA DescribedMonotonic ==
  ASSUME NEW space, NEW r, NEW b, NEW c, Described(space, r, b), b \subseteq c
  PROVE  Described(space, r, c)
BY DEF Described

LEMMA DescribedReset ==
  ASSUME NEW space, NEW r, NEW b, Described(space, r, b)
  PROVE  Described(Reset(space), r, b)
BY DEF Described, Reset, Space

(* Whoever commits within one reservation from an address of region r stays *)
(* in region r.                                                             *)
LEMMA WithinRegion ==
  ASSUME NEW r \in Regions, NEW a \in Nat, NEW b \in Nat, a < b,
         Reservation[r].base <= RoundDown(a), RoundDown(a) < Reservation[r].limit,
         Within(a, b, Reservations)
  PROVE  b <= Reservation[r].limit
<1>1. PICK q \in Reservations : q.base <= RoundDown(a) /\ RoundUp(b) <= q.limit
  BY DEF Within
<1>2. PICK p \in Regions : q = Reservation[p]
  BY DEF Reservations
<1>3. /\ RoundDown(a) \in Nat /\ RoundDown(a) <= a /\ b <= RoundUp(b) /\ RoundUp(b) \in Nat
      /\ q.limit \in Nat
  BY <1>2, RoundDownBounds, RoundUpBounds, RegionFacts
<1>4. q = Reservation[r]
  BY <1>1, <1>3, OneReservation
<1>5. QED
  BY <1>1, <1>3, <1>4

LEMMA PaddedBounds ==
  ASSUME NEW a \in Nat
  PROVE  Padded(a) \in Nat /\ Aligned(Padded(a)) /\ a <= Padded(a) /\ Padded(a) <= a + Padding
<1>1. a + Padding \in Nat
  BY PaddingCoversPage
<1>2. QED
  BY <1>1, RoundDownBounds, RoundDownAligned, PaddingCoversPage DEF Padded

(* commitMoreMemory commits what the new limit says. *)
LEMMA CommitMoreEffect ==
  ASSUME NEW r \in Regions, NEW b, NEW space, Described(space, r, b),
         NEW size \in Nat, ~FitsCommitted(space, size),
         CanCommitMore(space, space.nextFree + size, Reservations)
  PROVE  LET needed == space.nextFree + size
             new == Taking(CommittingMore(space, needed), size)
         IN  /\ Described(new, r, b \cup PagesOf(space.commitedLimit, Padded(needed)))
             /\ Aligned(new.commitedLimit)
             /\ new.nextFree = needed /\ new.softLimit = space.softLimit
             /\ space.commitedLimit <= new.commitedLimit
<1> DEFINE needed == space.nextFree + size
           limit == space.commitedLimit
           new == Taking(CommittingMore(space, needed), size)
<1>1. /\ needed \in Nat /\ limit \in Nat /\ limit < needed
      /\ space.base \in Nat /\ space.nextFree \in Nat /\ space.base <= limit
      /\ needed < Reservation[r].limit /\ Reservation[r].base <= limit
  BY DEF FitsCommitted, Described, Space, CanCommitMore
<1>2. Padded(needed) \in Nat /\ Aligned(Padded(needed)) /\ needed <= Padded(needed)
  BY <1>1, PaddedBounds
<1>3. Within(limit, Padded(needed), Reservations) /\ RoundDown(limit) = limit
  BY DEF CanCommitMore, Aligned
<1>4. Padded(needed) <= Reservation[r].limit
  BY <1>1, <1>2, <1>3, RegionFacts, WithinRegion
<1>5. /\ new = [space EXCEPT !.commitedLimit = Padded(needed), !.nextFree = needed]
      /\ new \in Space
  BY <1>1, <1>2 DEF Taking, CommittingMore, Described, Space
<1>6. Extent(space.base, Padded(needed)) \subseteq b \cup PagesOf(limit, Padded(needed))
  <2>1. Extent(limit, Padded(needed)) \subseteq PagesOf(limit, Padded(needed))
    BY <1>1, <1>2, PagesCover
  <2>2. Extent(space.base, limit) \subseteq b
    BY DEF Described
  <2>3. QED
    BY <1>1, <1>2, <2>1, <2>2
<1>7. /\ new.base = space.base /\ new.reservedLimit = space.reservedLimit
      /\ new.softLimit = space.softLimit /\ new.commitedLimit = Padded(needed)
      /\ new.nextFree = needed
  BY <1>5, <1>1, <1>2 DEF Described, Space
<1> HIDE DEF new, needed, limit
<1>8. Described(new, r, b \cup PagesOf(limit, Padded(needed)))
  BY <1>1, <1>2, <1>4, <1>5, <1>6, <1>7 DEF Described, limit, needed, Space
<1>9. QED
  BY <1>1, <1>2, <1>7, <1>8 DEF new, needed, limit

(* It fails only when the padded limit leaves the reservation.              *)
LEMMA CommitMoreFails ==
  ASSUME NEW r \in Regions, NEW b, NEW space, Described(space, r, b),
         Aligned(space.commitedLimit),
         NEW size \in Nat, ~FitsCommitted(space, size),
         ~CanCommitMore(space, space.nextFree + size, Reservations)
  PROVE  space.nextFree + size + Padding > space.reservedLimit
<1> DEFINE needed == space.nextFree + size
           limit == space.commitedLimit
<1>1. /\ needed \in Nat /\ limit \in Nat /\ limit < needed /\ Reservation[r].base <= limit
      /\ space.reservedLimit = Reservation[r].limit /\ space.nextFree \in Nat
  BY DEF FitsCommitted, Described, Space
<1> HIDE DEF needed
<1> SUFFICES ASSUME needed + Padding <= Reservation[r].limit PROVE FALSE
  BY <1>1, PaddingCoversPage, RegionFacts DEF needed
<1>2. /\ Padded(needed) \in Nat /\ needed <= Padded(needed)
      /\ Padded(needed) <= Reservation[r].limit /\ needed < Reservation[r].limit
  BY <1>1, PaddedBounds, PaddingCoversPage, RegionFacts
<1>3. RoundUp(Padded(needed)) <= Reservation[r].limit
  BY <1>2, RoundUpBelow, RegionFacts
<1>4. RoundDown(limit) = limit
  BY DEF Aligned
<1>5. Within(limit, Padded(needed), Reservations)
  BY <1>1, <1>3, <1>4, RegionFacts DEF Within
<1>6. CanCommitMore(space, needed, Reservations)
  BY <1>1, <1>2, <1>5 DEF CanCommitMore
<1>7. QED
  BY <1>6 DEF needed

(* commitMoreMemoryIfNeeded leaves a limit that is not a page's, but with   *)
(* the padding still free.                                                  *)
LEMMA CommitNeededEffect ==
  ASSUME NEW r \in Regions, NEW b, NEW space, Described(Reset(space), r, b), space \in Space,
         NeedsMore(space), CanCommitNeeded(space, Reservations)
  PROVE  LET new == Reset(CommittingNeeded(space))
         IN  /\ Described(new, r, b \cup PagesOf(space.base, NeededEnd(space)))
             /\ new.commitedLimit = space.nextFree + Padding
             /\ new.nextFree = space.base
<1> DEFINE limit == space.nextFree + Padding
           new == Reset(CommittingNeeded(space))
<1>1. /\ space.base = Reservation[r].base /\ space.reservedLimit = Reservation[r].limit
      /\ space.base \in Nat /\ space.nextFree \in Nat /\ limit \in Nat
      /\ space.base < limit /\ space.base < Reservation[r].limit
  BY PaddingCoversPage, RegionFacts DEF Described, Reset, Space, NeedsMore
<1>2. RoundDown(space.base) = space.base
  BY <1>1, RegionFacts DEF Aligned
<1>3. limit <= Reservation[r].limit
  <2> DEFINE last == NeededEnd(space)
  <2>1. Within(space.base, last, Reservations)
    BY DEF CanCommitNeeded
  <2>2. last \in Nat /\ space.base < last /\ last = limit + 1
    BY <1>1 DEF NeededEnd
  <2> HIDE DEF limit, last
  <2>3. last <= Reservation[r].limit
    BY <1>1, <1>2, <2>1, <2>2, WithinRegion, RegionFacts
  <2>4. QED
    BY <1>1, <2>2, <2>3, RegionFacts
<1>4. /\ new = [space EXCEPT !.commitedLimit = limit, !.nextFree = space.base]
      /\ new \in Space
  BY <1>1 DEF Reset, CommittingNeeded, Space
<1>5. Extent(space.base, limit) \subseteq PagesOf(space.base, NeededEnd(space))
  <2>1. limit + 1 \in Nat /\ space.base < limit + 1 /\ NeededEnd(space) = limit + 1
    BY <1>1 DEF NeededEnd, limit
  <2>2. Extent(space.base, limit + 1) \subseteq PagesOf(space.base, limit + 1)
    BY <1>1, <2>1, PagesCover
  <2>3. Extent(space.base, limit) \subseteq Extent(space.base, limit + 1)
    BY <1>1 DEF Extent
  <2>4. QED
    BY <2>1, <2>2, <2>3
<1>6. /\ new.base = space.base /\ new.reservedLimit = space.reservedLimit
      /\ new.nextFree = space.base /\ new.commitedLimit = limit
  BY <1>4, <1>1 DEF Space
<1> HIDE DEF new, limit
<1>7. Described(new, r, b \cup PagesOf(space.base, NeededEnd(space)))
  BY <1>1, <1>3, <1>4, <1>5, <1>6 DEF Described
<1>8. QED
  BY <1>6, <1>7 DEF new, limit

LEMMA CommitNeededFails ==
  ASSUME NEW r \in Regions, NEW b, NEW space, Described(Reset(space), r, b), space \in Space,
         NeedsMore(space), ~CanCommitNeeded(space, Reservations)
  PROVE  NeededEnd(space) > space.reservedLimit
<1> DEFINE limit == NeededEnd(space)
<1>1. /\ space.base = Reservation[r].base /\ space.reservedLimit = Reservation[r].limit
      /\ space.base \in Nat /\ space.nextFree \in Nat
      /\ limit \in Nat /\ limit = space.nextFree + Padding + 1
  BY PaddingCoversPage DEF Described, Reset, Space, NeededEnd
<1> HIDE DEF limit
<1> SUFFICES ASSUME limit <= Reservation[r].limit PROVE FALSE
  BY <1>1, RegionFacts DEF limit
<1>2. RoundDown(space.base) = space.base /\ RoundUp(limit) <= Reservation[r].limit
  BY <1>1, RoundUpBelow, RegionFacts DEF Aligned
<1>3. Within(space.base, limit, Reservations)
  BY <1>1, <1>2, RegionFacts DEF Within
<1>4. space.nextFree < space.reservedLimit
  BY <1>1, PaddingCoversPage, RegionFacts
<1>5. QED
  BY <1>3, <1>4 DEF CanCommitNeeded, limit

(* decommitSlack takes pages of old space only, and none below the new      *)
(* limit.                                                                   *)
LEMMA SlackEffect ==
  ASSUME NEW b, NEW space, Described(space, "old", b), HasSlack(space)
  PROVE  /\ Described(WithoutSlack(space), "old", b \ SlackPages(space, Reservations))
         /\ Aligned(WithoutSlack(space).commitedLimit)
         /\ \A a \in SlackPages(space, Reservations) :
              Reservation["old"].base <= a /\ a < Reservation["old"].limit
<1> DEFINE start == SlackStart(space)
           limit == space.commitedLimit
           new == WithoutSlack(space)
<1>1. /\ space.base \in Nat /\ space.nextFree \in Nat /\ limit \in Nat
      /\ space.base = Reservation["old"].base /\ space.base <= space.nextFree
      /\ space.reservedLimit = Reservation["old"].limit /\ limit <= Reservation["old"].limit
  BY DEF Described, Space
<1>2. start \in Nat /\ Aligned(start) /\ space.nextFree < start /\ start <= limit
  BY <1>1, PaddingCoversPage, RoundDownBounds, RoundDownAligned DEF SlackStart, HasSlack
<1>3. RoundDown(start) = start /\ RoundUp(limit + 1) \in Nat /\ limit + 1 <= RoundUp(limit + 1)
  BY <1>1, <1>2, RoundUpBounds DEF Aligned
<1>4. \A a \in SlackPages(space, Reservations) :
        start <= a /\ Reservation["old"].base <= a /\ a < Reservation["old"].limit
  <2>1. SUFFICES ASSUME Within(start, limit + 1, Reservations)
                 PROVE  RoundUp(limit + 1) <= Reservation["old"].limit
    BY <1>1, <1>2, <1>3, RegionFacts DEF SlackPages, PagesOf, Regions
  <2>2. PICK q \in Reservations : q.base <= start /\ RoundUp(limit + 1) <= q.limit
    BY <2>1, <1>3 DEF Within
  <2>3. PICK p \in Regions : q = Reservation[p]
    BY DEF Reservations
  <2>4. q.base \in Nat /\ q.limit \in Nat /\ start < q.limit
    BY <2>2, <2>3, <1>1, <1>2, <1>3, RegionFacts
  <2>5. CASE start < Reservation["old"].limit
    <3>1. q = Reservation["old"]
      BY <2>2, <2>4, <2>5, <1>1, <1>2, OneReservation DEF Regions
    <3>2. QED
      BY <3>1, <2>2
  <2>6. CASE start = Reservation["old"].limit
    <3>1. p = "old"
      BY <2>2, <2>3, <2>4, <2>6, ReservationAssumption, GuardAssumption DEF Regions
    <3>2. QED
      BY <3>1, <2>2, <2>3
  <2>7. QED
    BY <2>5, <2>6, <1>1, <1>2, RegionFacts DEF Regions
<1>5. /\ new = [space EXCEPT !.commitedLimit = start] /\ new \in Space
      /\ new.base = space.base /\ new.reservedLimit = space.reservedLimit
      /\ new.nextFree = space.nextFree /\ new.commitedLimit = start
  BY <1>1, <1>2 DEF WithoutSlack, Described, Space
<1>6. Extent(space.base, start) \subseteq b \ SlackPages(space, Reservations)
  BY <1>1, <1>2, <1>4 DEF Described
<1> HIDE DEF new, start, limit
<1>7. Described(new, "old", b \ SlackPages(space, Reservations))
  <2>1. start <= Reservation["old"].limit /\ space.base <= start /\ space.nextFree <= start
    BY <1>1, <1>2, RegionFacts DEF Regions
  <2>2. QED
    BY <1>1, <1>5, <1>6, <2>1 DEF Described
<1>8. QED
  BY <1>2, <1>4, <1>5, <1>7 DEF new

LEMMA NoSlackNoRoom ==
  ASSUME NEW space \in Space, ~HasSlack(space)
  PROVE  space.commitedLimit < space.nextFree + Page
<1>1. space.nextFree + Page \in Nat
  BY PaddingCoversPage DEF Space
<1>2. SlackStart(space) \in Nat /\ SlackStart(space) <= space.nextFree + Page
  BY <1>1, RoundDownBounds DEF SlackStart
<1>3. QED
  BY <1>1, <1>2 DEF HasSlack, Space

(***************************************************************************)
(* The three spaces of whoever works with them.                            *)
(***************************************************************************)
NewSpaceOK(space, r, b) ==
  /\ Described(space, r, b)
  /\ Aligned(space.commitedLimit)
  /\ space.softLimit <= space.commitedLimit

SpacesOK(sp, b) ==
  /\ \/ NewSpaceOK(sp["from"], "new1", b) /\ NewSpaceOK(sp["to"], "new2", b)
     \/ NewSpaceOK(sp["from"], "new2", b) /\ NewSpaceOK(sp["to"], "new1", b)
  /\ Described(sp["old"], "old", b)

(* Where the limit of a view of old space may lie within a page, room is    *)
(* left below it.                                                           *)
AlignedOrRoom(space, room) ==
  Aligned(space.commitedLimit) \/ space.nextFree + room <= space.commitedLimit

(* What the phase knows of the two views of old space.                      *)
OldOK(old) ==
  CASE pc = "allocateArrays" -> AlignedOrRoom(old, remaining + Page)
    [] pc = "decommitSlack"  -> AlignedOrRoom(old, Page)
    [] OTHER                 -> Aligned(old.commitedLimit)

AuxOK(aux) ==
  /\ pc = "followAll" => Described(Reset(aux), "old", backed) /\ Aligned(aux.commitedLimit)
  /\ pc = "prepareForCompact" =>
       /\ Described(Reset(aux), "old", backed) /\ Aligned(aux.commitedLimit)
       /\ aux.nextFree = aux.base + remaining
  /\ pc = "compact" =>
       /\ Described(aux, "old", backed) /\ AlignedOrRoom(aux, remaining + Padding)
       /\ aux.nextFree + remaining <= aux.commitedLimit
  /\ pc = "updateOldSpace" => Described(aux, "old", backed) /\ AlignedOrRoom(aux, Padding)

(* The inductive invariant: the properties themselves do not say in which   *)
(* region a space is, that limits are aligned or where there is room.       *)
Inv ==
  /\ TypeOK
  /\ StopsOnlyWhenFull
  /\ pc = "host" => SpacesOK(host, backed) /\ OldOK(host["old"])
  /\ pc \notin {"host", "stopped"} =>
       SpacesOK(gc[running], backed) /\ OldOK(gc[running]["old"]) /\ AuxOK(gc[running]["aux"])

LEMMA ResetType == ASSUME NEW space \in Space PROVE Reset(space) \in Space
BY DEF Reset, Space

LEMMA NewSpaceMonotonic ==
  ASSUME NEW space, NEW r, NEW b, NEW c, NewSpaceOK(space, r, b), b \subseteq c
  PROVE  NewSpaceOK(space, r, c)
BY DescribedMonotonic DEF NewSpaceOK

LEMMA SpacesMonotonic ==
  ASSUME NEW sp, NEW b, NEW c, SpacesOK(sp, b), b \subseteq c PROVE SpacesOK(sp, c)
BY NewSpaceMonotonic, DescribedMonotonic DEF SpacesOK

LEMMA AuxMonotonic ==
  ASSUME AuxOK(gc[running]["aux"]), backed \subseteq backed',
         UNCHANGED <<pc, remaining, gc, running>>
  PROVE  AuxOK(gc[running]["aux"])'
BY DescribedMonotonic DEF AuxOK, AlignedOrRoom

(* An allocation stops the program, or leaves a space whose limit tells the *)
(* truth.                                                                   *)
AllocationEffect(s, size, r, next) ==
  \/ /\ pc' = "stopped" /\ UNCHANGED gc /\ backed' = backed
     /\ stopped' \in [asked : Nat, limit : Nat]
     /\ stopped'.asked > stopped'.limit
  \/ /\ pc' = next /\ stopped' = stopped
     /\ backed \subseteq backed' /\ backed' \subseteq Nat
     /\ \E new \in Space :
          /\ gc' = [gc EXCEPT ![running][s] = new]
          /\ Described(new, r, backed')
          /\ new.nextFree = gc[running][s].nextFree + size
          /\ new.softLimit = gc[running][s].softLimit
          /\ gc[running][s].commitedLimit <= new.commitedLimit
          /\ \/ Aligned(new.commitedLimit)
             \/ new.commitedLimit = gc[running][s].commitedLimit

LEMMA AllocateEffect ==
  ASSUME TypeOK, NEW s \in Spaces \cup {"aux"}, NEW size \in Nat, NEW next,
         NEW r \in Regions, Described(gc[running][s], r, backed),
         Aligned(gc[running][s].commitedLimit) \/ FitsCommitted(gc[running][s], size),
         AllocateUnsafe(s, size, next)
  PROVE  AllocationEffect(s, size, r, next)
<1> DEFINE space == gc[running][s]
           needed == space.nextFree + size
<1>1. space \in Space /\ needed \in Nat
  BY DEF TypeOK, Space
<1>2. CASE /\ FitsCommitted(space, size)
           /\ gc' = [gc EXCEPT ![running][s] = Taking(space, size)]
           /\ pc' = next /\ UNCHANGED <<backed, stopped>>
  <2>1. /\ Taking(space, size) \in Space
        /\ Taking(space, size) = [space EXCEPT !.nextFree = needed]
    BY <1>1 DEF Taking, Space
  <2>2. Described(Taking(space, size), r, backed)
    BY <1>1, <1>2, <2>1 DEF Described, Space, FitsCommitted
  <2>3. /\ Taking(space, size).nextFree = needed
        /\ Taking(space, size).softLimit = space.softLimit
        /\ Taking(space, size).commitedLimit = space.commitedLimit
        /\ space.commitedLimit <= space.commitedLimit
    BY <1>1, <2>1 DEF Space
  <2>4. QED
    BY <1>2, <2>1, <2>2, <2>3 DEF AllocationEffect, TypeOK
<1>3. CASE /\ ~FitsCommitted(space, size)
           /\ CanCommitMore(space, needed, Reservations)
           /\ gc' = [gc EXCEPT ![running][s] = Taking(CommittingMore(space, needed), size)]
           /\ backed' = backed \cup PagesOf(space.commitedLimit, Padded(needed))
           /\ pc' = next /\ UNCHANGED stopped
  <2> DEFINE new == Taking(CommittingMore(space, needed), size)
  <2>1. /\ Described(new, r, backed') /\ Aligned(new.commitedLimit)
        /\ new.nextFree = needed /\ new.softLimit = space.softLimit
        /\ space.commitedLimit <= new.commitedLimit
    BY <1>3, CommitMoreEffect
  <2>2. new \in Space
    BY <2>1 DEF Described
  <2>3. backed' \subseteq Nat
    <3>1. space.commitedLimit \in Nat /\ Padded(needed) \in Nat
      BY <1>1, PaddedBounds DEF Space
    <3>2. PagesOf(space.commitedLimit, Padded(needed)) \subseteq Nat
      BY <3>1, PagesCover
    <3>3. QED
      BY <1>3, <3>2 DEF TypeOK
  <2> HIDE DEF new
  <2>4. QED
    BY <1>3, <2>1, <2>2, <2>3 DEF AllocationEffect, new
<1>4. CASE /\ ~FitsCommitted(space, size)
           /\ ~CanCommitMore(space, needed, Reservations)
           /\ Stop(space, needed + Padding)
  <2>1. needed + Padding > space.reservedLimit
    BY <1>4, CommitMoreFails
  <2>2. space.reservedLimit \in Nat /\ needed + Padding \in Nat
    BY <1>1, PaddingCoversPage DEF Space
  <2> HIDE DEF space, needed
  <2>3. QED
    BY <1>1, <1>4, <2>1, <2>2 DEF AllocationEffect, Stop
<1>5. QED
  BY <1>2, <1>3, <1>4 DEF AllocateUnsafe

LEMMA AllocationKeepsTypes ==
  ASSUME TypeOK, NEW s \in Spaces \cup {"aux"}, NEW size, NEW r, NEW next \in Phases,
         AllocationEffect(s, size, r, next)
  PROVE  /\ gc' \in [Collectors -> [Spaces \cup {"aux"} -> Space]]
         /\ backed' \subseteq Nat
         /\ stopped' \in [asked : Nat, limit : Nat]
         /\ pc' \in Phases
<1>1. CASE /\ pc' = "stopped" /\ gc' = gc /\ backed' = backed
           /\ stopped' \in [asked : Nat, limit : Nat]
  BY <1>1 DEF TypeOK, Phases
<1>2. CASE /\ pc' = next /\ stopped' = stopped /\ backed' \subseteq Nat
           /\ \E new \in Space : gc' = [gc EXCEPT ![running][s] = new]
  <2>1. PICK new \in Space : gc' = [gc EXCEPT ![running][s] = new]
    BY <1>2
  <2>2. gc' \in [Collectors -> [Spaces \cup {"aux"} -> Space]]
    BY <2>1 DEF TypeOK
  <2>3. QED
    BY <1>2, <2>2 DEF TypeOK
<1>3. \/ /\ pc' = "stopped" /\ gc' = gc /\ backed' = backed
         /\ stopped' \in [asked : Nat, limit : Nat]
      \/ /\ pc' = next /\ stopped' = stopped /\ backed' \subseteq Nat
         /\ \E new \in Space : gc' = [gc EXCEPT ![running][s] = new]
  BY DEF AllocationEffect
<1>4. QED
  BY <1>1, <1>2, <1>3

(* The space after an allocation that does not stop the program. *)
LEMMA SpaceAfterAllocation ==
  ASSUME TypeOK, NEW s \in Spaces \cup {"aux"}, NEW size, NEW r, NEW next,
         AllocationEffect(s, size, r, next), pc' # "stopped", UNCHANGED running
  PROVE  /\ pc' = next /\ backed \subseteq backed'
         /\ \A q \in (Spaces \cup {"aux"}) \ {s} : gc'[running'][q] = gc[running][q]
         /\ Described(gc'[running'][s], r, backed')
         /\ gc'[running'][s].nextFree = gc[running][s].nextFree + size
         /\ gc'[running'][s].softLimit = gc[running][s].softLimit
         /\ gc[running][s].commitedLimit <= gc'[running'][s].commitedLimit
         /\ \/ Aligned(gc'[running'][s].commitedLimit)
            \/ gc'[running'][s].commitedLimit = gc[running][s].commitedLimit
<1>1. PICK new \in Space :
          /\ gc' = [gc EXCEPT ![running][s] = new]
          /\ Described(new, r, backed')
          /\ new.nextFree = gc[running][s].nextFree + size
          /\ new.softLimit = gc[running][s].softLimit
          /\ gc[running][s].commitedLimit <= new.commitedLimit
          /\ \/ Aligned(new.commitedLimit)
             \/ new.commitedLimit = gc[running][s].commitedLimit
  BY DEF AllocationEffect
<1>2. /\ gc'[running'][s] = new
      /\ \A q \in (Spaces \cup {"aux"}) \ {s} : gc'[running'][q] = gc[running][q]
  BY <1>1 DEF TypeOK
<1>3. QED
  BY <1>1, <1>2 DEF AllocationEffect

(* A step that stops the program keeps the invariant. *)
LEMMA StoppingKeepsInv ==
  ASSUME Inv, TypeOK', pc' = "stopped", stopped'.asked > stopped'.limit PROVE Inv'
BY DEF Inv, StopsOnlyWhenFull

(* An allocation in old space keeps what is known of the three spaces. *)
LEMMA OldGrows ==
  ASSUME Inv, pc \notin {"host", "stopped"}, NEW size, NEW next,
         AllocationEffect("old", size, "old", next), pc' # "stopped", UNCHANGED running
  PROVE  SpacesOK(gc'[running'], backed')
<1>1. TypeOK /\ SpacesOK(gc[running], backed)
  BY DEF Inv
<1>2. /\ backed \subseteq backed' /\ Described(gc'[running']["old"], "old", backed')
      /\ gc'[running']["from"] = gc[running]["from"] /\ gc'[running']["to"] = gc[running]["to"]
  BY <1>1, SpaceAfterAllocation DEF Spaces
<1>3. SpacesOK(gc[running], backed')
  BY <1>1, <1>2, SpacesMonotonic
<1>4. QED
  BY <1>2, <1>3 DEF SpacesOK

(***************************************************************************)
(* The steps.                                                              *)
(***************************************************************************)
LEMMA InvInit == Init => Inv
<1> SUFFICES ASSUME Init PROVE Inv
  OBVIOUS
<1>1. PICK committed \in [Regions -> Addresses], nextFree \in Addresses :
       /\ \A r \in Regions : /\ Aligned(committed[r])
                             /\ committed[r] \in Reservation[r].base .. Reservation[r].limit
       /\ nextFree \in Reservation["old"].base .. committed["old"]
       /\ host = [from |-> InfoOf("new1", Reservation["new1"].base, committed["new1"]),
                  to   |-> InfoOf("new2", Reservation["new2"].base, committed["new2"]),
                  old  |-> InfoOf("old", nextFree, committed["old"])]
       /\ backed = UNION {Extent(Reservation[r].base, committed[r]) : r \in Regions}
  BY DEF Init
<1>2. ASSUME NEW r \in Regions, NEW used \in Reservation[r].base .. committed[r]
      PROVE  /\ Described(InfoOf(r, used, committed[r]), r, backed)
             /\ Aligned(InfoOf(r, used, committed[r]).commitedLimit)
             /\ InfoOf(r, used, committed[r]).softLimit = InfoOf(r, used, committed[r]).commitedLimit
             /\ InfoOf(r, used, committed[r]).softLimit \in Nat
             /\ InfoOf(r, used, committed[r]) \in Space
  <2>1. Extent(Reservation[r].base, committed[r]) \subseteq backed
    BY <1>1
  <2>2. /\ Reservation[r].base \in Nat /\ Reservation[r].limit \in Nat
        /\ committed[r] \in Nat /\ used \in Nat /\ committed[r] <= Reservation[r].limit
        /\ Reservation[r].base <= used /\ used <= committed[r] /\ Aligned(committed[r])
    BY <1>1, RegionFacts
  <2>3. InfoOf(r, used, committed[r]) \in Space
    BY <2>2 DEF InfoOf, Space
  <2>4. QED
    BY <2>1, <2>2, <2>3 DEF InfoOf, Described
<1> DEFINE base1 == Reservation["new1"].base
           base2 == Reservation["new2"].base
<1>3. /\ base1 \in base1 .. committed["new1"] /\ base2 \in base2 .. committed["new2"]
      /\ nextFree \in Reservation["old"].base .. committed["old"]
      /\ "new1" \in Regions /\ "new2" \in Regions /\ "old" \in Regions
  BY <1>1, RegionFacts DEF Regions
<1>4. /\ host["from"] = InfoOf("new1", base1, committed["new1"])
      /\ host["to"] = InfoOf("new2", base2, committed["new2"])
      /\ host["old"] = InfoOf("old", nextFree, committed["old"])
      /\ DOMAIN host = {"from", "to", "old"}
      /\ host = [s \in {"from", "to", "old"} |-> host[s]]
  BY <1>1
<1> DEFINE Good(space, r) ==
             /\ Described(space, r, backed) /\ Aligned(space.commitedLimit)
             /\ space.softLimit = space.commitedLimit /\ space.softLimit \in Nat
             /\ space \in Space
<1>5. ASSUME NEW r \in Regions, NEW used \in Reservation[r].base .. committed[r]
      PROVE  Good(InfoOf(r, used, committed[r]), r)
  BY <1>2
<1> HIDE DEF Good
<1>6. Good(host["from"], "new1")
  BY <1>3, <1>4, <1>5
<1>7. Good(host["to"], "new2")
  BY <1>3, <1>4, <1>5
<1>8. Good(host["old"], "old")
  BY <1>3, <1>4, <1>5
<1>9. host["from"] \in Space /\ host["to"] \in Space /\ host["old"] \in Space
  BY <1>6, <1>7, <1>8 DEF Good
<1>10. host \in [Spaces -> Space]
  BY <1>4, <1>9 DEF Spaces
<1>11. backed \subseteq Nat
  <2>1. ASSUME NEW r \in Regions PROVE Extent(Reservation[r].base, committed[r]) \subseteq Nat
    BY <1>1, RegionFacts
  <2>2. QED
    BY <1>1, <2>1
<1>12. gc \in [Collectors -> [Spaces \cup {"aux"} -> Space]]
  <2>1. host.old = host["old"]
    OBVIOUS
  <2>2. QED
    BY <1>9, <1>10, <2>1 DEF Init
<1>13. pc = "host" /\ TypeOK
  BY <1>10, <1>11, <1>12 DEF Init, TypeOK, Collectors, Phases
<1>14. NewSpaceOK(host["from"], "new1", backed) /\ NewSpaceOK(host["to"], "new2", backed)
  BY <1>6, <1>7, SMT DEF NewSpaceOK, Good
<1>15. Described(host["old"], "old", backed) /\ Aligned(host["old"].commitedLimit)
  BY <1>8 DEF Good
<1>16. QED
  BY <1>13, <1>14, <1>15 DEF Inv, SpacesOK, OldOK, StopsOnlyWhenFull

(* Allocation in old space, by whichever phase. *)
OldAfter(size) ==
  /\ SpacesOK(gc'[running'], backed') /\ backed \subseteq backed'
  /\ gc'[running']["aux"] = gc[running]["aux"]
  /\ gc'[running']["old"].nextFree = gc[running]["old"].nextFree + size
  /\ gc[running]["old"].commitedLimit <= gc'[running']["old"].commitedLimit
  /\ \/ Aligned(gc'[running']["old"].commitedLimit)
     \/ gc'[running']["old"].commitedLimit = gc[running]["old"].commitedLimit

LEMMA OldAllocation ==
  ASSUME Inv, pc \notin {"host", "stopped"},
         NEW size \in Nat, NEW next \in Phases \ {"host", "stopped"},
         AllocateUnsafe("old", size, next), UNCHANGED <<host, memory, running>>,
         remaining' \in Nat,
         \/ Aligned(gc[running]["old"].commitedLimit)
         \/ FitsCommitted(gc[running]["old"], size)
  PROVE  TypeOK' /\ (Inv' \/ (pc' = next /\ StopsOnlyWhenFull' /\ OldAfter(size)))
<1>1. TypeOK /\ Described(gc[running]["old"], "old", backed) /\ "old" \in Regions
      /\ "old" \in Spaces \cup {"aux"} /\ "aux" \in (Spaces \cup {"aux"}) \ {"old"}
  BY DEF Inv, SpacesOK, Regions, Spaces
<1>2. AllocationEffect("old", size, "old", next)
  BY <1>1, AllocateEffect
<1>3. TypeOK'
  <2>1. /\ gc' \in [Collectors -> [Spaces \cup {"aux"} -> Space]] /\ backed' \subseteq Nat
        /\ stopped' \in [asked : Nat, limit : Nat] /\ pc' \in Phases
    BY <1>1, <1>2, AllocationKeepsTypes
  <2>2. QED
    BY <1>1, <2>1 DEF TypeOK
<1>4. CASE pc' = "stopped"
  <2>1. stopped'.asked > stopped'.limit
    BY <1>2, <1>4 DEF AllocationEffect
  <2>2. QED
    BY <1>3, <1>4, <2>1, StoppingKeepsInv
<1>5. CASE pc' # "stopped"
  <2>1. SpacesOK(gc'[running'], backed')
    BY <1>2, <1>5, OldGrows
  <2>2. OldAfter(size) /\ pc' = next
    BY <1>1, <1>2, <1>5, <2>1, SpaceAfterAllocation DEF OldAfter
  <2>3. QED
    BY <1>3, <1>5, <2>2 DEF StopsOnlyWhenFull
<1>6. QED
  BY <1>3, <1>4, <1>5

(* Where only the alignment of old space is known, that is what remains.    *)
LEMMA PlainAllocationKeepsInv ==
  ASSUME Inv, pc \notin {"host", "stopped", "allocateArrays", "decommitSlack"},
         NEW size \in Nat, NEW next \in Phases \ {"host", "stopped", "allocateArrays", "decommitSlack"},
         AllocateUnsafe("old", size, next), UNCHANGED <<host, memory, running>>,
         remaining' \in Nat,
         pc' = next /\ OldAfter(size) => AuxOK(gc[running]["aux"])'
  PROVE  Inv'
<1>1. Aligned(gc[running]["old"].commitedLimit)
  BY DEF Inv, OldOK
<1>2. TypeOK' /\ (Inv' \/ (pc' = next /\ StopsOnlyWhenFull' /\ OldAfter(size)))
  BY <1>1, OldAllocation
<1>3. CASE pc' = next /\ StopsOnlyWhenFull' /\ OldAfter(size)
  <2>1. Aligned(gc'[running']["old"].commitedLimit)
    BY <1>1, <1>3 DEF OldAfter
  <2>2. OldOK(gc[running]["old"])'
    BY <1>3, <2>1 DEF OldOK
  <2>3. SpacesOK(gc[running], backed)'
    BY <1>3 DEF OldAfter
  <2>4. QED
    BY <1>2, <1>3, <2>2, <2>3 DEF Inv
<1>4. QED
  BY <1>2, <1>3

LEMMA InvSetUpLocals ==
  ASSUME Inv, NEW size \in 1 .. remaining, SetUpLocals(size) PROVE Inv'
<1> DEFINE start == IF running = "flipper" THEN "scavenge" ELSE "disableRememberedSet"
           next == IF size = remaining THEN start ELSE pc
<1>1. /\ pc = "setUpLocals" /\ AllocateUnsafe("old", size, next)
      /\ UNCHANGED <<host, memory, running>> /\ remaining' = remaining - size
  BY DEF SetUpLocals, AllocatePart
<1>2. remaining' \in Nat /\ size \in Nat
  BY <1>1 DEF Inv, TypeOK
<1>3. next \in {"setUpLocals", "scavenge", "disableRememberedSet"}
  BY <1>1
<1>4. pc' = next => AuxOK(gc[running]["aux"])'
  BY <1>3 DEF AuxOK
<1> HIDE DEF next
<1>5. QED
  BY <1>1, <1>2, <1>3, <1>4, PlainAllocationKeepsInv DEF Phases

LEMMA InvDisableRememberedSet ==
  ASSUME Inv, DisableRememberedSet PROVE Inv'
<1>1. /\ pc = "disableRememberedSet" /\ AllocateUnsafe("old", RememberedSize, "initAuxSpace")
      /\ UNCHANGED <<host, memory, running, remaining>>
  BY DEF DisableRememberedSet
<1>2. remaining' \in Nat /\ RememberedSize \in Nat
  BY <1>1, PaddingCoversPage DEF Inv, TypeOK
<1>3. pc' = "initAuxSpace" => AuxOK(gc[running]["aux"])'
  BY DEF AuxOK
<1>4. QED
  BY <1>1, <1>2, <1>3, PlainAllocationKeepsInv DEF Phases

LEMMA InvGrowArray ==
  ASSUME Inv, NEW size \in Sizes, GrowArray(size) PROVE Inv'
<1>1. /\ pc \in {"scavenge", "followAll"} /\ AllocateUnsafe("old", size, pc)
      /\ UNCHANGED <<host, memory, running, remaining>>
  BY DEF GrowArray
<1>2. remaining' \in Nat /\ size \in Nat
  BY <1>1, SizesAssumption DEF Inv, TypeOK
<1>3. ASSUME pc' = pc, OldAfter(size) PROVE AuxOK(gc[running]["aux"])'
  <2>1. gc'[running']["aux"] = gc[running]["aux"] /\ backed \subseteq backed'
    BY <1>3 DEF OldAfter
  <2>2. CASE pc = "scavenge"
    BY <1>3, <2>2 DEF AuxOK
  <2>3. CASE pc = "followAll"
    <3>1. Described(Reset(gc[running]["aux"]), "old", backed) /\ Aligned(gc[running]["aux"].commitedLimit)
      BY <2>3 DEF Inv, AuxOK
    <3>2. Described(Reset(gc[running]["aux"]), "old", backed')
      BY <2>1, <3>1, DescribedMonotonic
    <3>3. QED
      BY <1>3, <2>1, <2>3, <3>1, <3>2 DEF AuxOK
  <2>4. QED
    BY <1>1, <2>2, <2>3
<1>4. QED
  BY <1>1, <1>2, <1>3, PlainAllocationKeepsInv DEF Phases

LEMMA InvAllocateIfPossible ==
  ASSUME Inv, NEW size \in Sizes, AllocateIfPossible(size) PROVE Inv'
<1> DEFINE space == host["from"]
           new == Taking(space, size)
<1>1. /\ TypeOK /\ pc = "host" /\ size \in Nat /\ SpacesOK(host, backed) /\ OldOK(host["old"])
      /\ FitsSoftly(space, size) /\ host' = [host EXCEPT !["from"] = new]
      /\ UNCHANGED <<memory, gc, backed, running, remaining, stopped, pc>>
  BY SizesAssumption DEF AllocateIfPossible, Inv
<1>2. space \in Space
  BY <1>1 DEF TypeOK, Spaces
<1>3. new = [space EXCEPT !.nextFree = space.nextFree + size] /\ new \in Space
  BY <1>1, <1>2 DEF Taking, Space
<1>4. ASSUME NEW r, NewSpaceOK(space, r, backed) PROVE NewSpaceOK(new, r, backed)
  BY <1>1, <1>2, <1>3, <1>4 DEF NewSpaceOK, Described, FitsSoftly, Space
<1> HIDE DEF new, space
<1>5. /\ host'["from"] = new /\ host'["to"] = host["to"] /\ host'["old"] = host["old"]
      /\ host' \in [Spaces -> Space]
  BY <1>1, <1>3 DEF TypeOK, Spaces
<1>6. SpacesOK(host', backed)
  BY <1>1, <1>4, <1>5 DEF SpacesOK, space
<1>7. TypeOK'
  BY <1>1, <1>5 DEF TypeOK
<1>8. OldOK(host["old"])'
  BY <1>1, <1>5 DEF OldOK
<1>9. QED
  BY <1>1, <1>6, <1>7, <1>8 DEF Inv, StopsOnlyWhenFull

LEMMA InvStartCollection ==
  ASSUME Inv, NEW c \in Collectors, StartCollection(c) PROVE Inv'
<1>1. /\ TypeOK /\ pc = "host" /\ SpacesOK(host, backed) /\ OldOK(host["old"])
      /\ memory' = host /\ gc' = UpdateFromMemory(c) /\ running' = c
      /\ remaining' = LocalArraysSize /\ pc' = "setUpLocals"
      /\ UNCHANGED <<host, backed, stopped>>
  BY DEF StartCollection, Inv
<1>2. gc' = [gc EXCEPT ![c] = [s \in Spaces \cup {"aux"} |-> IF s \in Spaces THEN host[s] ELSE gc[c][s]]]
  BY <1>1 DEF UpdateFromMemory, TypeOK
<1>3. /\ gc' \in [Collectors -> [Spaces \cup {"aux"} -> Space]]
      /\ \A s \in Spaces : gc'[running'][s] = host[s]
  BY <1>1, <1>2 DEF TypeOK
<1>4. TypeOK'
  BY <1>1, <1>3, PaddingCoversPage DEF TypeOK, Phases
<1>5. SpacesOK(gc[running], backed)'
  <2>1. /\ gc'[running']["from"] = host["from"] /\ gc'[running']["to"] = host["to"]
        /\ gc'[running']["old"] = host["old"]
    BY <1>3 DEF Spaces
  <2>2. QED
    BY <1>1, <2>1 DEF SpacesOK
<1>6. OldOK(gc[running]["old"])' /\ AuxOK(gc[running]["aux"])'
  BY <1>1, <1>3 DEF OldOK, AuxOK, Spaces
<1>7. QED
  BY <1>1, <1>4, <1>5, <1>6 DEF Inv, StopsOnlyWhenFull

LEMMA InvMoveTo ==
  ASSUME Inv, NEW s \in {"to", "old"}, NEW size \in Sizes, MoveTo(s, size) PROVE Inv'
<1>1. /\ pc = "scavenge" /\ AllocateUnsafe(s, size, pc) /\ remaining' = remaining + size
      /\ UNCHANGED <<host, memory, running>>
  BY DEF MoveTo
<1>2. remaining' \in Nat /\ size \in Nat
  BY <1>1, SizesAssumption DEF Inv, TypeOK
<1>3. CASE s = "old"
  <2>1. pc' = pc => AuxOK(gc[running]["aux"])'
    BY <1>1 DEF AuxOK
  <2>2. QED
    BY <1>1, <1>2, <1>3, <2>1, PlainAllocationKeepsInv DEF Phases
<1>4. CASE s = "to"
  <2>1. /\ TypeOK /\ SpacesOK(gc[running], backed) /\ Aligned(gc[running]["old"].commitedLimit)
        /\ "to" \in Spaces \cup {"aux"}
    BY <1>1 DEF Inv, OldOK, Spaces
  <2>2. PICK r \in Regions :
          /\ NewSpaceOK(gc[running]["to"], r, backed)
          /\ \/ r = "new2" /\ NewSpaceOK(gc[running]["from"], "new1", backed)
             \/ r = "new1" /\ NewSpaceOK(gc[running]["from"], "new2", backed)
    BY <2>1 DEF SpacesOK, Regions
  <2>3. AllocationEffect("to", size, r, pc)
    BY <1>1, <1>2, <1>4, <2>1, <2>2, AllocateEffect DEF NewSpaceOK
  <2>4. TypeOK'
    <3>1. /\ gc' \in [Collectors -> [Spaces \cup {"aux"} -> Space]] /\ backed' \subseteq Nat
          /\ stopped' \in [asked : Nat, limit : Nat] /\ pc' \in Phases
      BY <1>1, <2>1, <2>3, AllocationKeepsTypes DEF Phases
    <3>2. QED
      BY <1>1, <1>2, <2>1, <3>1 DEF TypeOK
  <2>5. CASE pc' = "stopped"
    <3>1. stopped'.asked > stopped'.limit
      BY <1>1, <2>3, <2>5 DEF AllocationEffect
    <3>2. QED
      BY <2>4, <2>5, <3>1, StoppingKeepsInv
  <2>6. CASE pc' # "stopped"
    <3> DEFINE new == gc'[running']["to"]
    <3>1. /\ pc' = pc /\ backed \subseteq backed'
          /\ gc'[running']["from"] = gc[running]["from"] /\ gc'[running']["old"] = gc[running]["old"]
          /\ Described(new, r, backed')
          /\ new.softLimit = gc[running]["to"].softLimit
          /\ gc[running]["to"].commitedLimit <= new.commitedLimit
          /\ \/ Aligned(new.commitedLimit)
             \/ new.commitedLimit = gc[running]["to"].commitedLimit
      BY <1>1, <2>1, <2>3, <2>6, SpaceAfterAllocation DEF Spaces
    <3> HIDE DEF new
    <3>2. NewSpaceOK(new, r, backed')
      <4>1. gc[running]["to"] \in Space /\ new \in Space
        BY <2>2, <3>1 DEF NewSpaceOK, Described
      <4>2. QED
        BY <2>2, <3>1, <4>1 DEF NewSpaceOK, Space
    <3>3. SpacesOK(gc[running], backed')
      BY <2>1, <3>1, SpacesMonotonic
    <3>4. SpacesOK(gc[running], backed)'
      <4>1. Described(gc[running]["old"], "old", backed')
        BY <3>3 DEF SpacesOK
      <4>2. ASSUME NEW q, NewSpaceOK(gc[running]["from"], q, backed)
            PROVE  NewSpaceOK(gc[running]["from"], q, backed')
        BY <3>1, <4>2, NewSpaceMonotonic
      <4>3. QED
        BY <2>2, <3>1, <3>2, <4>1, <4>2 DEF SpacesOK, new
    <3>5. OldOK(gc[running]["old"])' /\ AuxOK(gc[running]["aux"])'
      BY <1>1, <2>1, <3>1 DEF OldOK, AuxOK
    <3>6. QED
      BY <1>1, <2>4, <2>6, <3>1, <3>4, <3>5 DEF Inv, StopsOnlyWhenFull
  <2>7. QED
    BY <2>5, <2>6
<1>5. QED
  BY <1>3, <1>4

LEMMA InvFlipSpaces ==
  ASSUME Inv, FlipSpaces PROVE Inv'
<1> DEFINE spaces == gc[running]
<1>1. /\ TypeOK /\ SpacesOK(spaces, backed) /\ Aligned(spaces["old"].commitedLimit)
      /\ spaces["from"] \in Space /\ spaces["to"] \in Space
  BY DEF FlipSpaces, Inv, OldOK, TypeOK, Spaces
<1>2. Reset(spaces["from"]) \in Space
  BY <1>1, ResetType
<1>3. /\ pc' = "done" /\ UNCHANGED <<host, memory, backed, running, remaining, stopped>>
      /\ gc' = [gc EXCEPT ![running] = [@ EXCEPT !["from"] = spaces["to"],
                                                 !["to"] = Reset(spaces["from"]),
                                                 !["aux"] = spaces["to"]]]
  BY DEF FlipSpaces
<1>4. /\ gc' \in [Collectors -> [Spaces \cup {"aux"} -> Space]]
      /\ gc'[running]["from"] = spaces["to"] /\ gc'[running]["to"] = Reset(spaces["from"])
      /\ gc'[running]["old"] = spaces["old"]
  BY <1>1, <1>2, <1>3 DEF TypeOK, Spaces
<1>5. TypeOK'
  BY <1>1, <1>3, <1>4 DEF TypeOK, Phases
<1>6. ASSUME NEW r, NewSpaceOK(spaces["from"], r, backed)
      PROVE  NewSpaceOK(Reset(spaces["from"]), r, backed)
  <2>1. Described(Reset(spaces["from"]), r, backed)
    BY <1>6, DescribedReset DEF NewSpaceOK
  <2>2. QED
    BY <1>1, <1>6, <2>1 DEF NewSpaceOK, Reset, Space
<1> HIDE DEF spaces
<1>7. SpacesOK(gc[running], backed)'
  BY <1>1, <1>3, <1>4, <1>6 DEF SpacesOK
<1>8. OldOK(gc[running]["old"])' /\ AuxOK(gc[running]["aux"])'
  BY <1>1, <1>3, <1>4 DEF OldOK, AuxOK
<1>9. QED
  BY <1>3, <1>5, <1>7, <1>8 DEF Inv, StopsOnlyWhenFull

LEMMA InvInitAuxSpace ==
  ASSUME Inv, InitAuxSpace PROVE Inv'
<1> DEFINE old == gc[running]["old"]
<1>1. /\ TypeOK /\ SpacesOK(gc[running], backed) /\ Aligned(old.commitedLimit)
      /\ old \in Space /\ Described(old, "old", backed)
  BY DEF InitAuxSpace, Inv, OldOK, SpacesOK, TypeOK, Spaces
<1>2. /\ Reset(old) \in Space /\ Described(Reset(old), "old", backed)
      /\ Reset(Reset(old)) = Reset(old) /\ Reset(old).commitedLimit = old.commitedLimit
  BY <1>1, ResetType, DescribedReset DEF Reset, Space
<1>3. /\ pc' = "followAll" /\ gc' = [gc EXCEPT ![running]["aux"] = Reset(old)]
      /\ UNCHANGED <<host, memory, backed, running, remaining, stopped>>
  BY DEF InitAuxSpace
<1> HIDE DEF old
<1>4. /\ gc' \in [Collectors -> [Spaces \cup {"aux"} -> Space]]
      /\ gc'[running]["aux"] = Reset(old)
      /\ \A s \in Spaces : gc'[running][s] = gc[running][s]
  BY <1>1, <1>2, <1>3 DEF TypeOK, Spaces
<1>5. TypeOK'
  BY <1>1, <1>3, <1>4 DEF TypeOK, Phases
<1>6. SpacesOK(gc[running], backed)' /\ OldOK(gc[running]["old"])'
  BY <1>1, <1>3, <1>4 DEF SpacesOK, OldOK, Spaces, old
<1>7. AuxOK(gc[running]["aux"])'
  BY <1>1, <1>2, <1>3, <1>4 DEF AuxOK
<1>8. QED
  BY <1>3, <1>5, <1>6, <1>7 DEF Inv, StopsOnlyWhenFull

LEMMA InvSetNewPositions ==
  ASSUME Inv, NEW live \in Nat, SetNewPositions(live) PROVE Inv'
<1> DEFINE aux == gc[running]["aux"]
           new == [aux EXCEPT !.nextFree = aux.base + live]
<1>1. /\ TypeOK /\ SpacesOK(gc[running], backed) /\ Aligned(gc[running]["old"].commitedLimit)
      /\ aux \in Space /\ Described(Reset(aux), "old", backed) /\ Aligned(aux.commitedLimit)
  BY DEF SetNewPositions, Inv, OldOK, AuxOK, TypeOK
<1>2. /\ new \in Space /\ Reset(new) = Reset(aux) /\ new.commitedLimit = aux.commitedLimit
      /\ new.nextFree = new.base + live
  <2>1. aux.base + live \in Nat
    BY <1>1 DEF Space
  <2>2. /\ new \in Space /\ new.base = aux.base /\ new.nextFree = aux.base + live
        /\ new.softLimit = aux.softLimit /\ new.commitedLimit = aux.commitedLimit
        /\ new.reservedLimit = aux.reservedLimit
    BY <1>1, <2>1 DEF Space
  <2>3. Reset(new) \in Space /\ Reset(aux) \in Space
    BY <1>1, <2>2, ResetType
  <2> HIDE DEF new, aux
  <2>4. /\ Reset(new).base = Reset(aux).base /\ Reset(new).nextFree = Reset(aux).nextFree
        /\ Reset(new).softLimit = Reset(aux).softLimit
        /\ Reset(new).commitedLimit = Reset(aux).commitedLimit
        /\ Reset(new).reservedLimit = Reset(aux).reservedLimit
    BY <1>1, <2>2 DEF Reset, Space
  <2>5. Reset(new) = Reset(aux)
    BY <2>3, <2>4 DEF Space
  <2>6. QED
    BY <2>2, <2>5
<1>3. /\ pc' = "prepareForCompact" /\ remaining' = live
      /\ gc' = [gc EXCEPT ![running]["aux"] = new]
      /\ UNCHANGED <<host, memory, backed, running, stopped>>
  BY <1>1 DEF SetNewPositions, TypeOK
<1> HIDE DEF new
<1>4. /\ gc' \in [Collectors -> [Spaces \cup {"aux"} -> Space]]
      /\ gc'[running]["aux"] = new
      /\ \A s \in Spaces : gc'[running][s] = gc[running][s]
  BY <1>1, <1>2, <1>3 DEF TypeOK, Spaces
<1>5. TypeOK'
  BY <1>1, <1>3, <1>4 DEF TypeOK, Phases
<1>6. SpacesOK(gc[running], backed)' /\ OldOK(gc[running]["old"])'
  BY <1>1, <1>3, <1>4 DEF SpacesOK, OldOK, Spaces
<1>7. AuxOK(gc[running]["aux"])'
  BY <1>1, <1>2, <1>3, <1>4 DEF AuxOK
<1>8. QED
  BY <1>3, <1>5, <1>6, <1>7 DEF Inv, StopsOnlyWhenFull

(* A step of the compactor that replaces the aux space.                     *)
LEMMA AuxReplaced ==
  ASSUME Inv, pc \in {"prepareForCompact", "compact"}, NEW new \in Space,
         gc' = [gc EXCEPT ![running]["aux"] = new], UNCHANGED <<host, memory, running, stopped>>,
         remaining' \in Nat, backed \subseteq backed', backed' \subseteq Nat,
         pc' \in {"compact", "updateOldSpace"}, AuxOK(new)'
  PROVE  Inv'
<1>1. TypeOK /\ SpacesOK(gc[running], backed) /\ Aligned(gc[running]["old"].commitedLimit)
  BY DEF Inv, OldOK
<1>2. /\ gc' \in [Collectors -> [Spaces \cup {"aux"} -> Space]]
      /\ gc'[running]["aux"] = new
      /\ \A s \in Spaces : gc'[running][s] = gc[running][s]
  BY <1>1 DEF TypeOK, Spaces
<1>3. TypeOK'
  BY <1>1, <1>2 DEF TypeOK, Phases
<1>4. SpacesOK(gc[running], backed')
  BY <1>1, SpacesMonotonic
<1>5. SpacesOK(gc[running], backed)' /\ OldOK(gc[running]["old"])'
  BY <1>1, <1>2, <1>4 DEF SpacesOK, OldOK, Spaces
<1>6. QED
  BY <1>2, <1>3, <1>5 DEF Inv, StopsOnlyWhenFull

LEMMA InvPrepareForCompact ==
  ASSUME Inv, PrepareForCompact PROVE Inv'
<1> PICK aux : aux = gc[running]["aux"]
  OBVIOUS
<1> DEFINE next == IF remaining = 0 THEN "updateOldSpace" ELSE "compact"
<1>1. /\ TypeOK /\ pc = "prepareForCompact" /\ remaining' = remaining /\ remaining \in Nat
      /\ aux \in Space /\ Described(Reset(aux), "old", backed) /\ Aligned(aux.commitedLimit)
      /\ aux.nextFree = aux.base + remaining /\ backed \subseteq Nat
      /\ UNCHANGED <<host, memory, running, remaining>>
      /\ next \in {"compact", "updateOldSpace"} /\ (next = "updateOldSpace" => remaining = 0)
      /\ aux.base \in Nat /\ aux.nextFree \in Nat /\ aux.commitedLimit \in Nat
  <2>1. /\ TypeOK /\ pc = "prepareForCompact" /\ remaining \in Nat /\ aux \in Space
        /\ backed \subseteq Nat /\ UNCHANGED <<host, memory, running, remaining>>
    BY DEF PrepareForCompact, Inv, TypeOK
  <2>2. /\ Described(Reset(aux), "old", backed) /\ Aligned(aux.commitedLimit)
        /\ aux.nextFree = aux.base + remaining
    BY <2>1 DEF Inv, AuxOK
  <2>3. QED
    BY <2>1, <2>2 DEF Space
<1>2. CASE /\ ~NeedsMore(aux) /\ gc' = [gc EXCEPT ![running]["aux"] = Reset(aux)]
           /\ pc' = next /\ UNCHANGED <<backed, stopped>>
  <2>1. /\ Reset(aux) \in Space /\ Reset(aux).nextFree = aux.base
        /\ Reset(aux).commitedLimit = aux.commitedLimit
    BY <1>1 DEF Reset, Space
  <2>2. aux.base + remaining <= aux.commitedLimit
    BY <1>1, <1>2 DEF NeedsMore
  <2> HIDE DEF next
  <2>3. AuxOK(Reset(aux))'
    BY <1>1, <1>2, <2>1, <2>2 DEF AuxOK, AlignedOrRoom
  <2>4. QED
    BY <1>1, <1>2, <2>1, <2>3, AuxReplaced
<1>3. CASE /\ NeedsMore(aux) /\ CanCommitNeeded(aux, Reservations)
           /\ gc' = [gc EXCEPT ![running]["aux"] = Reset(CommittingNeeded(aux))]
           /\ backed' = backed \cup PagesOf(aux.base, NeededEnd(aux))
           /\ pc' = next /\ UNCHANGED stopped
  <2> DEFINE new == Reset(CommittingNeeded(aux))
  <2>1. /\ Described(new, "old", backed') /\ new.commitedLimit = aux.nextFree + Padding
        /\ new.nextFree = aux.base
    BY <1>1, <1>3, CommitNeededEffect DEF Regions
  <2>2. new \in Space
    BY <2>1 DEF Described
  <2>3. /\ PagesOf(aux.base, NeededEnd(aux)) \subseteq Nat /\ Padding \in Nat
    <3>1. Padding \in Nat /\ NeededEnd(aux) \in Nat
      BY <1>1, PaddingCoversPage DEF NeededEnd
    <3>2. QED
      BY <1>1, <3>1, PagesCover
  <2> HIDE DEF new, next
  <2>4. /\ new.nextFree + remaining <= new.commitedLimit
        /\ new.nextFree + (remaining + Padding) <= new.commitedLimit
        /\ new.nextFree + Padding <= new.commitedLimit
    BY <1>1, <2>1, <2>3
  <2>5. AuxOK(new)'
    BY <1>1, <1>3, <2>1, <2>4 DEF AuxOK, AlignedOrRoom
  <2>6. backed \subseteq backed' /\ backed' \subseteq Nat
    BY <1>1, <1>3, <2>3
  <2>7. QED
    BY <1>1, <1>3, <2>2, <2>5, <2>6, AuxReplaced DEF new
<1>4. CASE NeedsMore(aux) /\ ~CanCommitNeeded(aux, Reservations) /\ Stop(aux, NeededEnd(aux))
  <2>1. NeededEnd(aux) > aux.reservedLimit
    BY <1>1, <1>4, CommitNeededFails DEF Regions
  <2>2. aux.reservedLimit \in Nat /\ NeededEnd(aux) \in Nat
    BY <1>1, PaddingCoversPage DEF Space, NeededEnd
  <2> HIDE DEF next
  <2>3. /\ pc' = "stopped" /\ UNCHANGED <<gc, backed>>
        /\ stopped' = [asked |-> NeededEnd(aux), limit |-> aux.reservedLimit]
    BY <1>4 DEF Stop
  <2>4. TypeOK'
    BY <1>1, <2>2, <2>3 DEF TypeOK, Phases
  <2>5. QED
    BY <2>1, <2>3, <2>4, StoppingKeepsInv
<1>5. QED
  BY <1>2, <1>3, <1>4 DEF PrepareForCompact

LEMMA InvCompact ==
  ASSUME Inv, NEW size \in 1 .. remaining, Compact(size) PROVE Inv'
<1> PICK aux : aux = gc[running]["aux"]
  OBVIOUS
<1> DEFINE next == IF size = remaining THEN "updateOldSpace" ELSE pc
<1>1. /\ TypeOK /\ pc = "compact" /\ AllocateUnsafe("aux", size, next)
      /\ aux \in Space /\ Described(aux, "old", backed) /\ AlignedOrRoom(aux, remaining + Padding)
      /\ aux.nextFree + remaining <= aux.commitedLimit
      /\ remaining' = remaining - size /\ UNCHANGED <<host, memory, running>>
      /\ aux.nextFree \in Nat /\ aux.commitedLimit \in Nat /\ remaining \in Nat
      /\ next \in {"compact", "updateOldSpace"} /\ (next = "updateOldSpace" => size = remaining)
  <2>1. /\ TypeOK /\ pc = "compact" /\ AllocateUnsafe("aux", size, next) /\ aux \in Space
        /\ remaining' = remaining - size /\ UNCHANGED <<host, memory, running>> /\ remaining \in Nat
    BY DEF Compact, AllocatePart, Inv, TypeOK
  <2>2. /\ Described(aux, "old", backed) /\ AlignedOrRoom(aux, remaining + Padding)
        /\ aux.nextFree + remaining <= aux.commitedLimit
    BY <2>1 DEF Inv, AuxOK
  <2>3. QED
    BY <2>1, <2>2 DEF Space
<1>2. size \in Nat /\ remaining' \in Nat /\ FitsCommitted(aux, size)
  BY <1>1 DEF FitsCommitted
<1> HIDE DEF next
<1>3. /\ gc' = [gc EXCEPT ![running]["aux"] = Taking(aux, size)] /\ pc' = next
      /\ UNCHANGED <<backed, stopped>>
  BY <1>1, <1>2 DEF AllocateUnsafe
<1> DEFINE new == Taking(aux, size)
<1>4. new = [aux EXCEPT !.nextFree = aux.nextFree + size] /\ new \in Space
  BY <1>1, <1>2 DEF Taking, Space
<1>5. new.nextFree = aux.nextFree + size /\ new.commitedLimit = aux.commitedLimit
  BY <1>1, <1>4 DEF Space
<1>6. Described(new, "old", backed)
  BY <1>1, <1>2, <1>4 DEF Described, Space, FitsCommitted
<1> HIDE DEF new
<1>7. AlignedOrRoom(new, remaining' + Padding) /\ new.nextFree + remaining' <= new.commitedLimit
  BY <1>1, <1>2, <1>5, PaddingCoversPage DEF AlignedOrRoom
<1>8. pc' = "updateOldSpace" => AlignedOrRoom(new, Padding)
  BY <1>1, <1>3, <1>7, PaddingCoversPage
<1>9. AuxOK(new)'
  BY <1>1, <1>3, <1>6, <1>7, <1>8 DEF AuxOK, AlignedOrRoom
<1>10. QED
  BY <1>1, <1>2, <1>3, <1>4, <1>9, AuxReplaced DEF new, TypeOK

LEMMA InvUpdateOldSpace ==
  ASSUME Inv, UpdateOldSpace PROVE Inv'
<1> PICK aux : aux = gc[running]["aux"]
  OBVIOUS
<1>1. /\ TypeOK /\ pc = "updateOldSpace" /\ SpacesOK(gc[running], backed) /\ aux \in Space
      /\ aux.nextFree \in Nat /\ aux.commitedLimit \in Nat
      /\ Described(aux, "old", backed) /\ AlignedOrRoom(aux, Padding)
  <2>1. TypeOK /\ pc = "updateOldSpace" /\ SpacesOK(gc[running], backed) /\ aux \in Space
    BY DEF UpdateOldSpace, Inv, TypeOK
  <2>2. QED
    BY <2>1 DEF Inv, AuxOK, Space
<1>2. /\ pc' = "allocateArrays" /\ remaining' = HostArraysSize
      /\ gc' = [gc EXCEPT ![running]["old"] = aux]
      /\ UNCHANGED <<host, memory, backed, running, stopped>>
  BY DEF UpdateOldSpace
<1>3. /\ gc' \in [Collectors -> [Spaces \cup {"aux"} -> Space]]
      /\ gc'[running]["old"] = aux
      /\ gc'[running]["from"] = gc[running]["from"] /\ gc'[running]["to"] = gc[running]["to"]
  BY <1>1, <1>2 DEF TypeOK, Spaces
<1>4. TypeOK'
  BY <1>1, <1>2, <1>3, PaddingCoversPage DEF TypeOK, Phases
<1>5. SpacesOK(gc[running], backed)'
  BY <1>1, <1>2, <1>3 DEF SpacesOK
<1>6. AlignedOrRoom(aux, remaining' + Page)
  BY <1>1, <1>2, PaddingCoversPage DEF AlignedOrRoom
<1>7. OldOK(gc[running]["old"])' /\ AuxOK(gc[running]["aux"])'
  BY <1>2, <1>3, <1>6 DEF OldOK, AuxOK, AlignedOrRoom
<1>8. QED
  BY <1>2, <1>4, <1>5, <1>7 DEF Inv, StopsOnlyWhenFull

LEMMA InvAllocateArrays ==
  ASSUME Inv, NEW size \in 1 .. remaining, AllocateArrays(size) PROVE Inv'
<1> PICK old : old = gc[running]["old"]
  OBVIOUS
<1> DEFINE next == IF size = remaining THEN "decommitSlack" ELSE pc
<1>1. /\ TypeOK /\ pc = "allocateArrays" /\ AllocateUnsafe("old", size, next)
      /\ remaining' = remaining - size /\ UNCHANGED <<host, memory, running>>
      /\ next \in {"allocateArrays", "decommitSlack"} /\ (next = "decommitSlack" => size = remaining)
      /\ remaining \in Nat /\ old \in Space
  BY DEF AllocateArrays, AllocatePart, Inv, TypeOK, Spaces
<1>2. AlignedOrRoom(old, remaining + Page) /\ old.nextFree \in Nat /\ old.commitedLimit \in Nat
  BY <1>1 DEF Inv, OldOK, Space
<1>3. size \in Nat /\ remaining' \in Nat
  BY <1>1
<1>4. Aligned(old.commitedLimit) \/ FitsCommitted(old, size)
  BY <1>1, <1>2, <1>3, PaddingCoversPage DEF AlignedOrRoom, FitsCommitted
<1>5. next \in Phases \ {"host", "stopped"}
  BY <1>1 DEF Phases
<1> HIDE DEF next
<1>6. TypeOK' /\ (Inv' \/ (pc' = next /\ StopsOnlyWhenFull' /\ OldAfter(size)))
  BY <1>1, <1>3, <1>4, <1>5, OldAllocation
<1>7. CASE pc' = next /\ StopsOnlyWhenFull' /\ OldAfter(size)
  <2> PICK new : new = gc'[running']["old"]
    OBVIOUS
  <2>1. /\ new.nextFree = old.nextFree + size /\ old.commitedLimit <= new.commitedLimit
        /\ Aligned(new.commitedLimit) \/ new.commitedLimit = old.commitedLimit
        /\ SpacesOK(gc'[running'], backed')
    BY <1>7 DEF OldAfter
  <2>2. new.commitedLimit \in Nat /\ new.nextFree \in Nat
    BY <1>1, <1>6 DEF TypeOK, Space, Spaces
  <2>3. AlignedOrRoom(new, remaining' + Page)
    BY <1>1, <1>2, <1>3, <2>1, <2>2, PaddingCoversPage DEF AlignedOrRoom
  <2>4. pc' = "decommitSlack" => AlignedOrRoom(new, Page)
    BY <1>1, <1>7, <2>3, PaddingCoversPage
  <2>5. OldOK(gc[running]["old"])' /\ AuxOK(gc[running]["aux"])'
    BY <1>1, <1>7, <2>3, <2>4 DEF OldOK, AuxOK, AlignedOrRoom
  <2>6. QED
    BY <1>1, <1>6, <1>7, <2>1, <2>5 DEF Inv
<1>8. QED
  BY <1>6, <1>7

(* What decommitSlack takes from old space leaves the other regions alone.  *)
LEMMA NewSpaceWithoutSlack ==
  ASSUME NEW r \in Regions \ {"old"}, NEW space, NEW b, NewSpaceOK(space, r, b), NEW pages,
         \A a \in pages : Reservation["old"].base <= a /\ a < Reservation["old"].limit
  PROVE  NewSpaceOK(space, r, b \ pages)
<1>1. /\ space.base \in Nat /\ space.commitedLimit \in Nat
      /\ space.base = Reservation[r].base /\ space.commitedLimit <= Reservation[r].limit
  BY DEF NewSpaceOK, Described, Space
<1>2. ASSUME NEW a \in Extent(space.base, space.commitedLimit) PROVE a \notin pages
  <2>1. /\ Reservation[r].limit \in Nat /\ Reservation[r].base \in Nat
        /\ Reservation["old"].limit \in Nat /\ Reservation["old"].base \in Nat
        /\ \/ Reservation[r].limit <= Reservation["old"].base
           \/ Reservation["old"].limit <= Reservation[r].base
    BY ReservationAssumption DEF Regions
  <2>2. QED
    BY <1>1, <2>1
<1>3. Extent(space.base, space.commitedLimit) \subseteq b \ pages
  BY <1>2 DEF NewSpaceOK, Described
<1>4. QED
  BY <1>3 DEF NewSpaceOK, Described

LEMMA InvEndCompaction ==
  ASSUME Inv, EndCompaction PROVE Inv'
<1> PICK old : old = gc[running]["old"]
  OBVIOUS
<1> PICK from : from = gc[running]["from"]
  OBVIOUS
<1> PICK new : new = IF HasSlack(old) THEN WithoutSlack(old) ELSE old
  OBVIOUS
<1> PICK pages : pages = IF HasSlack(old) THEN SlackPages(old, Reservations) ELSE {}
  OBVIOUS
<1>1. /\ TypeOK /\ pc = "decommitSlack" /\ SpacesOK(gc[running], backed)
      /\ AlignedOrRoom(old, Page) /\ old \in Space /\ from \in Space
      /\ Described(old, "old", backed) /\ backed \subseteq Nat
  <2>1. /\ TypeOK /\ pc = "decommitSlack" /\ SpacesOK(gc[running], backed)
        /\ old \in Space /\ from \in Space /\ backed \subseteq Nat
    BY DEF EndCompaction, Inv, TypeOK, Spaces
  <2>2. QED
    BY <2>1 DEF Inv, OldOK, SpacesOK
<1>2. /\ Described(new, "old", backed \ pages) /\ Aligned(new.commitedLimit)
      /\ \A a \in pages : Reservation["old"].base <= a /\ a < Reservation["old"].limit
  <2>1. CASE HasSlack(old)
    BY <1>1, <2>1, SlackEffect
  <2>2. CASE ~HasSlack(old)
    <3>1. old.commitedLimit < old.nextFree + Page
      BY <1>1, <2>2, NoSlackNoRoom
    <3>2. Aligned(old.commitedLimit)
      BY <1>1, <3>1, PaddingCoversPage DEF AlignedOrRoom, Space
    <3>3. backed \ {} = backed
      OBVIOUS
    <3>4. QED
      BY <1>1, <2>2, <3>2, <3>3
  <2>3. QED
    BY <2>1, <2>2
<1>3. new \in Space /\ Reset(from) \in Space
  BY <1>1, <1>2, ResetType DEF Described
<1>4. /\ gc' = [gc EXCEPT ![running] = [@ EXCEPT !["from"] = Reset(from), !["old"] = new]]
      /\ backed' = backed \ pages /\ pc' = "done"
      /\ UNCHANGED <<host, memory, running, remaining, stopped>>
  <2>1. backed' = backed \ pages
    <3>1. backed \ {} = backed
      OBVIOUS
    <3>2. QED
      BY <3>1 DEF EndCompaction
  <2>2. QED
    BY <2>1 DEF EndCompaction
<1>5. /\ gc' \in [Collectors -> [Spaces \cup {"aux"} -> Space]]
      /\ gc'[running]["from"] = Reset(from) /\ gc'[running]["to"] = gc[running]["to"]
      /\ gc'[running]["old"] = new
  BY <1>1, <1>3, <1>4 DEF TypeOK, Spaces
<1>6. TypeOK'
  BY <1>1, <1>4, <1>5 DEF TypeOK, Phases
<1>7. ASSUME NEW r \in Regions \ {"old"}, NewSpaceOK(from, r, backed)
      PROVE  NewSpaceOK(Reset(from), r, backed \ pages)
  <2>1. Described(Reset(from), r, backed)
    BY <1>7, DescribedReset DEF NewSpaceOK
  <2>2. NewSpaceOK(Reset(from), r, backed)
    BY <1>1, <1>7, <2>1 DEF NewSpaceOK, Reset, Space
  <2>3. QED
    BY <1>2, <2>2, NewSpaceWithoutSlack
<1>8. ASSUME NEW r \in Regions \ {"old"}, NewSpaceOK(gc[running]["to"], r, backed)
      PROVE  NewSpaceOK(gc[running]["to"], r, backed \ pages)
  BY <1>2, <1>8, NewSpaceWithoutSlack
<1>9. SpacesOK(gc[running], backed)'
  <2>1. "new1" \in Regions \ {"old"} /\ "new2" \in Regions \ {"old"}
    BY DEF Regions
  <2>2. \/ /\ NewSpaceOK(Reset(from), "new1", backed \ pages)
           /\ NewSpaceOK(gc[running]["to"], "new2", backed \ pages)
        \/ /\ NewSpaceOK(Reset(from), "new2", backed \ pages)
           /\ NewSpaceOK(gc[running]["to"], "new1", backed \ pages)
    BY <1>1, <1>7, <1>8, <2>1 DEF SpacesOK
  <2>3. QED
    BY <1>2, <1>4, <1>5, <2>2 DEF SpacesOK
<1>10. OldOK(gc[running]["old"])' /\ AuxOK(gc[running]["aux"])'
  BY <1>2, <1>4, <1>5 DEF OldOK, AuxOK
<1>11. QED
  BY <1>4, <1>6, <1>9, <1>10 DEF Inv, StopsOnlyWhenFull

LEMMA InvEndCollection ==
  ASSUME Inv, EndCollection PROVE Inv'
<1>1. /\ TypeOK /\ pc = "done" /\ SpacesOK(gc[running], backed)
      /\ Aligned(gc[running]["old"].commitedLimit)
  BY DEF EndCollection, Inv, OldOK
<1>2. /\ memory' = [s \in Spaces |-> gc[running][s]] /\ host' = memory'
      /\ remaining' = 0 /\ pc' = "host" /\ UNCHANGED <<gc, backed, running, stopped>>
  BY DEF EndCollection
<1>3. /\ host' \in [Spaces -> Space] /\ memory' \in [Spaces -> Space]
      /\ host'["from"] = gc[running]["from"] /\ host'["to"] = gc[running]["to"]
      /\ host'["old"] = gc[running]["old"]
  BY <1>1, <1>2 DEF TypeOK, Spaces
<1>4. TypeOK'
  BY <1>1, <1>2, <1>3 DEF TypeOK, Phases
<1>5. SpacesOK(host, backed)' /\ OldOK(host["old"])'
  BY <1>1, <1>2, <1>3 DEF SpacesOK, OldOK
<1>6. QED
  BY <1>2, <1>4, <1>5 DEF Inv, StopsOnlyWhenFull

LEMMA InvNext == Inv /\ [Next]_vars => Inv'
<1> SUFFICES ASSUME Inv, [Next]_vars PROVE Inv'
  OBVIOUS
<1>1. ASSUME NEW live \in 0 .. Used(gc[running]["old"]) + Used(gc[running]["from"]),
             SetNewPositions(live)
      PROVE  Inv'
  <2>1. gc[running]["old"] \in Space /\ gc[running]["from"] \in Space
    BY DEF Inv, TypeOK, Spaces
  <2>2. live \in Nat
    BY <2>1 DEF Used, Space
  <2>3. QED
    BY <1>1, <2>2, InvSetNewPositions
<1>2. CASE UNCHANGED vars
  <2>1. /\ TypeOK' /\ StopsOnlyWhenFull'
        /\ pc' = "host" => SpacesOK(host, backed)'
        /\ pc' \notin {"host", "stopped"} => SpacesOK(gc[running], backed)'
    BY <1>2 DEF vars, Inv, TypeOK, StopsOnlyWhenFull
  <2>2. /\ pc' = "host" => OldOK(host["old"])'
        /\ pc' \notin {"host", "stopped"} => OldOK(gc[running]["old"])'
    BY <1>2, SMT DEF vars, Inv, OldOK, AlignedOrRoom
  <2>3. pc' \notin {"host", "stopped"} => AuxOK(gc[running]["aux"])'
    BY <1>2, SMT DEF vars, Inv, AuxOK, AlignedOrRoom
  <2>4. QED
    BY <2>1, <2>2, <2>3 DEF Inv
<1>3. QED
  BY <1>1, <1>2, InvAllocateIfPossible, InvStartCollection, InvSetUpLocals, InvGrowArray, InvMoveTo,
     InvFlipSpaces, InvDisableRememberedSet, InvInitAuxSpace, InvPrepareForCompact, InvCompact,
     InvUpdateOldSpace, InvAllocateArrays, InvEndCompaction, InvEndCollection DEF Next

(* The invariant: in every reachable state each space lies in a region of   *)
(* its own, and limits are a page's, or leave room where they are not.      *)
THEOREM AlwaysInv == Spec => []Inv
BY InvInit, InvNext, PTL DEF Spec

(***************************************************************************)
(* What the invariant says of the spaces of whoever works with them.       *)
(***************************************************************************)
LEMMA CurrentSpaces ==
  ASSUME Inv, pc # "stopped"
  PROVE  /\ \A s \in Spaces : \E r \in Regions : Described(Current(s), r, backed)
         /\ \A s, q \in Spaces : s # q => Current(s).base # Current(q).base
<1> DEFINE sp == IF pc = "host" THEN host ELSE gc[running]
<1>1. SpacesOK(sp, backed)
  BY DEF Inv
<1>2. \A s \in Spaces : Current(s) = sp[s]
  BY DEF Current
<1> HIDE DEF sp
<1>3. PICK r1, r2 \in Regions \ {"old"} :
         /\ r1 # r2 /\ Described(sp["from"], r1, backed) /\ Described(sp["to"], r2, backed)
         /\ Described(sp["old"], "old", backed)
  BY <1>1 DEF SpacesOK, NewSpaceOK, Regions
<1>4. "old" \in Regions
  BY DEF Regions
<1>5. ASSUME NEW r \in Regions, NEW q \in Regions, r # q
      PROVE  Reservation[r].base # Reservation[q].base
  <2>1. /\ Reservation[r].base \in Nat /\ Reservation[r].limit \in Nat
        /\ Reservation[q].base \in Nat /\ Reservation[q].limit \in Nat
    BY RegionFacts
  <2>2. QED
    BY <1>5, <2>1, ReservationAssumption
<1>6. /\ sp["from"].base # sp["to"].base /\ sp["from"].base # sp["old"].base
      /\ sp["to"].base # sp["old"].base
  BY <1>3, <1>4, <1>5 DEF Described
<1>7. QED
  BY <1>2, <1>3, <1>4, <1>6 DEF Spaces

(* The descriptors of the host, of Memory and of the collectors are records *)
(* of addresses, for pages and reservations of any size.                    *)
THEOREM MemoryTypeCorrect == Spec => []TypeOK
<1>1. Inv => TypeOK
  BY DEF Inv
<1>2. QED
  BY <1>1, AlwaysInv, PTL

(* commitMoreMemory, commitMoreMemoryIfNeeded and decommitSlack keep the    *)
(* limits of a space in order, and flips and compactions hand them on.      *)
THEOREM LimitsOrdered == Spec => []Ordered
<1>1. Inv => Ordered
  <2> SUFFICES ASSUME Inv, pc # "stopped", NEW s \in Spaces
               PROVE  /\ Current(s).base <= Current(s).nextFree
                      /\ Current(s).nextFree <= Current(s).commitedLimit
                      /\ Current(s).commitedLimit <= Current(s).reservedLimit
    BY DEF Ordered
  <2>1. QED
    BY CurrentSpaces DEF Described
<1>2. QED
  BY <1>1, AlwaysInv, PTL

(* Whatever is committed and given back, what the spaces use stays backed   *)
(* by the system: decommitSlack rounds so that it never takes a used page.  *)
THEOREM UsedIsCommitted == Spec => []UsedMemoryCommitted
<1>1. Inv => UsedMemoryCommitted
  <2> SUFFICES ASSUME Inv, pc # "stopped", NEW s \in Spaces
               PROVE  Extent(Current(s).base, Current(s).nextFree) \subseteq backed
    BY DEF UsedMemoryCommitted
  <2>1. PICK r \in Regions : Described(Current(s), r, backed)
    BY CurrentSpaces
  <2>2. /\ Current(s).nextFree \in Nat /\ Current(s).commitedLimit \in Nat /\ Current(s).base \in Nat
        /\ Current(s).nextFree <= Current(s).commitedLimit
        /\ Extent(Current(s).base, Current(s).commitedLimit) \subseteq backed
    BY <2>1 DEF Described, Space
  <2>3. QED
    BY <2>2
<1>2. QED
  BY <1>1, AlwaysInv, PTL

(* prepareForCompact has committed what setNewPositions planned.            *)
THEOREM PlanCommitted == Spec => []PlanIsCommitted
<1>1. Inv => PlanIsCommitted
  BY DEF Inv, AuxOK, Described, PlanIsCommitted
<1>2. QED
  BY <1>1, AlwaysInv, PTL

(* commitMoreMemory fails only when the reservation has less than the       *)
(* padding left.                                                            *)
THEOREM StopsFull == Spec => []StopsOnlyWhenFull
<1>1. Inv => StopsOnlyWhenFull
  BY DEF Inv
<1>2. QED
  BY <1>1, AlwaysInv, PTL

(***************************************************************************)
(* What the steps keep.                                                    *)
(***************************************************************************)
SpacesKept ==
  \A s \in Spaces : Current(s)'.base = Current(s).base /\ Current(s).nextFree <= Current(s)'.nextFree

AllocationsKeptNext ==
  \A s, q \in Spaces : \/ Current(s).base # Current(q)'.base
                       \/ Current(s).nextFree <= Current(q)'.nextFree
                       \/ FlipSpaces \/ UpdateOldSpace \/ EndCompaction

LEMMA KeptSpaces == ASSUME Inv, pc # "stopped", SpacesKept PROVE AllocationsKeptNext
BY CurrentSpaces DEF SpacesKept, AllocationsKeptNext

LEMMA UnchangedSpacesKept ==
  ASSUME TypeOK, pc \in Phases \ {"host", "stopped"}, pc' # "host", UNCHANGED running,
         \A s \in Spaces : gc'[running'][s] = gc[running][s]
  PROVE  SpacesKept
<1>1. \A s \in Spaces : gc[running][s].nextFree \in Nat
  BY DEF TypeOK, Space
<1>2. QED
  BY <1>1 DEF SpacesKept, Current

(* An allocation moves nextFree up, or nothing. *)
LEMMA AllocationKeepsSpaces ==
  ASSUME TypeOK, pc \in Phases \ {"host", "stopped"}, NEW s \in Spaces \cup {"aux"},
         NEW size \in Nat, NEW next, next # "host", AllocateUnsafe(s, size, next), UNCHANGED running
  PROVE  SpacesKept
<1> DEFINE space == gc[running][s]
           needed == space.nextFree + size
<1>1. space \in Space /\ needed \in Nat /\ space.nextFree <= needed /\ Padded(needed) \in Nat
  BY PaddedBounds DEF TypeOK, Space
<1>2. CASE gc' = gc /\ pc' = "stopped"
  BY <1>2, UnchangedSpacesKept
<1>3. ASSUME NEW new \in Space, gc' = [gc EXCEPT ![running][s] = new], pc' = next,
             new.base = space.base, space.nextFree <= new.nextFree
      PROVE  SpacesKept
  <2>1. /\ gc'[running'][s] = new
        /\ \A q \in Spaces \ {s} : gc'[running'][q] = gc[running][q]
        /\ \A q \in Spaces : gc[running][q].nextFree \in Nat
    BY <1>3 DEF TypeOK, Space
  <2>2. QED
    BY <1>3, <2>1 DEF SpacesKept, Current
<1>4. /\ Taking(space, size) \in Space /\ Taking(space, size).base = space.base
      /\ Taking(space, size).nextFree = needed
  BY <1>1 DEF Taking, Space
<1>5. /\ Taking(CommittingMore(space, needed), size) \in Space
      /\ Taking(CommittingMore(space, needed), size).base = space.base
      /\ Taking(CommittingMore(space, needed), size).nextFree = needed
  BY <1>1 DEF Taking, CommittingMore, Space
<1>6. \/ gc' = gc /\ pc' = "stopped"
      \/ pc' = next /\ gc' = [gc EXCEPT ![running][s] = Taking(space, size)]
      \/ pc' = next /\ gc' = [gc EXCEPT ![running][s] = Taking(CommittingMore(space, needed), size)]
  BY DEF AllocateUnsafe, Stop
<1> HIDE DEF space, needed
<1>7. QED
  BY <1>1, <1>2, <1>3, <1>4, <1>5, <1>6

LEMMA StepKeepsAllocations ==
  ASSUME Inv, [Next]_vars PROVE AllocationsKeptNext \/ UNCHANGED vars
<1>1. TypeOK /\ Sizes \subseteq Nat
  BY SizesAssumption DEF Inv
<1>2. ASSUME NEW size \in Sizes, AllocateIfPossible(size) PROVE SpacesKept
  <2>1. host["from"] \in Space /\ size \in Nat /\ \A s \in Spaces : host[s].nextFree \in Nat
    BY <1>1 DEF TypeOK, Spaces, Space
  <2>2. /\ pc = "host" /\ pc' = "host"
        /\ host'["from"] = [host["from"] EXCEPT !.nextFree = host["from"].nextFree + size]
        /\ \A s \in Spaces \ {"from"} : host'[s] = host[s]
    BY <1>1, <1>2 DEF AllocateIfPossible, Taking, TypeOK, Spaces
  <2>3. /\ host'["from"].base = host["from"].base
        /\ host["from"].nextFree <= host'["from"].nextFree
    BY <2>1, <2>2 DEF Space
  <2>4. ASSUME NEW s \in Spaces
        PROVE  host'[s].base = host[s].base /\ host[s].nextFree <= host'[s].nextFree
    <3>1. CASE s = "from"
      BY <2>3, <3>1
    <3>2. CASE s # "from"
      BY <2>1, <2>2, <3>2
    <3>3. QED
      BY <3>1, <3>2
  <2>5. QED
    BY <2>2, <2>4 DEF SpacesKept, Current
<1>3. ASSUME NEW c \in Collectors, StartCollection(c) PROVE SpacesKept
  <2>1. /\ pc = "host" /\ pc' = "setUpLocals" /\ running' = c
        /\ \A s \in Spaces : gc'[c][s] = host[s] /\ host[s].nextFree \in Nat
    BY <1>1, <1>3 DEF StartCollection, UpdateFromMemory, TypeOK, Space
  <2>2. QED
    BY <2>1 DEF SpacesKept, Current
<1>4. ASSUME NEW size \in 1 .. remaining,
             SetUpLocals(size) \/ Compact(size) \/ AllocateArrays(size)
      PROVE  SpacesKept
  <2>1. size \in Nat /\ pc \in {"setUpLocals", "compact", "allocateArrays"} /\ UNCHANGED running
    BY <1>1, <1>4 DEF TypeOK, SetUpLocals, Compact, AllocateArrays
  <2>2. PICK s, next : s \in Spaces \cup {"aux"} /\ next # "host" /\ AllocateUnsafe(s, size, next)
    <3>1. "old" \in Spaces \cup {"aux"}
      BY DEF Spaces
    <3>2. CASE SetUpLocals(size)
      <4> DEFINE next == IF size = remaining
                         THEN IF running = "flipper" THEN "scavenge" ELSE "disableRememberedSet"
                         ELSE pc
      <4>1. AllocateUnsafe("old", size, next) /\ next # "host"
        BY <3>2 DEF SetUpLocals, AllocatePart
      <4>2. QED
        BY <3>1, <4>1
    <3>3. CASE Compact(size)
      <4> DEFINE next == IF size = remaining THEN "updateOldSpace" ELSE pc
      <4>1. AllocateUnsafe("aux", size, next) /\ next # "host"
        BY <3>3 DEF Compact, AllocatePart
      <4>2. QED
        BY <4>1
    <3>4. CASE AllocateArrays(size)
      <4> DEFINE next == IF size = remaining THEN "decommitSlack" ELSE pc
      <4>1. AllocateUnsafe("old", size, next) /\ next # "host"
        BY <3>4 DEF AllocateArrays, AllocatePart
      <4>2. QED
        BY <3>1, <4>1
    <3>5. QED
      BY <1>4, <3>2, <3>3, <3>4
  <2>3. QED
    BY <1>1, <2>1, <2>2, AllocationKeepsSpaces DEF Phases
<1>5. ASSUME NEW size \in Sizes, GrowArray(size) PROVE SpacesKept
  BY <1>1, <1>5, AllocationKeepsSpaces DEF GrowArray, Phases, Spaces
<1>6. ASSUME NEW s \in {"to", "old"}, NEW size \in Sizes, MoveTo(s, size) PROVE SpacesKept
  BY <1>1, <1>6, AllocationKeepsSpaces DEF MoveTo, Phases, Spaces
<1>7. ASSUME DisableRememberedSet PROVE SpacesKept
  BY <1>1, <1>7, PaddingCoversPage, AllocationKeepsSpaces DEF DisableRememberedSet, Phases, Spaces
<1>8. ASSUME NEW live, InitAuxSpace \/ SetNewPositions(live) \/ PrepareForCompact PROVE SpacesKept
  <2>1. /\ pc \in {"initAuxSpace", "followAll", "prepareForCompact"} /\ pc' # "host" /\ UNCHANGED running
        /\ gc' = gc \/ \E new : gc' = [gc EXCEPT ![running]["aux"] = new]
    <3>1. CASE InitAuxSpace
      BY <3>1 DEF InitAuxSpace
    <3>2. CASE SetNewPositions(live)
      <4>1. gc' = [gc EXCEPT ![running]["aux"] = [@ EXCEPT !.nextFree = gc[running]["aux"].base + live]]
        BY <3>2 DEF SetNewPositions
      <4>2. QED
        BY <3>2, <4>1 DEF SetNewPositions
    <3>3. CASE PrepareForCompact
      BY <3>3 DEF PrepareForCompact, Stop
    <3>4. QED
      BY <1>8, <3>1, <3>2, <3>3
  <2>2. \A s \in Spaces : gc'[running'][s] = gc[running][s]
    BY <1>1, <2>1 DEF TypeOK, Spaces
  <2>3. QED
    BY <1>1, <2>1, <2>2, UnchangedSpacesKept DEF Phases
<1>9. ASSUME EndCollection PROVE SpacesKept
  <2>1. /\ pc = "done" /\ pc' = "host"
        /\ \A s \in Spaces : host'[s] = gc[running][s] /\ gc[running][s].nextFree \in Nat
    BY <1>1, <1>9 DEF EndCollection, TypeOK, Space
  <2>2. QED
    BY <2>1 DEF SpacesKept, Current
<1>10. ASSUME FlipSpaces \/ UpdateOldSpace \/ EndCompaction PROVE AllocationsKeptNext
  BY <1>10 DEF AllocationsKeptNext
<1>11. SpacesKept => AllocationsKeptNext \/ UNCHANGED vars
  <2>1. CASE pc = "stopped"
    BY <2>1 DEF Next, AllocateIfPossible, StartCollection, SetUpLocals, GrowArray, MoveTo, FlipSpaces,
       DisableRememberedSet, InitAuxSpace, SetNewPositions, PrepareForCompact, Compact, UpdateOldSpace,
       AllocateArrays, EndCompaction, EndCollection
  <2>2. QED
    BY <2>1, KeptSpaces
<1>12. QED
  BY <1>2, <1>3, <1>4, <1>5, <1>6, <1>7, <1>8, <1>9, <1>10, <1>11 DEF Next

(* Neither collector works with descriptors older than the allocations of   *)
(* the host, and the host gets back what the collector made of them.        *)
THEOREM DescriptorsPassedOn == Spec => AllocationsKept
<1>1. Inv /\ [Next]_vars =>
        [\A s, q \in Spaces : \/ Current(s).base # Current(q)'.base
                              \/ Current(s).nextFree <= Current(q)'.nextFree
                              \/ FlipSpaces \/ UpdateOldSpace \/ EndCompaction]_vars
  BY StepKeepsAllocations DEF AllocationsKeptNext
<1>2. QED
  BY <1>1, AlwaysInv, PTL DEF Spec, AllocationsKept

(***************************************************************************)
(* Words of the memory: an address that is put in the place of a header    *)
(* can be told from one and read back, and threading is undone by          *)
(* following the list.                                                     *)
(***************************************************************************)

(* Rotating words left by a byte undoes rotating them right, and keeps them *)
(* words of 32 bits.                                                        *)
LEMMA RotationUndone ==
  ASSUME NEW word \in Word
  PROVE  /\ Rotate(word) \in Word
         /\ Unrotate(Rotate(word)) = word
<1>1. \A b \in Bit : /\ (b + 32 - 8) % 32 \in Bit
                     /\ (((b + 32 - 8) % 32) + 8) % 32 = b
  BY DEF Bit
<1>2. word \subseteq Bit
  BY DEF Word
<1>3. Rotate(word) = {(b + 32 - 8) % 32 : b \in word}
  BY DEF Rotate, RotateRight
<1>4. Rotate(word) \in Word
  BY <1>1, <1>2, <1>3 DEF Word
<1>5. Unrotate(Rotate(word)) = {(((b + 32 - 8) % 32) + 8) % 32 : b \in word}
  BY <1>3 DEF Unrotate, RotateLeft
<1>6. {(((b + 32 - 8) % 32) + 8) % 32 : b \in word} = {b : b \in word}
  BY <1>1, <1>2
<1>. QED
  BY <1>4, <1>5, <1>6

(* The lowest bit of a word is where the mark is when it is rotated.        *)
LEMMA MarkOfRotated ==
  ASSUME NEW word \in Word
  PROVE  UnseenInSpace \in Rotate(word) <=> 0 \in word
<1>1. \A b \in Bit : (b + 32 - 8) % 32 = 24 <=> b = 0
  BY DEF Bit
<1>2. word \subseteq Bit
  BY DEF Word
<1>. QED
  BY <1>1, <1>2 DEF Rotate, RotateRight, UnseenInSpace

(* _setProxee: whoever comes to an object that was moved is told so by its  *)
(* header and finds the address of the copy there, whatever its bits are,   *)
(* and nothing else has changed.                                            *)
THEOREM ForwardingFound ==
  ASSUME NEW A, NEW m \in [A -> Word], NEW o, Basic(o) \in A,
         NEW word \in Word, ~IsSmallInteger(word)
  PROVE  LET n == SetProxee(m, o, word)
         IN  /\ n \in [A -> Word]
             /\ IsProxy(n, o)
             /\ Proxee(n, o) = word
             /\ \A a \in A \ {Basic(o)} : n[a] = m[a]
<1> DEFINE n == SetProxee(m, o, word)
<1>1. n = [m EXCEPT ![Basic(o)] = Rotate(word)]
  BY DEF SetProxee
<1>2. Rotate(word) \in Word /\ Unrotate(Rotate(word)) = word
  BY RotationUndone
<1>3. n[Basic(o)] = Rotate(word)
  BY <1>1
<1>4. n \in [A -> Word] /\ \A a \in A \ {Basic(o)} : n[a] = m[a]
  BY <1>1, <1>2
<1>5. IsProxy(n, o)
  BY <1>3, MarkOfRotated DEF IsProxy, Has, IsSmallInteger
<1>6. Proxee(n, o) = word
  BY <1>2, <1>3 DEF Proxee
<1>. QED
  BY <1>4, <1>5, <1>6

(* The address of a slot is even, so that it is not taken for header bits.  *)
LEMMA AddressesAreEven ==
  ASSUME NEW a \in 0 .. 2^NumberBits - 1, a % 2 = 0
  PROVE  WordOf(a) \in Word /\ ~IsSmallInteger(WordOf(a))
<1>1. WordOf(a) = {b \in 0 .. NumberBits - 1 : (a \div 2^b) % 2 = 1}
  BY DEF WordOf, Words
<1>2. 2^0 = 1 /\ a \div 1 = a
  BY DEF NumberBits
<1>3. 0 \notin WordOf(a)
  BY <1>1, <1>2
<1>. QED
  BY <1>1, <1>3 DEF Word, Bit, NumberBits, IsSmallInteger

(* _threadWithAt: the object is marked, its header leads to the slot and    *)
(* the slot holds what was in the header, the bits of the object or the     *)
(* rest of the list: following the list gives back what was there.          *)
THEOREM ThreadingFound ==
  ASSUME NEW A, NEW m \in [A -> Word], NEW o, Basic(o) \in A,
         NEW slot \in A \cap 0 .. 2^NumberBits - 1, slot % 2 = 0, slot # Basic(o)
  PROVE  LET n == ThreadWithAt(m, o, slot)
         IN  /\ n \in [A -> Word]
             /\ HasBeenSeenInSpace(n, o)
             /\ Proxee(n, o) = WordOf(slot)
             /\ n[slot] = m[Basic(o)]
             /\ \A a \in A \ {Basic(o), slot} : n[a] = m[a]
<1> DEFINE k == [m EXCEPT ![slot] = m[Basic(o)]]
           n == ThreadWithAt(m, o, slot)
<1>1. k \in [A -> Word] /\ k[slot] = m[Basic(o)] /\ \A a \in A \ {slot} : k[a] = m[a]
  OBVIOUS
<1>2. WordOf(slot) \in Word /\ ~IsSmallInteger(WordOf(slot))
  BY AddressesAreEven
<1>3. n = SetProxee(k, o, WordOf(slot))
  BY DEF ThreadWithAt
<1>4. /\ n \in [A -> Word] /\ IsProxy(n, o) /\ Proxee(n, o) = WordOf(slot)
      /\ \A a \in A \ {Basic(o)} : n[a] = k[a]
  <2> HIDE DEF k, n
  <2>. QED
    BY <1>1, <1>2, <1>3, ForwardingFound
<1>5. HasBeenSeenInSpace(n, o)
  BY <1>4 DEF IsProxy, HasBeenSeenInSpace, HasBeenSeenInLibrary
<1>. QED
  <2> HIDE DEF k
  <2>. QED
    BY <1>1, <1>4, <1>5
=============================================================================
