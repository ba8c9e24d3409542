------------------------------- MODULE Memory -------------------------------
(***************************************************************************)
(* Where memory comes from: the host VM, the Memory that describes its     *)
(* three spaces to the collectors, the collectors, and the system they     *)
(* commit memory from.                                                     *)
(*                                                                         *)
(* Everyone has descriptors of his own.  scavengeHostVMFromSpace and       *)
(* markAndCompactArena copy those of the host into Memory, the collector   *)
(* copies them from there, works on its copies and everything goes back    *)
(* the same way.  The compactor has one more, auxSpace, a second view of   *)
(* old space: the objects it has already moved.                            *)
(*                                                                         *)
(* The arrays of the collectors are objects of old space.  Objects and     *)
(* arrays are only sizes here; GenerationalGC and MarkAndCompactGC say     *)
(* which there are.                                                        *)
(*                                                                         *)
(* error() and osError() stop the model: on Windows the process exits or,  *)
(* with error(), is left with a null pointer read that a compiler may      *)
(* drop.  Nothing is claimed about what happens then.                      *)
(***************************************************************************)
EXTENDS GCSpace

CONSTANTS
  Reservation,       \* the addresses of each region
  Sizes,             \* sizes of objects, and by which arrays grow
  LocalArraysSize,   \* the four arrays of setUpLocals
  RememberedSize,    \* the array of disableRememberedSet
  HostArraysSize     \* the six arrays of allocateArrays

Spaces == {"from", "to", "old"}
Regions == {"new1", "new2", "old"}
Collectors == {"flipper", "compactor"}
Reservations == {Reservation[r] : r \in Regions}

ASSUME ReservationAssumption ==
  /\ Reservation \in [Regions -> [base : Nat, limit : Nat]]
  /\ \A r \in Regions : /\ Reservation[r].base < Reservation[r].limit
                        /\ Aligned(Reservation[r].base) /\ Aligned(Reservation[r].limit)
  /\ \A r, q \in Regions : r # q => \/ Reservation[r].limit <= Reservation[q].base
                                    \/ Reservation[q].limit <= Reservation[r].base

(* decommitSlack may ask for the page after old space to be given back: no  *)
(* other region starts there.                                               *)
ASSUME GuardAssumption == \A r \in Regions : Reservation[r].base # Reservation["old"].limit

(* The arrays of the host fit in the padding of a commit, with a page left. *)
ASSUME SizesAssumption ==
  /\ Sizes \subseteq Nat \ {0}
  /\ LocalArraysSize \in Nat \ {0} /\ RememberedSize \in Nat /\ HostArraysSize \in Nat \ {0}
  /\ HostArraysSize + Page <= Padding

VARIABLES
  host,        \* the descriptors of the host VM
  memory,      \* those of Memory
  gc,          \* those of the collectors
  backed,      \* the addresses that can be accessed
  running,     \* the collector at work
  remaining,   \* what this phase has left to allocate; what a scavenge has moved
  stopped,     \* what was asked for when the program stopped
  pc

vars == <<host, memory, gc, backed, running, remaining, stopped, pc>>

(* Whose descriptors count. *)
Current(s) == IF pc = "host" THEN host[s] ELSE gc[running][s]

Addresses == UNION {Reservation[r].base .. Reservation[r].limit : r \in Regions}

(* The fields of a space of the host that is partly used and committed. *)
InfoOf(r, nextFree, committed) ==
  [base |-> Reservation[r].base, nextFree |-> nextFree, softLimit |-> committed,
   commitedLimit |-> committed, reservedLimit |-> Reservation[r].limit]

(* The host has committed some pages of every space, and old space holds    *)
(* something.                                                               *)
Init ==
  /\ \E committed \in [Regions -> Addresses], nextFree \in Addresses :
       /\ \A r \in Regions : /\ Aligned(committed[r])
                             /\ committed[r] \in Reservation[r].base .. Reservation[r].limit
       /\ nextFree \in Reservation["old"].base .. committed["old"]
       /\ host = [from |-> InfoOf("new1", Reservation["new1"].base, committed["new1"]),
                  to   |-> InfoOf("new2", Reservation["new2"].base, committed["new2"]),
                  old  |-> InfoOf("old", nextFree, committed["old"])]
       /\ backed = UNION {Extent(Reservation[r].base, committed[r]) : r \in Regions}
  /\ memory = host
  /\ gc = [c \in Collectors |-> [s \in Spaces \cup {"aux"} |-> IF s = "aux" THEN host.old ELSE host[s]]]
  /\ running = "flipper"
  /\ remaining = 0
  /\ stopped = [asked |-> 0, limit |-> 0]
  /\ pc = "host"

-----------------------------------------------------------------------------
(* Allocation in a space of the collector that runs, and where it goes on.  *)
Stop(space, asked) ==
  /\ stopped' = [asked |-> asked, limit |-> space.reservedLimit]
  /\ pc' = "stopped"
  /\ UNCHANGED <<gc, backed>>

AllocateUnsafe(s, size, next) ==
  LET space == gc[running][s]
      needed == space.nextFree + size
  IN  \/ /\ FitsCommitted(space, size)
         /\ gc' = [gc EXCEPT ![running][s] = Taking(space, size)]
         /\ pc' = next
         /\ UNCHANGED <<backed, stopped>>
      \/ /\ ~FitsCommitted(space, size)
         /\ CanCommitMore(space, needed, Reservations)
         /\ gc' = [gc EXCEPT ![running][s] = Taking(CommittingMore(space, needed), size)]
         /\ backed' = backed \cup PagesOf(space.commitedLimit, Padded(needed))
         /\ pc' = next
         /\ UNCHANGED stopped
      \/ /\ ~FitsCommitted(space, size)
         /\ ~CanCommitMore(space, needed, Reservations)
         /\ Stop(space, needed + Padding)

(* One allocation of a phase that allocates as much as remains. *)
AllocatePart(s, size, next) ==
  /\ AllocateUnsafe(s, size, IF size = remaining THEN next ELSE pc)
  /\ remaining' = remaining - size

(* The program allocates in from space until it reaches the soft limit. *)
AllocateIfPossible(size) ==
  /\ pc = "host"
  /\ FitsSoftly(host["from"], size)
  /\ host' = [host EXCEPT !["from"] = Taking(@, size)]
  /\ UNCHANGED <<memory, gc, backed, running, remaining, stopped, pc>>

(* Mutant: old space is not loaded. *)
UpdateFromMemoryButOld(c) ==
  [gc EXCEPT ![c] = [s \in DOMAIN @ |-> IF s \in Spaces \ {"old"} THEN memory'[s] ELSE @[s]]]

(* updateFromHostVM and updateFromMemory. *)
UpdateFromMemory(c) ==
  [gc EXCEPT ![c] = [s \in DOMAIN @ |-> IF s \in Spaces THEN memory'[s] ELSE @[s]]]

StartCollection(c) ==
  /\ pc = "host"
  /\ memory' = host
  /\ gc' = UpdateFromMemory(c)
  /\ running' = c
  /\ remaining' = LocalArraysSize
  /\ pc' = "setUpLocals"
  /\ UNCHANGED <<host, backed, stopped>>

(* The local arrays: initLocals gives them old space, not localSpace. *)
SetUpLocals(size) ==
  /\ pc = "setUpLocals"
  /\ AllocatePart("old", size, IF running = "flipper" THEN "scavenge" ELSE "disableRememberedSet")
  /\ UNCHANGED <<host, memory, running>>

(* Any array grows in the space it was given, and leaves its contents.      *)
GrowArray(size) ==
  /\ pc \in {"scavenge", "followAll"}
  /\ AllocateUnsafe("old", size, pc)
  /\ UNCHANGED <<host, memory, running, remaining>>

-----------------------------------------------------------------------------
(* The scavenger moves objects to to space and to old space. *)
Used(space) == space.nextFree - space.base

MoveTo(s, size) ==
  /\ pc = "scavenge"
  /\ remaining + size <= Used(gc[running]["from"])
  /\ AllocateUnsafe(s, size, pc)
  /\ remaining' = remaining + size
  /\ UNCHANGED <<host, memory, running>>

FlipSpaces ==
  /\ pc = "scavenge"
  /\ gc' = [gc EXCEPT ![running] = [@ EXCEPT !.from = gc[running]["to"],
                                             !.to = Reset(gc[running]["from"]),
                                             !.aux = gc[running]["to"]]]
  /\ pc' = "done"
  /\ UNCHANGED <<host, memory, backed, running, remaining, stopped>>

-----------------------------------------------------------------------------
(* The compactor: a fresh remembered set, then the aux space, which has the *)
(* limits old space has now.                                                *)
DisableRememberedSet ==
  /\ pc = "disableRememberedSet"
  /\ AllocateUnsafe("old", RememberedSize, "initAuxSpace")
  /\ UNCHANGED <<host, memory, running, remaining>>

InitAuxSpace ==
  /\ pc = "initAuxSpace"
  /\ gc' = [gc EXCEPT ![running]["aux"] = Reset(gc[running]["old"])]
  /\ pc' = "followAll"
  /\ UNCHANGED <<host, memory, backed, running, remaining, stopped>>

(* After marking, the first walk gives the live objects their positions.    *)
SetNewPositions(live) ==
  /\ pc = "followAll"
  /\ gc' = [gc EXCEPT ![running]["aux"].nextFree = gc[running]["aux"].base + live]
  /\ remaining' = live
  /\ pc' = "prepareForCompact"
  /\ UNCHANGED <<host, memory, backed, running, stopped>>

(* Mutant: nothing is committed for what was planned. *)
PrepareByReset ==
  /\ pc = "prepareForCompact"
  /\ gc' = [gc EXCEPT ![running]["aux"] = Reset(@)]
  /\ pc' = IF remaining = 0 THEN "updateOldSpace" ELSE "compact"
  /\ UNCHANGED <<host, memory, backed, running, remaining, stopped>>

PrepareForCompact ==
  /\ pc = "prepareForCompact"
  /\ LET space == gc[running]["aux"]
         next == IF remaining = 0 THEN "updateOldSpace" ELSE "compact"
     IN  \/ /\ ~NeedsMore(space)
            /\ gc' = [gc EXCEPT ![running]["aux"] = Reset(space)]
            /\ pc' = next
            /\ UNCHANGED <<backed, stopped>>
         \/ /\ NeedsMore(space) /\ CanCommitNeeded(space, Reservations)
            /\ gc' = [gc EXCEPT ![running]["aux"] = Reset(CommittingNeeded(space))]
            /\ backed' = backed \cup PagesOf(space.base, NeededEnd(space))
            /\ pc' = next
            /\ UNCHANGED stopped
         \/ /\ NeedsMore(space) /\ ~CanCommitNeeded(space, Reservations)
            /\ Stop(space, NeededEnd(space))
  /\ UNCHANGED <<host, memory, running, remaining>>

(* The second walk copies the live objects. *)
Compact(size) ==
  /\ pc = "compact"
  /\ AllocatePart("aux", size, "updateOldSpace")
  /\ UNCHANGED <<host, memory, running>>

UpdateOldSpace ==
  /\ pc = "updateOldSpace"
  /\ gc' = [gc EXCEPT ![running]["old"] = gc[running]["aux"]]
  /\ remaining' = HostArraysSize
  /\ pc' = "allocateArrays"
  /\ UNCHANGED <<host, memory, backed, running, stopped>>

AllocateArrays(size) ==
  /\ pc = "allocateArrays"
  /\ AllocatePart("old", size, "decommitSlack")
  /\ UNCHANGED <<host, memory, running>>

(* resetFrom and decommitSlack.  What decommitSlack does without slack,     *)
(* commitMoreMemoryIfNeeded, finds nextFree within the limit (Ordered).     *)
EndCompaction ==
  /\ pc = "decommitSlack"
  /\ LET old == gc[running]["old"]
     IN  /\ gc' = [gc EXCEPT ![running] =
                    [@ EXCEPT !.from = Reset(gc[running]["from"]),
                              !.old = IF HasSlack(old) THEN WithoutSlack(old) ELSE old]]
         /\ backed' = IF HasSlack(old) THEN backed \ SlackPages(old, Reservations) ELSE backed
  /\ pc' = "done"
  /\ UNCHANGED <<host, memory, running, remaining, stopped>>

-----------------------------------------------------------------------------
(* updateToMemory and updateToHostVM. *)
EndCollection ==
  /\ pc = "done"
  /\ memory' = [s \in Spaces |-> gc[running][s]]
  /\ host' = memory'
  /\ remaining' = 0
  /\ pc' = "host"
  /\ UNCHANGED <<gc, backed, running, stopped>>

Next ==
  \/ \E size \in Sizes : AllocateIfPossible(size)
  \/ \E c \in Collectors : StartCollection(c)
  \/ \E size \in 1 .. remaining : SetUpLocals(size)
  \/ \E size \in Sizes : GrowArray(size)
  \/ \E s \in {"to", "old"}, size \in Sizes : MoveTo(s, size)
  \/ FlipSpaces
  \/ DisableRememberedSet
  \/ InitAuxSpace
  \/ \E live \in 0 .. Used(gc[running]["old"]) + Used(gc[running]["from"]) : SetNewPositions(live)
  \/ PrepareForCompact
  \/ \E size \in 1 .. remaining : Compact(size)
  \/ UpdateOldSpace
  \/ \E size \in 1 .. remaining : AllocateArrays(size)
  \/ EndCompaction
  \/ EndCollection

Spec == Init /\ [][Next]_vars

-----------------------------------------------------------------------------
Phases == {"host", "setUpLocals", "scavenge", "disableRememberedSet", "initAuxSpace", "followAll",
           "prepareForCompact", "compact", "updateOldSpace", "allocateArrays", "decommitSlack",
           "done", "stopped"}

TypeOK ==
  /\ host \in [Spaces -> Space]
  /\ memory \in [Spaces -> Space]
  /\ gc \in [Collectors -> [Spaces \cup {"aux"} -> Space]]
  /\ backed \subseteq Nat
  /\ running \in Collectors
  /\ remaining \in Nat
  /\ stopped \in [asked : Nat, limit : Nat]
  /\ pc \in Phases

(* The limits stay in order, through flips, commits and the two views of    *)
(* old space, for whoever works with them.  decommitSlack relies on it.     *)
Ordered ==
  pc # "stopped" =>
    \A s \in Spaces :
      LET space == Current(s)
      IN  /\ space.base <= space.nextFree
          /\ space.nextFree <= space.commitedLimit
          /\ space.commitedLimit <= space.reservedLimit

(* Nobody is handed memory that cannot be accessed: the limits tell what    *)
(* the system has committed, although the pages it works on are not the     *)
(* addresses it is asked for, and giving pages back takes nothing that any  *)
(* of the spaces uses.                                                      *)
UsedMemoryCommitted ==
  pc # "stopped" =>
    \A s \in Spaces : Extent(Current(s).base, Current(s).nextFree) \subseteq backed

(* What was planned fits the memory committed for it: no object is copied   *)
(* to memory that the copying itself has to commit.                         *)
PlanIsCommitted ==
  pc = "compact" =>
    LET aux == gc[running]["aux"]
    IN  /\ aux.nextFree + remaining <= aux.commitedLimit
        /\ Extent(aux.base, aux.commitedLimit) \subseteq backed

(* The program stops for want of memory only: what it asked for, with the   *)
(* padding and, in commitMoreMemoryIfNeeded, the byte of bit 0, ends beyond *)
(* the reservation.  A commit is never refused because the limit it starts  *)
(* from is not the start of a page.                                         *)
StopsOnlyWhenFull == pc = "stopped" => stopped.asked > stopped.limit

(* What was allocated in a region stays allocated while the descriptors     *)
(* pass from the host to Memory, to a collector and back, until a collector *)
(* has emptied the region.                                                  *)
AllocationsKept ==
  [][\A s, q \in Spaces :
       \/ Current(s).base # Current(q)'.base
       \/ Current(s).nextFree <= Current(q)'.nextFree
       \/ FlipSpaces \/ UpdateOldSpace \/ EndCompaction]_vars
=============================================================================
