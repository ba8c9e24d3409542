---------------------------- MODULE ObjectMemory ----------------------------
(***************************************************************************)
(* What a scavenge promises to the program that runs on the object memory: *)
(* no addresses, no spaces, no copies.  Objects are identified by their    *)
(* identity hash, which stays with them for life.  The whole of a          *)
(* collection is one step, Collect: some objects disappear, weak           *)
(* references to them become tombstones, ephemerons whose key is dying are *)
(* queued, and nothing else can be noticed.                                *)
(***************************************************************************)
EXTENDS Integers, SequencesExt

CONSTANTS
  Identities,   \* identity hashes, positive integers
  SlotNames,    \* slots of an object: -1 is its behavior, 0 the key of an ephemeron
  Roots,        \* slots of the execution stack
  Offsets       \* places of the native code that can refer to objects

Nil == 0
Tombstone == -1   \* the residue object that replaces a dead weak reference

VARIABLES
  graph,     \* identity |-> its kind and its slots
  roots,     \* contents of the execution stack
  code,      \* references embedded in native code
  rescued    \* queue of rescued ephemerons

vars == <<graph, roots, code, rescued>>

IsObject(v) == v \in Identities

Init ==
  /\ graph = << >>
  /\ roots = [r \in Roots |-> Nil]
  /\ code = [o \in Offsets |-> Nil]
  /\ rescued = << >>

Allocate(id, kind, r) ==
  /\ id \notin DOMAIN graph
  /\ graph' = [i \in DOMAIN graph \cup {id} |->
                 IF i = id THEN [kind |-> kind, slots |-> [k \in SlotNames |-> Nil]]
                           ELSE graph[i]]
  /\ roots' = [roots EXCEPT ![r] = id]
  /\ UNCHANGED <<code, rescued>>

Store(r, k, v) ==
  /\ IsObject(roots[r])
  /\ v \in Range(roots) \cup {Nil}
  /\ graph' = [graph EXCEPT ![roots[r]].slots[k] = v]
  /\ UNCHANGED <<roots, code, rescued>>

Load(r, k, q) ==
  /\ IsObject(roots[r])
  /\ roots' = [roots EXCEPT ![q] = graph[roots[r]].slots[k]]
  /\ UNCHANGED <<graph, code, rescued>>

Drop(r) ==
  /\ roots' = [roots EXCEPT ![r] = Nil]
  /\ UNCHANGED <<graph, code, rescued>>

Take(r) ==
  /\ rescued # << >>
  /\ roots' = [roots EXCEPT ![r] = Last(rescued)]
  /\ rescued' = Front(rescued)
  /\ UNCHANGED <<graph, code>>

Embed(o, r) ==
  /\ code' = [code EXCEPT ![o] = roots[r]]
  /\ UNCHANGED <<graph, roots, rescued>>

-----------------------------------------------------------------------------
(* The objects a reference leads to. *)
Target(v) == {v} \cap Identities

(* A reference that cannot die. *)
HoldsKey(o, S) == ~IsObject(o.slots[0]) \/ o.slots[0] \in S

(* S contains whatever its members keep alive: their behaviors, the slots   *)
(* of ordinary objects, and those of ephemerons whose key is in S.          *)
Closed(S) ==
  \A id \in S :
    LET o == graph[id]
    IN  /\ Target(o.slots[-1]) \subseteq S
        /\ o.kind = "plain" \/ (o.kind = "ephemeron" /\ HoldsKey(o, S))
             => \A k \in SlotNames : Target(o.slots[k]) \subseteq S

(* Objects the program reaches directly. *)
RootObjects ==
  (Range(roots) \cup ToSet(rescued) \cup Range(code)) \cap Identities

(* Nothing but weak references and ephemerons leads to the object: some set *)
(* of objects is closed, contains the roots, and misses it.                 *)
Dying(id) ==
  \E S \in SUBSET DOMAIN graph :
    /\ id \notin S
    /\ RootObjects \subseteq S
    /\ Closed(S)

(* What a surviving object looks like when kept are the survivors and queue *)
(* the rescued ephemerons.                                                  *)
Survivor(id, kept, queue) ==
  LET o == graph[id]
  IN  [kind  |-> IF id \in ToSet(queue) THEN "plain" ELSE o.kind,
       slots |-> [k \in SlotNames |->
                    IF o.kind = "weak" /\ k # -1 /\ IsObject(o.slots[k])
                       /\ o.slots[k] \notin kept
                    THEN Tombstone
                    ELSE o.slots[k]]]

(* A collection.  Unreachable objects may survive it, reachable ones must.  *)
(* An ephemeron is queued only when its key is dying, and only while it is  *)
(* one: an object taken from the queue is an ordinary object.               *)
Collect ==
  LET kept == DOMAIN graph'
      new  == SubSeq(rescued', Len(rescued) + 1, Len(rescued'))
  IN  /\ kept \subseteq DOMAIN graph
      /\ RootObjects \cup ToSet(new) \subseteq kept
      /\ \A id \in kept, k \in SlotNames : Target(graph'[id].slots[k]) \subseteq kept
      /\ IsPrefix(rescued, rescued')
      /\ \A e \in ToSet(new) :
           graph[e].kind = "ephemeron" /\ IsObject(graph[e].slots[0])
             /\ Dying(graph[e].slots[0])
      /\ \A id \in kept : graph'[id] = Survivor(id, kept, rescued')
      /\ UNCHANGED <<roots, code>>

Next ==
  \/ \E id \in Identities, kind \in {"plain", "weak", "ephemeron"}, r \in Roots :
       Allocate(id, kind, r)
  \/ \E r \in Roots, k \in SlotNames, v \in Identities \cup {Nil, Tombstone} : Store(r, k, v)
  \/ \E r, q \in Roots, k \in SlotNames : Load(r, k, q)
  \/ \E r \in Roots : Drop(r) \/ Take(r)
  \/ \E o \in Offsets, r \in Roots : Embed(o, r)
  \/ Collect

Spec == Init /\ [][Next]_vars
=============================================================================
