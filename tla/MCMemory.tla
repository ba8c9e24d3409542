------------------------------ MODULE MCMemory ------------------------------
(***************************************************************************)
(* Memory with pages of two words: two small new spaces, an old space that *)
(* can be exhausted next to one of them, and a free page behind it.        *)
(***************************************************************************)
EXTENDS Memory

MCReservation == [r \in Regions |-> CASE r = "new1" -> [base |-> 2, limit |-> 4]
                                      [] r = "old"  -> [base |-> 4, limit |-> 14]
                                      [] r = "new2" -> [base |-> 18, limit |-> 20]]
=============================================================================
