---------------------------- MODULE MCObjectHeap ----------------------------
(***************************************************************************)
(* ObjectHeap on small heaps, and what the program notices of collections  *)
(* in the terms of ObjectMemory.                                           *)
(***************************************************************************)
EXTENDS ObjectHeap

Empty == [extended |-> FALSE, flags |-> {}, ephemeron |-> FALSE, size |-> 0]
Plain == [Empty EXCEPT !.size = 1]
String == [Plain EXCEPT !.flags = {Bytes, ZeroTerminated}, !.size = 5]
Large == [Plain EXCEPT !.extended = TRUE]
WeakArray == [Plain EXCEPT !.flags = {Weak}]
LargeWeakArray == [WeakArray EXCEPT !.extended = TRUE]
Ephemeron == [LargeWeakArray EXCEPT !.ephemeron = TRUE, !.size = 2]

Aged(shape) == [shape EXCEPT !.flags = @ \cup {Generation}]

MCHeaps == {<<Aged(Plain), String>>, <<Empty, Ephemeron>>, <<LargeWeakArray, Aged(Empty)>>,
            <<Aged(WeakArray), Large>>}
MCNewShapes == {Plain}
MCTemporaries == {4, 8}
MCQueueCells == <<12>>

Program == INSTANCE ObjectMemory WITH
  Identities <- 1 .. 2 + MaxOps,
  Roots      <- Temporaries,
  Offsets    <- {},
  graph      <- seen.graph,
  roots      <- seen.roots,
  code       <- << >>,
  rescued    <- seen.rescued

(* What the program notices of its objects while collections of both kinds  *)
(* follow each other: only what ObjectMemory allows.                        *)
StepsOfObjectMemory == [][Program!Next]_(Program!vars)
=============================================================================
