------------------------------ MODULE MCMemory ------------------------------
(***************************************************************************)
(* Small sizes for the memory manager: pools of a few units, an allocation *)
(* chunk that splits the rows of an array, a heap that runs out at various *)
(* points, and a limit that leaves room for all, some or none of a window. *)
(***************************************************************************)
EXTENDS Memory

MCFirstSlop == [p \in 0 .. 1 |-> IF p = 0 THEN 6 ELSE 7]
MCExtraSlop == [p \in 0 .. 1 |-> IF p = 0 THEN 0 ELSE 6]
MCStrips == {[width |-> 5, rows |-> 3]}
MCShapes == {[kind |-> "sample", width |-> 4, rows |-> 3, maxaccess |-> 2],
             [kind |-> "block", width |-> 6, rows |-> 3, maxaccess |-> 1],
             [kind |-> "block", width |-> 3, rows |-> 3, maxaccess |-> 2]}

\* The accesses to the watched array are followed where it is the only one, the
\* rows it holds where nothing but arrays was asked for and malloc() gives enough.
Followed ==
  (\E i \in DOMAIN arrays : arrays[i].watched) =>
    /\ requests = 0 /\ \A s \in Heaps : setup.heap >= s
    /\ status = "open" /\ strip # NoStrip => Len(arrays) = 1 /\ setup.files
=============================================================================
