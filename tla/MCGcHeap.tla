------------------------------ MODULE MCGcHeap ------------------------------
(* GcHeap on a few blocks.  The highest block lies in a bigallocation of   *)
(* its own, so that new_bigalloc is called for a second one.               *)
EXTENDS GcHeap, FiniteSets

CONSTANTS Blocks

MCBlock == 1 .. Blocks
MCTopAddress == Blocks + 1
MCBigallocOf == [b \in MCBlock |-> IF b = Blocks THEN 2 ELSE 1]

=============================================================================
