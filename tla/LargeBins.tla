------------------------------ MODULE LargeBins ------------------------------
(***************************************************************************)
(* What the tree bins promise to malloc and free: a free chunk is kept     *)
(* under its size; a request gets a chunk of the smallest size that is     *)
(* large enough and, of that size, the one that has waited longest.  How   *)
(* the chunks are linked is not part of the promise.  ChunkHeap takes the  *)
(* tree bins for this.                                                     *)
(***************************************************************************)
EXTENDS Integers, SequencesExt

CONSTANTS
    Chunk,      \* addresses of free chunks
    Sizes,      \* sizes that a tree bin can hold
    MinLarge,   \* the smallest of them
    Requests    \* sizes that are asked for

VARIABLE bin    \* size -> the chunks of that size, the oldest first

Init == bin = [s \in Sizes |-> <<>>]

Kept == UNION {{bin[s][i] : i \in DOMAIN bin[s]} : s \in Sizes}

With(b, c, s) == [b EXCEPT ![s] = Append(@, c)]
Less(b, c)    == [s \in Sizes |->
    IF \E i \in DOMAIN b[s] : b[s][i] = c
    THEN RemoveAt(b[s], CHOOSE i \in DOMAIN b[s] : b[s][i] = c)
    ELSE b[s]]

Insert == \E c \in Chunk \ Kept, s \in Sizes : bin' = With(bin, c, s)

Unlink == \E c \in Kept : bin' = Less(bin, c)

(* A chunk serves a request for nb.  What is cut off it comes back if it   *)
(* and the request are large; it is used elsewhere if not.                 *)
Take ==
    \E nb \in Requests :
        LET fit  == {s \in Sizes : s >= nb /\ bin[s] # <<>>}
            best == Min(fit)
            v    == Head(bin[best])
        IN  /\ fit # {}
            /\ IF nb < MinLarge \/ best - nb < MinLarge
               THEN bin' = Less(bin, v)
               ELSE \E r \in Chunk \ (Kept \ {v}) : bin' = With(Less(bin, v), r, best - nb)

Next == Insert \/ Unlink \/ Take

Spec == Init /\ [][Next]_bin

=============================================================================
