----------------------------- MODULE BlockStore -----------------------------
(***************************************************************************)
(* What dlmalloc promises its callers: blocks that do not overlap, that    *)
(* lie in memory the system has mapped, that are as large as was asked for *)
(* and hardly larger, and that nothing but a call about them moves or      *)
(* resizes.  Bins, boundary tags and segments are not part of the promise. *)
(***************************************************************************)
EXTENDS Integers

CONSTANTS
    Slack       \* a block has at most this much more than was asked for

VARIABLES
    block,      \* start address -> [size, asked] of each block in use
    mapped      \* addresses the system has mapped

vars == <<block, mapped>>

Extent(a, b) == a .. a + b.size - 1

(* Block b fits at address a among the blocks that stay at S.              *)
FitsAt(a, b, S) ==
    /\ b.asked <= b.size /\ b.size <= b.asked + Slack
    /\ \A c \in S : Extent(a, b) \cap Extent(c, block[c]) = {}

Init ==
    /\ block = <<>>
    /\ mapped = {}

(* The blocks at S stay as they are.                                       *)
Stay(S) == S \subseteq DOMAIN block' /\ \A a \in S : block'[a] = block[a]

(* One block or more, which lie apart.                                     *)
Allocate ==
    LET new == DOMAIN block' \ DOMAIN block IN
    /\ new # {}
    /\ Stay(DOMAIN block)
    /\ \A a \in new :
          /\ FitsAt(a, block'[a], DOMAIN block)
          /\ \A c \in new \ {a} : Extent(a, block'[a]) \cap Extent(c, block'[c]) = {}

Release ==
    /\ DOMAIN block' # DOMAIN block
    /\ DOMAIN block' \subseteq DOMAIN block
    /\ Stay(DOMAIN block')

(* A block is resized where it is, or moves.                               *)
Resize ==
    \E a \in DOMAIN block, c \in DOMAIN block' :
        /\ DOMAIN block' = (DOMAIN block \ {a}) \cup {c}
        /\ Stay(DOMAIN block \ {a})
        /\ FitsAt(c, block'[c], DOMAIN block \ {a})

(* The system maps and unmaps memory, with a call or without a result.     *)
Map == block' = block

Next ==
    /\ Allocate \/ Release \/ Resize \/ Map
    /\ \A a \in DOMAIN block' : Extent(a, block'[a]) \subseteq mapped'

Spec == Init /\ [][Next]_vars

=============================================================================
