---------------------------- MODULE CollectedHeap ----------------------------
(***************************************************************************)
(* What gc.c promises the program that links with it: blocks come and go   *)
(* only through the calls the program makes, except that a block obtained  *)
(* from gc_malloc or gc_realloc may disappear, at any time, once no chain  *)
(* of pointers leads to it.  Lists, marks, roots and phases are not part   *)
(* of the promise.                                                         *)
(***************************************************************************)
EXTENDS Integers

CONSTANTS
    Block,      \* the addresses of blocks
    Words,      \* number of words the program keeps pointers in
    Fields      \* number of pointer fields of a block

VARIABLES
    root,       \* the program's words
    field,      \* the pointer fields of each block
    live,       \* the blocks that exist
    managed     \* those of them that the collector owns

vars == <<root, field, live, managed>>

NoBlock == 0
Empty == [i \in 1 .. Fields |-> NoBlock]

Held == {root[w] : w \in 1 .. Words}

(* The managed blocks from which the program can load pointers.            *)
Open == Held \cap managed

(* The pointers the program has or can load.                               *)
AtHand == Held \cup {NoBlock} \cup {field[b][i] : b \in Open, i \in 1 .. Fields}

(* A set is kept when it holds every block the program's words name, and   *)
(* all the blocks that its own members name.                               *)
Kept(S) ==
    /\ Held \cap live \subseteq S
    /\ \A b \in S \cap managed, i \in 1 .. Fields :
          field[b][i] \in live => field[b][i] \in S

Reached(b) == \A S \in SUBSET live : Kept(S) => b \in S

Init ==
    /\ root = [w \in 1 .. Words |-> NoBlock]
    /\ field = [b \in Block |-> Empty]
    /\ live = {}
    /\ managed = {}

(* The program puts into a word a pointer it has or can load.              *)
SetWord(w) ==
    /\ \E v \in AtHand : root' = [root EXCEPT ![w] = v]
    /\ UNCHANGED <<field, live, managed>>

SetField(b, i) ==
    /\ b \in Open
    /\ \E v \in Held \cup {NoBlock} : field' = [field EXCEPT ![b][i] = v]
    /\ UNCHANGED <<root, live, managed>>

(* A new block is empty when it is managed; the program receives it.       *)
New(b, w) ==
    /\ b \notin live
    /\ live' = live \cup {b}
    /\ root' = [root EXCEPT ![w] = b]
    /\ \/ managed' = managed \cup {b} /\ field' = [field EXCEPT ![b] = Empty]
       \/ UNCHANGED <<managed, field>>

(* The program gives a block back, and may receive a null pointer.         *)
GiveBack(b) ==
    /\ b \in Held \cap live
    /\ live' = live \ {b}
    /\ managed' = managed \ {b}
    /\ \/ UNCHANGED root
       \/ \E w \in 1 .. Words : root' = [root EXCEPT ![w] = NoBlock]
    /\ \/ UNCHANGED field
       \/ field' = [field EXCEPT ![b] = Empty]

(* A managed block is resized: it stays or moves to c, and what it then    *)
(* holds is either what it held or nothing.                                *)
Resize(b, c, w) ==
    /\ b \in Open
    /\ c = b \/ c \notin live
    /\ live' = (live \ {b}) \cup {c}
    /\ managed' = (managed \ {b}) \cup {c}
    /\ root' = [root EXCEPT ![w] = c]
    /\ \E v \in {field[b], Empty} :
          field' = [a \in Block |-> CASE a = c -> v
                                      [] a = b -> Empty
                                      [] OTHER -> field[a]]

(* The collector takes back a block that nothing leads to.                 *)
Reclaim(b) ==
    /\ b \in managed
    /\ ~Reached(b)
    /\ live' = live \ {b}
    /\ managed' = managed \ {b}
    /\ field' = [field EXCEPT ![b] = Empty]
    /\ UNCHANGED root

Next ==
    \/ \E w \in 1 .. Words : SetWord(w)
    \/ \E b \in Block, i \in 1 .. Fields : SetField(b, i)
    \/ \E b \in Block, w \in 1 .. Words : New(b, w)
    \/ \E b \in Block : GiveBack(b) \/ Reclaim(b)
    \/ \E b, c \in Block, w \in 1 .. Words : Resize(b, c, w)

Spec == Init /\ [][Next]_vars

=============================================================================
