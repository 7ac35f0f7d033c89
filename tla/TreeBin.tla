------------------------------- MODULE TreeBin -------------------------------
(***************************************************************************)
(* The tree bins of dlmalloc: bitwise tries of large free chunks.  Bin i   *)
(* holds a range of sizes; a node's children divide what is left of the    *)
(* range by the next bit of the size, and the node itself may have any     *)
(* size of the range.  Chunks of one size form a ring of which one, the    *)
(* oldest, is in the tree: the one whose parent is not null.               *)
(*                                                                         *)
(* Sizes are words of Width bits, in units of MALLOC_ALIGNMENT.  Chunks    *)
(* are names; that a chunk and what is cut off it are neighbours is the    *)
(* subject of ChunkHeap, which takes the tree bins for LargeBins.          *)
(***************************************************************************)
EXTENDS Integers, Sequences, FiniteSetsExt

CONSTANTS
    Chunk,          \* addresses of free chunks
    Null,
    Root,           \* the parent of the chunk at a treebin
    Width,          \* SIZE_T_BITSIZE
    IntWidth,       \* bits of an unsigned int
    TreeShift,      \* TREEBIN_SHIFT
    NTreeBins,      \* NTREEBINS
    FreeSizes,      \* sizes of the chunks that come to the bins
    Requests,       \* sizes that are asked for
    VictimSizes     \* sizes of the designated victim

(* Powers of two.                                                          *)
Two[k \in Nat] == IF k = 0 THEN 1 ELSE 2 * Two[k - 1]

MinLarge == Two[TreeShift]
MinChunk == 2
Word  == 0 .. Two[Width] - 1
Sizes == MinLarge .. Two[Width] - 1
Index == 0 .. NTreeBins - 1
Side  == {0, 1}

ASSUME TreeAssumption ==
    /\ Null \notin Chunk /\ Root \notin Chunk \cup {Null}
    /\ {Width, IntWidth, TreeShift, NTreeBins} \subseteq Nat \ {0, 1}
    /\ NTreeBins % 2 = 0
    \* below 2^40 bytes, the index is computed from all bits of the size
    /\ IntWidth < Width /\ Width <= IntWidth + TreeShift
    /\ FreeSizes \subseteq Sizes
    /\ Requests \subseteq MinChunk .. Two[Width] - 1
    /\ VictimSizes \subseteq Word

VARIABLES
    node,       \* the fields of each chunk that is in a bin
    treebin,    \* the root of each tree
    treemap     \* the bins marked as not empty

vars == <<node, treebin, treemap>>

NoNode == [size |-> 0, index |-> 0, parent |-> Null, fd |-> Null, bk |-> Null,
           child |-> [b \in Side |-> Null]]

Init ==
    /\ node = [c \in Chunk |-> NoNode]
    /\ treebin = [i \in Index |-> Null]
    /\ treemap = {}

Kept == {c \in Chunk : node[c] # NoNode}

-----------------------------------------------------------------------------
(* Words and indices.                                                      *)

ShiftLeft(x, k) == (x * Two[k]) % Two[Width]
TopBit(x)       == x \div Two[Width - 1]

(* Mutant: the half of the range is taken from the wrong bit.              *)
compute_tree_index_low(s) ==
    LET X == (s \div Two[TreeShift]) % Two[IntWidth]
        K == CHOOSE k \in 0 .. Width : Two[k] <= X /\ X < Two[k + 1]
    IN  IF X = 0 THEN 0
        ELSE IF X >= Two[NTreeBins \div 2] THEN NTreeBins - 1
        ELSE 2 * K + ((s \div Two[K + TreeShift - 2]) % 2)

compute_tree_index(s) ==
    LET X == (s \div Two[TreeShift]) % Two[IntWidth]
        K == CHOOSE k \in 0 .. Width : Two[k] <= X /\ X < Two[k + 1]
    IN  IF X = 0 THEN 0
        ELSE IF X >= Two[NTreeBins \div 2] THEN NTreeBins - 1
        ELSE 2 * K + ((s \div Two[K + TreeShift - 1]) % 2)

(* Brings the first bit that bin i leaves open to the top of the word.     *)
leftshift_for_tree_index(i) ==
    IF i = NTreeBins - 1 THEN 0 ELSE Width - 1 - (i \div 2 + TreeShift - 2)

minsize_for_tree_index(i) ==
    Two[i \div 2 + TreeShift] + (i % 2) * Two[i \div 2 + TreeShift - 1]

-----------------------------------------------------------------------------
(* A tree state is a record t of the three variables; an operator named    *)
(* like a macro of the code returns the state that it leaves.              *)

Tree == [node |-> node, treebin |-> treebin, treemap |-> treemap]

(* The nodes from c down, as the bits of K say, up to one of size s.       *)
Path(t, c, K, s) ==
    LET Down[p \in Chunk \X Word] ==
            LET next == t.node[p[1]].child[TopBit(p[2])]
            IN  IF t.node[p[1]].size = s \/ next = Null THEN <<p[1]>>
                ELSE <<p[1]>> \o Down[<<next, ShiftLeft(p[2], 1)>>]
    IN  Down[<<c, K>>]

(* X, with fields n, joins the ring of T behind it.                        *)
Join(t, X, T, n) ==
    LET F == t.node[T].fd
        m == [t.node EXCEPT ![T].fd = X]
    IN  [t EXCEPT !.node = [m EXCEPT ![F].bk = X,
                                     ![X] = [n EXCEPT !.fd = F, !.bk = T]]]

insert_large_chunk(t, X, S) ==
    LET I     == compute_tree_index(S)
        K     == ShiftLeft(S, leftshift_for_tree_index(I))
        fresh == [NoNode EXCEPT !.size = S, !.index = I, !.fd = X, !.bk = X]
        path  == Path(t, t.treebin[I], K, S)
        T     == path[Len(path)]
        side  == TopBit(ShiftLeft(K, Len(path) - 1))
    IN  IF I \notin t.treemap
        THEN [t EXCEPT !.treemap = @ \cup {I}, !.treebin[I] = X,
                       !.node[X] = [fresh EXCEPT !.parent = Root]]
        ELSE IF t.node[T].size = S THEN Join(t, X, T, fresh)
        ELSE [t EXCEPT !.node = [@ EXCEPT ![T].child[side] = X,
                                          ![X] = [fresh EXCEPT !.parent = T]]]

(* The leaf that is reached from c by going right wherever possible.       *)
RightmostLeaf(t, c) ==
    LET Down[u \in Chunk] ==
            LET n == t.node[u] IN
            IF n.child[1] # Null THEN Down[n.child[1]]
            ELSE IF n.child[0] # Null THEN Down[n.child[0]]
            ELSE u
    IN  Down[c]

(* Mutant: any child will do for the place of its parent.                  *)
Replacement_child(t, X) ==
    LET n == t.node[X] IN
    IF n.bk # X THEN n.bk
    ELSE IF n.child[1] # Null THEN n.child[1] ELSE n.child[0]

(* What takes the place of X: the next of its size, else a leaf below it,  *)
(* else nothing.                                                           *)
Replacement(t, X) ==
    LET n == t.node[X] IN
    IF n.bk # X THEN n.bk
    ELSE IF n.child = [b \in Side |-> Null] THEN Null
    ELSE RightmostLeaf(t, X)

(* R is taken from where it is: from the ring of X, or from its parent.    *)
Detached(t, X, R) ==
    LET F == t.node[X].fd
        P == t.node[R].parent
        m == [t.node EXCEPT ![F].bk = R]
    IN  IF R = Null THEN t
        ELSE IF R = t.node[X].bk THEN [t EXCEPT !.node = [m EXCEPT ![R].fd = F]]
        ELSE [t EXCEPT !.node[P].child =
                 [b \in Side |-> IF @[b] = R THEN Null ELSE @[b]]]

(* R, which may be null, is linked to the parent XP of X instead of it.    *)
LinkParent(t, X, XP, R) ==
    LET i == t.node[X].index IN
    IF t.treebin[i] = X
    THEN [t EXCEPT !.treebin[i] = R,
                   !.treemap = IF R = Null THEN @ \ {i} ELSE @]
    ELSE [t EXCEPT !.node[XP].child =
             [@ EXCEPT ![IF @[0] = X THEN 0 ELSE 1] = R]]

(* Mutant: the children keep the parent they had.                          *)
LinkChildren_half(t, X, XP, R) ==
    LET C == t.node[X].child IN
    [t EXCEPT !.node[R].parent = XP, !.node[R].child =
        [b \in Side |-> IF C[b] # Null THEN C[b] ELSE @[b]]]

(* R takes over the parent and the children of X.                          *)
LinkChildren(t, X, XP, R) ==
    LET C == t.node[X].child
        Linked(c, n) ==
            IF c = R
            THEN [n EXCEPT !.parent = XP,
                      !.child = [b \in Side |-> IF C[b] # Null THEN C[b] ELSE @[b]]]
            ELSE IF \E b \in Side : C[b] = c THEN [n EXCEPT !.parent = R]
            ELSE n
    IN  [t EXCEPT !.node = [c \in Chunk |-> Linked(c, t.node[c])]]

unlink_large_chunk(t, X) ==
    LET XP == t.node[X].parent
        R  == Replacement(t, X)
        t1 == Detached(t, X, R)
        t2 == IF XP = Null THEN t1 ELSE LinkParent(t1, X, XP, R)
        t3 == IF XP = Null \/ R = Null THEN t2 ELSE LinkChildren(t2, X, XP, R)
    IN  [t3 EXCEPT !.node[X] = NoNode]

-----------------------------------------------------------------------------
(* Searches.  Differences of sizes wrap around; the difference to a chunk  *)
(* that is too small is larger than that to any chunk that is not.         *)

Rem(t, c, nb) == (t.node[c].size - nb) % Two[Width]

(* The chunk of S that fits nb best, or null.                              *)
Best(t, S, nb) ==
    LET fit == {c \in S : Rem(t, c, nb) < (-nb) % Two[Width]}
    IN  IF fit = {} THEN Null
        ELSE CHOOSE c \in fit : \A d \in fit : Rem(t, c, nb) <= Rem(t, d, nb)

(* Mutant: the way down ends where there is no left child.                 *)
Leftmost_stops(t, c) ==
    LET Down[u \in Chunk \cup {Null}] ==
            IF u = Null THEN {} ELSE {u} \cup Down[t.node[u].child[0]]
    IN  Down[c]

(* The nodes from c down along leftmost_child, none if c is null.          *)
Leftmost(t, c) ==
    LET Down[u \in Chunk \cup {Null}] ==
            IF u = Null THEN {}
            ELSE LET C == t.node[u].child
                 IN  {u} \cup Down[IF C[0] # Null THEN C[0] ELSE C[1]]
    IN  Down[c]

(* The deepest right child on a way down that the way leaves aside.        *)
DeepestUntaken(t, path) ==
    LET right(k) == t.node[path[k]].child[1]
        aside    == {k \in DOMAIN path :
                        right(k) # Null /\ (k < Len(path) => path[k + 1] # right(k))}
    IN  IF aside = {} THEN Null ELSE right(Max(aside))

(* A map of bins is the set of its bits.                                   *)
left_bits(idx) == {i \in Index : i > idx}
least_bit(map) == Min(map)

NextTree(t, idx) ==
    LET left == left_bits(idx) \cap t.treemap
    IN  IF left = {} THEN Null ELSE t.treebin[least_bit(left)]

(* The way down along the bits of nb; if it meets nothing of that size,    *)
(* the smallest of what lies to the right of it, or else of the next tree. *)
BestFit(t, nb) ==
    LET idx  == compute_tree_index(nb)
        root == t.treebin[idx]
        path == IF root = Null THEN <<>>
                ELSE Path(t, root, ShiftLeft(nb, leftshift_for_tree_index(idx)), nb)
        v    == Best(t, Range(path), nb)
        rst  == DeepestUntaken(t, path)
        from == IF rst = Null /\ v = Null THEN NextTree(t, idx) ELSE rst
    IN  IF v # Null /\ t.node[v].size = nb THEN v
        ELSE Best(t, Range(path) \cup Leftmost(t, from), nb)

(* The smallest chunk of the first tree serves any small request.          *)
SmallestLarge(t, nb) == Best(t, Leftmost(t, t.treebin[least_bit(t.treemap)]), nb)

-----------------------------------------------------------------------------
(* Operations.                                                             *)

Becomes(t) ==
    /\ node' = t.node
    /\ treebin' = t.treebin
    /\ treemap' = t.treemap

Insert(X, S) ==
    /\ X \notin Kept
    /\ Becomes(insert_large_chunk(Tree, X, S))

(* A neighbour of X is freed, or the segment of X is released.             *)
Unlink(X) ==
    /\ X \in Kept
    /\ Becomes(unlink_large_chunk(Tree, X))

(* Mutant: the differences are compared as numbers, not as words.          *)
FitsBetter_signed(t, v, nb, dvsize) == v # Null /\ Rem(t, v, nb) < dvsize - nb

(* A chunk that was found fits better than dv.                             *)
FitsBetter(t, v, nb, dvsize) ==
    v # Null /\ Rem(t, v, nb) < (dvsize - nb) % Two[Width]

(* v is used for nb; r is what is cut off.  What is too small for a tree   *)
(* bin goes elsewhere.                                                     *)
tmalloc_large(nb, dvsize, r) ==
    LET v     == BestFit(Tree, nb)
        rsize == Rem(Tree, v, nb)
        rest  == unlink_large_chunk(Tree, v)
    IN  /\ treemap # {}
        /\ FitsBetter(Tree, v, nb, dvsize)
        /\ r \notin Kept \/ r = v
        /\ Becomes(IF rsize < MinLarge THEN rest ELSE insert_large_chunk(rest, r, rsize))

(* What is cut off becomes the designated victim.                          *)
tmalloc_small(nb) ==
    /\ treemap # {}
    /\ Becomes(unlink_large_chunk(Tree, SmallestLarge(Tree, nb)))

Next ==
    \/ \E X \in Chunk, S \in FreeSizes : Insert(X, S)
    \/ \E X \in Chunk : Unlink(X)
    \/ \E nb \in Requests :
          \/ /\ nb >= MinLarge
             /\ \E dvsize \in VictimSizes, r \in Chunk : tmalloc_large(nb, dvsize, r)
          \/ nb < MinLarge /\ tmalloc_small(nb)

Spec == Init /\ [][Next]_vars

-----------------------------------------------------------------------------
(* Properties.                                                             *)

(* Every field has its type, and only what is in a bin has fields.         *)
TypeOK ==
    /\ node \in [Chunk -> [size : Sizes, index : Index,
                           parent : Chunk \cup {Null, Root}, fd : Chunk, bk : Chunk,
                           child : [Side -> Chunk \cup {Null}]] \cup {NoNode}]
    /\ treebin \in [Index -> Chunk \cup {Null}]
    /\ treemap \subseteq Index

InTree == {c \in Kept : node[c].parent # Null}

(* The nodes of the subtree of u.                                          *)
Below(u) ==
    LET Sub[c \in Chunk \cup {Null}] ==
            IF c = Null THEN {} ELSE {c} \cup UNION {Sub[node[c].child[b]] : b \in Side}
    IN  Sub[u]

(* The checks of do_check_tree for u, which may be chained.                *)
do_check_tree(u) ==
    LET n == node[u] IN
    /\ n.index = compute_tree_index(n.size)
    /\ n.size >= minsize_for_tree_index(n.index)
    /\ n.index = NTreeBins - 1 \/ n.size < minsize_for_tree_index(n.index + 1)
    /\ n.fd \in Kept /\ node[n.fd].bk = u /\ node[n.fd].size = n.size
    /\ n.bk \in Kept /\ node[n.bk].fd = u
    /\ n.parent = Null => n.child = NoNode.child
    /\ n.parent = Root => treebin[n.index] = u
    /\ n.parent \in Chunk => \E b \in Side : node[n.parent].child[b] = u
    /\ \A b \in Side : n.child[b] # Null =>
          n.child[b] \in Kept \ {u} /\ node[n.child[b]].parent = u

do_check_treebin(i) == i \in treemap <=> treebin[i] # Null

(* dlmalloc.c:1880-1938, the checks of a build with DEBUG, and the rule at *)
(* 941 that "each node's left subtree contains all smaller sizes than its  *)
(* right subtree": after any sequence of insertions and removals parents   *)
(* and children agree, each chunk lies in the bin of its size, a ring      *)
(* holds one size and has one chunk in the tree, and the map marks the     *)
(* trees that are not empty.                                               *)
TreeIsTrie ==
    /\ \A i \in Index : do_check_treebin(i)
    /\ \A u \in Kept : do_check_tree(u)
    /\ \A u, v \in InTree : node[u].size = node[v].size => u = v
    /\ \A u \in InTree :
          \A c \in Below(node[u].child[0]), d \in Below(node[u].child[1]) :
              node[c].size < node[d].size

(* The bits of the size of x lead to a chunk of that size, from which fd   *)
(* leads to x: what holds the one and, with each chunk, the next, holds x. *)
bin_find(x) ==
    LET n    == node[x]
        path == Path(Tree, treebin[n.index],
                     ShiftLeft(n.size, leftshift_for_tree_index(n.index)), n.size)
        t    == path[Len(path)]
    IN  /\ n.index \in treemap
        /\ node[t].size = n.size
        /\ \A S \in SUBSET Kept : t \in S /\ (\A u \in S : node[u].fd \in S) => x \in S

(* dlmalloc.c:2018: each chunk is found by its size.  One in the wrong     *)
(* subtree would still be taken as the leftmost, but be hidden from any    *)
(* other search.                                                           *)
Findable == \A x \in Kept : bin_find(x)

(* dlmalloc.c:3104, "If dv is a better fit, return 0 so malloc will use    *)
(* it": although the two differences are unsigned, a chunk of the trees is *)
(* taken just if one fits, and dv does not or fits less closely.           *)
VictimWeighed ==
    \A nb \in Requests, dvsize \in VictimSizes :
        nb >= MinLarge =>
            LET fit == {node[c].size : c \in {d \in Kept : node[d].size >= nb}}
            IN  FitsBetter(Tree, BestFit(Tree, nb), nb, dvsize) <=>
                    fit # {} /\ (dvsize < nb \/ Min(fit) < dvsize)

(* The chunks of size s, the oldest first: from the one in the tree along  *)
(* bk (dlmalloc.c:930, "our FIFO ordering").                               *)
Ring(s) ==
    LET same == {c \in Chunk : node[c].size = s}
        From[i \in 1 .. Cardinality(same)] ==
            IF i = 1 THEN CHOOSE c \in same : node[c].parent # Null
                     ELSE node[From[i - 1]].bk
    IN  From

(* The tries implement bins with one queue for each size.                  *)
Bins == INSTANCE LargeBins WITH bin <- [s \in Sizes |-> Ring(s)]
BinsKept == Bins!Spec

=============================================================================
