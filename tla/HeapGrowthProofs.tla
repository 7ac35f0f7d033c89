--------------------------- MODULE HeapGrowthProofs ---------------------------
(***************************************************************************)
(* When the heap grows, and by how much, for any heap, word, granularity,  *)
(* requests and FSD.  The counter of dlmalloc is never behind what is in   *)
(* use, so that growth is earned; the checks of sys_alloc, made for one    *)
(* size, protect the other that is mapped up to the share that it adds;    *)
(* the blocks in use add up to used; and no block is smaller than asked.   *)
(***************************************************************************)
EXTENDS HeapGrowth, TLAPS

(* What the sums need to be sums.                                          *)
AmountsOK ==
    /\ footprint \in Int /\ used \in Int /\ used_at_GC \in Int
    /\ allocated_since_last_GC \in Int
    /\ live \in [Block -> [size : Nat, asked : Int]]
    /\ GC_initialised \in BOOLEAN
    /\ call \in [asked : Int, nb : Nat, kept : Nat, old : Block \cup {NoBlock}]

(* A call has a block to return: only other calls could take it.           *)
BlockAtHand == pc # "idle" => Unused # {}

(* What is in use now but was not after the last collection has been       *)
(* counted since then.                                                     *)
CounterAhead == used - used_at_GC <= allocated_since_last_GC

GrowthInv == AmountsOK /\ BlockAtHand /\ CounterAhead

-----------------------------------------------------------------------------
(* Sizes.                                                                  *)

LEMMA Request2SizeNat == \A req \in Nat : request2size(req) \in Nat
  BY DEF request2size, MinChunk

LEMMA ChunkForNat == \A req \in Nat : ChunkFor(req) \in Nat
  BY Request2SizeNat, GrowthAssumption DEF ChunkFor, MaxSize

LEMMA GivenNat == \A nb \in Nat : Given(nb) \subseteq Nat /\ nb \in Given(nb)
  BY DEF Given, Align

(* A counted block weighs more than its chunk.                             *)
LEMMA CountedCovers == \A size \in Nat : Counted(size) \in Nat /\ size <= Counted(size)
  BY DEF Counted

LEMMA GrowthSizeNat ==
  ASSUME footprint \in Int, NEW nb \in Int
  PROVE  GrowthSize(nb) \in Nat
  <1> DEFINE asize == (footprint \div FSD + nb) % WordSpan
             wanted == (nb + Padding) % WordSpan
             rounded == ((wanted + Granularity - 1) \div Granularity) * Granularity
  <1>1. WordSpan \in Nat /\ WordSpan > 0 /\ Granularity \in Nat /\ Granularity > 0
    BY GrowthAssumption
  <1>2. \A i \in Int : i % WordSpan \in Nat
    BY <1>1
  <1>3. asize + Align - (asize % Align) \in Int
    BY <1>1, GrowthAssumption DEF Align
  <1>4. rounded \in Int
    BY <1>1 DEF Padding, TopFoot, Align
  <1>5. PaddedSize(nb) = rounded % WordSpan
    BY DEF PaddedSize, granularity_align, RoundUp
  <1> HIDE DEF asize, rounded
  <1>6. GrowthSize(nb) = IF footprint = 0 THEN rounded % WordSpan
                         ELSE (asize + Align - (asize % Align)) % WordSpan
    BY <1>5 DEF GrowthSize, asize
  <1> QED
    BY <1>2, <1>3, <1>4, <1>6

LEMMA CallocRequestNat ==
  ASSUME NEW n \in Nat, NEW size \in Nat
  PROVE  n * size \in Int /\ CallocRequest(n, size) \in Nat
  <1>1. n * size \in Int
    OBVIOUS
  <1>2. \A i \in Int : i % WordSpan \in Nat
    BY GrowthAssumption
  <1>3. (n * size) % WordSpan \in Nat /\ MaxSize \in Nat
    BY <1>1, <1>2, GrowthAssumption DEF MaxSize
  <1> QED
    BY <1>1, <1>3 DEF CallocRequest

-----------------------------------------------------------------------------
(* Steps that calls share.                                                 *)

LEMMA BeginKeeps ==
  ASSUME GrowthInv,
         NEW asked \in Int, NEW req \in Nat, NEW kept \in Nat,
         NEW old \in Block \cup {NoBlock},
         Begin(asked, req, kept, old),
         UNCHANGED <<heap, allocated_since_last_GC, GC_initialised, used_at_GC>>
  PROVE  GrowthInv'
  <1>1. call' \in [asked : Int, nb : Nat, kept : Nat, old : Block \cup {NoBlock}]
    BY ChunkForNat DEF Begin
  <1> QED
    BY <1>1 DEF GrowthInv, AmountsOK, BlockAtHand, CounterAhead, Begin, heap, Unused, InUse

LEMMA GivesBackShrinks ==
  ASSUME GrowthInv, GivesBack
  PROVE  footprint' \in Int /\ footprint' <= footprint
  BY GrowthAssumption DEF GrowthInv, AmountsOK, GivesBack

LEMMA ReleaseKeeps ==
  ASSUME GrowthInv, NEW b \in Block, Release(b),
         UNCHANGED <<allocated_since_last_GC, GC_initialised, pc, call, used_at_GC>>
  PROVE  GrowthInv'
  <1>1. live[b].size \in Nat
    BY DEF GrowthInv, AmountsOK
  <1>2. used' = used - live[b].size /\ used' \in Int /\ footprint' \in Int
    BY <1>1, GivesBackShrinks DEF Release, GrowthInv, AmountsOK
  <1>3. live' \in [Block -> [size : Nat, asked : Int]]
    BY DEF GrowthInv, AmountsOK, Release
  <1>4. Unused \subseteq Unused'
    BY DEF GrowthInv, AmountsOK, Release, Unused, InUse
  <1> QED
    BY <1>1, <1>2, <1>3, <1>4 DEF GrowthInv, AmountsOK, BlockAtHand, CounterAhead

LEMMA ReturnsKeeps ==
  ASSUME GrowthInv, pc # "idle", NEW size \in Nat, Returns(size),
         footprint' \in Int, UNCHANGED <<GC_initialised, used_at_GC>>
  PROVE  GrowthInv'
  <1> DEFINE old == call.old
             b   == IF old # NoBlock THEN old ELSE CHOOSE c \in Unused : TRUE
  <1>1. b \in Block /\ (old = NoBlock => live[b].size = 0)
    <2>1. CASE old # NoBlock
      BY <2>1 DEF GrowthInv, AmountsOK
    <2>2. CASE old = NoBlock
      <3>1. b \in Unused
        BY <2>2 DEF GrowthInv, BlockAtHand
      <3> QED
        BY <2>2, <3>1 DEF Unused, InUse, GrowthInv, AmountsOK
    <2> QED
      BY <2>1, <2>2
  <1>2. PICK s \in Nat :
          /\ s <= size
          /\ live' = [live EXCEPT ![b] = [size |-> s, asked |-> call.asked]]
          /\ used' = used + s - live[b].size
    <2> DEFINE Cut == IF call.kept = call.nb THEN {size}
                      ELSE {t \in Given(call.kept) \cup {call.kept + MinChunk} : t <= size}
    <2>1. \E s \in Cut :
             /\ live' = [live EXCEPT ![b] = [size |-> s, asked |-> call.asked]]
             /\ used' = used + s - live[b].size
      BY DEF Returns
    <2>2. call.kept \in Nat /\ call.kept + MinChunk \in Nat
      BY DEF GrowthInv, AmountsOK, MinChunk
    <2>3. \A s \in Cut : s \in Nat /\ s <= size
      BY <2>2, GivenNat
    <2> HIDE DEF Cut
    <2> QED
      BY <2>1, <2>3
  <1>3. live[b].size \in Nat
    BY <1>1 DEF GrowthInv, AmountsOK
  <1>4. live' \in [Block -> [size : Nat, asked : Int]]
    BY <1>1, <1>2 DEF GrowthInv, AmountsOK
  <1>5. /\ allocated_since_last_GC' \in Int
        /\ allocated_since_last_GC' >= allocated_since_last_GC + size - live[b].size
    <2>1. CASE old = NoBlock
      BY <2>1, <1>1, CountedCovers DEF Returns, GrowthInv, AmountsOK
    <2>2. CASE old # NoBlock
      BY <2>2, <1>3, CountedCovers DEF Returns, ResizeCounted, GrowthInv, AmountsOK
    <2> QED
      BY <2>1, <2>2
  <1>6. pc' = "idle" /\ call' = NoCall
    BY DEF Returns, Done
  <1> QED
    BY <1>2, <1>3, <1>4, <1>5, <1>6
       DEF GrowthInv, AmountsOK, BlockAtHand, CounterAhead, NoCall

LEMMA FailsKeeps ==
  ASSUME GrowthInv, Fails, footprint' \in Int, UNCHANGED <<GC_initialised, used_at_GC>>
  PROVE  GrowthInv'
  BY CountedCovers DEF GrowthInv, AmountsOK, BlockAtHand, CounterAhead, Fails, Done, NoCall

-----------------------------------------------------------------------------
(* The invariant.                                                          *)

LEMMA InitGrowthInv == Init => GrowthInv
  <1> SUFFICES ASSUME Init PROVE GrowthInv
    OBVIOUS
  <1>1. live \in [Block -> [size : Nat, asked : Int]]
    BY DEF Init
  <1>2. call \in [asked : Int, nb : Nat, kept : Nat, old : Block \cup {NoBlock}]
    BY DEF Init, NoCall
  <1>3. AmountsOK
    <2>1. GC_initialised \in BOOLEAN
      BY DEF Init
    <2>2. /\ footprint \in Int /\ used \in Int /\ used_at_GC \in Int
          /\ allocated_since_last_GC \in Int
      BY DEF Init
    <2> QED
      BY <1>1, <1>2, <2>1, <2>2 DEF AmountsOK
  <1>4. BlockAtHand
    BY DEF Init, BlockAtHand
  <1>5. CounterAhead
    BY DEF Init, CounterAhead
  <1> QED
    BY <1>3, <1>4, <1>5 DEF GrowthInv

LEMMA ProgramKeeps ==
  ASSUME GrowthInv, Next, ~Step
  PROVE  GrowthInv'
  <1>1. /\ Requests \subseteq Nat /\ Factors \subseteq Nat
        /\ \A a \in Alignments : a \in Nat
    BY GrowthAssumption DEF MaxSize, MaxRequest, MinChunk
  <1>2. CASE gc_init
    BY <1>2 DEF gc_init, heap, GrowthInv, AmountsOK, BlockAtHand, CounterAhead, Unused, InUse
  <1>3. ASSUME NEW req \in Requests, Malloc(req) PROVE GrowthInv'
    BY <1>1, <1>3, ChunkForNat, BeginKeeps DEF Malloc
  <1>4. ASSUME NEW req \in Requests, NEW alignment \in Alignments, Memalign(alignment, req)
        PROVE  GrowthInv'
    <2>1. request2size(req) \in Nat
      BY <1>1, Request2SizeNat
    <2>2. request2size(req) + alignment + MinChunk - 1 \in Nat
      BY <1>1, <2>1 DEF MinChunk
    <2> QED
      BY <1>1, <1>4, <2>1, <2>2, BeginKeeps DEF Memalign
  <1>5. ASSUME NEW req \in Requests, NEW b \in Block, ReallocInPlace(b, req)
        PROVE  GrowthInv'
    <2>1. PICK size \in Nat :
             /\ live' = [live EXCEPT ![b] = [size |-> size, asked |-> req]]
             /\ used' = used + size - live[b].size
             /\ allocated_since_last_GC' =
                   allocated_since_last_GC + ResizeCounted(live[b].size, size)
      BY <1>1, <1>5, Request2SizeNat, GivenNat DEF ReallocInPlace
    <2>2. live[b].size \in Nat
      BY DEF GrowthInv, AmountsOK
    <2>3. pc = "idle" /\ UNCHANGED <<footprint, GC_initialised, pc, call, used_at_GC>>
      BY <1>5 DEF ReallocInPlace
    <2> QED
      BY <1>1, <2>1, <2>2, <2>3
         DEF ResizeCounted, GrowthInv, AmountsOK, BlockAtHand, CounterAhead
  <1>6. ASSUME NEW req \in Requests, NEW b \in Block, ReallocBegins(b, req)
        PROVE  GrowthInv'
    <2>1. req \in Nat /\ req \in Int /\ request2size(req) \in Nat
      BY <1>1, Request2SizeNat
    <2>2. /\ Begin(req, req, request2size(req), b)
          /\ UNCHANGED <<heap, allocated_since_last_GC, GC_initialised, used_at_GC>>
      BY <1>6 DEF ReallocBegins
    <2> QED
      BY <2>1, <2>2, BeginKeeps
  <1>7. ASSUME NEW n \in Factors, NEW size \in Factors, Calloc(n, size)
        PROVE  GrowthInv'
    <2>1. n * size \in Int /\ CallocRequest(n, size) \in Nat
      BY <1>1, CallocRequestNat
    <2>2. ChunkFor(CallocRequest(n, size)) \in Nat
      BY <2>1, ChunkForNat
    <2> HIDE DEF CallocRequest
    <2> QED
      BY <1>7, <2>1, <2>2, BeginKeeps DEF Calloc
  <1>8. ASSUME NEW b \in Block, Free(b) PROVE GrowthInv'
    BY <1>8, ReleaseKeeps DEF Free
  <1>9. CASE Trim
    BY <1>9, GivesBackShrinks
       DEF Trim, GrowthInv, AmountsOK, BlockAtHand, CounterAhead, Unused, InUse
  <1>10. ASSUME NEW bytes \in Limits, SetLimit(bytes) PROVE GrowthInv'
    BY <1>10 DEF SetLimit, heap, GrowthInv, AmountsOK, BlockAtHand, CounterAhead, Unused, InUse
  <1> QED
    BY <1>2, <1>3, <1>4, <1>5, <1>6, <1>7, <1>8, <1>9, <1>10 DEF Next

LEMMA StepKeeps ==
  ASSUME GrowthInv, Step
  PROVE  GrowthInv'
  <1>1. CASE Found
    <2>1. call.nb \in Nat
      BY DEF GrowthInv, AmountsOK
    <2>2. PICK size \in Nat : Returns(size)
      BY <1>1, <2>1, GivenNat DEF Found
    <2>3. pc # "idle" /\ footprint' \in Int /\ UNCHANGED <<GC_initialised, used_at_GC>>
      BY <1>1 DEF Found, GrowthInv, AmountsOK
    <2> QED
      BY <2>2, <2>3, ReturnsKeeps
  <1>2. CASE StartCollection
    BY <1>2 DEF StartCollection, heap, GrowthInv, AmountsOK, BlockAtHand, CounterAhead,
                Unused, InUse
  <1>3. ASSUME NEW b \in Block, SweepFrees(b) PROVE GrowthInv'
    BY <1>3, ReleaseKeeps DEF SweepFrees
  <1>4. CASE EndCollection
    BY <1>4 DEF EndCollection, heap, GrowthInv, AmountsOK, BlockAtHand, CounterAhead,
                Unused, InUse
  <1>5. CASE SysAllocGrows
    <2>1. call.nb \in Nat /\ GrowthSize(call.nb) \in Int
      BY GrowthSizeNat DEF GrowthInv, AmountsOK
    <2>2. footprint' \in Int
      BY <1>5, <2>1 DEF SysAllocGrows, GrowthInv, AmountsOK
    <2>3. pc # "idle" /\ UNCHANGED <<GC_initialised, used_at_GC>>
          /\ (Returns(call.nb) \/ Fails \/ GoesAstray)
      BY <1>5 DEF SysAllocGrows
    <2>4. CASE GoesAstray
      BY <2>2, <2>3, <2>4 DEF GoesAstray, GrowthInv, AmountsOK, BlockAtHand, CounterAhead, Unused,
                              InUse
    <2> QED
      BY <2>1, <2>2, <2>3, <2>4, ReturnsKeeps, FailsKeeps
  <1>6. CASE SysAllocFails
    BY <1>6, FailsKeeps DEF SysAllocFails, GrowthInv, AmountsOK
  <1> QED
    BY <1>1, <1>2, <1>3, <1>4, <1>5, <1>6 DEF Step

LEMMA NextGrowthInv == GrowthInv /\ [Next]_vars => GrowthInv'
  <1>1. CASE UNCHANGED vars
    BY <1>1 DEF vars, heap, GrowthInv, AmountsOK, BlockAtHand, CounterAhead, Unused, InUse
  <1> QED
    BY <1>1, ProgramKeeps, StepKeeps

(* The counter is never behind: whatever is freed, shrunk, moved, aligned  *)
(* or swept, allocated_since_last_GC is at least what the blocks in use    *)
(* have grown by since the collection that reset it (dlmalloc.c:3299).     *)
THEOREM CounterNeverBehind == Spec => []CounterAhead
  <1> QED
    BY InitGrowthInv, NextGrowthInv, PTL DEF Spec, GrowthInv

-----------------------------------------------------------------------------
(* Growth.                                                                 *)

(* The only step that adds to the footprint is sys_alloc's, and it is      *)
(* reached only if no collection is due.                                   *)
LEMMA OnlySysAllocGrows ==
  ASSUME GrowthInv, [Next]_vars, footprint' > footprint
  PROVE  SysAllocGrows
  <1>1. footprint \in Int /\ ~(footprint' = footprint) /\ ~GivesBack
    BY GivesBackShrinks DEF GrowthInv, AmountsOK
  <1> QED
    BY <1>1 DEF Next, Step, vars, heap, gc_init, Malloc, Memalign, ReallocInPlace,
                ReallocBegins, Calloc, Free, Trim, SetLimit, Release, Found, StartCollection,
                SweepFrees, EndCollection, SysAllocFails

(* The heap grows only if the blocks in use have grown by no more than     *)
(* 1 / FSD of it since the last collection (dlmalloc.c:3295).              *)
THEOREM GrowthIsEarned == Spec => GrowthEarned
  <1>1. ASSUME GrowthInv, [Next]_vars
        PROVE  [GC_initialised /\ footprint' > footprint =>
                   used - used_at_GC <= footprint \div FSD]_vars
    <2> SUFFICES ASSUME GC_initialised, footprint' > footprint
                 PROVE  used - used_at_GC <= footprint \div FSD
      OBVIOUS
    <2>1. ~CollectionDue
      BY <1>1, OnlySysAllocGrows DEF SysAllocGrows
    <2>2. footprint \div FSD \in Int
      BY <1>1, GrowthAssumption DEF GrowthInv, AmountsOK
    <2>3. allocated_since_last_GC <= footprint \div FSD
      BY <1>1, <2>1, <2>2 DEF CollectionDue, GrowthInv, AmountsOK
    <2> QED
      BY <1>1, <2>2, <2>3 DEF GrowthInv, AmountsOK, CounterAhead
  <1> QED
    BY <1>1, InitGrowthInv, NextGrowthInv, PTL DEF Spec, GrowthEarned

-----------------------------------------------------------------------------
(* Amounts of growth.                                                      *)

LEMMA RoundUpBounds ==
  ASSUME NEW n \in Nat, NEW unit \in Nat \ {0}
  PROVE  RoundUp(n, unit) \in Nat /\ n <= RoundUp(n, unit) /\ RoundUp(n, unit) < n + unit
  BY DEF RoundUp

(* A word is its own remainder; a sum of two words may wrap around once.   *)
LEMMA ModWord ==
  ASSUME NEW w \in Nat \ {0}
  PROVE  \A a \in Nat : /\ a % w \in Nat /\ a % w < w /\ a % w <= a
                        /\ a < w => a % w = a
                        /\ w <= a /\ a < 2 * w => a % w = a - w
  OBVIOUS

LEMMA ExactQuotient ==
  ASSUME NEW n \in Nat, NEW unit \in Nat \ {0}, n % unit = 0
  PROVE  n = (n \div unit) * unit /\ n \div unit \in Nat
  OBVIOUS

LEMMA NextMultiple ==
  ASSUME NEW j \in Nat, NEW k \in Nat, NEW g \in Nat \ {0}, j * g < k * g
  PROVE  j * g + g <= k * g
  <1>1. j + 1 <= k
    OBVIOUS
  <1>2. (j + 1) * g <= k * g
    BY <1>1
  <1> QED
    BY <1>2

(* The check of line 2663: a padded size above nb has not wrapped around,  *)
(* and is a unit of granularity below the end of the range.                *)
LEMMA PaddedSizeFits ==
  ASSUME NEW nb \in 0 .. MaxSize, PaddedSize(nb) > nb
  PROVE  /\ PaddedSize(nb) \in Nat
         /\ nb + Padding <= PaddedSize(nb)
         /\ PaddedSize(nb) + Granularity <= WordSpan
  <1> DEFINE G == Granularity
             W == WordSpan
             x == (nb + Padding) % W
             u == RoundUp(x, G)
  <1>1. G \in Nat \ {0} /\ W \in Nat \ {0} /\ 2 * (G + 12) <= W /\ Padding = 12 /\ W % G = 0
    BY GrowthAssumption DEF Padding, TopFoot, Align
  <1>2. nb \in Nat /\ nb < W
    BY <1>1 DEF MaxSize
  <1>3. PaddedSize(nb) = u % W
    BY DEF PaddedSize, granularity_align
  <1>4. /\ x \in Nat
        /\ nb + 12 < W => x = nb + 12
        /\ nb + 12 >= W => x = nb + 12 - W
    <2> DEFINE c == nb + 12
    <2>1. c \in Nat /\ c < 2 * W
      BY <1>1, <1>2
    <2>2. x = c % W
      BY <1>1
    <2> HIDE DEF W, x, c
    <2>3. /\ c % W \in Nat
          /\ c < W => c % W = c
          /\ W <= c /\ c < 2 * W => c % W = c - W
      BY <1>1, <2>1, ModWord
    <2>4. W \in Nat
      BY <1>1
    <2> QED
      BY <2>1, <2>2, <2>3, <2>4 DEF c
  <1>5. u \in Nat /\ x <= u /\ u < x + G
    BY <1>1, <1>4, RoundUpBounds
  <1>6. u = ((x + G - 1) \div G) * G /\ (x + G - 1) \div G \in Nat
    BY <1>1, <1>4 DEF RoundUp
  <1>7. W = (W \div G) * G /\ W \div G \in Nat
    BY <1>1, ExactQuotient
  <1> HIDE DEF G, W, x, u
  <1>8. u < W /\ nb + 12 < W
    <2>1. u % W > nb
      BY <1>3
    <2>2. u < W => u % W = u
      BY <1>1, <1>5, ModWord
    <2>3. u >= W /\ u < 2 * W => u % W = u - W
      BY <1>1, <1>5, ModWord
    <2> QED
      BY <1>1, <1>2, <1>4, <1>5, <2>1, <2>2, <2>3
  <1>9. PaddedSize(nb) = u
    BY <1>1, <1>3, <1>5, <1>8, ModWord
  <1>10. u + G <= W
    BY <1>1, <1>6, <1>7, <1>8, NextMultiple
  <1> QED
    BY <1>1, <1>4, <1>5, <1>8, <1>9, <1>10 DEF G, W

(* The size of line 2676: a share of the heap more than the request, and   *)
(* what the rounding adds.                                                 *)
LEMMA GrowthSizeBounds ==
  ASSUME NEW nb \in 0 .. MaxSize, footprint \in Nat, footprint # 0
  PROVE  /\ GrowthSize(nb) \in Nat
         /\ GrowthSize(nb) <= footprint \div FSD + nb + Align
         /\ footprint \div FSD + nb + Align < WordSpan => GrowthSize(nb) > nb
  <1> DEFINE W == WordSpan
             share == footprint \div FSD
             a == (share + nb) % W
             r == a + Align - (a % Align)
  <1>1. W \in Nat \ {0} /\ share \in Nat /\ nb \in Nat /\ Align = 2
    BY GrowthAssumption DEF Align, MaxSize
  <1>2. GrowthSize(nb) = r % W
    BY DEF GrowthSize
  <1> HIDE DEF W, share
  <1>3. a \in Nat /\ a <= share + nb /\ (share + nb < W => a = share + nb)
    <2> DEFINE c == share + nb
    <2>1. c \in Nat
      BY <1>1
    <2> HIDE DEF c
    <2>2. c % W \in Nat /\ c % W <= c /\ (c < W => c % W = c)
      BY <1>1, <2>1, ModWord
    <2> QED
      BY <2>2 DEF c
  <1>4. r \in Nat /\ r > a /\ r <= a + 2
    BY <1>1, <1>3
  <1> HIDE DEF a, r
  <1>5. r % W \in Nat /\ r % W <= r /\ (r < W => r % W = r)
    BY <1>1, <1>4, ModWord
  <1> QED
    BY <1>1, <1>2, <1>3, <1>4, <1>5 DEF W, share

-----------------------------------------------------------------------------
(* What sys_alloc maps.                                                    *)

(* The heap is within its bound, the limit and the request are words.      *)
WordInv ==
    /\ footprint \in 0 .. MaxFootprint
    /\ footprint_limit \in Nat
    /\ call.nb \in 0 .. MaxSize

LEMMA ChunkForWord == \A req \in Nat : ChunkFor(req) \in 0 .. MaxSize
  BY GrowthAssumption
     DEF ChunkFor, request2size, MaxSize, MaxRequest, MinChunk, Padding, TopFoot, Align

LEMMA InitWordInv == Init => WordInv
  BY GrowthAssumption DEF Init, WordInv, NoCall, MaxSize

LEMMA BeginsWithWord ==
  ASSUME NEW asked, NEW req \in Nat, NEW kept, NEW old, Begin(asked, req, kept, old)
  PROVE  call'.nb \in 0 .. MaxSize
  BY ChunkForWord DEF Begin

LEMMA WithinBound ==
  ASSUME WordInv, GivesBack
  PROVE  footprint' \in 0 .. MaxFootprint
  BY GrowthAssumption DEF WordInv, GivesBack

LEMMA DoneWithWord ==
  ASSUME Done
  PROVE  call'.nb \in 0 .. MaxSize
  BY GrowthAssumption DEF Done, NoCall, MaxSize

LEMMA NextWordInv == WordInv /\ [Next]_vars => WordInv'
  <1> SUFFICES ASSUME WordInv, [Next]_vars PROVE WordInv'
    OBVIOUS
  <1>1. /\ Requests \subseteq Nat /\ Factors \subseteq Nat
        /\ \A a \in Alignments : a \in Nat
    BY GrowthAssumption DEF MaxSize, MaxRequest, MinChunk
  <1>2. footprint' \in 0 .. MaxFootprint
    <2>1. CASE SysAllocGrows
      BY <2>1, GrowthSizeNat, GrowthAssumption DEF SysAllocGrows, WordInv, TopFoot
    <2>2. CASE GivesBack
      BY <2>2, WithinBound
    <2>3. CASE footprint' = footprint
      BY <2>3 DEF WordInv
    <2> QED
      BY <2>1, <2>2, <2>3
         DEF Next, Step, vars, heap, gc_init, Malloc, Memalign, ReallocInPlace, ReallocBegins,
             Calloc, Free, Trim, SetLimit, Release, Found, StartCollection, SweepFrees,
             EndCollection, SysAllocFails
  <1>3. footprint_limit' \in Nat
    <2>1. ASSUME NEW bytes \in Limits, SetLimit(bytes) PROVE footprint_limit' \in Nat
      <3>1. bytes \in Nat /\ WordSpan \in Nat \ {0} /\ Granularity \in Nat \ {0}
        BY GrowthAssumption DEF MaxSize
      <3>2. bytes % WordSpan \in Nat
        BY <3>1, ModWord
      <3>3. RoundUp(bytes % WordSpan, Granularity) \in Nat
        BY <3>1, <3>2, RoundUpBounds
      <3>4. granularity_align(bytes) \in Nat
        BY <3>1, <3>3, ModWord DEF granularity_align
      <3> QED
        BY <2>1, <3>4 DEF SetLimit
    <2>2. CASE footprint_limit' = footprint_limit
      BY <2>2 DEF WordInv
    <2> QED
      BY <2>1, <2>2
         DEF Next, Step, vars, heap, gc_init, Malloc, Memalign, ReallocInPlace, ReallocBegins,
             Calloc, Free, Trim, Release, Found, StartCollection, SweepFrees, EndCollection,
             SysAllocGrows, SysAllocFails
  <1>4. call'.nb \in 0 .. MaxSize
    <2>1. ASSUME NEW req \in Requests,
                 \/ Malloc(req)
                 \/ \E b \in Block : ReallocBegins(b, req)
          PROVE  call'.nb \in 0 .. MaxSize
      BY <1>1, <2>1, BeginsWithWord DEF Malloc, ReallocBegins
    <2>2. ASSUME NEW req \in Requests, NEW alignment \in Alignments, Memalign(alignment, req)
          PROVE  call'.nb \in 0 .. MaxSize
      <3>1. request2size(req) + alignment + MinChunk - 1 \in Nat
        BY <1>1, Request2SizeNat DEF MinChunk
      <3> QED
        BY <2>2, <3>1, BeginsWithWord DEF Memalign
    <2>3. ASSUME NEW n \in Factors, NEW size \in Factors, Calloc(n, size)
          PROVE  call'.nb \in 0 .. MaxSize
      <3>1. CallocRequest(n, size) \in Nat
        BY <1>1, CallocRequestNat
      <3> QED
        BY <2>3, <3>1, BeginsWithWord DEF Calloc
    <2>4. CASE Done
      BY <2>4, DoneWithWord
    <2>5. CASE call' = call
      BY <2>5 DEF WordInv
    <2> QED
      BY <2>1, <2>2, <2>3, <2>4, <2>5
         DEF Next, Step, vars, heap, gc_init, ReallocInPlace, Free, Trim, SetLimit, Found,
             Returns, Fails, StartCollection, SweepFrees, EndCollection, SysAllocGrows,
             SysAllocFails, GoesAstray
  <1> QED
    BY <1>2, <1>3, <1>4 DEF WordInv

(* A step of a call that maps memory, with the limit and the sizes of its  *)
(* check.                                                                  *)
LEMMA LimitChecked ==
  ASSUME WordInv, MayGrow(call.nb), footprint_limit # 0
  PROVE  footprint + PaddedSize(call.nb) <= footprint_limit
  <1> DEFINE W == WordSpan
             f == footprint + PaddedSize(call.nb)
  <1>1. W \in Nat \ {0} /\ footprint \in Nat /\ footprint < W /\ footprint_limit \in Nat
    BY GrowthAssumption DEF WordInv
  <1>2. PaddedSize(call.nb) \in Nat /\ PaddedSize(call.nb) < W
    BY PaddedSizeFits, GrowthAssumption DEF WordInv, MayGrow
  <1>3. footprint < f % W /\ f % W <= footprint_limit
    BY DEF MayGrow
  <1>4. f \in Nat /\ f < 2 * W
    BY <1>1, <1>2
  <1>5. f = footprint + PaddedSize(call.nb)
    OBVIOUS
  <1> HIDE DEF W, f
  <1>6. f < W => f % W = f
    BY <1>1, <1>4, ModWord
  <1>7. W <= f => f % W = f - W
    BY <1>1, <1>4, ModWord
  <1>8. f < W
    BY <1>1, <1>2, <1>3, <1>4, <1>5, <1>7
  <1> QED
    BY <1>3, <1>5, <1>6, <1>8

(* The limit is exceeded by no more than the share of the heap that line   *)
(* 2676 adds after the check of line 2667.                                 *)
THEOREM LimitIsNearlyKept == Spec => LimitNearlyKept
  <1>1. ASSUME GrowthInv, WordInv, [Next]_vars
        PROVE  [footprint' > footprint /\ footprint_limit # 0 =>
                   footprint' <= footprint_limit + footprint \div FSD]_vars
    <2> SUFFICES ASSUME footprint' > footprint, footprint_limit # 0
                 PROVE  footprint' <= footprint_limit + footprint \div FSD
      OBVIOUS
    <2>1. MayGrow(call.nb) /\ footprint' = footprint + GrowthSize(call.nb)
      BY <1>1, OnlySysAllocGrows DEF SysAllocGrows
    <2>2. footprint + PaddedSize(call.nb) <= footprint_limit
      BY <1>1, <2>1, LimitChecked
    <2>3. /\ PaddedSize(call.nb) \in Nat /\ call.nb \in Nat
          /\ call.nb + 12 <= PaddedSize(call.nb)
      BY <1>1, <2>1, PaddedSizeFits DEF WordInv, MayGrow, Padding, TopFoot, Align
    <2>4. footprint \in Nat /\ footprint_limit \in Nat /\ footprint \div FSD \in Nat
      BY <1>1, GrowthAssumption DEF WordInv
    <2>5. CASE footprint = 0
      BY <2>1, <2>2, <2>4, <2>5 DEF GrowthSize
    <2>6. CASE footprint # 0
      <3>1. /\ GrowthSize(call.nb) \in Nat
            /\ GrowthSize(call.nb) <= footprint \div FSD + call.nb + 2
        BY <1>1, <2>4, <2>6, GrowthSizeBounds DEF WordInv, Align
      <3> QED
        BY <2>1, <2>2, <2>3, <2>4, <3>1
    <2> QED
      BY <2>5, <2>6
  <1> QED
    BY <1>1, InitGrowthInv, NextGrowthInv, InitWordInv, NextWordInv, PTL
       DEF Spec, LimitNearlyKept

(* While the share of the heap is below a unit of granularity and the      *)
(* padding, the check of line 2663 protects the size that is mapped, too:  *)
(* it is larger than the request.                                          *)
THEOREM GrowthDoesNotWrap == Spec => GrowthNoWrap
  <1>1. ASSUME GrowthInv, WordInv, [Next]_vars
        PROVE  [footprint' > footprint /\ footprint \div FSD + Align < Granularity + Padding =>
                   footprint' - footprint > call.nb]_vars
    <2> SUFFICES ASSUME footprint' > footprint,
                        footprint \div FSD + Align < Granularity + Padding
                 PROVE  footprint' - footprint > call.nb
      OBVIOUS
    <2>1. MayGrow(call.nb) /\ footprint' = footprint + GrowthSize(call.nb)
      BY <1>1, OnlySysAllocGrows DEF SysAllocGrows
    <2>2. /\ PaddedSize(call.nb) \in Nat /\ call.nb \in Nat
          /\ call.nb < PaddedSize(call.nb)
          /\ call.nb + Padding <= PaddedSize(call.nb)
          /\ PaddedSize(call.nb) + Granularity <= WordSpan
      BY <1>1, <2>1, PaddedSizeFits DEF WordInv, MayGrow
    <2>3. footprint \in Nat /\ footprint \div FSD \in Nat
      BY <1>1, GrowthAssumption DEF WordInv
    <2>4. Padding = 12 /\ Align = 2 /\ Granularity \in Nat /\ WordSpan \in Nat
      BY GrowthAssumption DEF Padding, TopFoot, Align
    <2>5. GrowthSize(call.nb) \in Nat /\ GrowthSize(call.nb) > call.nb
      <3>1. CASE footprint = 0
        BY <2>2, <3>1 DEF GrowthSize
      <3>2. CASE footprint # 0
        <4>1. footprint \div FSD + call.nb + Align < WordSpan
          BY <2>2, <2>3, <2>4
        <4> QED
          BY <1>1, <2>3, <3>2, <4>1, GrowthSizeBounds DEF WordInv
      <3> QED
        BY <3>1, <3>2
    <2> QED
      BY <2>1, <2>2, <2>3, <2>5
  <1> QED
    BY <1>1, InitGrowthInv, NextGrowthInv, InitWordInv, NextWordInv, PTL DEF Spec, GrowthNoWrap


-----------------------------------------------------------------------------
(* Totals.                                                                 *)

(* u is the sum of the sizes in l: some measure of the sets of blocks adds *)
(* them up and is u for all blocks.                                        *)
Measures(T, l, u) ==
    /\ T \in [SUBSET Block -> Nat]
    /\ \A S \in SUBSET Block : \A b \in Block \ S : T[S \cup {b}] = T[S] + l[b].size
    /\ T[Block] = u

SumsTo(l, u) == \E T : Measures(T, l, u)

LEMMA EmptySum ==
  ASSUME NEW l, \A b \in Block : l[b].size = 0
  PROVE  SumsTo(l, 0)
  <1> DEFINE T == [S \in SUBSET Block |-> 0]
  <1>1. Measures(T, l, 0)
    BY DEF Measures
  <1> QED
    BY <1>1 DEF SumsTo

(* A block weighs no more than the sum, which follows its size.            *)
LEMMA SumAfter ==
  ASSUME NEW l \in [Block -> [size : Nat, asked : Nat]], NEW u, SumsTo(l, u),
         NEW b \in Block, NEW e \in [size : Nat, asked : Nat]
  PROVE  /\ l[b].size <= u /\ u \in Nat
         /\ SumsTo([l EXCEPT ![b] = e], u + e.size - l[b].size)
  <1>1. PICK T : Measures(T, l, u)
    BY DEF SumsTo
  <1>2. l[b].size \in Nat /\ e.size \in Nat /\ u \in Nat
    BY <1>1 DEF Measures
  <1>3. \A S \in SUBSET Block : b \in S => T[S] = T[S \ {b}] + l[b].size
    <2> SUFFICES ASSUME NEW S \in SUBSET Block, b \in S PROVE T[S] = T[S \ {b}] + l[b].size
      OBVIOUS
    <2>1. S \ {b} \in SUBSET Block /\ b \in Block \ (S \ {b}) /\ (S \ {b}) \cup {b} = S
      OBVIOUS
    <2>2. T[(S \ {b}) \cup {b}] = T[S \ {b}] + l[b].size
      BY <1>1, <2>1 DEF Measures
    <2> QED
      BY <2>1, <2>2
  <1>4. \A S \in SUBSET Block : T[S] \in Nat
    BY <1>1 DEF Measures
  <1>5. l[b].size <= u
    <2>1. T[Block] = T[Block \ {b}] + l[b].size /\ T[Block \ {b}] \in Nat
      BY <1>3, <1>4
    <2> QED
      BY <1>1, <1>2, <2>1 DEF Measures
  <1> DEFINE T2 == [S \in SUBSET Block |->
                       IF b \in S THEN T[S \ {b}] + e.size ELSE T[S]]
             l2 == [l EXCEPT ![b] = e]
  <1>6. T2 \in [SUBSET Block -> Nat]
    BY <1>2, <1>4
  <1>7. l2[b] = e /\ \A c \in Block \ {b} : l2[c] = l[c]
    OBVIOUS
  <1>8. ASSUME NEW S \in SUBSET Block, NEW c \in Block \ S
        PROVE  T2[S \cup {c}] = T2[S] + l2[c].size
    <2>1. CASE c = b
      <3>1. b \notin S /\ (S \cup {b}) \ {b} = S /\ S \cup {b} \in SUBSET Block
        BY <2>1, <1>8
      <3> QED
        BY <1>7, <2>1, <3>1
    <2>2. CASE c # b /\ b \in S
      <3>1. /\ (S \cup {c}) \ {b} = (S \ {b}) \cup {c} /\ c \in Block \ (S \ {b})
            /\ S \ {b} \in SUBSET Block /\ S \cup {c} \in SUBSET Block
        BY <2>2
      <3>2. T[(S \ {b}) \cup {c}] = T[S \ {b}] + l[c].size
        BY <1>1, <3>1 DEF Measures
      <3>3. T2[S \cup {c}] = T[S \ {b}] + l[c].size + e.size
        BY <2>2, <3>1, <3>2
      <3>4. T2[S] = T[S \ {b}] + e.size /\ T[S \ {b}] \in Nat /\ l[c].size \in Nat
        BY <1>4, <2>2, <3>1
      <3> QED
        BY <1>2, <1>7, <2>2, <3>3, <3>4
    <2>3. CASE c # b /\ b \notin S
      <3>1. T[S \cup {c}] = T[S] + l[c].size
        BY <1>1, <1>8 DEF Measures
      <3> QED
        BY <1>7, <2>3, <3>1
    <2> QED
      BY <2>1, <2>2, <2>3
  <1>9. T2[Block] = u + e.size - l[b].size
    <2>1. T[Block] = T[Block \ {b}] + l[b].size /\ T[Block \ {b}] \in Nat /\ T[Block] = u
      BY <1>1, <1>3, <1>4 DEF Measures
    <2>2. T2[Block] = T[Block \ {b}] + e.size
      OBVIOUS
    <2> QED
      BY <1>2, <2>1, <2>2
  <1>10. Measures(T2, l2, u + e.size - l[b].size)
    <2> HIDE DEF T2, l2
    <2> QED
      BY <1>6, <1>8, <1>9 DEF Measures
  <1> QED
    <2> HIDE DEF T2
    <2> QED
      BY <1>2, <1>5, <1>10 DEF SumsTo


(* What is in use is the blocks, each larger than what was asked for, and  *)
(* leaves the foot of top alone.                                           *)
BlocksInv ==
    /\ live \in [Block -> [size : Nat, asked : Nat]]
    /\ SumsTo(live, used)
    /\ BlocksCover

UsedFits == used > 0 => used + TopFoot <= footprint

(* A call keeps more than was asked for, or looks for a chunk that does    *)
(* not exist.                                                              *)
CallInv ==
    /\ pc \in {"idle", "attempt", "collect", "astray"}
    /\ call.asked \in Nat
    /\ call.kept \in 0 .. MaxSize /\ call.kept <= call.nb
    /\ pc # "idle" => call.asked < call.kept \/ call.nb = MaxSize

TotalsInv ==
    /\ GrowthInv
    /\ WordInv
    /\ BlocksInv
    /\ UsedFits
    /\ CallInv
    /\ footprint_limit <= MaxSize
    /\ used_at_GC \in 0 .. MaxFootprint

(* What is in use is within the bound.                                     *)
LEMMA UsedWithin ==
  ASSUME WordInv, BlocksInv, UsedFits
  PROVE  used \in 0 .. MaxFootprint /\ \A b \in Block : live[b].size \in 0 .. used
  <1>1. \A b \in Block : live[b].size \in Nat /\ live[b].asked \in Nat
    BY DEF BlocksInv
  <1>2. used \in Nat
    BY DEF BlocksInv, SumsTo, Measures
  <1>3. ASSUME NEW b \in Block PROVE live[b].size <= used
    BY <1>1, <1>3, SumAfter DEF BlocksInv
  <1> QED
    BY <1>1, <1>2, <1>3, GrowthAssumption DEF UsedFits, WordInv, TopFoot

(* Block b gets a size, which covers what is asked of it.                  *)
LEMMA BlockChanges ==
  ASSUME BlocksInv, NEW b \in Block, NEW s \in Nat, NEW asked \in Nat, s > 0 => asked < s,
         live' = [live EXCEPT ![b] = [size |-> s, asked |-> asked]],
         used' = used + s - live[b].size
  PROVE  BlocksInv'
  <1> DEFINE e == [size |-> s, asked |-> asked]
  <1>1. e \in [size : Nat, asked : Nat] /\ e.size = s /\ e.asked = asked
    OBVIOUS
  <1>2. live' = [live EXCEPT ![b] = e] /\ live \in [Block -> [size : Nat, asked : Nat]]
    BY DEF BlocksInv
  <1> HIDE DEF e
  <1>3. live' \in [Block -> [size : Nat, asked : Nat]]
    BY <1>1, <1>2
  <1>4. SumsTo([live EXCEPT ![b] = e], used + e.size - live[b].size)
    BY <1>1, <1>2, SumAfter DEF BlocksInv
  <1>5. SumsTo(live', used')
    BY <1>1, <1>2, <1>4
  <1>6. BlocksCover'
    <2>1. live'[b] = e /\ \A c \in Block \ {b} : live'[c] = live[c]
      BY <1>2
    <2>2. ASSUME NEW c \in Block, live'[c].size > 0 PROVE live'[c].asked < live'[c].size
      <3>1. CASE c = b
        BY <1>1, <2>1, <2>2, <3>1
      <3>2. CASE c # b
        BY <2>1, <2>2, <3>2 DEF BlocksInv, BlocksCover, InUse
      <3> QED
        BY <3>1, <3>2
    <2> QED
      BY <2>2 DEF BlocksCover, InUse
  <1> QED
    BY <1>3, <1>5, <1>6 DEF BlocksInv

-----------------------------------------------------------------------------
(* Requests.                                                               *)

LEMMA Request2SizeCovers ==
  ASSUME NEW req \in Nat
  PROVE  /\ req < request2size(req) /\ request2size(req) \in Nat
         /\ request2size(req) <= req + MinChunk
  BY DEF request2size, MinChunk

(* The chunk for a request is larger than it, or does not exist.           *)
LEMMA ChunkForCovers ==
  ASSUME NEW req \in Nat
  PROVE  ChunkFor(req) \in 0 .. MaxSize /\ (req < ChunkFor(req) \/ ChunkFor(req) = MaxSize)
  BY ChunkForWord, Request2SizeCovers DEF ChunkFor

LEMMA QuotientBelow ==
  ASSUME NEW a \in Nat, NEW n \in Nat \ {0}
  PROVE  a \div n \in Nat /\ n * (a \div n) <= a
  OBVIOUS

LEMMA ProductsGrow ==
  ASSUME NEW a \in Nat, NEW b \in Nat, NEW c \in Nat, NEW d \in Nat, a <= c, b <= d
  PROVE  a * b \in Nat /\ c * d \in Nat /\ a * b <= c * d
  <1>1. a * b \in Nat /\ c * d \in Nat /\ a * d \in Nat
    OBVIOUS
  <1>2. a * b <= a * d
    OBVIOUS
  <1>3. a * d <= c * d
    OBVIOUS
  <1> QED
    BY <1>1, <1>2, <1>3

(* calloc notices each product that wraps around.                          *)
LEMMA CallocCovers ==
  ASSUME NEW n \in Nat, NEW size \in Nat
  PROVE  CallocRequest(n, size) = n * size \/ CallocRequest(n, size) = MaxSize
  <1> DEFINE P == n * size
             req == P % WordSpan
  <1>1. P \in Nat /\ WordSpan \in Nat \ {0} /\ SmallFactor \in Nat
    BY GrowthAssumption
  <1>2. req \in Nat /\ req < WordSpan /\ (P < WordSpan => req = P)
    BY <1>1, ModWord
  <1>3. CASE P < WordSpan
    BY <1>2, <1>3 DEF CallocRequest
  <1>4. CASE WordSpan <= P
    <2>1. n # 0
      <3> SUFFICES ASSUME n = 0 PROVE FALSE
        OBVIOUS
      <3>1. P = 0
        OBVIOUS
      <3> QED
        BY <1>1, <1>4, <3>1
    <2>2. n >= SmallFactor \/ size >= SmallFactor
      <3> SUFFICES ASSUME n <= SmallFactor - 1, size < SmallFactor PROVE FALSE
        BY <1>1
      <3>1. SmallFactor - 1 \in Nat /\ size <= SmallFactor
        BY <1>1
      <3>2. P <= (SmallFactor - 1) * SmallFactor
        BY <1>1, <3>1, ProductsGrow
      <3>3. (SmallFactor - 1) * SmallFactor < SmallFactor * SmallFactor
        BY <1>1, <3>1
      <3> QED
        BY <1>1, <1>4, <3>1, <3>2, <3>3, GrowthAssumption
    <2>3. req \div n # size
      <3>1. n * (req \div n) <= req
        BY <1>2, <2>1, QuotientBelow
      <3>2. req < P
        BY <1>1, <1>2, <1>4
      <3> HIDE DEF req
      <3> QED
        BY <1>1, <1>2, <3>1, <3>2
    <2> QED
      BY <2>1, <2>2, <2>3 DEF CallocRequest
  <1> QED
    BY <1>1, <1>3, <1>4


-----------------------------------------------------------------------------
(* Steps that change the blocks.                                           *)

LEMMA NothingChanges ==
  ASSUME BlocksInv, UsedFits, footprint \in Int, footprint' \in Int,
         UNCHANGED <<live, used>>, footprint <= footprint'
  PROVE  BlocksInv' /\ UsedFits'
  <1>1. BlocksInv'
    BY DEF BlocksInv, SumsTo, Measures, BlocksCover, InUse
  <1>2. used \in Nat
    BY DEF BlocksInv, SumsTo, Measures
  <1> QED
    BY <1>1, <1>2 DEF UsedFits, TopFoot

LEMMA ReleaseTotals ==
  ASSUME TotalsInv, NEW b \in Block, Release(b)
  PROVE  BlocksInv' /\ UsedFits'
  <1>1. /\ live' = [live EXCEPT ![b] = [size |-> 0, asked |-> 0]]
        /\ used' = used + 0 - live[b].size /\ used' = used - live[b].size
    BY UsedWithin DEF TotalsInv, Release
  <1>2. BlocksInv'
    BY <1>1, BlockChanges DEF TotalsInv
  <1>3. used \in Nat /\ live[b].size \in 0 .. used /\ footprint \in Int
    BY UsedWithin, GrowthAssumption DEF TotalsInv, WordInv
  <1>4. PICK d \in Nat : (d > 0 => used' + TopFoot <= footprint - d) /\ footprint' = footprint - d
    BY GrowthAssumption DEF Release, GivesBack
  <1>5. UsedFits'
    BY <1>1, <1>3, <1>4 DEF TotalsInv, UsedFits, TopFoot
  <1> QED
    BY <1>2, <1>5

LEMMA TrimTotals ==
  ASSUME TotalsInv, Trim
  PROVE  BlocksInv' /\ UsedFits'
  <1>1. BlocksInv'
    BY DEF Trim, TotalsInv, BlocksInv, SumsTo, Measures, BlocksCover, InUse
  <1>2. PICK d \in Nat : (d > 0 => used' + TopFoot <= footprint - d) /\ footprint' = footprint - d
    BY GrowthAssumption DEF Trim, GivesBack
  <1>3. UsedFits'
    BY <1>2 DEF Trim, TotalsInv, WordInv, UsedFits, TopFoot
  <1> QED
    BY <1>1, <1>3

LEMMA GivenCovers ==
  ASSUME NEW nb \in Nat, NEW s \in Given(nb)
  PROVE  s \in Nat /\ nb <= s
  BY DEF Given, Align

LEMMA ReallocInPlaceTotals ==
  ASSUME TotalsInv, NEW b \in Block, NEW req \in Nat, ReallocInPlace(b, req)
  PROVE  BlocksInv' /\ UsedFits'
  <1>1. PICK size \in Given(request2size(req)) :
          /\ size <= live[b].size \/ Room(size - live[b].size)
          /\ live' = [live EXCEPT ![b] = [size |-> size, asked |-> req]]
          /\ used' = used + size - live[b].size
    BY DEF ReallocInPlace
  <1>2. size \in Nat /\ req < size
    BY Request2SizeCovers, GivenCovers
  <1>3. BlocksInv'
    BY <1>1, <1>2, BlockChanges DEF TotalsInv
  <1>4. used \in Nat /\ live[b].size \in 0 .. used /\ footprint \in Int /\ footprint' = footprint
    BY UsedWithin, GrowthAssumption DEF TotalsInv, WordInv, ReallocInPlace
  <1>5. InUse(b)
    BY DEF ReallocInPlace
  <1>6. UsedFits'
    BY <1>1, <1>2, <1>4, <1>5 DEF TotalsInv, UsedFits, TopFoot, Room, InUse
  <1> QED
    BY <1>3, <1>6

(* A chunk that is handed out was found, or fits into the new memory, and  *)
(* is no larger than the heap.                                             *)
LEMMA ReturnsTotals ==
  ASSUME TotalsInv, pc # "idle", NEW size \in Nat, Returns(size),
         call.nb <= size, footprint' \in 0 .. MaxFootprint, used + size + TopFoot <= footprint'
  PROVE  BlocksInv' /\ UsedFits'
  <1> DEFINE old == call.old
             b   == IF old # NoBlock THEN old ELSE CHOOSE c \in Unused : TRUE
  <1>1. b \in Block
    BY DEF TotalsInv, GrowthInv, AmountsOK, BlockAtHand, Unused
  <1>2. /\ call.kept \in Nat /\ call.kept <= call.nb /\ call.asked \in Nat
        /\ used \in Nat /\ live[b].size \in 0 .. used
    BY <1>1, UsedWithin, GrowthAssumption DEF TotalsInv, CallInv, MaxSize
  <1>3. call.asked < call.kept
    <2>1. size < MaxSize
      BY <1>2, GrowthAssumption DEF MaxSize, TopFoot
    <2>2. call.nb # MaxSize
      BY <2>1, GrowthAssumption DEF MaxSize, TotalsInv, WordInv
    <2> QED
      BY <2>2 DEF TotalsInv, CallInv
  <1>4. PICK s \in Nat :
          /\ s <= size /\ call.kept <= s
          /\ live' = [live EXCEPT ![b] = [size |-> s, asked |-> call.asked]]
          /\ used' = used + s - live[b].size
    <2> DEFINE Cut == IF call.kept = call.nb THEN {size}
                      ELSE {t \in Given(call.kept) \cup {call.kept + MinChunk} : t <= size}
    <2>1. \E s \in Cut :
             /\ live' = [live EXCEPT ![b] = [size |-> s, asked |-> call.asked]]
             /\ used' = used + s - live[b].size
      BY DEF Returns
    <2>2. \A s \in Cut : s \in Nat /\ s <= size /\ call.kept <= s
      BY <1>2, GivenCovers DEF MinChunk
    <2> HIDE DEF Cut, b
    <2> QED
      BY <2>1, <2>2
  <1> HIDE DEF b
  <1>5. BlocksInv'
    <2>1. call.asked < s
      BY <1>2, <1>3, <1>4
    <2> QED
      BY <1>1, <1>2, <1>4, <2>1, BlockChanges DEF TotalsInv
  <1>6. UsedFits'
    BY <1>2, <1>4 DEF UsedFits, TopFoot
  <1> QED
    BY <1>5, <1>6

LEMMA NextBlocks ==
  ASSUME TotalsInv, [Next]_vars
  PROVE  BlocksInv' /\ UsedFits'
  <1>1. /\ Requests \subseteq Nat
        /\ footprint \in 0 .. MaxFootprint /\ footprint' \in 0 .. MaxFootprint
        /\ call.nb \in Nat /\ used \in Nat
    BY UsedWithin, NextWordInv, GrowthAssumption DEF TotalsInv, WordInv, MaxSize
  <1>2. ASSUME NEW b \in Block, NEW req \in Requests, ReallocInPlace(b, req)
        PROVE  BlocksInv' /\ UsedFits'
    BY <1>1, <1>2, ReallocInPlaceTotals
  <1>3. ASSUME NEW b \in Block, Free(b) \/ SweepFrees(b) PROVE BlocksInv' /\ UsedFits'
    BY <1>3, ReleaseTotals DEF Free, SweepFrees
  <1>4. CASE Trim
    BY <1>4, TrimTotals
  <1>5. CASE Found
    <2>1. PICK size \in Given(call.nb) : Room(size) /\ Returns(size)
      BY <1>5 DEF Found
    <2>2. size \in Nat /\ call.nb <= size
      BY <1>1, GivenCovers
    <2>3. pc # "idle" /\ footprint' = footprint /\ used + size + TopFoot <= footprint
      BY <1>5, <2>1 DEF Found, Room
    <2> QED
      BY <1>1, <2>1, <2>2, <2>3, ReturnsTotals
  <1>6. CASE SysAllocGrows
    <2>1. CASE used + call.nb + TopFoot <= footprint' /\ Returns(call.nb)
      BY <1>1, <1>6, <2>1, ReturnsTotals DEF SysAllocGrows
    <2>2. CASE Fails \/ GoesAstray
      <3>1. footprint <= footprint'
        BY <1>1, <1>6, GrowthSizeNat DEF SysAllocGrows
      <3>2. UNCHANGED <<live, used>>
        BY <2>2 DEF Fails, GoesAstray
      <3> QED
        BY <1>1, <3>1, <3>2, NothingChanges DEF TotalsInv
    <2> QED
      BY <1>6, <2>1, <2>2 DEF SysAllocGrows
  <1>7. CASE UNCHANGED <<live, used, footprint>>
    BY <1>1, <1>7, NothingChanges DEF TotalsInv
  <1> QED
    BY <1>2, <1>3, <1>4, <1>5, <1>6, <1>7
       DEF Next, Step, vars, heap, gc_init, Malloc, Memalign, ReallocBegins, Calloc, SetLimit,
           StartCollection, EndCollection, SysAllocFails, Fails


-----------------------------------------------------------------------------
(* Calls keep what they ask for.                                           *)

LEMMA BeginCovers ==
  ASSUME NEW asked \in Nat, NEW req \in Nat, NEW kept \in Nat, NEW old,
         Begin(asked, req, kept, old), kept <= ChunkFor(req),
         asked < kept \/ ChunkFor(req) = MaxSize
  PROVE  CallInv'
  <1>1. ChunkFor(req) \in 0 .. MaxSize /\ MaxSize \in Nat
    BY ChunkForCovers, GrowthAssumption DEF MaxSize
  <1> QED
    BY <1>1 DEF CallInv, Begin

LEMMA DoneCovers ==
  ASSUME Done
  PROVE  CallInv'
  BY GrowthAssumption DEF Done, NoCall, CallInv, MaxSize

LEMMA NextCallInv ==
  ASSUME CallInv, [Next]_vars
  PROVE  CallInv'
  <1>1. Requests \subseteq Nat /\ Factors \subseteq Nat /\ MaxSize \in Nat
    BY GrowthAssumption DEF MaxSize
  <1>2. ASSUME NEW req \in Requests, Malloc(req) PROVE CallInv'
    BY <1>1, <1>2, ChunkForCovers, BeginCovers DEF Malloc
  <1>3. ASSUME NEW n \in Factors, NEW size \in Factors, Calloc(n, size) PROVE CallInv'
    <2> DEFINE req == CallocRequest(n, size)
    <2>1. n \in Nat /\ size \in Nat /\ n * size \in Nat /\ req \in Nat
      BY <1>1, CallocRequestNat
    <2>2. n * size < ChunkFor(req) \/ ChunkFor(req) = MaxSize
      <3>1. CASE req = n * size
        BY <2>1, <3>1, ChunkForCovers
      <3>2. CASE req = MaxSize
        BY <3>2, GrowthAssumption DEF ChunkFor, MaxSize, MaxRequest, MinChunk
      <3> QED
        BY <2>1, <3>1, <3>2, CallocCovers
    <2>3. ChunkFor(req) \in Nat
      BY <2>1, ChunkForNat
    <2>4. Begin(n * size, req, ChunkFor(req), NoBlock)
      BY <1>3 DEF Calloc
    <2> HIDE DEF req
    <2> QED
      BY <2>1, <2>2, <2>3, <2>4, BeginCovers
  <1>4. ASSUME NEW req \in Requests, NEW alignment \in Alignments, Memalign(alignment, req)
        PROVE  CallInv'
    <2> DEFINE kept == request2size(req)
               r    == kept + alignment + MinChunk - 1
    <2>1. req \in Nat /\ kept \in Nat /\ req < kept /\ alignment \in Nat
      BY <1>1, Request2SizeCovers, GrowthAssumption DEF MaxRequest, MinChunk
    <2>2. r \in Nat /\ kept <= r
      BY <2>1 DEF MinChunk
    <2>3. kept < MaxSize
      BY <1>4, <2>1, Request2SizeCovers, GrowthAssumption
         DEF Memalign, MaxSize, MaxRequest, MinChunk, Align
    <2>4. kept <= ChunkFor(r)
      <3>1. r < ChunkFor(r) \/ ChunkFor(r) = MaxSize
        BY <2>2, ChunkForCovers
      <3>2. ChunkFor(r) \in Nat
        BY <2>2, ChunkForNat
      <3> QED
        BY <1>1, <2>1, <2>2, <2>3, <3>1, <3>2
    <2>5. Begin(req, r, kept, NoBlock)
      BY <1>4 DEF Memalign
    <2> HIDE DEF kept, r
    <2> QED
      BY <2>1, <2>2, <2>4, <2>5, BeginCovers
  <1>5. ASSUME NEW req \in Requests, NEW b \in Block, ReallocBegins(b, req) PROVE CallInv'
    <2>1. req \in Nat /\ req < request2size(req) /\ request2size(req) \in Nat
      BY <1>1, Request2SizeCovers
    <2>2. ChunkFor(req) = request2size(req)
      BY <1>1, <1>5, <2>1, GrowthAssumption DEF ReallocBegins, ChunkFor, MaxRequest, MinChunk
    <2> QED
      BY <1>5, <2>1, <2>2, BeginCovers DEF ReallocBegins
  <1>6. CASE Done
    BY <1>6, DoneCovers
  <1>7. CASE /\ call' = call
             /\ pc' = pc \/ (pc # "idle" /\ pc' \in {"attempt", "collect", "astray"})
    BY <1>7 DEF CallInv
  <1> QED
    BY <1>2, <1>3, <1>4, <1>5, <1>6, <1>7
       DEF Next, Step, vars, heap, gc_init, ReallocInPlace, Free, Trim, SetLimit, Found, Returns,
           Fails, StartCollection, SweepFrees, EndCollection, SysAllocGrows, SysAllocFails, GoesAstray

LEMMA LimitIsWord ==
  ASSUME footprint_limit \in Nat, footprint_limit <= MaxSize, [Next]_vars
  PROVE  footprint_limit' <= MaxSize
  <1>1. ASSUME NEW bytes \in Limits, SetLimit(bytes) PROVE footprint_limit' <= MaxSize
    <2> DEFINE r == RoundUp(bytes % WordSpan, Granularity)
    <2>1. bytes \in Nat /\ WordSpan \in Nat \ {0} /\ Granularity \in Nat \ {0}
      BY GrowthAssumption DEF MaxSize
    <2>2. r \in Nat
      BY <2>1, ModWord, RoundUpBounds
    <2>3. granularity_align(bytes) = r % WordSpan
      BY DEF granularity_align
    <2> HIDE DEF r
    <2>4. r % WordSpan < WordSpan /\ r % WordSpan \in Nat
      BY <2>1, <2>2, ModWord
    <2> QED
      BY <1>1, <2>1, <2>3, <2>4 DEF SetLimit, MaxSize
  <1> QED
    BY <1>1 DEF Next, Step, vars, heap, gc_init, Malloc, Memalign, ReallocInPlace, ReallocBegins,
       Calloc, Free, Trim, Release, Found, StartCollection, SweepFrees, EndCollection,
       SysAllocGrows, SysAllocFails

LEMMA MarkWithin ==
  ASSUME used \in 0 .. MaxFootprint, used_at_GC \in 0 .. MaxFootprint, [Next]_vars
  PROVE  used_at_GC' \in 0 .. MaxFootprint
  BY DEF Next, Step, vars, gc_init, Malloc, Memalign, ReallocInPlace, ReallocBegins, Calloc,
         Free, Trim, SetLimit, Found, StartCollection, SweepFrees, EndCollection, SysAllocGrows,
         SysAllocFails

LEMMA InitTotalsInv == Init => TotalsInv
  <1> SUFFICES ASSUME Init PROVE TotalsInv
    OBVIOUS
  <1>1. GrowthInv /\ WordInv
    BY InitGrowthInv, InitWordInv
  <1>2. /\ live = [b \in Block |-> [size |-> 0, asked |-> 0]] /\ used = 0 /\ footprint = 0
        /\ used_at_GC = 0 /\ footprint_limit = 0 /\ pc = "idle" /\ call = NoCall
    BY DEF Init
  <1>3. BlocksInv
    BY <1>2, EmptySum DEF BlocksInv, BlocksCover, InUse
  <1>4. UsedFits /\ CallInv
    BY <1>2, GrowthAssumption DEF UsedFits, CallInv, NoCall, MaxSize
  <1> QED
    BY <1>1, <1>2, <1>3, <1>4, GrowthAssumption DEF TotalsInv, MaxSize

LEMMA TotalsInvariance == Spec => []TotalsInv
  <1>1. TotalsInv /\ [Next]_vars => TotalsInv'
    <2> SUFFICES ASSUME TotalsInv, [Next]_vars PROVE TotalsInv'
      OBVIOUS
    <2>1. GrowthInv' /\ WordInv'
      BY NextGrowthInv, NextWordInv DEF TotalsInv
    <2>2. BlocksInv' /\ UsedFits'
      BY NextBlocks
    <2>3. CallInv'
      BY NextCallInv DEF TotalsInv
    <2>4. footprint_limit' <= MaxSize
      BY LimitIsWord DEF TotalsInv, WordInv
    <2>5. used_at_GC' \in 0 .. MaxFootprint
      BY UsedWithin, MarkWithin DEF TotalsInv
    <2> QED
      BY <2>1, <2>2, <2>3, <2>4, <2>5 DEF TotalsInv
  <1> QED
    BY <1>1, InitTotalsInv, PTL DEF Spec

(* The sizes of the blocks in use add up to used, which stays below the    *)
(* footprint and leaves it the foot of top; no size leaves its type.       *)
THEOREM TotalsCorrect == Spec => []TypeOK
  <1>1. TotalsInv => TypeOK
    <2> SUFFICES ASSUME TotalsInv PROVE TypeOK
      OBVIOUS
    <2>1. used \in 0 .. MaxFootprint /\ \A b \in Block : live[b].size \in 0 .. used
      BY UsedWithin DEF TotalsInv
    <2>2. live \in [Block -> [size : 0 .. MaxFootprint, asked : Nat]]
      <3>1. \A b \in Block : live[b] \in [size : 0 .. MaxFootprint, asked : Nat]
        <4> SUFFICES ASSUME NEW b \in Block
                     PROVE  live[b] \in [size : 0 .. MaxFootprint, asked : Nat]
          OBVIOUS
        <4>1. live[b] \in [size : Nat, asked : Nat]
          BY DEF TotalsInv, BlocksInv
        <4>2. live[b].size \in 0 .. MaxFootprint
          BY <2>1, GrowthAssumption
        <4> QED
          BY <4>1, <4>2
      <3> QED
        BY <3>1 DEF TotalsInv, BlocksInv
    <2>3. call \in [asked : Nat, nb : 0 .. MaxSize, kept : 0 .. MaxSize,
                    old : Block \cup {NoBlock}]
      BY DEF TotalsInv, GrowthInv, AmountsOK, WordInv, CallInv
    <2>4. footprint_limit \in 0 .. MaxSize
      BY GrowthAssumption DEF TotalsInv, WordInv, MaxSize
    <2>5. pc \in {"idle", "attempt", "collect", "astray"}
      BY DEF TotalsInv, CallInv
    <2> QED
      BY <2>1, <2>2, <2>3, <2>4, <2>5
         DEF TypeOK, TotalsInv, GrowthInv, AmountsOK, WordInv, UsedFits
  <1> QED
    BY <1>1, TotalsInvariance, PTL

(* Whatever is asked of malloc, calloc, memalign or realloc, and however   *)
(* the sizes wrap around, no block in use is smaller than what was asked.  *)
THEOREM BlocksAlwaysCover == Spec => []BlocksCover
  <1>1. TotalsInv => BlocksCover
    BY DEF TotalsInv, BlocksInv
  <1> QED
    BY <1>1, TotalsInvariance, PTL

=============================================================================
