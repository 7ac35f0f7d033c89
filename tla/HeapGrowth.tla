------------------------------ MODULE HeapGrowth ------------------------------
(***************************************************************************)
(* When dlmalloc collects, when it grows and by how much: what precision-gc*)
(* changed in dlmalloc.  allocated_since_last_GC counts what calls have    *)
(* handed out; a request that no free chunk serves starts a collection if  *)
(* the count exceeds 1 / FSD of the heap, and grows the heap if not.       *)
(*                                                                         *)
(* Amounts are machine words (8 bytes), and size_t arithmetic is modulo    *)
(* WordSpan, the number of values of a size_t.  Only totals are kept:      *)
(* whether a free chunk serves a request, and how much a call gives back   *)
(* to the system, is a choice here, made in ChunkHeap.  The entry points   *)
(* are those that the Makefile exports.                                    *)
(***************************************************************************)
EXTENDS Integers

CONSTANTS
    WordSpan,           \* 2 ^ SIZE_T_BITSIZE
    Granularity,        \* mparams.granularity
    FSD,                \* FSD
    SmallFactor,        \* factors of calloc below it need no check
    Block,              \* names of blocks
    NoBlock,
    Requests,           \* arguments of malloc, realloc and memalign
    Factors,            \* arguments of calloc
    Alignments,         \* arguments of memalign
    Limits,             \* arguments of dlmalloc_set_footprint_limit
    Unmapped,           \* amounts that a call gives back to the system
    MaxFootprint,       \* bound on what the system has
    MaxCount            \* bound on the counter, either way

MinChunk   == 4
Align      == 2                             \* MALLOC_ALIGNMENT
TopFoot    == 10                            \* TOP_FOOT_SIZE
Padding    == TopFoot + Align               \* SYS_ALLOC_PADDING
MaxSize    == WordSpan - 1                  \* MAX_SIZE_T
MaxRequest == WordSpan - 4 * MinChunk       \* MAX_REQUEST

ASSUME GrowthAssumption ==
    /\ {WordSpan, Granularity, FSD, SmallFactor} \subseteq Nat \ {0}
    /\ Granularity % Align = 0 /\ WordSpan % Granularity = 0
    /\ 2 * (Granularity + Padding) <= WordSpan
    /\ SmallFactor * SmallFactor <= WordSpan
    /\ NoBlock \notin Block
    /\ Requests \subseteq 0 .. MaxSize
    /\ Factors \subseteq 0 .. MaxSize
    /\ Alignments \subseteq {a \in 0 .. MaxRequest : a > Align}
    /\ Limits \subseteq 0 .. MaxSize
    /\ Unmapped \subseteq Nat \ {0}
    /\ MaxFootprint \in Nat /\ 2 * MaxFootprint < WordSpan
    /\ MaxCount \in Nat

VARIABLES
    footprint,                  \* m->footprint
    footprint_limit,            \* m->footprint_limit
    live,                       \* size and request of each block in use
    used,                       \* the sum of their sizes
    allocated_since_last_GC,
    GC_initialised,
    pc,                         \* where dlmalloc is
    call,                       \* the call that it serves
    used_at_GC                  \* history: used when the counter was last 0

heap == <<footprint, live, used>>
vars == <<heap, footprint_limit, allocated_since_last_GC, GC_initialised, pc, call,
          used_at_GC>>

(* A call wants a block of at least nb, of which it will keep nb kept (all *)
(* but memalign keep nb); old is the block that realloc resizes.           *)
NoCall == [asked |-> 0, nb |-> 0, kept |-> 0, old |-> NoBlock]

Init ==
    /\ footprint = 0
    /\ footprint_limit = 0
    /\ live = [b \in Block |-> [size |-> 0, asked |-> 0]]
    /\ used = 0
    /\ allocated_since_last_GC = 0
    /\ GC_initialised = FALSE
    /\ pc = "idle"
    /\ call = NoCall
    /\ used_at_GC = 0

InUse(b) == live[b].size > 0
Unused   == {b \in Block : ~InUse(b)}

-----------------------------------------------------------------------------
(* Sizes.                                                                  *)

RoundUp(n, unit) == ((n + unit - 1) \div unit) * unit
granularity_align(n) == RoundUp(n % WordSpan, Granularity) % WordSpan

request2size(req) == IF req < MinChunk - 1 THEN MinChunk ELSE ((req + 2) \div 2) * 2

(* The chunk that dlmalloc looks for; a request that is too large becomes  *)
(* one that fails.                                                         *)
ChunkFor(req) == IF req >= MaxRequest THEN MaxSize ELSE request2size(req)

(* What is counted for a block, or for none: its usable size and 16 bytes. *)
Counted(size) == IF size = 0 THEN 2 ELSE size - 1 + 2

-----------------------------------------------------------------------------
(* Calls of the program.                                                   *)

Counting == allocated_since_last_GC \in -MaxCount .. MaxCount

Begin(asked, req, kept, old) ==
    /\ pc = "idle"
    /\ Counting
    /\ Unused # {}
    /\ pc' = "attempt"
    /\ call' = [asked |-> asked, nb |-> ChunkFor(req), kept |-> kept, old |-> old]

gc_init ==
    /\ pc = "idle" /\ ~GC_initialised
    /\ GC_initialised' = TRUE
    /\ UNCHANGED <<heap, footprint_limit, allocated_since_last_GC, pc, call, used_at_GC>>

Malloc(req) ==
    /\ Begin(req, req, ChunkFor(req), NoBlock)
    /\ UNCHANGED <<heap, footprint_limit, allocated_since_last_GC, GC_initialised, used_at_GC>>

(* Mutant: small products only are found to wrap around.                   *)
CallocRequest_small(n, size) ==
    LET req == (n * size) % WordSpan
    IN  IF n # 0 /\ n < SmallFactor /\ req \div n # size THEN MaxSize ELSE req

(* The product wraps around; if it did, the request is made to fail.       *)
CallocRequest(n, size) ==
    LET req == (n * size) % WordSpan
    IN  IF n # 0 /\ (n >= SmallFactor \/ size >= SmallFactor) /\ req \div n # size
        THEN MaxSize ELSE req

Calloc(n, size) ==
    LET req == CallocRequest(n, size) IN
    /\ Begin(n * size, req, ChunkFor(req), NoBlock)
    /\ UNCHANGED <<heap, footprint_limit, allocated_since_last_GC, GC_initialised, used_at_GC>>

(* The chunk must hold an aligned one of the size that is asked for.       *)
Memalign(alignment, req) ==
    /\ req < MaxRequest - alignment
    /\ Begin(req, request2size(req) + alignment + MinChunk - 1, request2size(req), NoBlock)
    /\ UNCHANGED <<heap, footprint_limit, allocated_since_last_GC, GC_initialised, used_at_GC>>

(* Mutant: the foot of top is handed out.                                  *)
Room_foot(size) == used + size <= footprint

Room(size) == used + size + TopFoot <= footprint

(* A chunk is never larger than what it is for by a smallest chunk.        *)
Given(nb) == {nb, nb + Align}

(* Mutant: a block that grows where it is is not counted.                  *)
ResizeCounted_none(old, new) == 0

ResizeCounted(old, new) == new - old

ReallocInPlace(b, req) ==
    /\ pc = "idle" /\ Counting
    /\ InUse(b)
    /\ req < MaxRequest
    /\ \E size \in Given(request2size(req)) :
          /\ size <= live[b].size \/ Room(size - live[b].size)
          /\ live' = [live EXCEPT ![b] = [size |-> size, asked |-> req]]
          /\ used' = used + size - live[b].size
          /\ allocated_since_last_GC' =
                allocated_since_last_GC + ResizeCounted(live[b].size, size)
    /\ UNCHANGED <<footprint, footprint_limit, GC_initialised, pc, call, used_at_GC>>

(* Where it is, the block cannot grow.                                     *)
ReallocBegins(b, req) ==
    /\ InUse(b)
    /\ req < MaxRequest /\ live[b].size < request2size(req)
    /\ Begin(req, req, request2size(req), b)
    /\ UNCHANGED <<heap, footprint_limit, allocated_since_last_GC, GC_initialised, used_at_GC>>

(* Memory may go back to the system, but what is used stays.               *)
GivesBack ==
    \E d \in {u \in Unmapped : u <= footprint} \cup {0} :
        /\ d > 0 => used' + TopFoot <= footprint - d
        /\ footprint' = footprint - d

Release(b) ==
    /\ InUse(b)
    /\ live' = [live EXCEPT ![b] = [size |-> 0, asked |-> 0]]
    /\ used' = used - live[b].size
    /\ GivesBack

(* The program frees b; a gc_collect that it calls is a series of these.   *)
Free(b) ==
    /\ pc = "idle"
    /\ Release(b)
    /\ UNCHANGED <<footprint_limit, allocated_since_last_GC, GC_initialised, pc, call, used_at_GC>>

Trim ==
    /\ pc = "idle"
    /\ UNCHANGED <<live, used, footprint_limit, allocated_since_last_GC, GC_initialised, pc,
                   call, used_at_GC>>
    /\ GivesBack

(* The case of 0 is computed and then overwritten.                         *)
SetLimit(bytes) ==
    /\ pc = "idle"
    /\ footprint_limit' = IF bytes = MaxSize THEN 0 ELSE granularity_align(bytes)
    /\ UNCHANGED <<heap, allocated_since_last_GC, GC_initialised, pc, call, used_at_GC>>

-----------------------------------------------------------------------------
(* dlmalloc, and what the caller does when it returns.                     *)

Done ==
    /\ pc' = "idle"
    /\ call' = NoCall

(* A chunk of the given size is handed out.  memalign cuts it; realloc     *)
(* frees the old block and counts the difference once more.                *)
Returns(size) ==
    LET old == call.old
        b   == IF old # NoBlock THEN old ELSE CHOOSE c \in Unused : TRUE
    IN  /\ \E s \in IF call.kept = call.nb THEN {size}
                    ELSE {t \in Given(call.kept) \cup {call.kept + MinChunk} : t <= size} :
              /\ live' = [live EXCEPT ![b] = [size |-> s, asked |-> call.asked]]
              /\ used' = used + s - live[b].size
        /\ allocated_since_last_GC' =
              allocated_since_last_GC + Counted(size)
                  + IF old = NoBlock THEN 0 ELSE ResizeCounted(live[old].size, size)
        /\ Done

Fails ==
    /\ allocated_since_last_GC' = allocated_since_last_GC + Counted(0)
    /\ Done
    /\ UNCHANGED <<live, used>>

(* A free chunk, the victim or top serves the request.                     *)
Found ==
    /\ pc = "attempt"
    /\ \E size \in Given(call.nb) : Room(size) /\ Returns(size)
    /\ UNCHANGED <<footprint, footprint_limit, GC_initialised, used_at_GC>>

(* heap_size, used and free space together, is the footprint.              *)
CollectionDue == GC_initialised /\ allocated_since_last_GC > footprint \div FSD

StartCollection ==
    /\ pc = "attempt"
    /\ CollectionDue
    /\ pc' = "collect"
    /\ UNCHANGED <<heap, footprint_limit, allocated_since_last_GC, GC_initialised, call, used_at_GC>>

SweepFrees(b) ==
    /\ pc = "collect"
    /\ b # call.old
    /\ Release(b)
    /\ UNCHANGED <<footprint_limit, allocated_since_last_GC, GC_initialised, pc, call, used_at_GC>>

(* Mutant: the counter is not started again.                               *)
EndCollection_counts ==
    /\ pc = "collect"
    /\ pc' = "attempt"
    /\ UNCHANGED <<heap, footprint_limit, allocated_since_last_GC, GC_initialised, call,
                   used_at_GC>>

EndCollection ==
    /\ pc = "collect"
    /\ allocated_since_last_GC' = 0
    /\ used_at_GC' = used
    /\ pc' = "attempt"
    /\ UNCHANGED <<heap, footprint_limit, GC_initialised, call>>

(* sys_alloc: the size that is checked.                                    *)
PaddedSize(nb) == granularity_align(nb + Padding)

(* Mutant: a size that has wrapped around is not noticed.                  *)
MayGrow_wrapped(nb) ==
    footprint_limit # 0 => footprint + PaddedSize(nb) <= footprint_limit

(* Mutant: the limit is compared with what there is, not what there will be*)
MayGrow_late(nb) ==
    /\ PaddedSize(nb) > nb
    /\ footprint_limit # 0 => footprint <= footprint_limit

MayGrow(nb) ==
    /\ PaddedSize(nb) > nb
    /\ footprint_limit # 0 =>
          LET fp == (footprint + PaddedSize(nb)) % WordSpan
          IN  footprint < fp /\ fp <= footprint_limit

(* The size that is mapped.  The rounding adds a unit to a multiple, too.  *)
GrowthSize(nb) ==
    LET asize == (footprint \div FSD + nb) % WordSpan
    IN  IF footprint = 0 THEN PaddedSize(nb)
        ELSE (asize + Align - (asize % Align)) % WordSpan

(* A size that has wrapped around, or has no room for the foot of top: the *)
(* chunk, or top, reaches beyond the new memory, and nothing is said of    *)
(* what the code does then.                                                *)
GoesAstray ==
    /\ pc' = "astray"
    /\ UNCHANGED <<live, used, allocated_since_last_GC, call>>

(* The new memory serves the request if top is then large enough.          *)
SysAllocGrows ==
    LET asize == GrowthSize(call.nb) IN
    /\ pc = "attempt"
    /\ ~CollectionDue
    /\ MayGrow(call.nb)
    /\ footprint + asize <= MaxFootprint
    /\ footprint' = footprint + asize
    /\ IF asize <= call.nb \/ asize <= TopFoot THEN GoesAstray
       ELSE \/ used + call.nb + TopFoot <= footprint' /\ Returns(call.nb)
            \/ Fails
    /\ UNCHANGED <<footprint_limit, GC_initialised, used_at_GC>>

(* The request is refused, or the system has no memory.                    *)
SysAllocFails ==
    /\ pc = "attempt"
    /\ ~CollectionDue
    /\ Fails
    /\ UNCHANGED <<footprint, footprint_limit, GC_initialised, used_at_GC>>

-----------------------------------------------------------------------------
Step ==
    \/ Found
    \/ StartCollection
    \/ \E b \in Block : SweepFrees(b)
    \/ EndCollection
    \/ SysAllocGrows
    \/ SysAllocFails

Next ==
    \/ gc_init
    \/ \E req \in Requests :
          \/ Malloc(req)
          \/ \E alignment \in Alignments : Memalign(alignment, req)
          \/ \E b \in Block : ReallocInPlace(b, req) \/ ReallocBegins(b, req)
    \/ \E n, size \in Factors : Calloc(n, size)
    \/ \E b \in Block : Free(b)
    \/ Trim
    \/ \E bytes \in Limits : SetLimit(bytes)
    \/ Step

Spec == Init /\ [][Next]_vars

(* The call runs in the program's own thread.                              *)
FairSpec == Spec /\ WF_vars(Step)

-----------------------------------------------------------------------------
(* Properties.                                                             *)

(* Every variable has its type; nothing that is used is unmapped.          *)
TypeOK ==
    /\ footprint \in 0 .. MaxFootprint
    /\ footprint_limit \in 0 .. MaxSize
    /\ live \in [Block -> [size : 0 .. MaxFootprint, asked : Nat]]
    /\ used \in 0 .. MaxFootprint
    /\ allocated_since_last_GC \in Int
    /\ GC_initialised \in BOOLEAN
    /\ pc \in {"idle", "attempt", "collect", "astray"}
    /\ call \in [asked : Nat, nb : 0 .. MaxSize, kept : 0 .. MaxSize,
                 old : Block \cup {NoBlock}]
    /\ used_at_GC \in 0 .. MaxFootprint
    /\ used > 0 => used + TopFoot <= footprint

(* dlmalloc.c:3432, "force downstream failure on overflow", and 3251,      *)
(* "force failure": no size near the end of the range, and no product that *)
(* wraps around, ends in a block that is smaller than what was asked for.  *)
BlocksCover == \A b \in Block : InUse(b) => live[b].asked < live[b].size

(* dlmalloc.c:3295: whatever is freed, shrunk, moved or aligned, the heap  *)
(* grows only if the blocks in use have grown by no more than 1 / FSD of   *)
(* it since the last collection.  The counter is never behind.             *)
GrowthEarned ==
    [][GC_initialised /\ footprint' > footprint =>
          used - used_at_GC <= footprint \div FSD]_vars

(* dlmalloc.c:2665: the limit bounds the request, not what is mapped; it   *)
(* is exceeded by no more than the share of the heap that line 2676 adds.  *)
LimitNearlyKept ==
    [][footprint' > footprint /\ footprint_limit # 0 =>
          footprint' <= footprint_limit + footprint \div FSD]_vars

(* dlmalloc.c:2663, "wraparound": the check protects also the size that is *)
(* computed after it, while the share of the heap is below a unit of       *)
(* granularity and the padding.  Beyond that, this size can wrap around.   *)
GrowthNoWrap ==
    [][footprint' > footprint /\ footprint \div FSD + Align < Granularity + Padding =>
          footprint' - footprint > call.nb]_vars

(* dlmalloc.c:3296-3299: a call returns; it collects at most once, since   *)
(* the counter starts again.                                               *)
CallEnds == pc # "idle" ~> pc = "idle"

=============================================================================
