------------------------------ MODULE ChunkHeap ------------------------------
(***************************************************************************)
(* dlmalloc as precision-gc builds it: the heap of chunks behind mymalloc, *)
(* myfree, myrealloc and mymemalign.  A segment of mapped memory is tiled  *)
(* by chunks; each has a header with its size and the in-use bits of       *)
(* itself and of the chunk before it, and a free chunk repeats its size in *)
(* the foot before the next header.  A free chunk is in a bin, or is the   *)
(* designated victim dv, or is top, the end of the newest segment.         *)
(*                                                                         *)
(* Addresses and sizes count units of MALLOC_ALIGNMENT (16 bytes); a       *)
(* request is its padded size nb.  gm is the state gm of the code together *)
(* with the headers in the heap; an operator named like a function or a    *)
(* macro of the code returns the state that it leaves.  A header that has  *)
(* become part of a larger chunk is forgotten.  A tree bin is seen as the  *)
(* set of its sizes, each with its chain of chunks in the order in which   *)
(* the code takes them.                                                    *)
(*                                                                         *)
(* The allocator is entered by one thread at a time.  A collection that    *)
(* dlmalloc starts before it would grow the heap is a series of myfree     *)
(* after which dlmalloc begins again: here, steps of their own.            *)
(***************************************************************************)
EXTENDS Integers, SequencesExt

CONSTANTS
    Space,          \* addresses 1 .. Space exist
    Page,           \* mparams.page_size
    Granularity,    \* mparams.granularity
    MinLarge,       \* MIN_LARGE_SIZE
    FSD,            \* the heap grows by 1 / FSD
    CheckRate,      \* MAX_RELEASE_CHECK_RATE
    Requests,       \* padded sizes that the program asks for
    Alignments,     \* alignments that it asks for
    Pads,           \* arguments of dlmalloc_trim
    MaxLive,        \* bound on the blocks that the program holds
    MaxArray        \* bound on those that it frees at once

MinChunk == 2
RecordSize == 3                         \* of a struct malloc_segment, padded
TopFoot == RecordSize + MinChunk        \* TOP_FOOT_SIZE
Null == 0

ASSUME ChunkAssumption ==
    /\ {Space, Page, Granularity, FSD, CheckRate} \subseteq Nat \ {0}
    /\ Granularity % Page = 0
    \* each small size has a bin
    /\ MinLarge \in Nat /\ MinLarge > MinChunk /\ MinLarge <= Space
    /\ Requests \subseteq {n \in Nat : n >= MinChunk}
    /\ Alignments \subseteq {n \in Nat : n >= MinChunk}
    /\ Pads \subseteq Nat
    \* the first growth makes room for a tree chunk, at least
    /\ Granularity \div FSD + MinChunk + 1 >= TopFoot + MinLarge
    /\ {MaxLive, MaxArray} \subseteq Nat

VARIABLES
    gm,             \* the allocator's state and the headers in the heap
    live            \* block of the program -> the padded size it asked for

vars == <<gm, live>>

Addr == 1 .. Space
Size == 0 .. Space

NoHeader  == [size |-> 0, cinuse |-> FALSE, pinuse |-> FALSE, prev_foot |-> 0]
Fencepost == [size |-> 0, cinuse |-> TRUE, pinuse |-> TRUE, prev_foot |-> 0]

(* seg lists the segments from m->seg on; record is the chunk in which the *)
(* entry itself lies, null for m->seg.  astray: a chunk of a small size    *)
(* was treated as one of a tree, which has more fields than the chunk.     *)
Init ==
    /\ gm = [head |-> [a \in Addr |-> NoHeader],
             bin |-> [s \in Size |-> <<>>],
             dv |-> Null, dvsize |-> 0, top |-> Null, topsize |-> 0,
             seg |-> <<>>, footprint |-> 0, release_checks |-> 0, astray |-> FALSE]
    /\ live = <<>>

RoundUp(n, unit) == ((n + unit - 1) \div unit) * unit

-----------------------------------------------------------------------------
(* Headers and feet.  prev_foot is kept with the header that follows it,   *)
(* and is of no meaning while the chunk before that is in use.             *)

(* Forget the headers at lo .. hi - 1.                                     *)
Forget(m, lo, hi) ==
    [m EXCEPT !.head = [a \in Addr |-> IF a \in lo .. hi - 1 THEN NoHeader ELSE @[a]]]

SetHead(m, p, s, c, pin) ==
    [Forget(m, p + 1, p + s) EXCEPT
        !.head[p] = [size |-> s, cinuse |-> c, pinuse |-> pin,
                     prev_foot |-> IF pin THEN 0 ELSE @.prev_foot]]

SetPinuse(m, p) == [m EXCEPT !.head[p].pinuse = TRUE, !.head[p].prev_foot = 0]
clear_pinuse(m, p) == [m EXCEPT !.head[p].pinuse = FALSE]

set_inuse(m, p, s) == SetPinuse(SetHead(m, p, s, TRUE, m.head[p].pinuse), p + s)
set_inuse_and_pinuse(m, p, s) == SetPinuse(SetHead(m, p, s, TRUE, TRUE), p + s)
set_size_and_pinuse_of_inuse_chunk(m, p, s) == SetHead(m, p, s, TRUE, TRUE)
set_size_and_pinuse_of_free_chunk(m, p, s) ==
    [SetHead(m, p, s, FALSE, TRUE) EXCEPT !.head[p + s].prev_foot = s]

(* Mutant: the next chunk is not told that this one is free.               *)
set_free_with_pinuse_silent(m, p, s, n) == set_size_and_pinuse_of_free_chunk(m, p, s)

set_free_with_pinuse(m, p, s, n) ==
    set_size_and_pinuse_of_free_chunk(clear_pinuse(m, n), p, s)

is_inuse(m, p) == m.head[p].cinuse \/ ~m.head[p].pinuse

-----------------------------------------------------------------------------
(* Bins.  Small ones are stacks; the chunks of one size in a tree bin form *)
(* a chain from which the oldest is taken.                                 *)

is_small(s) == s < MinLarge

insert_chunk(m, p, s) ==
    [m EXCEPT !.bin[s] = IF is_small(s) THEN <<p>> \o @ ELSE Append(@, p)]

unlink_chunk(m, p, s) == [m EXCEPT !.bin[s] = RemoveFirst(@, p)]

(* For tree chunks only.  The links of a small one are read and written    *)
(* outside it or where the program's data was; nothing is said of what the *)
(* code does then, and no call follows.                                    *)
insert_large_chunk(m, p, s) ==
    IF is_small(s) THEN [m EXCEPT !.astray = TRUE] ELSE insert_chunk(m, p, s)

unlink_large_chunk(m, p, s) ==
    IF is_small(s) THEN [m EXCEPT !.astray = TRUE] ELSE unlink_chunk(m, p, s)

replace_dv(m, p, s) ==
    [IF m.dvsize = 0 THEN m ELSE insert_chunk(m, m.dv, m.dvsize)
        EXCEPT !.dv = p, !.dvsize = s]

NoVictim(m) == [m EXCEPT !.dv = Null, !.dvsize = 0]

(* The new top ends before the foot that keeps room for a segment record.  *)
init_top(m, p, s) ==
    [SetHead(m, p, s, FALSE, TRUE) EXCEPT
        !.head[p + s] = [NoHeader EXCEPT !.size = TopFoot],
        !.top = p, !.topsize = s]

-----------------------------------------------------------------------------
(* dlmalloc.  Each way to find memory returns the state and the chunk.     *)

Found(m, p) == [m |-> m, mem |-> p]

(* Chunk p of size s, already unlinked, is used for nb; a remainder that   *)
(* can be a chunk goes to Keep.                                            *)
Use(m, p, s, nb, Keep(_, _, _)) ==
    IF s - nb < MinChunk
    THEN Found(set_inuse_and_pinuse(m, p, s), p)
    ELSE LET cut == set_size_and_pinuse_of_inuse_chunk(m, p, nb)
         IN  Found(Keep(set_size_and_pinuse_of_free_chunk(cut, p + nb, s - nb),
                        p + nb, s - nb), p)

UseBinned(m, s, nb, Keep(_, _, _)) ==
    LET p == Head(m.bin[s]) IN Use(unlink_chunk(m, p, s), p, s, nb, Keep)

UseVictim(m, nb) == Use(NoVictim(m), m.dv, m.dvsize, nb, replace_dv)

(* Mutant: the header of the new top is not written.                       *)
UseTop_bare(m, nb) ==
    Found([set_size_and_pinuse_of_inuse_chunk(m, m.top, nb) EXCEPT
              !.top = m.top + nb, !.topsize = m.topsize - nb], m.top)

UseTop(m, nb) ==
    LET rest == SetHead(m, m.top + nb, m.topsize - nb, FALSE, TRUE)
    IN  Found([set_size_and_pinuse_of_inuse_chunk(rest, m.top, nb) EXCEPT
                 !.top = m.top + nb, !.topsize = m.topsize - nb], m.top)

(* Mutant: off by one.                                                     *)
Binned_less(m, nb) == {s \in Size : s + 1 >= nb /\ m.bin[s] # <<>>}

Binned(m, nb) == {s \in Size : s >= nb /\ m.bin[s] # <<>>}

(* Mutant: a victim that fits exactly is passed over.                      *)
VictimServes_larger(m, nb) == nb < m.dvsize

VictimServes(m, nb) == nb <= m.dvsize

(* tmalloc_large: the best fitting chunk, unless dv fits better.           *)
BetterBinned(m, nb) ==
    /\ Binned(m, nb) # {}
    /\ ~VictimServes(m, nb) \/ Min(Binned(m, nb)) < m.dvsize

FindMemory(m, nb) ==
    CASE is_small(nb) /\ m.bin[nb] # <<>> ->
            UseBinned(m, nb, nb, replace_dv)
      [] is_small(nb) /\ m.bin[nb] = <<>> /\ ~VictimServes(m, nb) /\ Binned(m, nb) # {} ->
            UseBinned(m, Min(Binned(m, nb)), nb, replace_dv)
      [] ~is_small(nb) /\ BetterBinned(m, nb) ->
            UseBinned(m, Min(Binned(m, nb)), nb, insert_chunk)
      [] OTHER ->
            IF VictimServes(m, nb) THEN UseVictim(m, nb)
            ELSE IF nb < m.topsize THEN UseTop(m, nb)
            ELSE Found(m, Null)

-----------------------------------------------------------------------------
(* Memory from the system.                                                 *)

is_initialized(m) == m.top # Null

segment_holds(s, a) == s.base <= a /\ a < s.base + s.size

SegmentOf(m, a) == CHOOSE k \in DOMAIN m.seg : segment_holds(m.seg[k], a)

(* Mutant: top must be larger than the request, not as large.              *)
GrowthSize_exact(m, nb) ==
    IF is_initialized(m) THEN nb + TopFoot ELSE RoundUp(nb + TopFoot + 1, Granularity)

(* What the heap grows by: mallinfo's uordblks + fordblks is the footprint.*)
(* The rounding of the code adds a unit also to a multiple of 16.          *)
GrowthSize(m, nb) ==
    IF is_initialized(m) THEN m.footprint \div FSD + nb + 1
                         ELSE RoundUp(nb + TopFoot + 1, Granularity)

(* The answers of mmap: whole pages that are not in use, or a failure.     *)
CALL_MMAP(m, size) ==
    {Null} \cup
    {b \in Addr :
        /\ b % Page = 0
        /\ b + size <= Space
        /\ \A k \in DOMAIN m.seg :
              \/ b + size <= m.seg[k].base
              \/ RoundUp(m.seg[k].base + m.seg[k].size, Page) <= b}

(* The new memory lies before the segment at oldbase; what is left of it   *)
(* joins the segment's first chunk.                                        *)
prepend_alloc(m, newbase, oldbase, nb) ==
    LET q     == newbase + nb
        qsize == oldbase - q
        m1    == set_size_and_pinuse_of_inuse_chunk(m, newbase, nb)
        nsize == m.head[oldbase].size
    IN  CASE oldbase = m.top ->
                [SetHead(m1, q, qsize + m.topsize, FALSE, TRUE) EXCEPT
                    !.top = q, !.topsize = qsize + @]
          [] oldbase = m.dv ->
                [set_size_and_pinuse_of_free_chunk(m1, q, qsize + m.dvsize) EXCEPT
                    !.dv = q, !.dvsize = qsize + @]
          [] oldbase \notin {m.top, m.dv} /\ is_inuse(m, oldbase) ->
                insert_chunk(set_free_with_pinuse(m1, q, qsize, oldbase), q, qsize)
          [] oldbase \notin {m.top, m.dv} /\ ~is_inuse(m, oldbase) ->
                insert_chunk(set_free_with_pinuse(unlink_chunk(m1, oldbase, nsize),
                                                  q, qsize + nsize, oldbase + nsize),
                             q, qsize + nsize)

(* The new memory is a segment of its own.  Its predecessor's entry is     *)
(* saved in a chunk at the end of the old top, before the fenceposts.      *)
add_segment(m, tbase, tsize) ==
    LET k   == SegmentOf(m, m.top)
        end == m.seg[k].base + m.seg[k].size
        asp == end - TopFoot
        sp  == IF asp < m.top + MinChunk THEN m.top ELSE asp
        m1  == set_size_and_pinuse_of_inuse_chunk(Forget(m, sp, end), sp, RecordSize)
        m2  == init_top([m1 EXCEPT
                   !.head[sp + RecordSize] = Fencepost,
                   !.seg = <<[base |-> tbase, size |-> tsize, record |-> Null]>>
                               \o [@ EXCEPT ![1].record = sp]], tbase, tsize - TopFoot)
    IN  IF sp = m.top THEN m2
        ELSE insert_chunk(set_free_with_pinuse(m2, m.top, sp - m.top, sp), m.top, sp - m.top)

SplitNewTop(m, nb) == IF nb < m.topsize THEN UseTop(m, nb) ELSE Found(m, Null)

(* sys_alloc, when mmap has answered tbase.                                *)
Extended(m, nb, tbase) ==
    LET tsize  == GrowthSize(m, nb)
        grown  == [m EXCEPT !.footprint = @ + tsize]
        before == {k \in DOMAIN m.seg : /\ m.seg[k].base + m.seg[k].size = tbase
                                        /\ segment_holds(m.seg[k], m.top)}
        after  == {k \in DOMAIN m.seg : m.seg[k].base = tbase + tsize}
    IN  CASE ~is_initialized(m) ->
                SplitNewTop(init_top([grown EXCEPT
                    !.seg = <<[base |-> tbase, size |-> tsize, record |-> Null]>>,
                    !.release_checks = CheckRate], tbase, tsize - TopFoot), nb)
          [] before # {} ->
                LET k == Min(before)
                IN  SplitNewTop(init_top([grown EXCEPT !.seg[k].size = @ + tsize],
                                         m.top, m.topsize + tsize), nb)
          [] before = {} /\ after # {} ->
                LET k == Min(after)
                IN  Found(prepend_alloc([grown EXCEPT !.seg[k].base = tbase,
                                                      !.seg[k].size = @ + tsize],
                                        tbase, tbase + tsize, nb), tbase)
          [] is_initialized(m) /\ before = {} /\ after = {} ->
                SplitNewTop(add_segment(grown, tbase, tsize), nb)

sys_alloc(m, nb) ==
    {IF b = Null THEN Found(m, Null) ELSE Extended(m, nb, b) :
        b \in CALL_MMAP(m, GrowthSize(m, nb))}

dlmalloc(m, nb) ==
    LET found == FindMemory(m, nb)
    IN  IF found.mem # Null THEN {found} ELSE sys_alloc(m, nb)

-----------------------------------------------------------------------------
(* Memory back to the system.  unmaps[k] tells whether it takes segment k, *)
(* unmaps[1] whether mremap, or else munmap, takes the end of top.         *)

Answers(m) == [DOMAIN m.seg -> BOOLEAN]

(* The list of segments without the entry of s.                            *)
UnlinkEntry(segs, s) == RemoveFirstMatch(segs, LAMBDA t : t.base = s.base)

(* Mutant: the footprint keeps what was unmapped.                          *)
Unmapped_counted(m, s) ==
    [Forget(m, s.base, s.base + s.size) EXCEPT
        !.seg = UnlinkEntry(@, s)]

Unmapped(m, s) ==
    [Forget(m, s.base, s.base + s.size) EXCEPT
        !.seg = UnlinkEntry(@, s),
        !.footprint = @ - s.size]

(* Segment s goes if its first chunk is free and fills it.                 *)
ReleaseSegment(m, s, taken) ==
    LET p     == s.base
        psize == m.head[p].size
        m1    == IF p = m.dv THEN NoVictim(m) ELSE unlink_large_chunk(m, p, psize)
    IN  IF m.astray \/ is_inuse(m, p) \/ p + psize < s.base + s.size - TopFoot THEN m
        ELSE IF m1.astray THEN m1
        ELSE IF taken THEN Unmapped(m1, s)
        ELSE insert_large_chunk(m1, p, psize)

(* Mutant: the counter is not started again.                               *)
release_unused_segments_counts(m, unmaps) ==
    LET n == Len(m.seg)
        After[k \in 1 .. n] ==
            IF k = 1 THEN m ELSE ReleaseSegment(After[k - 1], m.seg[k], unmaps[k])
    IN  After[n]

(* All segments but m->seg, in the order of their list.                    *)
release_unused_segments(m, unmaps) ==
    LET n == Len(m.seg)
        After[k \in 1 .. n] ==
            IF k = 1 THEN m ELSE ReleaseSegment(After[k - 1], m.seg[k], unmaps[k])
    IN  [After[n] EXCEPT !.release_checks = Max({n - 1, CheckRate})]

has_segment_link(m, s) == \E k \in DOMAIN m.seg : segment_holds(s, m.seg[k].record)

(* Top shrinks by whole units of granularity; at least one is kept.        *)
sys_trim(m, pad, unmaps) ==
    LET room   == pad + TopFoot
        extra  == IF m.topsize <= room THEN 0
                  ELSE (RoundUp(m.topsize - room, Granularity) \div Granularity - 1)
                           * Granularity
        k      == SegmentOf(m, m.top)
        s      == m.seg[k]
        end    == s.base + s.size
        shrunk == init_top([m EXCEPT !.seg[k].size = @ - extra, !.footprint = @ - extra],
                           m.top, m.topsize - extra)
    IN  release_unused_segments(
            IF extra > 0 /\ s.size >= extra /\ unmaps[1] /\ ~has_segment_link(m, s)
            THEN Forget(shrunk, end - extra, end) ELSE m, unmaps)

-----------------------------------------------------------------------------
(* dlfree and dispose_chunk: chunk p of size psize, whose own header no    *)
(* longer counts, is joined with its free neighbours.  Size 0 stands for   *)
(* a chunk that became part of top or dv and needs no bin.                 *)

UnlinkPrevious(m, p, s) == IF p = m.dv THEN m ELSE unlink_chunk(m, p, s)

Joined(m) == [m |-> m, mem |-> Null, size |-> 0]

Consolidate(m, p, psize) ==
    LET back  == ~m.head[p].pinuse
        q     == IF back THEN p - m.head[p].prev_foot ELSE p
        qsize == p + psize - q
        next  == p + psize
        nsize == m.head[next].size
        m1    == IF back THEN UnlinkPrevious(m, q, p - q) ELSE m
        whole == set_size_and_pinuse_of_free_chunk(unlink_chunk(m1, next, nsize),
                                                   q, qsize + nsize)
    IN  IF m.head[next].cinuse
        THEN LET m2 == set_free_with_pinuse(m1, q, qsize, next)
             IN  IF back /\ q = m.dv THEN Joined([m2 EXCEPT !.dvsize = qsize])
                                     ELSE [m |-> m2, mem |-> q, size |-> qsize]
        ELSE IF next = m.top
        THEN LET m2 == IF q = m.dv THEN NoVictim(m1) ELSE m1
             IN  Joined([SetHead(m2, q, qsize + m.topsize, FALSE, TRUE) EXCEPT
                            !.top = q, !.topsize = qsize + @])
        ELSE IF next = m.dv
        THEN Joined([set_size_and_pinuse_of_free_chunk(m1, q, qsize + m.dvsize) EXCEPT
                        !.dv = q, !.dvsize = qsize + @])
        ELSE IF q = m.dv
        THEN Joined([whole EXCEPT !.dvsize = qsize + nsize])
        ELSE [m |-> whole, mem |-> q, size |-> qsize + nsize]

(* Mutant: a remainder is cut off and then left alone.                     *)
dispose_chunk_not(m, p, psize) == m

dispose_chunk(m, p, psize) ==
    LET c == Consolidate(m, p, psize)
    IN  IF c.size = 0 THEN c.m ELSE insert_chunk(c.m, c.mem, c.size)

(* A free chunk that goes to a tree bin counts towards the next release.   *)
dlfree(m, p, unmaps) ==
    LET c       == Consolidate(m, p, m.head[p].size)
        binned  == insert_chunk(c.m, c.mem, c.size)
        counted == [binned EXCEPT !.release_checks = @ - 1]
    IN  IF c.size = 0 THEN c.m
        ELSE IF is_small(c.size) THEN binned
        ELSE IF counted.release_checks > 0 THEN counted
        ELSE release_unused_segments(counted, unmaps)

-----------------------------------------------------------------------------
(* Calls of the program.                                                   *)

(* try_realloc_chunk: chunk p gets size nb where it is, or mem is null.    *)
try_realloc_chunk(m, p, nb) ==
    LET oldsize == m.head[p].size
        next    == p + oldsize
        nsize   == m.head[next].size
        Split(mm, s) ==     \* p has size s now: dispose of what exceeds nb
            IF s - nb < MinChunk THEN Found(set_inuse(mm, p, s), p)
            ELSE Found(dispose_chunk(set_inuse(set_inuse(mm, p, nb), p + nb, s - nb),
                                     p + nb, s - nb), p)
    IN  IF oldsize >= nb
        THEN IF oldsize - nb < MinChunk THEN Found(m, p) ELSE Split(m, oldsize)
        ELSE IF next = m.top
        THEN IF oldsize + m.topsize <= nb THEN Found(m, Null)
             ELSE Found([SetHead(set_inuse(m, p, nb), p + nb, oldsize + m.topsize - nb,
                                 FALSE, TRUE) EXCEPT
                            !.top = p + nb, !.topsize = oldsize + @ - nb], p)
        ELSE IF next = m.dv
        THEN LET dsize == oldsize + m.dvsize - nb IN
             IF dsize < 0 THEN Found(m, Null)
             ELSE IF dsize < MinChunk
             THEN Found(NoVictim(set_inuse(m, p, oldsize + m.dvsize)), p)
             ELSE Found([clear_pinuse(set_size_and_pinuse_of_free_chunk(
                                          set_inuse(m, p, nb), p + nb, dsize),
                                      p + nb + dsize) EXCEPT
                            !.dv = p + nb, !.dvsize = dsize], p)
        ELSE IF ~m.head[next].cinuse /\ oldsize + nsize >= nb
        THEN Split(unlink_chunk(m, next, nsize), oldsize + nsize)
        ELSE Found(m, Null)

(* internal_memalign, once chunk p has been found that is large enough:    *)
(* its leading space, and what is left behind nb, are given back.  A chunk *)
(* is aligned when the memory behind its header is.                        *)
Aligned(m, p, alignment, nb) ==
    LET br       == RoundUp(p + 1, alignment) - 1
        q        == IF br = p \/ br - p >= MinChunk THEN br ELSE br + alignment
        size     == m.head[p].size - (q - p)
        trimmed  == IF q = p THEN m
                    ELSE dispose_chunk(set_inuse(set_inuse(m, q, size), p, q - p), p, q - p)
    IN  IF size <= nb + MinChunk THEN Found(trimmed, q)
        ELSE Found(dispose_chunk(set_inuse(set_inuse(trimmed, q, nb), q + nb, size - nb),
                                 q + nb, size - nb), q)

(* The total of the first i sizes.                                         *)
Total(sizes) ==
    LET Sum[i \in 0 .. Len(sizes)] == IF i = 0 THEN 0 ELSE Sum[i - 1] + sizes[i] IN Sum

(* ialloc: p becomes one chunk per part; the last one takes what is left.  *)
Parted(m, p, parts) ==
    LET n  == Len(parts)
        at == [i \in 1 .. n |-> p + Total(parts)[i - 1]]
        After[i \in 0 .. n] ==
            IF i = 0 THEN m
            ELSE set_size_and_pinuse_of_inuse_chunk(After[i - 1], at[i],
                    IF i < n THEN parts[i] ELSE p + m.head[p].size - at[n])
    IN  [m |-> After[n], at |-> at]

(* Of an array of n pointers.                                              *)
ArraySize(n) == Max({MinChunk, (n + 2) \div 2})

(* Mutant: what comes later in the array is taken to be adjacent.          *)
FollowsIn_later(m, p, b) == b >= p + m.head[p].size

FollowsIn(m, p, b) == b = p + m.head[p].size

(* A block that the array's next entry follows in memory is joined with    *)
(* it, and freed as a part of it.                                          *)
internal_bulk_free(m, array) ==
    LET n == Len(array)
        After[i \in 1 .. n + 1] ==     \* the state before entry i, and the entry
            IF i = 1 THEN Found(m, array[1])
            ELSE LET h    == After[i - 1].m
                     p    == After[i - 1].mem
                     size == h.head[p].size
                     b    == IF i > n THEN Null ELSE array[i]
                 IN  IF FollowsIn(h, p, b)
                     THEN Found(set_inuse(h, p, size + h.head[p + size].size), p)
                     ELSE Found(dispose_chunk(h, p, size), b)
    IN  After[n + 1].m

Holding(p, nb) == [q \in DOMAIN live \cup {p} |-> IF q = p THEN nb ELSE live[q]]
Without(p)     == [q \in DOMAIN live \ {p} |-> live[q]]

Malloc(nb) ==
    /\ ~gm.astray
    /\ Cardinality(DOMAIN live) < MaxLive
    /\ \E r \in dlmalloc(gm, nb) :
          /\ gm' = r.m
          /\ live' = IF r.mem = Null THEN live ELSE Holding(r.mem, nb)

Memalign(alignment, nb) ==
    /\ ~gm.astray
    /\ Cardinality(DOMAIN live) < MaxLive
    /\ \E r \in dlmalloc(gm, nb + alignment + MinChunk) :
          IF r.mem = Null THEN gm' = r.m /\ live' = live
          ELSE LET a == Aligned(r.m, r.mem, alignment, nb)
               IN  gm' = a.m /\ live' = Holding(a.mem, nb)

Free(p) ==
    /\ ~gm.astray
    /\ gm' \in {dlfree(gm, p, unmaps) : unmaps \in Answers(gm)}
    /\ live' = Without(p)

ReallocInPlace(p, nb) ==
    LET r == try_realloc_chunk(gm, p, nb) IN
    /\ ~gm.astray
    /\ r.mem # Null
    /\ gm' = r.m
    /\ live' = Holding(p, nb)

(* The contents go to a new block and p is freed.  try_realloc_chunk has   *)
(* failed, but before a collection that dlmalloc may have run: what it     *)
(* would do now says only that p was too small.                            *)
ReallocMoves(p, nb) ==
    /\ ~gm.astray
    /\ gm.head[p].size < nb
    /\ \E r \in dlmalloc(gm, nb) :
          IF r.mem = Null THEN gm' = r.m /\ live' = live
          ELSE /\ gm' \in {dlfree(r.m, p, unmaps) : unmaps \in Answers(r.m)}
               /\ live' = [q \in (DOMAIN live \ {p}) \cup {r.mem} |->
                              IF q = r.mem THEN nb ELSE live[q]]

Trim(pad) ==
    /\ ~gm.astray
    /\ is_initialized(gm)
    /\ gm' \in {sys_trim(gm, pad, unmaps) : unmaps \in Answers(gm)}
    /\ UNCHANGED live

(* independent_calloc and independent_comalloc; the array of the blocks    *)
(* is given, or is one more block.  An empty array is a Malloc, or nothing.*)
IndependentAlloc(sizes, given) ==
    LET parts == IF given THEN sizes ELSE Append(sizes, ArraySize(Len(sizes))) IN
    /\ ~gm.astray
    /\ Cardinality(DOMAIN live) + Len(parts) <= MaxLive
    /\ \E r \in dlmalloc(gm, Total(parts)[Len(parts)]) :
          IF r.mem = Null THEN gm' = r.m /\ live' = live
          ELSE LET c == Parted(r.m, r.mem, parts)
               IN  /\ gm' = c.m
                   /\ live' = [q \in DOMAIN live \cup Range(c.at) |->
                                  IF q \in DOMAIN live THEN live[q]
                                  ELSE parts[CHOOSE i \in DOMAIN parts : c.at[i] = q]]

BulkFree(array) ==
    /\ ~gm.astray
    /\ live' = [q \in DOMAIN live \ Range(array) |-> live[q]]
    /\ gm' = internal_bulk_free(gm, array)

Arrays(S, n) == {a \in UNION {[1 .. k -> S] : k \in 2 .. n} : IsInjective(a)}

Next ==
    \/ \E nb \in Requests :
          \/ Malloc(nb)
          \/ \E alignment \in Alignments : Memalign(alignment, nb)
          \/ \E p \in DOMAIN live : ReallocInPlace(p, nb) \/ ReallocMoves(p, nb)
    \/ \E p \in DOMAIN live : Free(p)
    \/ \E sizes \in UNION {[1 .. n -> Requests] : n \in 1 .. MaxLive}, given \in BOOLEAN :
          IndependentAlloc(sizes, given)
    \/ \E array \in Arrays(DOMAIN live, MaxArray) : BulkFree(array)
    \/ \E pad \in Pads : Trim(pad)

Spec == Init /\ [][Next]_vars

-----------------------------------------------------------------------------
(* Debugging support and statistics.                                       *)

next_pinuse(m, p) == m.head[p + m.head[p].size].pinuse

do_check_top_chunk(m, p) ==
    LET s  == m.seg[SegmentOf(m, p)]
        sz == m.head[p].size
    IN  /\ sz = m.topsize /\ sz > 0
        /\ sz = s.base + s.size - p - TopFoot
        /\ m.head[p].pinuse /\ ~m.head[p + sz].pinuse

do_check_inuse_chunk(m, p) ==
    /\ is_inuse(m, p) /\ next_pinuse(m, p)
    /\ LET foot == m.head[p].prev_foot
       IN  m.head[p].pinuse \/ m.head[p - foot].size = foot

do_check_free_chunk(m, p) ==
    LET sz   == m.head[p].size
        next == p + sz
    IN  /\ ~is_inuse(m, p) /\ ~next_pinuse(m, p)
        /\ p \notin {m.dv, m.top} =>
              /\ sz >= MinChunk /\ m.head[next].prev_foot = sz
              /\ m.head[p].pinuse /\ (next = m.top \/ is_inuse(m, next))

(* Links of neighbours in a bin agree: no chunk is in it twice.            *)
do_check_bin(m, s) ==
    /\ IsInjective(m.bin[s])
    /\ \A i \in DOMAIN m.bin[s] :
          LET p == m.bin[s][i] IN
          /\ m.head[p].size = s
          /\ do_check_free_chunk(m, p)
          /\ m.head[p + s] # Fencepost => do_check_inuse_chunk(m, p + s)

bin_find(m, x) == \E i \in DOMAIN m.bin[m.head[x].size] : m.bin[m.head[x].size][i] = x

(* The chunks of the segments, but for top.                                *)
Walk(m) ==
    LET Along(s) ==
            LET From[q \in Addr] ==
                    IF ~segment_holds(s, q) \/ q = m.top \/ m.head[q] = Fencepost THEN {}
                    ELSE {q} \cup From[q + m.head[q].size]
            IN  From[s.base]
    IN  UNION {Along(m.seg[k]) : k \in DOMAIN m.seg}

traverse_and_check(m) ==
    /\ \A k \in DOMAIN m.seg : m.head[m.seg[k].base].pinuse
    /\ \A q \in Walk(m) :
          IF is_inuse(m, q)
          THEN ~bin_find(m, q) /\ do_check_inuse_chunk(m, q)
          ELSE /\ q = m.dv \/ bin_find(m, q)
               /\ q + m.head[q].size \in Walk(m) => is_inuse(m, q + m.head[q].size)
               /\ do_check_free_chunk(m, q)

mallinfo(m) ==
    LET size(q) == m.head[q].size
        free    == MapThenSumSet(size, {q \in Walk(m) : ~is_inuse(m, q)})
        mfree   == m.topsize + TopFoot + free
    IN  IF is_initialized(m)
        THEN [arena |-> m.topsize + TopFoot + MapThenSumSet(size, Walk(m)),
              uordblks |-> m.footprint - mfree, fordblks |-> mfree]
        ELSE [arena |-> 0, uordblks |-> 0, fordblks |-> 0]

do_check_malloc_state(m) ==
    /\ \A s \in Size : do_check_bin(m, s)
    /\ m.dvsize # 0 =>
          m.dvsize = m.head[m.dv].size /\ m.dvsize >= MinChunk /\ ~bin_find(m, m.dv)
    /\ is_initialized(m) => do_check_top_chunk(m, m.top) /\ ~bin_find(m, m.top)
    /\ traverse_and_check(m)
    /\ mallinfo(m).arena <= m.footprint

-----------------------------------------------------------------------------
(* Properties.                                                             *)

End(s) == s.base + s.size

(* The chunks are the headers with a size, but for the foot behind top.    *)
Foot == gm.top + gm.topsize
Chunks == {a \in Addr : gm.head[a].size > 0 /\ ~(is_initialized(gm) /\ a = Foot)}
Following(a) == a + gm.head[a].size
FreeChunks == {a \in Chunks : ~is_inuse(gm, a)}
Records == {gm.seg[k].record : k \in 2 .. Len(gm.seg)}

TypeOK ==
    /\ gm.head \in [Addr -> [size : Size, cinuse : BOOLEAN, pinuse : BOOLEAN,
                             prev_foot : Size]]
    /\ gm.bin \in [Size -> Seq(Addr)]
    /\ gm.dv \in Addr \cup {Null} /\ gm.dvsize \in Size
    /\ gm.top \in Addr \cup {Null} /\ gm.topsize \in Size
    /\ gm.seg \in Seq([base : Addr, size : Size, record : Addr \cup {Null}])
    /\ gm.footprint \in Size
    /\ gm.release_checks \in Nat /\ gm.astray \in BOOLEAN
    /\ DOMAIN live \subseteq Addr

(* dlmalloc.c:2033, the checks of a build with DEBUG hold after every call:*)
(* the header behind a chunk agrees with it about its state and, if it is  *)
(* free, its size, no two free chunks touch, and bins, dv and top know     *)
(* just the chunks that the walk over the segments finds free.             *)
StateChecked == do_check_malloc_state(gm)

(* dlmalloc.c:2636, get_allocated_bytes: what the statistics call in use   *)
(* is what the program's blocks and the ends of older segments occupy; no  *)
(* call lets footprint, topsize and the headers drift apart.               *)
Accounted ==
    mallinfo(gm).uordblks =
        MapThenSumSet(LAMBDA p : gm.head[p].size, DOMAIN live)
        + MapThenSumSet(LAMBDA k : End(gm.seg[k]) - gm.seg[k].record, 2 .. Len(gm.seg))

(* dlmalloc.c:2001, traverse_and_check: from the base of a segment, one    *)
(* chunk follows the other up to the segment's record or to top.           *)
Tiled ==
    /\ \A k \in DOMAIN gm.seg : gm.seg[k].base \in Chunks
    /\ \A a \in Chunks :
          /\ \/ Following(a) \in Chunks
             \/ a = gm.top /\ Following(a) = Foot
             \/ a \in Records /\ gm.head[Following(a)] = Fencepost
          /\ \/ \E k \in DOMAIN gm.seg : a = gm.seg[k].base
             \/ \E b \in Chunks : Following(b) = a

(* The segments lie apart and make up the footprint.  Top ends the first   *)
(* one, which is never unmapped (dlmalloc.c:2871); each other one holds    *)
(* its own record (dlmalloc.c:2884), so that nothing outlives its memory.  *)
SegmentsKept ==
    /\ gm.footprint = MapThenSumSet(LAMBDA k : gm.seg[k].size, DOMAIN gm.seg)
    /\ \A i, j \in DOMAIN gm.seg :
          i < j => End(gm.seg[i]) <= gm.seg[j].base \/ End(gm.seg[j]) <= gm.seg[i].base
    /\ \A k \in DOMAIN gm.seg :
          IF k = 1
          THEN /\ segment_holds(gm.seg[1], gm.top)
               /\ gm.topsize > 0 /\ gm.head[gm.top].size = gm.topsize
               /\ Foot = End(gm.seg[1]) - TopFoot
          ELSE segment_holds(gm.seg[k], gm.seg[k].record)

(* dlmalloc.c:1887, assert(tsize >= MIN_LARGE_SIZE): what is linked into,  *)
(* or out of, a tree is no chunk of a small size, also the first chunk of  *)
(* a segment that release_unused_segments gives back (dlmalloc.c:2890).    *)
ReleasedAreLarge == ~gm.astray

(* Every chunk in use is the program's or holds a segment record: no       *)
(* memory is lost, and none is given out that dlmalloc still uses.         *)
NothingLost == Chunks \ FreeChunks = DOMAIN live \cup Records

(* dlmalloc.c:3287: the heap grows only if nothing that is free would do.  *)
GrowsForNeed ==
    [][gm'.footprint # gm.footprint =>
          \A nb \in Requests :
              (\E a \in FreeChunks :
                  gm.head[a].size >= nb /\ (a = gm.top => gm.head[a].size > nb))
              => ~Malloc(nb)]_vars

(* dlmalloc.c:2694, "we need to request enough bytes from system to ensure *)
(* we can malloc nb bytes upon success": what is mapped for a request      *)
(* serves it.                                                              *)
GrowthSuffices ==
    [][gm'.footprint # gm.footprint /\ live' = live =>
          \A nb \in Requests : ~Malloc(nb)]_vars

(* The heap once the entries of array are disposed of one by one.          *)
DisposedEach(array) ==
    LET After[i \in 0 .. Len(array)] ==
            IF i = 0 THEN gm
            ELSE dispose_chunk(After[i - 1], array[i], gm.head[array[i]].size)
    IN  After[Len(array)]

(* dlmalloc.h:1186, "likely to be faster than freeing them one-by-one":    *)
(* that is the only difference, whatever the order of the array and the    *)
(* free chunks around its blocks.  (Blocks none of which follows the one   *)
(* before are freed one-by-one.)                                           *)
BulkIsEach ==
    \A array \in Arrays(DOMAIN live, MaxLive) :
        (\E i \in 2 .. Len(array) : FollowsIn(gm, array[i - 1], array[i]))
        => internal_bulk_free(gm, array) = DisposedEach(array)

(* The allocator implements the store of blocks its users are promised.    *)
Store == INSTANCE BlockStore WITH
    Slack  <- MinChunk,
    block  <- [p \in DOMAIN live |-> [size |-> gm.head[p].size, asked |-> live[p]]],
    mapped <- UNION {gm.seg[k].base .. End(gm.seg[k]) - 1 : k \in DOMAIN gm.seg}
StoreKept == Store!Spec

=============================================================================
