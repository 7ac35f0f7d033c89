-------------------------- MODULE ChunkHeapProofs --------------------------
(***************************************************************************)
(* Proofs about ChunkHeap, after ChunkLemmas: what trimming, freeing and   *)
(* growing the heap do to a sound one, that every call of the program      *)
(* leaves one that serves its blocks (Serves), and that the invariants,    *)
(* the action properties and the refinement the runs check follow.         *)
(***************************************************************************)
EXTENDS ChunkLemmas

-----------------------------------------------------------------------------
(* Trimming.                                                               *)

(* What dlmalloc_trim gives back of u, in whole units of g: less than u,   *)
(* and nothing or a unit.                                                  *)
LEMMA TrimExtra ==
    ASSUME NEW g \in Nat, g > 0, NEW u \in Nat, u > 0,
           NEW x, x = (RoundUp(u, g) \div g - 1) * g
    PROVE  x \in Nat /\ x < u /\ (x = 0 \/ x >= g)
<1> DEFINE q == (u + g - 1) \div g
<1>1. q \in Nat /\ q * g <= u + g - 1 /\ u + g - 1 < q * g + g
  OBVIOUS
<1> HIDE DEF q
<1>2. RoundUp(u, g) = q * g
  BY DEF RoundUp, q
<1>3. (q * g) \div g = q
  BY <1>1
<1>4. x = (q - 1) * g
  BY <1>2, <1>3
<1>5. x = q * g - g
  BY <1>1, <1>4
<1>6. q # 0
  BY <1>1
<1>7. q = 1 \/ q >= 2
  BY <1>1, <1>6
<1>8. q >= 2 => q * g >= 2 * g
  BY <1>1
<1>9. q = 1 => q * g = g
  BY <1>1
<1> DEFINE w == q * g
<1>10. w \in Nat
  BY <1>1
<1> HIDE DEF w
<1>11. x = w - g /\ w <= u + g - 1 /\ (w = g \/ w >= 2 * g)
  BY <1>1, <1>5, <1>7, <1>8, <1>9 DEF w
<1> QED
  BY <1>10, <1>11

(* x is m after the last d bytes of top are unmapped, and y is between.    *)
GivenBack(m, y, x, d) ==
    /\ y = [m EXCEPT !.seg[1].size = @ - d, !.footprint = @ - d]
    /\ x = Forget(init_top(y, m.top, m.topsize - d), End(m.seg[1]) - d, End(m.seg[1]))

(* The end of top goes back to the system.                                 *)
LEMMA TopGivenBack ==
    ASSUME NEW m \in State, Sound(m), NEW d \in Nat, d >= TopFoot, d < m.topsize,
           NEW y, NEW x, GivenBack(m, y, x, d)
    PROVE  Kept(m, x) /\ x.release_checks = m.release_checks
<1>0. y = [m EXCEPT !.seg[1].size = @ - d, !.footprint = @ - d]
  BY DEF GivenBack
<1>7. x = Forget(init_top(y, m.top, m.topsize - d), End(m.seg[1]) - d, End(m.seg[1]))
  BY DEF GivenBack
<1> DEFINE n == 0 - d
           s2 == m.topsize - d
<1>1. n \in Int
  OBVIOUS
<1>2. m.seg[1].size + n = m.seg[1].size - d /\ m.footprint + n = m.footprint - d
  <2>1. m.seg[1].size \in Nat
    BY SegmentOne, SegFacts
  <2>2. m.footprint \in Nat
    BY DEF State, Size
  <2> QED
    BY <2>1, <2>2
<1>3. y = FirstIs(m, n)
  <2> HIDE DEF n
  <2> QED
    BY <1>0, <1>2 DEF FirstIs
<1> HIDE DEF n, s2
<1>4. x = Forget(init_top(y, m.top, s2), End(m.seg[1]) - d, End(m.seg[1]))
  BY <1>7 DEF s2
<1>5. n = 0 - d /\ s2 = m.topsize - d
  BY DEF n, s2
<1>6. TopMoves(m, x, n) /\ x.release_checks = m.release_checks
  BY ONLY <1>1, <1>3, <1>4, <1>5, m \in State, Sound(m), d \in Nat, d >= TopFoot, d < m.topsize,
     TopShrinks
<1> QED
  BY <1>1, <1>6, MovedKept

(* What dlmalloc_trim owes, whether mremap, munmap or neither takes the    *)
(* end of top, and however munmap answers for each other segment: the heap *)
(* is sound, and the program's chunks are as they were, if no small chunk  *)
(* is released as one of a tree.                                           *)
THEOREM TrimKeeps ==
    ASSUME NEW m \in State, Sound(m), NEW pad \in Nat, NEW unmaps \in Answers(m),
           ~sys_trim(m, pad, unmaps).astray
    PROVE  /\ Kept(m, sys_trim(m, pad, unmaps))
           /\ sys_trim(m, pad, unmaps).release_checks > 0
<1> DEFINE room == pad + TopFoot
           u == m.topsize - room
           extra == IF m.topsize <= room THEN 0
                    ELSE (RoundUp(m.topsize - room, Granularity) \div Granularity - 1) * Granularity
           s == m.seg[1]
           y == [m EXCEPT !.seg[1].size = @ - extra, !.footprint = @ - extra]
           x == Forget(init_top(y, m.top, m.topsize - extra), End(s) - extra, End(s))
           c == extra > 0 /\ s.size >= extra /\ unmaps[1] /\ ~has_segment_link(m, s)
           z == IF c THEN x ELSE m
<1>1. SegmentOf(m, m.top) = 1
  BY TopAlone
<1>2. sys_trim(m, pad, unmaps) = release_unused_segments(z, unmaps)
  BY <1>1 DEF sys_trim, End
<1>3. Granularity \in Nat /\ Granularity >= TopFoot
  <2>1. /\ Granularity \in Nat /\ FSD \in Nat /\ FSD > 0 /\ MinLarge \in Nat /\ MinLarge > MinChunk
        /\ Granularity \div FSD + MinChunk + 1 >= TopFoot + MinLarge
    BY ChunkAssumption DEF ChunkAssumption
  <2>2. Granularity \div FSD <= Granularity /\ Granularity \div FSD \in Nat
    BY <2>1
  <2> QED
    BY <2>1, <2>2 DEF TopFoot, RecordSize, MinChunk
<1>4. m.topsize \in Nat /\ room \in Nat /\ TopFoot > 0 /\ TopFoot \in Nat
  <2>1. m.topsize \in Nat
    BY SegmentOne
  <2> QED
    BY <2>1 DEF TopFoot, RecordSize, MinChunk
<1> HIDE DEF room
<1>5. extra \in Nat /\ (extra > 0 => extra < m.topsize /\ extra >= TopFoot)
  <2>1. CASE m.topsize <= room
    BY <2>1
  <2>2. CASE ~(m.topsize <= room)
    <3>1. u \in Nat /\ u > 0 /\ u <= m.topsize
      BY <1>4, <2>2
    <3>2. extra = (RoundUp(u, Granularity) \div Granularity - 1) * Granularity
      BY <2>2
    <3> HIDE DEF u, extra
    <3>3. Granularity > 0
      BY <1>3, <1>4
    <3>4. extra \in Nat /\ extra < u /\ (extra = 0 \/ extra >= Granularity)
      BY <1>3, <3>1, <3>2, <3>3, TrimExtra
    <3> QED
      BY <1>3, <1>4, <3>1, <3>4
  <2> QED
    BY <2>1, <2>2
<1> HIDE DEF extra
<1>6. Kept(m, z)
  <2>1. CASE c
    <3>1. extra > 0 /\ extra >= TopFoot /\ extra < m.topsize
      BY <1>5, <2>1
    <3> HIDE DEF c
    <3>2. z = x
      BY <2>1
    <3>3. GivenBack(m, y, x, extra)
      BY DEF GivenBack
    <3> HIDE DEF x, y, z
    <3>4. extra \in Nat
      BY <1>5
    <3>5. Kept(m, x) /\ x.release_checks = m.release_checks
      BY ONLY m \in State, Sound(m), <3>1, <3>3, <3>4, TopGivenBack
    <3> QED
      BY <3>2, <3>5
  <2>2. CASE ~c
    <3>1. z = m
      BY <2>2
    <3> QED
      BY <3>1 DEF Kept
  <2> QED
    BY <2>1, <2>2
<1>10. DOMAIN z.seg = DOMAIN m.seg
  <2>1. init_top(y, m.top, m.topsize - extra).seg = y.seg /\ x.seg = y.seg
    BY DEF init_top, SetHead, Forget, State
  <2>2. DOMAIN y.seg = DOMAIN m.seg
    BY DEF State
  <2> HIDE DEF x, y, c
  <2> QED
    BY <2>1, <2>2
<1> HIDE DEF z
<1>7. z \in State /\ Sound(z)
  BY <1>6 DEF Kept
<1>8. /\ Kept(z, release_unused_segments(z, unmaps))
      /\ release_unused_segments(z, unmaps).release_checks > 0
  <2>1. ~release_unused_segments(z, unmaps).astray
    BY <1>2
  <2>2. unmaps \in Answers(z)
    BY <1>10 DEF Answers
  <2> QED
    BY <1>7, <2>1, <2>2, ReleaseAllKeeps
<1> DEFINE r == release_unused_segments(z, unmaps)
<1> HIDE DEF r
<1>9. Kept(m, r)
  BY <1>6, <1>8, KeptOn DEF r
<1> QED
  BY <1>2, <1>8, <1>9 DEF r

-----------------------------------------------------------------------------
(* A block goes back.                                                      *)

(* The heap is sound, and the program has p no longer.                     *)
Returned(m, m2, p) ==
    /\ m2 \in State /\ Sound(m2) /\ m2.release_checks > 0
    /\ Blocks(m2) = Blocks(m) \ {p}
    /\ \A a \in Blocks(m2) : m2.head[a].size = m.head[a].size

LEMMA FreedReturned ==
    ASSUME NEW m, NEW p, NEW d, Freed(m, d, p), NEW x, Kept(d, x), x.release_checks > 0
    PROVE  Returned(m, x, p)
<1>1. /\ d.seg = m.seg /\ InUse(d) = InUse(m) \ {p}
      /\ \A a \in InUse(d) : d.head[a].size = m.head[a].size
  BY DEF Freed
<1>2. RecordsOf(d) = RecordsOf(m)
  BY <1>1 DEF RecordsOf
<1>3. /\ x \in State /\ Sound(x) /\ Blocks(x) = Blocks(d)
      /\ \A a \in Blocks(d) : x.head[a].size = d.head[a].size
  BY DEF Kept
<1>4. Blocks(d) = Blocks(m) \ {p} /\ Blocks(d) \subseteq InUse(d)
  BY <1>1, <1>2 DEF Blocks
<1> QED
  BY <1>1, <1>3, <1>4 DEF Returned

(* myfree, dlmalloc.c:3317: whatever is joined or released on the way, and *)
(* however munmap answers, just the block that is given back leaves the    *)
(* chunks in use, if no small chunk is released as one of a tree.  (The    *)
(* Makefile's threshold keeps free from trimming top.)                     *)
THEOREM FreeReturns ==
    ASSUME NEW m \in State, Sound(m), m.release_checks > 0, NEW p \in Blocks(m),
           NEW unmaps \in Answers(m), ~dlfree(m, p, unmaps).astray
    PROVE  Returned(m, dlfree(m, p, unmaps), p)
<1> DEFINE s == m.head[p].size
           c == Consolidate(m, p, s)
           d == dispose_chunk(m, p, s)
           v == d.release_checks - 1
           counted == [d EXCEPT !.release_checks = v]
           y == release_unused_segments(counted, unmaps)
           x == dlfree(m, p, unmaps)
<1>1. Freed(m, d, p)
  <2>1. p \in InUse(m) /\ p \notin RecordsOf(m)
    BY DEF Blocks
  <2>2. s = m.head[p].size
    OBVIOUS
  <2> HIDE DEF s
  <2> QED
    BY <2>1, <2>2, DisposeFrees
<1>2. d \in State /\ Sound(d) /\ d.release_checks = m.release_checks /\ m.release_checks \in Nat
  BY <1>1 DEF Freed, State
<1>3. Kept(d, d)
  BY <1>2 DEF Kept
<1>4. d = IF c.size = 0 THEN c.m ELSE insert_chunk(c.m, c.mem, c.size)
  BY DEF dispose_chunk
<1>5. v \in Nat
  BY <1>2
<1>6. x \in {d, y} \/ (x = counted /\ counted.release_checks > 0)
  <2> HIDE DEF d
  <2>1. CASE c.size = 0
    BY <1>4, <2>1 DEF dlfree
  <2>2. CASE c.size # 0
    <3>1. d = insert_chunk(c.m, c.mem, c.size)
      BY <1>4, <2>2
    <3> QED
      BY <2>2, <3>1 DEF dlfree
  <2> QED
    BY <2>1, <2>2
<1> HIDE DEF s, c, d, v, x
<1>7. counted \in State /\ counted.release_checks = v /\ SameButChecks(d, counted)
  BY <1>2, <1>5 DEF State, SameButChecks
<1> HIDE DEF counted
<1>8. Kept(d, counted)
  BY <1>2, <1>7, SameSound
<1>9. CASE x = d
  BY <1>1, <1>2, <1>3, <1>9, FreedReturned DEF x
<1>10. CASE x = counted /\ counted.release_checks > 0
  BY <1>1, <1>8, <1>10, FreedReturned DEF x
<1>11. CASE x = y
  <2>1. counted \in State /\ Sound(counted)
    BY <1>8 DEF Kept
  <2>3. counted.seg = m.seg
    BY <1>1, <1>7 DEF Freed, SameButChecks
  <2>4. unmaps \in Answers(counted)
    BY <2>3 DEF Answers
  <2>5. ~y.astray
    BY <1>11 DEF x
  <2>2. Kept(counted, y) /\ y.release_checks > 0
    BY <2>1, <2>4, <2>5, ReleaseAllKeeps
  <2> HIDE DEF y
  <2>6. Kept(d, y)
    BY <1>8, <2>2, KeptOn
  <2> QED
    BY <1>1, <1>11, <2>2, <2>6, FreedReturned DEF x
<1> QED
  BY <1>6, <1>9, <1>10, <1>11

-----------------------------------------------------------------------------
(* Memory before a segment.                                                *)

(* Segment k, which began at hi, begins at lo, with one chunk in use.      *)
Prepended(m, m2, k, lo, hi) ==
    /\ m2 \in State /\ k \in DOMAIN m.seg /\ lo \in Addr /\ hi = m.seg[k].base /\ hi - lo >= MinChunk
    /\ m2.bin = m.bin /\ m2.dv = m.dv /\ m2.dvsize = m.dvsize
    /\ m2.top = m.top /\ m2.topsize = m.topsize
    /\ DOMAIN m2.seg = DOMAIN m.seg
    /\ \A j \in DOMAIN m.seg \ {k} : m2.seg[j] = m.seg[j]
    /\ m2.seg[k].base = lo /\ m2.seg[k].record = m.seg[k].record
    /\ m2.seg[k].size = m.seg[k].size + (hi - lo)
    /\ m2.footprint = m.footprint + (hi - lo)
    /\ \A j \in DOMAIN m.seg \ {k} : hi <= m.seg[j].base \/ End(m.seg[j]) <= lo
    /\ m2.head[lo].size = hi - lo /\ m2.head[lo].cinuse = TRUE /\ m2.head[lo].pinuse = TRUE
    /\ \A a \in Addr \ {lo} : m2.head[a] = m.head[a]

(* What lies before a segment is not in the heap.                          *)
RoomBefore(m, k, lo, hi) ==
    /\ lo \in Int /\ hi \in Int /\ hi \in Cells(m) /\ m.head[hi].pinuse = TRUE
    /\ segment_holds(m.seg[k], hi)
    /\ \A a \in Addr : lo <= a /\ a < hi => m.head[a] = NoHeader
    /\ \A j \in DOMAIN m.seg : m.seg[j].base = hi => j = k
    /\ \A a \in Cells(m) : a \in Int /\ a \in Addr /\ (a < lo \/ hi <= a)
    /\ \A a \in Cells(m) : a < lo => After(m, a) < lo

LEMMA PrependRoom ==
    ASSUME NEW m \in State, Sound(m), NEW k \in DOMAIN m.seg, NEW lo \in Addr, NEW hi,
           hi = m.seg[k].base, lo < hi,
           \A j \in DOMAIN m.seg \ {k} : hi <= m.seg[j].base \/ End(m.seg[j]) <= lo
    PROVE  RoomBefore(m, k, lo, hi)
<1>1. lo \in Int /\ hi \in Int
  BY SegFacts DEF Addr
<1>2. /\ hi \in Cells(m) /\ m.head[hi].pinuse = TRUE /\ segment_holds(m.seg[k], hi)
      /\ \A j \in DOMAIN m.seg : m.seg[j].base = hi => j = k
  BY BaseHeld
<1>3. Layout(m) /\ SegmentLayout(m)
  BY DEF Sound
<1>4. ASSUME NEW a \in Addr, lo <= a, a < hi PROVE m.head[a] = NoHeader
  <2>1. a \in Int
    BY DEF Addr
  <2>2. ASSUME NEW j \in DOMAIN m.seg, segment_holds(m.seg[j], a) PROVE FALSE
    <3>1. m.seg[j].base <= a /\ a < End(m.seg[j]) /\ m.seg[j].base \in Int /\ End(m.seg[j]) \in Int
      BY <2>2, SegFacts DEF segment_holds, End
    <3>2. j # k
      BY <1>1, <1>4, <2>1, <3>1
    <3> QED
      BY <1>1, <1>4, <2>1, <3>1, <3>2
  <2> QED
    BY <1>3, <2>2 DEF SegmentLayout
<1>5. ASSUME NEW a \in Cells(m) PROVE a \in Int /\ a \in Addr /\ (a < lo \/ hi <= a)
  <2>1. a \in Int /\ a \in Addr /\ m.head[a] # NoHeader
    BY CellFacts
  <2> QED
    BY <1>1, <1>4, <2>1
<1>6. ASSUME NEW a \in Cells(m), a < lo PROVE After(m, a) < lo
  <2>1. a \in Int /\ a \in Addr /\ m.head[a] # NoHeader /\ After(m, a) \in Int
    BY CellFacts
  <2>2. PICK j \in DOMAIN m.seg : segment_holds(m.seg[j], a)
    BY <1>3, <2>1 DEF SegmentLayout
  <2>3. m.seg[j].base <= a /\ a < End(m.seg[j]) /\ m.seg[j].base \in Int /\ End(m.seg[j]) \in Int
    BY <2>2, SegFacts DEF segment_holds, End
  <2>4. j # k
    BY <1>1, <1>6, <2>1, <2>3
  <2>5. End(m.seg[j]) <= lo
    BY <1>1, <1>6, <2>1, <2>3, <2>4
  <2>6. After(m, a) < End(m.seg[j])
    BY <1>3, <2>2 DEF SegmentLayout
  <2> QED
    BY <1>1, <2>1, <2>3, <2>5, <2>6
<1> QED
  BY <1>1, <1>2, <1>4, <1>5, <1>6 DEF RoomBefore

(* What is known of the state before and after.                            *)
PrependKnown(m, m2, k, lo, hi) ==
    /\ lo \in Int /\ lo \in Addr /\ hi \in Int /\ lo < hi /\ hi \in Cells(m) /\ lo \notin Cells(m)
    /\ m.head[hi].pinuse = TRUE /\ m.head[lo] = NoHeader
    /\ \A a \in Addr : lo <= a /\ a < hi => m.head[a] = NoHeader
    /\ \A j \in DOMAIN m.seg : m.seg[j].base = hi => j = k
    /\ \A a \in Cells(m) : a < lo => After(m, a) < lo
    /\ FootOf(m2) = FootOf(m) /\ lo # FootOf(m) /\ lo # m.top
    /\ Cells(m2) = Cells(m) \cup {lo}
    /\ \A a \in Cells(m) : a # lo /\ a \in Addr /\ a \in Int /\ (a < lo \/ hi <= a)
                           /\ m2.head[a] = m.head[a] /\ After(m2, a) = After(m, a)
    /\ After(m2, lo) = hi
    /\ RecordsOf(m2) = RecordsOf(m)
    /\ BasesOf(m2) = (BasesOf(m) \ {hi}) \cup {lo}

LEMMA PrependFacts ==
    ASSUME NEW m \in State, Sound(m), NEW m2, NEW k, NEW lo, NEW hi, Prepended(m, m2, k, lo, hi)
    PROVE  PrependKnown(m, m2, k, lo, hi)
<1>1. /\ m2 \in State /\ k \in DOMAIN m.seg /\ lo \in Addr /\ hi = m.seg[k].base /\ hi - lo >= MinChunk
      /\ m2.top = m.top /\ m2.topsize = m.topsize /\ DOMAIN m2.seg = DOMAIN m.seg
      /\ m2.head[lo].size = hi - lo
  BY DEF Prepended
<1>2. lo < hi /\ lo \in Int /\ hi \in Int
  BY <1>1, SegFacts DEF Addr, MinChunk
<1>3. /\ hi \in Cells(m) /\ m.head[hi].pinuse = TRUE
      /\ \A a \in Addr : lo <= a /\ a < hi => m.head[a] = NoHeader
      /\ \A j \in DOMAIN m.seg : m.seg[j].base = hi => j = k
      /\ \A a \in Cells(m) : a \in Int /\ a \in Addr /\ (a < lo \/ hi <= a)
      /\ \A a \in Cells(m) : a < lo => After(m, a) < lo
  <2>1. \A j \in DOMAIN m.seg \ {k} : hi <= m.seg[j].base \/ End(m.seg[j]) <= lo
    BY DEF Prepended
  <2>2. RoomBefore(m, k, lo, hi)
    BY <1>1, <1>2, <2>1, PrependRoom
  <2> QED
    BY <2>2 DEF RoomBefore
<1>4. m.head[lo] = NoHeader
  BY <1>1, <1>2, <1>3
<1>5. lo \notin Cells(m)
  BY <1>4 DEF Cells, NoHeader
<1>6. FootOf(m2) = FootOf(m)
  BY <1>1 DEF FootOf
<1>7. lo # FootOf(m) /\ lo # m.top
  <2>1. m.head[FootOf(m)].size = TopFoot /\ m.top \in Cells(m)
    BY DEF Sound, Layout
  <2> QED
    BY <1>4, <1>5, <2>1 DEF NoHeader, TopFoot, RecordSize, MinChunk
<1>8. \A a \in Addr : a # lo => m2.head[a] = m.head[a]
  BY DEF Prepended
<1>9. Cells(m2) = Cells(m) \cup {lo}
  <2>1. lo \in Cells(m2)
    BY <1>1, <1>2, <1>6, <1>7 DEF Cells
  <2>2. \A a \in Addr : a # lo => (a \in Cells(m2) <=> a \in Cells(m))
    BY <1>6, <1>8 DEF Cells
  <2>3. Cells(m) \subseteq Addr /\ Cells(m2) \subseteq Addr
    BY DEF Cells
  <2> QED
    BY <1>1, <2>1, <2>2, <2>3
<1>10. \A a \in Cells(m) : /\ a # lo /\ a \in Addr /\ a \in Int /\ (a < lo \/ hi <= a)
                           /\ m2.head[a] = m.head[a] /\ After(m2, a) = After(m, a)
  BY <1>3, <1>5, <1>8 DEF After
<1>11. After(m2, lo) = hi
  BY <1>1, <1>2 DEF After
<1>12. RecordsOf(m2) = RecordsOf(m)
  <2>1. \A j \in DOMAIN m.seg : m2.seg[j].record = m.seg[j].record
    BY DEF Prepended
  <2> QED
    BY <1>1, <2>1 DEF RecordsOf
<1>13. BasesOf(m2) = (BasesOf(m) \ {hi}) \cup {lo}
  <2>1. \A j \in DOMAIN m.seg : j # k => m2.seg[j].base = m.seg[j].base
    BY DEF Prepended
  <2>2. m2.seg[k].base = lo
    BY DEF Prepended
  <2>3. \A j \in DOMAIN m.seg : m.seg[j].base # hi <=> j # k
    BY <1>1, <1>3
  <2>4. \A b \in BasesOf(m2) : b \in (BasesOf(m) \ {hi}) \cup {lo}
    BY <1>1, <2>1, <2>2, <2>3 DEF BasesOf
  <2>5. \A b \in (BasesOf(m) \ {hi}) \cup {lo} : b \in BasesOf(m2)
    BY <1>1, <2>1, <2>2, <2>3 DEF BasesOf
  <2> QED
    BY <2>4, <2>5
<1> QED
  BY <1>1, <1>2, <1>3, <1>4, <1>5, <1>6, <1>7, <1>9, <1>10, <1>11, <1>12, <1>13 DEF PrependKnown

LEMMA PrependLayout ==
    ASSUME NEW m \in State, Sound(m), NEW m2, NEW k, NEW lo, NEW hi, Prepended(m, m2, k, lo, hi)
    PROVE  Layout(m2)
<1>0. PrependKnown(m, m2, k, lo, hi)
  BY PrependFacts
<1>1. /\ lo \in Int /\ lo \in Addr /\ hi \in Int /\ lo < hi /\ hi \in Cells(m) /\ lo \notin Cells(m)
      /\ m.head[hi].pinuse = TRUE /\ m.head[lo] = NoHeader /\ hi \in Addr
      /\ FootOf(m2) = FootOf(m) /\ lo # FootOf(m) /\ lo # m.top
      /\ Cells(m2) = Cells(m) \cup {lo} /\ After(m2, lo) = hi
      /\ RecordsOf(m2) = RecordsOf(m) /\ BasesOf(m2) = (BasesOf(m) \ {hi}) \cup {lo}
  BY <1>0 DEF PrependKnown, Cells
<1>2. \A a \in Cells(m) : a # lo /\ a \in Addr /\ a \in Int /\ (a < lo \/ hi <= a)
                          /\ m2.head[a] = m.head[a] /\ After(m2, a) = After(m, a)
  BY <1>0 DEF PrependKnown
<1>3. \A a \in Addr : lo <= a /\ a < hi => m.head[a] = NoHeader
  BY <1>0 DEF PrependKnown
<1>4. \A a \in Cells(m) : a < lo => After(m, a) < lo
  BY <1>0 DEF PrependKnown
<1>5. /\ Layout(m) /\ m2.top = m.top /\ m2.topsize = m.topsize
      /\ m2.head[lo].size = hi - lo /\ m2.head[lo].cinuse = TRUE /\ m2.head[lo].pinuse = TRUE
      /\ hi - lo >= MinChunk /\ \A a \in Addr : a # lo => m2.head[a] = m.head[a]
  BY DEF Prepended, Sound
<1>6. ASSUME NEW a \in Cells(m2), NEW b \in Addr, a < b, m2.head[b] # NoHeader PROVE After(m2, a) <= b
  <2>1. b \in Int
    BY DEF Addr
  <2>2. CASE a = lo
    <3>1. m.head[b] # NoHeader
      BY <1>1, <1>5, <1>6, <2>1, <2>2
    <3> QED
      BY <1>1, <1>3, <1>6, <2>1, <2>2, <3>1
  <2>3. CASE a # lo /\ b = lo
    <3>1. a \in Cells(m)
      BY <1>1, <2>3
    <3>2. After(m, a) < lo /\ After(m2, a) = After(m, a) /\ After(m, a) \in Int
      BY <1>2, <1>4, <1>6, <2>3, <3>1, CellFacts
    <3> QED
      BY <1>1, <2>3, <3>2
  <2>4. CASE a # lo /\ b # lo
    <3>1. a \in Cells(m) /\ m.head[b] # NoHeader
      BY <1>1, <1>5, <1>6, <2>4
    <3> QED
      BY <1>2, <1>5, <1>6, <3>1 DEF Layout
  <2> QED
    BY <2>2, <2>3, <2>4
<1>7. /\ After(m2, lo) \in Addr /\ Followed(m2, lo) /\ Tagged(m2, lo) /\ m2.head[lo].size >= MinChunk
      /\ lo \in BasesOf(m2)
  <2>1. lo \notin RecordsOf(m2)
    BY <1>1, <1>5 DEF Layout
  <2>2. m2.head[hi] = m.head[hi] /\ hi \in Cells(m2) \ BasesOf(m2)
    BY <1>1, <1>2
  <2> QED
    BY <1>1, <1>5, <2>1, <2>2 DEF Followed, Tagged
<1>8. ASSUME NEW a \in Cells(m)
      PROVE  /\ After(m2, a) \in Addr /\ Followed(m2, a) /\ Tagged(m2, a)
             /\ a # m2.top => m2.head[a].size >= MinChunk
             /\ a \in BasesOf(m2) \/ \E b \in Cells(m2) : After(m2, b) = a
  <2> DEFINE n == After(m, a)
  <2>1. n \in Addr /\ Followed(m, a) /\ Tagged(m, a) /\ (a # m.top => m.head[a].size >= MinChunk)
    BY <1>5 DEF Layout
  <2>2. a \in BasesOf(m) \/ \E b \in Cells(m) : After(m, b) = a
    BY <1>5 DEF Layout
  <2>3. m2.head[a] = m.head[a] /\ After(m2, a) = n
    BY <1>2
  <2>4. n # lo
    <3>1. CASE a = m.top
      BY <1>1, <2>1, <3>1 DEF Followed
    <3>2. CASE a # m.top /\ a \in RecordsOf(m)
      <4>1. m.head[n] = Fencepost
        BY <2>1, <3>2 DEF Followed
      <4> QED
        BY <1>1, <4>1 DEF Fencepost, NoHeader
    <3>3. CASE a # m.top /\ a \notin RecordsOf(m)
      <4>1. n \in Cells(m)
        BY <2>1, <3>3 DEF Followed
      <4> QED
        BY <1>1, <4>1
    <3> QED
      BY <3>1, <3>2, <3>3
  <2>5. m2.head[n] = m.head[n]
    BY <1>5, <2>1, <2>4
  <2>6. Followed(m2, a)
    <3>1. CASE a = m.top
      BY <1>1, <1>5, <2>1, <2>3, <3>1 DEF Followed
    <3>2. CASE a # m.top /\ a \in RecordsOf(m)
      BY <1>1, <1>5, <2>1, <2>3, <2>5, <3>2 DEF Followed
    <3>3. CASE a # m.top /\ a \notin RecordsOf(m)
      <4>1. n \in Cells(m) \ BasesOf(m)
        BY <2>1, <3>3 DEF Followed
      <4> QED
        BY <1>1, <1>5, <2>3, <2>4, <3>3, <4>1 DEF Followed
    <3> QED
      BY <3>1, <3>2, <3>3
  <2>7. Tagged(m2, a)
    BY <1>5, <2>1, <2>3, <2>5 DEF Tagged
  <2>8. a \in BasesOf(m2) \/ \E b \in Cells(m2) : After(m2, b) = a
    <3>1. CASE a = hi
      BY <1>1, <3>1
    <3>2. CASE a # hi
      BY <1>1, <1>2, <2>2, <3>2
    <3> QED
      BY <3>1, <3>2
  <2> QED
    BY <1>5, <2>1, <2>3, <2>6, <2>7, <2>8
<1>9. \A a \in Cells(m2) : /\ After(m2, a) \in Addr /\ Followed(m2, a) /\ Tagged(m2, a)
                           /\ a # m2.top => m2.head[a].size >= MinChunk
                           /\ a \in BasesOf(m2) \/ \E b \in Cells(m2) : After(m2, b) = a
  BY <1>1, <1>7, <1>8
<1>10. \A a \in BasesOf(m2) : a \in Cells(m2) /\ m2.head[a].pinuse
  <2> SUFFICES ASSUME NEW a \in BasesOf(m2) PROVE a \in Cells(m2) /\ m2.head[a].pinuse
    OBVIOUS
  <2>1. CASE a = lo
    BY <1>1, <1>5, <2>1
  <2>2. CASE a # lo
    <3>1. a \in Cells(m) /\ m.head[a].pinuse
      BY <1>1, <1>5, <2>2 DEF Layout
    <3> QED
      BY <1>1, <1>2, <3>1
  <2> QED
    BY <2>1, <2>2
<1>11. \A r \in RecordsOf(m2) : r \in Cells(m2) /\ m2.head[r].cinuse
  BY <1>1, <1>2, <1>5 DEF Layout
<1>12. m2.top \in Cells(m2) /\ ~m2.head[m2.top].cinuse /\ m2.topsize = m2.head[m2.top].size
       /\ FootOf(m2) \in Addr /\ m2.head[FootOf(m2)].size = TopFoot
  <2>1. /\ m.top \in Cells(m) /\ ~m.head[m.top].cinuse /\ m.topsize = m.head[m.top].size
        /\ FootOf(m) \in Addr /\ m.head[FootOf(m)].size = TopFoot
    BY ONLY <1>5 DEF Layout
  <2>2. m2.top = m.top /\ m2.topsize = m.topsize /\ FootOf(m2) = FootOf(m) /\ lo # FootOf(m)
    BY ONLY <1>1, <1>5
  <2>3. m2.top \in Cells(m2) /\ m2.head[m.top] = m.head[m.top]
    BY ONLY <1>1, <1>2, <2>1, <2>2
  <2>4. m2.head[FootOf(m)] = m.head[FootOf(m)]
    BY ONLY <1>5, <2>1, <2>2
  <2> QED
    BY ONLY <2>1, <2>2, <2>3, <2>4
<1> QED
  BY <1>6, <1>9, <1>10, <1>11, <1>12 DEF Layout

LEMMA PrependSegments ==
    ASSUME NEW m \in State, Sound(m), NEW m2, NEW k, NEW lo, NEW hi, Prepended(m, m2, k, lo, hi)
    PROVE  SegmentLayout(m2)
<1>0. PrependKnown(m, m2, k, lo, hi)
  BY PrependFacts
<1>1. /\ lo \in Int /\ lo \in Addr /\ hi \in Int /\ lo < hi /\ hi \in Cells(m) /\ lo \notin Cells(m)
      /\ m.head[lo] = NoHeader /\ FootOf(m2) = FootOf(m)
      /\ Cells(m2) = Cells(m) \cup {lo} /\ After(m2, lo) = hi
  BY <1>0 DEF PrependKnown
<1>2. \A a \in Cells(m) : a # lo /\ a \in Addr /\ a \in Int /\ (a < lo \/ hi <= a)
                          /\ After(m2, a) = After(m, a)
  BY <1>0 DEF PrependKnown
<1>3. \A a \in Addr : lo <= a /\ a < hi => m.head[a] = NoHeader
  BY <1>0 DEF PrependKnown
<1>4. SegmentLayout(m) /\ Layout(m) /\ m2 \in State
  BY DEF Sound, Prepended
<1>5. /\ k \in DOMAIN m.seg /\ hi = m.seg[k].base /\ DOMAIN m2.seg = DOMAIN m.seg
      /\ m2.seg[k].base = lo /\ m2.seg[k].record = m.seg[k].record
      /\ m2.seg[k].size = m.seg[k].size + (hi - lo) /\ m2.footprint = m.footprint + (hi - lo)
      /\ m2.top = m.top /\ \A a \in Addr : a # lo => m2.head[a] = m.head[a]
  BY DEF Prepended
<1>6. \A j \in DOMAIN m.seg : j # k =>
          m2.seg[j] = m.seg[j] /\ (hi <= m.seg[j].base \/ End(m.seg[j]) <= lo)
  BY DEF Prepended
<1>7. End(m2.seg[k]) = End(m.seg[k])
  <2>1. m.seg[k].size \in Nat
    BY <1>5, SegFacts
  <2> DEFINE s == m.seg[k].size
  <2>2. End(m2.seg[k]) = lo + (s + (hi - lo)) /\ End(m.seg[k]) = hi + s
    BY <1>5 DEF End
  <2>3. s \in Int
    BY <2>1
  <2> HIDE DEF s
  <2> QED
    BY <1>1, <2>2, <2>3
<1>8. \A j \in DOMAIN m.seg : m.seg[j].base \in Int /\ End(m.seg[j]) \in Int
  BY SegFacts
<1>9. \A j \in DOMAIN m2.seg : End(m2.seg[j]) = End(m.seg[j]) /\ m2.seg[j].record = m.seg[j].record
  BY <1>5, <1>6, <1>7
<1>10. segment_holds(m.seg[k], hi)
  BY <1>5, BaseHeld
<1>11. hi < End(m.seg[k])
  BY <1>10 DEF segment_holds, End
<1>12. ASSUME NEW j \in DOMAIN m.seg, NEW a \in Int, segment_holds(m.seg[j], a)
       PROVE  segment_holds(m2.seg[j], a)
  <2>1. m.seg[j].base <= a /\ a < End(m.seg[j])
    BY <1>12 DEF segment_holds, End
  <2>2. m2.seg[j].base <= m.seg[j].base /\ m2.seg[j].base \in Int
    BY <1>1, <1>5, <1>6, <1>8
  <2> QED
    BY <1>5, <1>8, <1>9, <2>1, <2>2 DEF segment_holds, End
<1>13. ASSUME NEW j \in DOMAIN m.seg, NEW a \in Int, segment_holds(m2.seg[j], a), a < lo \/ hi <= a
       PROVE  segment_holds(m.seg[j], a)
  <2>1. m2.seg[j].base <= a /\ a < End(m.seg[j])
    BY <1>5, <1>9, <1>13 DEF segment_holds, End
  <2>2. m.seg[j].base <= a
    BY <1>1, <1>5, <1>6, <1>13, <2>1
  <2> QED
    BY <2>1, <2>2 DEF segment_holds, End
<1>14. ASSUME NEW j \in DOMAIN m.seg, NEW i \in DOMAIN m.seg, i # j
       PROVE  End(m2.seg[i]) <= m2.seg[j].base \/ End(m2.seg[j]) <= m2.seg[i].base
  <2>1. CASE i # k /\ j # k
    BY <1>4, <1>6, <1>14, <2>1 DEF SegmentLayout
  <2> DEFINE e == End(m.seg[k])
  <2>2. e \in Int /\ hi < e /\ \A q \in DOMAIN m.seg : q # k => e <= m.seg[q].base \/ End(m.seg[q]) <= hi
    BY <1>4, <1>5, <1>8, <1>11 DEF SegmentLayout
  <2>3. \A q \in DOMAIN m.seg : q # k => e <= m.seg[q].base \/ End(m.seg[q]) <= lo
    <3> SUFFICES ASSUME NEW q \in DOMAIN m.seg, q # k
                 PROVE  e <= m.seg[q].base \/ End(m.seg[q]) <= lo
      OBVIOUS
    <3>1. e <= m.seg[q].base \/ End(m.seg[q]) <= hi
      BY <2>2
    <3>2. hi <= m.seg[q].base \/ End(m.seg[q]) <= lo
      BY <1>6
    <3>3. m.seg[q].base < End(m.seg[q])
      <4>1. segment_holds(m.seg[q], m.seg[q].base)
        BY BaseHeld
      <4> QED
        BY <4>1 DEF segment_holds, End
    <3> HIDE DEF e
    <3>4. m.seg[q].base \in Int /\ End(m.seg[q]) \in Int
      BY <1>8
    <3> QED
      BY <1>1, <2>2, <3>1, <3>2, <3>3, <3>4
  <2>4. CASE i = k
    <3>1. j # k
      BY <1>14, <2>4
    <3>2. e <= m.seg[j].base \/ End(m.seg[j]) <= lo
      BY <2>3, <3>1
    <3>3. m2.seg[j] = m.seg[j]
      BY <1>6, <3>1
    <3> QED
      BY <1>5, <1>7, <2>4, <3>2, <3>3
  <2>5. CASE j = k
    <3>1. i # k
      BY <1>14, <2>5
    <3>2. e <= m.seg[i].base \/ End(m.seg[i]) <= lo
      BY <2>3, <3>1
    <3>3. m2.seg[i] = m.seg[i]
      BY <1>6, <3>1
    <3> QED
      BY <1>5, <1>7, <2>5, <3>2, <3>3
  <2> QED
    BY <2>1, <2>4, <2>5
<1>15. m2.seg # <<>>
  <2>1. k \in DOMAIN m2.seg
    BY <1>5
  <2> QED
    BY <2>1
<1>16. \A j \in DOMAIN m2.seg : End(m2.seg[j]) <= Space
  BY <1>4, <1>5, <1>9 DEF SegmentLayout
<1>17. ASSUME NEW a \in Addr, m2.head[a] # NoHeader PROVE \E j \in DOMAIN m2.seg : segment_holds(m2.seg[j], a)
  <2>1. a \in Int
    BY DEF Addr
  <2>2. CASE a = lo
    <3>1. segment_holds(m2.seg[k], lo)
      BY <1>1, <1>5, <1>7, <1>8, <1>11 DEF segment_holds, End
    <3> QED
      BY <1>5, <2>2, <3>1
  <2>3. CASE a # lo
    <3>1. m.head[a] # NoHeader
      BY <1>5, <1>17, <2>3
    <3>2. PICK j \in DOMAIN m.seg : segment_holds(m.seg[j], a)
      BY <1>4, <3>1 DEF SegmentLayout
    <3> QED
      BY <1>5, <1>12, <2>1, <3>2
  <2> QED
    BY <2>2, <2>3
<1>18. m.top \in Int /\ segment_holds(m.seg[1], m.top) /\ 1 \in DOMAIN m.seg
  BY SegmentOne
<1>19. ASSUME NEW j \in DOMAIN m.seg, NEW a \in Cells(m2), segment_holds(m2.seg[j], a)
       PROVE  After(m2, a) < End(m2.seg[j]) /\ a <= IF j = 1 THEN m2.top ELSE m2.seg[j].record
  <2>1. CASE a # lo
    <3>1. a \in Cells(m) /\ a \in Int /\ (a < lo \/ hi <= a) /\ After(m2, a) = After(m, a)
      BY <1>1, <1>2, <2>1
    <3>2. segment_holds(m.seg[j], a)
      BY <1>13, <1>19, <3>1
    <3>3. After(m, a) < End(m.seg[j]) /\ a <= IF j = 1 THEN m.top ELSE m.seg[j].record
      BY <1>4, <3>1, <3>2 DEF SegmentLayout
    <3> QED
      BY <1>5, <1>9, <3>1, <3>3
  <2>2. CASE a = lo
    <3>1. j = k
      <4>1. m2.seg[j].base <= lo /\ lo < End(m2.seg[j])
        BY <1>19, <2>2 DEF segment_holds, End
      <4> QED
        BY <1>1, <1>5, <1>6, <1>8, <4>1
    <3>2. After(m2, a) < End(m2.seg[j])
      BY <1>1, <1>7, <1>11, <2>2, <3>1
    <3>3. hi <= IF k = 1 THEN m.top ELSE m.seg[k].record
      BY <1>1, <1>4, <1>5, <1>10 DEF SegmentLayout
    <3>4. m.top \in Int /\ m.seg[k].record \in Int
      BY <1>5, <1>18, SegFacts
    <3> QED
      BY <1>1, <1>5, <2>2, <3>1, <3>2, <3>3, <3>4
  <2> QED
    BY <2>1, <2>2
<1>20. ASSUME NEW j \in DOMAIN m.seg, j # 1
       PROVE  segment_holds(m2.seg[j], m2.seg[j].record) /\ m2.seg[j].record + TopFoot <= End(m2.seg[j])
  <2>1. segment_holds(m.seg[j], m.seg[j].record) /\ m.seg[j].record + TopFoot <= End(m.seg[j])
    BY <1>4, <1>20 DEF SegmentLayout
  <2>2. m.seg[j].record \in Int
    BY SegFacts
  <2> QED
    BY <1>5, <1>9, <1>12, <2>1, <2>2
<1>21. segment_holds(m2.seg[1], m2.top) /\ FootOf(m2) + TopFoot = End(m2.seg[1])
  <2>1. FootOf(m) + TopFoot = End(m.seg[1])
    BY SegmentOne
  <2> QED
    BY <1>1, <1>5, <1>9, <1>12, <1>18, <2>1
<1>22. m2.footprint = Cardinality(Mapped(m2))
  <2>1. Apart(m) /\ m.footprint = Cardinality(Mapped(m))
    BY <1>4 DEF SegmentLayout, Apart
  <2>2. Apart(m2)
    BY <1>5, <1>14, <1>16 DEF Apart
  <2>3. MappedBut(m2, k) = MappedBut(m, k)
    BY <1>5, <1>6 DEF MappedBut
  <2>4. /\ Cardinality(MappedBut(m, k)) \in Nat
        /\ Cardinality(Mapped(m)) = Cardinality(MappedBut(m, k)) + m.seg[k].size
    BY <1>5, <2>1, MappedAdds
  <2>5. Cardinality(Mapped(m2)) = Cardinality(MappedBut(m2, k)) + m2.seg[k].size
    BY <1>4, <1>5, <2>2, MappedAdds
  <2>6. m.seg[k].size \in Nat
    BY <1>5, SegFacts
  <2> QED
    BY <1>1, <1>5, <2>1, <2>3, <2>4, <2>5, <2>6
<1> QED
  BY <1>5, <1>14, <1>15, <1>16, <1>17, <1>19, <1>20, <1>21, <1>22 DEF SegmentLayout

(* More memory, held by chunks that are not the program's yet.             *)
Gained(m, m2, p) ==
    /\ m2 \in State /\ Sound(m2) /\ p \notin InUse(m)
    /\ InUse(m2) = InUse(m) \cup {p} /\ RecordsOf(m2) = RecordsOf(m) /\ p \notin RecordsOf(m)
    /\ \A a \in InUse(m) : m2.head[a].size = m.head[a].size

LEMMA PrependGains ==
    ASSUME NEW m \in State, Sound(m), NEW m2, NEW k, NEW lo, NEW hi, Prepended(m, m2, k, lo, hi)
    PROVE  Gained(m, m2, lo) /\ BasesOf(m2) = (BasesOf(m) \ {hi}) \cup {lo}
           /\ Cells(m2) = Cells(m) \cup {lo} /\ FootOf(m2) = FootOf(m)
<1>0. PrependKnown(m, m2, k, lo, hi)
  BY PrependFacts
<1>1. /\ lo \notin Cells(m) /\ Cells(m2) = Cells(m) \cup {lo} /\ RecordsOf(m2) = RecordsOf(m)
      /\ \A a \in Cells(m) : a # lo /\ m2.head[a] = m.head[a]
  BY <1>0 DEF PrependKnown
<1>2. /\ m2 \in State /\ m2.bin = m.bin /\ m2.dv = m.dv /\ m2.dvsize = m.dvsize /\ m2.top = m.top
      /\ m2.head[lo].cinuse = TRUE
  BY DEF Prepended
<1>3. InUse(m2) = InUse(m) \cup {lo}
  BY <1>1, <1>2 DEF InUse
<1>4. Binnable(m2) = Binnable(m)
  BY <1>1, <1>2 DEF Binnable
<1>5. Layout(m) /\ Filed(m) /\ m.top # Null
  BY DEF Sound
<1>6. Victim(m2)
  BY <1>1, <1>2, <1>5 DEF Victim, Filed
<1>7. \A a \in Binnable(m) : m2.head[a] = m.head[a]
  BY <1>1 DEF Binnable
<1>8. Filed(m2)
  BY <1>2, <1>4, <1>5, <1>6, <1>7 DEF Filed, NoRepeats
<1>9. Layout(m2) /\ SegmentLayout(m2)
  BY PrependLayout, PrependSegments
<1>10. lo \notin RecordsOf(m)
  BY <1>1, <1>5 DEF Layout
<1>11. \A a \in InUse(m) : m2.head[a].size = m.head[a].size
  BY <1>1 DEF InUse
<1>12. Gained(m, m2, lo)
  BY <1>1, <1>2, <1>3, <1>5, <1>8, <1>9, <1>10, <1>11 DEF Gained, Sound, InUse
<1> QED
  BY <1>0, <1>12 DEF PrependKnown

-----------------------------------------------------------------------------
(* What a header held before does not matter to what is written there.     *)

LEMMA StateIs ==
    ASSUME NEW x \in State
    PROVE  x = [head |-> x.head, bin |-> x.bin, dv |-> x.dv, dvsize |-> x.dvsize,
                top |-> x.top, topsize |-> x.topsize, seg |-> x.seg,
                footprint |-> x.footprint, release_checks |-> x.release_checks, astray |-> x.astray]
<1> HIDE DEF Header, Segment, Addr, Size
<1> QED
  BY DEF State

LEMMA SameFunction ==
    ASSUME NEW S, NEW T, NEW f \in [S -> T], NEW g \in [S -> T], \A a \in S : f[a] = g[a]
    PROVE  f = g
OBVIOUS

LEMMA StateSame ==
    ASSUME NEW x \in State, NEW y \in State, SameButHead(x, y), \A a \in Addr : x.head[a] = y.head[a]
    PROVE  x = y
<1> DEFINE R(h, b, dv, ds, t, ts, sg, f, rc, a) ==
               [head |-> h, bin |-> b, dv |-> dv, dvsize |-> ds, top |-> t,
                topsize |-> ts, seg |-> sg, footprint |-> f, release_checks |-> rc, astray |-> a]
<1>1. x.head \in [Addr -> Header] /\ y.head \in [Addr -> Header]
  BY DEF State
<1>2. x.head = y.head
  <2> HIDE DEF Header, Addr
  <2> QED
    BY <1>1, SameFunction
<1>3. /\ x = R(x.head, x.bin, x.dv, x.dvsize, x.top, x.topsize, x.seg, x.footprint,
                x.release_checks, x.astray)
      /\ y = R(y.head, y.bin, y.dv, y.dvsize, y.top, y.topsize, y.seg, y.footprint,
                y.release_checks, y.astray)
  BY StateIs
<1> HIDE DEF R
<1> QED
  BY <1>2, <1>3 DEF SameButHead

(* All of the header that SetHead writes.                                  *)
HeadNew(x, y, p, s, c, pin) ==
    /\ y \in State /\ SameButHead(x, y)
    /\ \A a \in Addr : y.head[a] =
          IF a = p THEN [size |-> s, cinuse |-> c, pinuse |-> pin,
                         prev_foot |-> IF pin THEN 0 ELSE x.head[p].prev_foot]
          ELSE IF p < a /\ a < p + s THEN NoHeader ELSE x.head[a]

LEMMA HeadIsNew ==
    ASSUME NEW x \in State, NEW p \in Addr, NEW s \in Size, NEW c \in BOOLEAN, NEW pin \in BOOLEAN
    PROVE  HeadNew(x, SetHead(x, p, s, c, pin), p, s, c, pin)
<1> DEFINE y == SetHead(x, p, s, c, pin)
<1>1. /\ y \in State /\ SameButHead(x, y)
      /\ \A a \in Addr : y.head[a] =
            IF a = p THEN [size |-> s, cinuse |-> c, pinuse |-> pin,
                           prev_foot |-> IF pin THEN 0 ELSE x.head[p].prev_foot]
            ELSE IF p < a /\ a < p + s THEN NoHeader ELSE x.head[a]
  BY SetHeadFacts
<1> HIDE DEF y
<1> QED
  BY <1>1 DEF HeadNew, y

(* x and y differ only in headers from lo to hi.                           *)
Alike(x, y, lo, hi) ==
    /\ x \in State /\ y \in State /\ SameButHead(x, y)
    /\ \A a \in Addr : a < lo \/ hi <= a => x.head[a] = y.head[a]

LEMMA AlikeSet ==
    ASSUME NEW x, NEW y, NEW q \in Addr, NEW hi \in Int, Alike(x, y, q, hi), q < hi,
           NEW t \in Size, hi <= q + t, NEW c \in BOOLEAN
    PROVE  SetHead(x, q, t, c, TRUE) = SetHead(y, q, t, c, TRUE)
<1> DEFINE u == SetHead(x, q, t, c, TRUE)
           v == SetHead(y, q, t, c, TRUE)
<1>0. q \in Int /\ t \in Int /\ TRUE \in BOOLEAN
  BY Sizes0 DEF Addr, Size
<1>1. x \in State /\ y \in State /\ SameButHead(x, y)
      /\ \A a \in Addr : a < q \/ hi <= a => x.head[a] = y.head[a]
  BY DEF Alike
<1>2. HeadNew(x, u, q, t, c, TRUE)
  BY <1>0, <1>1, HeadIsNew
<1>3. HeadNew(y, v, q, t, c, TRUE)
  BY <1>0, <1>1, HeadIsNew
<1> HIDE DEF u, v
<1>4. ASSUME NEW a \in Addr PROVE u.head[a] = v.head[a]
  <2>1. a \in Int
    BY DEF Addr
  <2>2. CASE a = q
    BY <1>2, <1>3, <2>2 DEF HeadNew
  <2>3. CASE a # q
    <3>1. u.head[a] = IF q < a /\ a < q + t THEN NoHeader ELSE x.head[a]
      BY <1>2, <2>3 DEF HeadNew
    <3>2. v.head[a] = IF q < a /\ a < q + t THEN NoHeader ELSE y.head[a]
      BY <1>3, <2>3 DEF HeadNew
    <3> QED
      BY <1>0, <1>1, <2>1, <2>3, <3>1, <3>2
  <2> QED
    BY <2>2, <2>3
<1>5. u \in State /\ v \in State /\ SameButHead(u, v)
  BY <1>1, <1>2, <1>3 DEF SameButHead, HeadNew
<1>6. u = v
  BY <1>4, <1>5, StateSame
<1> QED
  BY <1>6 DEF u, v

SameFree(x, y, q, t) == SetHead(x, q, t, FALSE, TRUE) = SetHead(y, q, t, FALSE, TRUE)

LEMMA AlikeFree ==
    ASSUME NEW x, NEW y, NEW q \in Addr, NEW hi \in Int, Alike(x, y, q, hi), q < hi,
           NEW t \in Size, hi <= q + t
    PROVE  SameFree(x, y, q, t)
<1>1. FALSE \in BOOLEAN
  OBVIOUS
<1> QED
  BY <1>1, AlikeSet DEF SameFree

LEMMA AlikeCleared ==
    ASSUME NEW x, NEW y, NEW lo, NEW hi, Alike(x, y, lo, hi), NEW n \in Addr, hi <= n
    PROVE  Alike(clear_pinuse(x, n), clear_pinuse(y, n), lo, hi)
<1> DEFINE u == clear_pinuse(x, n)
           v == clear_pinuse(y, n)
<1>1. x \in State /\ y \in State /\ SameButHead(x, y)
      /\ \A a \in Addr : a < lo \/ hi <= a => x.head[a] = y.head[a]
  BY DEF Alike
<1>2. /\ u \in State /\ SameButHead(x, u) /\ \A b \in Addr : b # n => u.head[b] = x.head[b]
      /\ v \in State /\ SameButHead(y, v) /\ \A b \in Addr : b # n => v.head[b] = y.head[b]
  BY <1>1, ClearPinuseFacts
<1>3. u.head[n] = v.head[n]
  BY <1>1 DEF clear_pinuse, State
<1> HIDE DEF u, v
<1>4. SameButHead(u, v)
  BY <1>1, <1>2 DEF SameButHead
<1>5. \A a \in Addr : a < lo \/ hi <= a => u.head[a] = v.head[a]
  BY <1>1, <1>2, <1>3
<1> QED
  BY <1>2, <1>4, <1>5 DEF Alike, u, v

LEMMA AlikeUnlinked ==
    ASSUME NEW x, NEW y, NEW lo, NEW hi, Alike(x, y, lo, hi), NoRepeats(x), NEW p, NEW s \in Size
    PROVE  Alike(unlink_chunk(x, p, s), unlink_chunk(y, p, s), lo, hi)
<1> DEFINE u == unlink_chunk(x, p, s)
           v == unlink_chunk(y, p, s)
<1>1. x \in State /\ y \in State /\ SameButHead(x, y)
      /\ \A a \in Addr : a < lo \/ hi <= a => x.head[a] = y.head[a]
  BY DEF Alike
<1>2. NoRepeats(y)
  BY <1>1 DEF NoRepeats, SameButHead
<1>3. u \in State /\ SameButBin(x, u) /\ v \in State /\ SameButBin(y, v)
  BY <1>1, <1>2, UnlinkFacts DEF Unlinks
<1>4. /\ u.bin = [x.bin EXCEPT ![s] = RemoveFirst(@, p)] /\ v.bin = [y.bin EXCEPT ![s] = RemoveFirst(@, p)]
      /\ u.astray = x.astray /\ v.astray = y.astray
  BY <1>1 DEF unlink_chunk, State
<1>5. u.bin = v.bin
  BY <1>1, <1>4 DEF SameButHead
<1> HIDE DEF u, v
<1>6. SameButHead(u, v)
  BY <1>1, <1>3, <1>4, <1>5 DEF SameButHead, SameButBin
<1>7. \A a \in Addr : a < lo \/ hi <= a => u.head[a] = v.head[a]
  BY <1>1, <1>3 DEF SameButBin
<1> QED
  BY <1>3, <1>6, <1>7 DEF Alike, u, v

(* A chunk that is told already of the free one before it.                 *)
LEMMA ClearedAlready ==
    ASSUME NEW x \in State, NEW n \in Addr, x.head[n].pinuse = FALSE
    PROVE  clear_pinuse(x, n) = x
<1> DEFINE u == clear_pinuse(x, n)
<1>1. u \in State /\ SameButHead(x, u) /\ \A b \in Addr : b # n => u.head[b] = x.head[b]
  BY ClearPinuseFacts
<1>2. u.head[n] = [x.head[n] EXCEPT !.pinuse = FALSE]
  BY DEF clear_pinuse, State
<1>3. [x.head[n] EXCEPT !.pinuse = FALSE] = x.head[n]
  <2>1. x.head[n] \in Header
    BY DEF State
  <2> QED
    BY <2>1 DEF Header
<1> HIDE DEF u
<1>4. \A a \in Addr : u.head[a] = x.head[a]
  BY <1>1, <1>2, <1>3
<1>5. u = x
  <2>1. SameButHead(u, x)
    BY <1>1 DEF SameButHead
  <2> QED
    BY <1>1, <1>4, <2>1, StateSame
<1> QED
  BY <1>5 DEF u

-----------------------------------------------------------------------------
(* Growth to the left.                                                     *)

(* What prepend_alloc relies on of the chunk at hi, n large.               *)
FirstChunk(x, hi, n) ==
    /\ x \in State /\ NoRepeats(x)
    /\ hi \in Addr /\ hi \in Int /\ n \in Nat /\ n > 0 /\ n = x.head[hi].size
    /\ hi + n \in Addr
    /\ x.head[hi].pinuse = TRUE /\ x.head[hi].cinuse \in BOOLEAN
    /\ hi = x.top => x.head[hi].cinuse = FALSE /\ n = x.topsize
    /\ hi = x.dv => x.head[hi].cinuse = FALSE /\ n = x.dvsize /\ hi # x.top
    /\ x.head[hi].cinuse = FALSE /\ hi # x.top => x.head[hi + n].pinuse = FALSE

(* New memory lo .. hi - 1 is cut in two, of which the first is nb large.  *)
NewCut(x, hi, n, lo, nb, q, s, A, B) ==
    /\ FirstChunk(x, hi, n) /\ lo \in Addr /\ nb \in Nat /\ nb > 0
    /\ q = lo + nb /\ q < hi /\ s = hi - q /\ q # x.dv
    /\ A = SetHead(x, lo, nb, TRUE, TRUE) /\ B = SetHead(A, q, s, TRUE, TRUE)

(* prepend_alloc leaves what would be left if the rest of the new memory   *)
(* were a chunk in use that is given back.                                 *)
LEMMA PrependIsDisposal ==
    ASSUME NEW x, NEW hi, NEW n, NEW lo, NEW nb, NEW q, NEW s, NEW A, NEW B,
           NewCut(x, hi, n, lo, nb, q, s, A, B)
    PROVE  prepend_alloc(x, lo, hi, nb) = dispose_chunk(B, q, s)
<1>00. FirstChunk(x, hi, n) /\ lo \in Addr /\ nb \in Nat /\ nb > 0 /\ q = lo + nb /\ q < hi
      /\ s = hi - q /\ q # x.dv /\ A = SetHead(x, lo, nb, TRUE, TRUE) /\ B = SetHead(A, q, s, TRUE, TRUE)
  BY DEF NewCut
<1> USE <1>00
<1> DEFINE c == Consolidate(B, q, s)
           r == prepend_alloc(x, lo, hi, nb)
           free(z) == set_free_with_pinuse(z, q, s, hi)
           whole(z) == set_size_and_pinuse_of_free_chunk(z, q, s + n)
           told(z) == set_free_with_pinuse(z, q, s + n, hi + n)
           uA == unlink_chunk(A, hi, n)
           uB == unlink_chunk(B, hi, n)
<1>0. /\ x \in State /\ NoRepeats(x) /\ hi \in Addr /\ hi \in Int /\ n \in Nat /\ n > 0
      /\ n = x.head[hi].size /\ hi + n \in Addr
  BY DEF FirstChunk
<1>18. /\ x.head[hi].pinuse = TRUE /\ x.head[hi].cinuse \in BOOLEAN
       /\ hi = x.top => x.head[hi].cinuse = FALSE /\ n = x.topsize
       /\ hi = x.dv => x.head[hi].cinuse = FALSE /\ n = x.dvsize /\ hi # x.top
       /\ x.head[hi].cinuse = FALSE /\ hi # x.top => x.head[hi + n].pinuse = FALSE
  BY DEF FirstChunk
<1>1. /\ lo \in Int /\ q \in Int /\ q \in Addr /\ s \in Nat /\ s > 0 /\ s \in Size /\ nb \in Size /\ q + s = hi
      /\ n \in Size /\ s + n \in Size /\ q + (s + n) = hi + n /\ hi < hi + n /\ hi + n \in Int
      /\ lo < q /\ hi - q = s
  BY <1>0, Sizes0 DEF Addr, Size
<1>17. TRUE \in BOOLEAN
  OBVIOUS
<1>19. q < hi /\ q \in Addr /\ hi \in Int /\ s \in Size /\ s + n \in Size
  BY <1>0, <1>1
<1>2. HeadSet(x, A, lo, nb, TRUE, TRUE)
  BY <1>0, <1>1, <1>17, HeadIsSet
<1>3. A \in State /\ SameButHead(x, A) /\ \A a \in Addr : q <= a => A.head[a] = x.head[a]
  BY <1>1, <1>2 DEF HeadSet
<1>4. HeadSet(A, B, q, s, TRUE, TRUE)
  BY <1>1, <1>3, <1>17, HeadIsSet
<1>5. /\ B \in State /\ SameButHead(A, B) /\ B.head[q].pinuse = TRUE
      /\ \A a \in Addr : a < q \/ hi <= a => B.head[a] = A.head[a]
  BY <1>1, <1>4 DEF HeadSet
<1>6. Alike(B, A, q, hi)
  <2>1. SameButHead(B, A)
    BY <1>5 DEF SameButHead
  <2> QED
    BY <1>3, <1>5, <2>1 DEF Alike
<1>7. /\ B.head[hi] = x.head[hi] /\ B.head[hi + n] = x.head[hi + n]
      /\ A.head[hi] = x.head[hi] /\ A.head[hi + n] = x.head[hi + n]
      /\ B.top = x.top /\ B.topsize = x.topsize /\ B.dv = x.dv /\ B.dvsize = x.dvsize
      /\ A.top = x.top /\ A.topsize = x.topsize /\ A.dv = x.dv /\ A.dvsize = x.dvsize
      /\ NoRepeats(A) /\ NoRepeats(B)
  <2>1. A.head[hi] = x.head[hi] /\ B.head[hi] = A.head[hi]
    <3>1. hi \in Addr /\ hi \in Int /\ q \in Int /\ q <= hi /\ hi <= hi
      BY <1>0, <1>1
    <3>2. \A a \in Addr : q <= a => A.head[a] = x.head[a]
      BY <1>3
    <3>3. \A a \in Addr : a < q \/ hi <= a => B.head[a] = A.head[a]
      BY <1>5
    <3>4. A.head[hi] = x.head[hi]
      BY ONLY <3>1, <3>2
    <3>5. B.head[hi] = A.head[hi]
      BY ONLY <3>1, <3>3
    <3> QED
      BY <3>4, <3>5
  <2>2. A.head[hi + n] = x.head[hi + n] /\ B.head[hi + n] = A.head[hi + n]
    <3> DEFINE e == hi + n
    <3>1. e \in Addr /\ e \in Int /\ q <= e /\ hi <= e
      BY <1>0, <1>1
    <3> HIDE DEF e
    <3>2. A.head[e] = x.head[e] /\ B.head[e] = A.head[e]
      BY <1>3, <1>5, <3>1
    <3> QED
      BY <3>2 DEF e
  <2>4. /\ A.bin = x.bin /\ A.top = x.top /\ A.topsize = x.topsize /\ A.dv = x.dv
        /\ A.dvsize = x.dvsize
    BY ONLY <1>3 DEF SameButHead
  <2>5. /\ B.bin = A.bin /\ B.top = A.top /\ B.topsize = A.topsize /\ B.dv = A.dv
        /\ B.dvsize = A.dvsize
    BY ONLY <1>5 DEF SameButHead
  <2>3. NoRepeats(A) /\ NoRepeats(B)
    BY ONLY <1>0, <2>4, <2>5 DEF NoRepeats
  <2> QED
    BY ONLY <2>1, <2>2, <2>3, <2>4, <2>5
<1>8. c = IF x.head[hi].cinuse
          THEN [m |-> free(B), mem |-> q, size |-> s]
          ELSE IF hi = x.top
          THEN [m |-> [SetHead(B, q, s + x.topsize, FALSE, TRUE) EXCEPT !.top = q, !.topsize = s + @],
                mem |-> Null, size |-> 0]
          ELSE IF hi = x.dv
          THEN [m |-> [set_size_and_pinuse_of_free_chunk(B, q, s + x.dvsize) EXCEPT
                          !.dv = q, !.dvsize = s + @], mem |-> Null, size |-> 0]
          ELSE [m |-> whole(uB), mem |-> q, size |-> s + n]
  <2> DEFINE C(back, q1, qs, e, k, m1) ==
            IF B.head[e].cinuse
            THEN IF back /\ q1 = B.dv
                 THEN Joined([set_free_with_pinuse(m1, q1, qs, e) EXCEPT !.dvsize = qs])
                 ELSE [m |-> set_free_with_pinuse(m1, q1, qs, e), mem |-> q1, size |-> qs]
            ELSE IF e = B.top
            THEN Joined([SetHead(IF q1 = B.dv THEN NoVictim(m1) ELSE m1, q1, qs + B.topsize, FALSE, TRUE)
                            EXCEPT !.top = q1, !.topsize = qs + @])
            ELSE IF e = B.dv
            THEN Joined([set_size_and_pinuse_of_free_chunk(m1, q1, qs + B.dvsize) EXCEPT
                            !.dv = q1, !.dvsize = qs + @])
            ELSE IF q1 = B.dv
            THEN Joined([set_size_and_pinuse_of_free_chunk(unlink_chunk(m1, e, k), q1, qs + k)
                            EXCEPT !.dvsize = qs + k])
            ELSE [m |-> set_size_and_pinuse_of_free_chunk(unlink_chunk(m1, e, k), q1, qs + k),
                  mem |-> q1, size |-> qs + k]
  <2>1. c = C(FALSE, q, q + s - q, q + s, B.head[q + s].size, B)
    BY <1>5 DEF Consolidate
  <2>2. q + s - q = s /\ q + s = hi /\ B.head[hi].size = n
    <3>1. q + s - q = s /\ q + s = hi
      BY <1>1
    <3>2. B.head[hi].size = n
      <4>1. B.head[hi] = x.head[hi] /\ n = x.head[hi].size
        BY <1>0, <1>7
      <4> QED
        BY ONLY <4>1
    <3> QED
      BY <3>1, <3>2
  <2>3. c = C(FALSE, q, s, hi, n, B)
    <3> HIDE DEF C, c
    <3> QED
      BY <2>1, <2>2
  <2>4. B.head[hi].cinuse = x.head[hi].cinuse /\ q # B.dv
    BY <1>7
  <2> HIDE DEF c
  <2> QED
    BY <1>7, <2>3, <2>4 DEF Joined
<1>9. dispose_chunk(B, q, s) = IF c.size = 0 THEN c.m ELSE insert_chunk(c.m, c.mem, c.size)
  BY DEF dispose_chunk
<1>10. A = set_size_and_pinuse_of_inuse_chunk(x, lo, nb)
  BY DEF set_size_and_pinuse_of_inuse_chunk
<1>11. is_inuse(x, hi) <=> x.head[hi].cinuse
  BY <1>18 DEF is_inuse
<1> DEFINE P(q1, qs, m1) ==
        CASE hi = x.top ->
                [SetHead(m1, q1, qs + x.topsize, FALSE, TRUE) EXCEPT !.top = q1, !.topsize = qs + @]
          [] hi = x.dv ->
                [set_size_and_pinuse_of_free_chunk(m1, q1, qs + x.dvsize) EXCEPT
                    !.dv = q1, !.dvsize = qs + @]
          [] hi \notin {x.top, x.dv} /\ is_inuse(x, hi) ->
                insert_chunk(set_free_with_pinuse(m1, q1, qs, hi), q1, qs)
          [] hi \notin {x.top, x.dv} /\ ~is_inuse(x, hi) ->
                insert_chunk(set_free_with_pinuse(unlink_chunk(m1, hi, x.head[hi].size),
                                                  q1, qs + x.head[hi].size, hi + x.head[hi].size),
                             q1, qs + x.head[hi].size)
<1>16. r = P(q, s, A)
  <2>1. r = P(lo + nb, hi - (lo + nb), set_size_and_pinuse_of_inuse_chunk(x, lo, nb))
    BY DEF prepend_alloc
  <2>2. lo + nb = q /\ hi - (lo + nb) = s
    BY <1>1
  <2> HIDE DEF P, r
  <2> QED
    BY <1>10, <2>1, <2>2
<1> HIDE DEF c, r
<1>12. CASE hi = x.top
  <2>1. c.size = 0 /\ c.m = [SetHead(B, q, s + x.topsize, FALSE, TRUE) EXCEPT !.top = q, !.topsize = s + @]
    BY <1>8, <1>12, <1>18
  <2>2. r = [SetHead(A, q, s + x.topsize, FALSE, TRUE) EXCEPT !.top = q, !.topsize = s + @]
    BY <1>12, <1>16, <1>18
  <2>3. SetHead(B, q, s + n, FALSE, TRUE) = SetHead(A, q, s + n, FALSE, TRUE)
    <3> DEFINE w == s + n
    <3>1. w \in Size /\ hi <= q + w
      BY <1>1
    <3> HIDE DEF w
    <3>2. SameFree(B, A, q, w)
      BY ONLY <1>19, <1>6, <3>1, AlikeFree
    <3> QED
      BY <3>2 DEF w, SameFree
  <2>4. x.topsize = n
    BY <1>12, <1>18
  <2> QED
    BY <1>9, <2>1, <2>2, <2>3, <2>4 DEF r
<1>13. CASE hi # x.top /\ hi = x.dv
  <2>1. c.size = 0 /\ c.m = [set_size_and_pinuse_of_free_chunk(B, q, s + x.dvsize) EXCEPT
                                !.dv = q, !.dvsize = s + @]
    BY <1>8, <1>13, <1>18
  <2>2. r = [set_size_and_pinuse_of_free_chunk(A, q, s + x.dvsize) EXCEPT
                !.dv = q, !.dvsize = s + @]
    BY <1>13, <1>16
  <2>3. SetHead(B, q, s + n, FALSE, TRUE) = SetHead(A, q, s + n, FALSE, TRUE)
    <3> DEFINE w == s + n
    <3>1. w \in Size /\ hi <= q + w
      BY <1>1
    <3> HIDE DEF w
    <3>2. SameFree(B, A, q, w)
      BY ONLY <1>19, <1>6, <3>1, AlikeFree
    <3> QED
      BY <3>2 DEF w, SameFree
  <2>4. whole(B) = whole(A)
    BY <2>3 DEF set_size_and_pinuse_of_free_chunk
  <2>5. x.dvsize = n
    BY <1>13, <1>18
  <2> QED
    BY <1>9, <2>1, <2>2, <2>4, <2>5 DEF r
<1>14. CASE hi \notin {x.top, x.dv} /\ x.head[hi].cinuse = TRUE
  <2>1. c.size = s /\ c.m = free(B) /\ c.mem = q
    BY <1>8, <1>14
  <2>2. r = insert_chunk(free(A), q, s)
    BY <1>11, <1>14, <1>16
  <2>3. Alike(clear_pinuse(B, hi), clear_pinuse(A, hi), q, hi)
    <3>1. hi \in Addr /\ hi <= hi
      BY <1>0
    <3> QED
      BY ONLY <1>6, <3>1, AlikeCleared
  <2>4. SetHead(clear_pinuse(B, hi), q, s, FALSE, TRUE) = SetHead(clear_pinuse(A, hi), q, s, FALSE, TRUE)
    <3>1. hi <= q + s
      BY <1>1
    <3>2. SameFree(clear_pinuse(B, hi), clear_pinuse(A, hi), q, s)
      BY ONLY <1>19, <2>3, <3>1, AlikeFree
    <3> QED
      BY <3>2 DEF SameFree
  <2>5. free(B) = free(A)
    BY <2>4 DEF set_free_with_pinuse, set_size_and_pinuse_of_free_chunk
  <2>6. s # 0
    BY <1>1
  <2> HIDE DEF free
  <2>7. dispose_chunk(B, q, s) = r
    BY ONLY <1>9, <2>1, <2>2, <2>5, <2>6
  <2> QED
    BY <2>7 DEF r
<1>15. CASE hi \notin {x.top, x.dv} /\ x.head[hi].cinuse = FALSE
  <2>1. c.size = s + n /\ c.m = whole(uB) /\ c.mem = q
    BY <1>8, <1>15
  <2>2. r = insert_chunk(told(uA), q, s + n)
    BY <1>0, <1>11, <1>15, <1>16
  <2>3. Alike(uB, uA, q, hi)
    BY <1>1, <1>6, <1>7, AlikeUnlinked
  <2>4. SetHead(uB, q, s + n, FALSE, TRUE) = SetHead(uA, q, s + n, FALSE, TRUE)
    <3> DEFINE w == s + n
    <3>1. w \in Size /\ hi <= q + w
      BY <1>1
    <3> HIDE DEF w
    <3>2. SameFree(uB, uA, q, w)
      BY ONLY <1>19, <2>3, <3>1, AlikeFree
    <3> QED
      BY <3>2 DEF w, SameFree
  <2>5. clear_pinuse(uA, hi + n) = uA
    <3>1. uA \in State /\ uA.head = A.head
      <4>1. Unlinks(A, uA, hi, n)
        BY <1>1, <1>3, <1>7, UnlinkFacts
      <4> QED
        BY <4>1 DEF Unlinks, SameButBin
    <3>2. uA.head[hi + n].pinuse = FALSE
      BY <1>7, <1>15, <1>18, <3>1
    <3> HIDE DEF uA
    <3> QED
      BY <1>0, <3>1, <3>2, ClearedAlready
  <2>6. told(uA) = whole(uA)
    BY <2>5 DEF set_free_with_pinuse
  <2>7. whole(uB) = whole(uA)
    BY <2>4 DEF set_size_and_pinuse_of_free_chunk
  <2>8. s + n # 0
    BY <1>0, <1>1
  <2> HIDE DEF whole, told, uA, uB
  <2> QED
    BY <1>9, <2>1, <2>2, <2>6, <2>7, <2>8 DEF r
<1> QED
  BY <1>18, <1>12, <1>13, <1>14, <1>15

(* What dlmalloc owes: the heap is sound, the program has p and it is as   *)
(* large as was asked for, or one unit more, and all else is as it was.    *)
Allocated(m, nb, m2, p) ==
    /\ m2 \in State /\ Sound(m2) /\ m2.release_checks > 0
    /\ p \in Addr /\ p \notin Blocks(m) /\ Blocks(m2) = Blocks(m) \cup {p}
    /\ \A a \in Blocks(m) : m2.head[a].size = m.head[a].size
    /\ nb <= m2.head[p].size /\ m2.head[p].size < nb + MinChunk
    /\ m2.head[p].pinuse = TRUE

(* Segment k begins at lo, d earlier than before.                          *)
Earlier(m, k, lo, d) ==
    [[m EXCEPT !.footprint = @ + d] EXCEPT !.seg[k].base = lo, !.seg[k].size = @ + d]

EarlierIs(m, x, k, lo, d) ==
    /\ x \in State /\ x.head = m.head /\ x.bin = m.bin /\ x.dv = m.dv /\ x.dvsize = m.dvsize
    /\ x.top = m.top /\ x.topsize = m.topsize /\ x.release_checks = m.release_checks
    /\ x.footprint = m.footprint + d /\ DOMAIN x.seg = DOMAIN m.seg
    /\ \A j \in DOMAIN m.seg \ {k} : x.seg[j] = m.seg[j]
    /\ x.seg[k].base = lo /\ x.seg[k].size = m.seg[k].size + d /\ x.seg[k].record = m.seg[k].record

LEMMA EarlierState ==
    ASSUME NEW m \in State, NEW k \in DOMAIN m.seg, NEW lo \in Addr, NEW d \in Nat,
           m.seg[k].size + d \in Size, m.footprint + d \in Size
    PROVE  EarlierIs(m, Earlier(m, k, lo, d), k, lo, d)
<1> DEFINE r == [m.seg[k] EXCEPT !.base = lo, !.size = @ + d]
           t == [m.seg EXCEPT ![k] = r]
           x == Earlier(m, k, lo, d)
<1>1. m.seg \in Seq(Segment) /\ m.seg[k] \in Segment
  BY SegFacts DEF State
<1>2. r \in Segment /\ r.base = lo /\ r.size = m.seg[k].size + d /\ r.record = m.seg[k].record
  BY <1>1 DEF Segment
<1>3. x = [m EXCEPT !.seg = t, !.footprint = m.footprint + d]
  BY <1>1 DEF Earlier, State, Segment
<1> HIDE DEF r, x
<1>4. /\ t \in Seq(Segment) /\ DOMAIN t = DOMAIN m.seg /\ t[k] = r
      /\ \A j \in DOMAIN m.seg \ {k} : t[j] = m.seg[j]
  <2> HIDE DEF Segment
  <2> QED
    BY <1>1, <1>2
<1> HIDE DEF t
<1>5. /\ x \in State /\ x.seg = t /\ x.footprint = m.footprint + d
      /\ x.head = m.head /\ x.bin = m.bin /\ x.dv = m.dv /\ x.dvsize = m.dvsize
      /\ x.top = m.top /\ x.topsize = m.topsize /\ x.release_checks = m.release_checks
  BY <1>3, <1>4 DEF State
<1> QED
  BY <1>2, <1>4, <1>5 DEF EarlierIs, x

(* Memory from lo on that ends where segment k begins.                     *)
Before(m, k, lo, d, hi) ==
    /\ m \in State /\ Sound(m) /\ k \in DOMAIN m.seg /\ lo \in Addr /\ d \in Nat /\ d >= MinChunk
    /\ hi = m.seg[k].base /\ hi = lo + d
    /\ \A j \in DOMAIN m.seg \ {k} : hi <= m.seg[j].base \/ End(m.seg[j]) <= lo

LEMMA EarlierPrepended ==
    ASSUME NEW m, NEW k, NEW lo, NEW d, NEW hi, Before(m, k, lo, d, hi),
           NEW x, x = Earlier(m, k, lo, d), NEW y, y = SetHead(x, lo, d, TRUE, TRUE)
    PROVE  EarlierIs(m, x, k, lo, d) /\ Prepended(m, y, k, lo, hi)
<1>1. /\ m \in State /\ Sound(m) /\ k \in DOMAIN m.seg /\ lo \in Addr /\ d \in Nat /\ d >= MinChunk
      /\ hi = m.seg[k].base /\ hi = lo + d
      /\ \A j \in DOMAIN m.seg \ {k} : hi <= m.seg[j].base \/ End(m.seg[j]) <= lo
  BY DEF Before
<1>2. SegmentLayout(m) /\ Apart(m) /\ m.footprint = Cardinality(Mapped(m))
  BY <1>1 DEF Sound, SegmentLayout, Apart
<1>3. /\ lo \in Int /\ lo > 0 /\ hi \in Int /\ lo < hi /\ Space \in Nat
      /\ m.seg[k].size \in Nat /\ End(m.seg[k]) \in Int /\ End(m.seg[k]) = hi + m.seg[k].size
      /\ End(m.seg[k]) <= Space
  <2>1. lo \in Int /\ lo > 0 /\ Space \in Nat
    BY <1>1, Sizes0 DEF Addr
  <2>0. m \in State /\ k \in DOMAIN m.seg
    BY <1>1
  <2>2. m.seg[k].size \in Nat /\ m.seg[k].base \in Nat /\ End(m.seg[k]) \in Int
    BY ONLY <2>0, SegFacts
  <2>4. End(m.seg[k]) = m.seg[k].base + m.seg[k].size
    BY DEF End
  <2>5. hi \in Int /\ lo < hi /\ End(m.seg[k]) = hi + m.seg[k].size
    <3>1. hi = m.seg[k].base /\ hi = lo + d /\ d \in Nat /\ d >= MinChunk
      BY <1>1
    <3> QED
      BY ONLY <2>1, <2>2, <2>4, <3>1 DEF MinChunk
  <2>3. End(m.seg[k]) <= Space
    BY <1>1, <1>2 DEF SegmentLayout
  <2> QED
    BY ONLY <2>1, <2>2, <2>3, <2>5
<1>4. m.seg[k].size + d \in Size /\ lo + d <= Space /\ d \in Size
  BY ONLY <1>1, <1>3 DEF Size, MinChunk
<1>5. \A j \in DOMAIN m.seg : lo + d <= m.seg[j].base \/ End(m.seg[j]) <= lo
  <2> SUFFICES ASSUME NEW j \in DOMAIN m.seg PROVE lo + d <= m.seg[j].base \/ End(m.seg[j]) <= lo
    OBVIOUS
  <2>1. CASE j = k
    <3>1. lo + d <= m.seg[k].base
      BY ONLY <1>1, <1>3
    <3> QED
      BY ONLY <2>1, <3>1
  <2>2. CASE j # k
    BY <1>1, <2>2
  <2> QED
    BY <2>1, <2>2
<1>6. m.footprint + d \in Size
  BY ONLY <1>1, <1>2, <1>4, <1>5, FootprintRoom
<1>7. EarlierIs(m, Earlier(m, k, lo, d), k, lo, d)
  BY ONLY <1>1, <1>4, <1>6, EarlierState
<1>8. EarlierIs(m, x, k, lo, d)
  BY <1>7
<1>9. /\ x \in State /\ x.head = m.head /\ x.bin = m.bin /\ x.dv = m.dv /\ x.dvsize = m.dvsize
      /\ x.top = m.top /\ x.topsize = m.topsize
      /\ x.footprint = m.footprint + d /\ DOMAIN x.seg = DOMAIN m.seg
      /\ \A j \in DOMAIN m.seg \ {k} : x.seg[j] = m.seg[j]
      /\ x.seg[k].base = lo /\ x.seg[k].size = m.seg[k].size + d /\ x.seg[k].record = m.seg[k].record
  BY <1>8 DEF EarlierIs
<1>10. TRUE \in BOOLEAN
  OBVIOUS
<1>11. HeadNew(x, SetHead(x, lo, d, TRUE, TRUE), lo, d, TRUE, TRUE)
  BY ONLY <1>1, <1>4, <1>9, <1>10, HeadIsNew
<1>12. HeadNew(x, y, lo, d, TRUE, TRUE)
  BY <1>11
<1>13. /\ y \in State /\ y.head[lo].size = d /\ y.head[lo].cinuse = TRUE /\ y.head[lo].pinuse = TRUE
       /\ SameButHead(x, y)
  <2>1. d > 0
    BY ONLY <1>1 DEF MinChunk
  <2>2. HeadSet(x, SetHead(x, lo, d, TRUE, TRUE), lo, d, TRUE, TRUE)
    BY ONLY <1>1, <1>4, <1>9, <1>10, <2>1, HeadIsSet
  <2>3. HeadSet(x, y, lo, d, TRUE, TRUE)
    BY <2>2
  <2> QED
    BY ONLY <2>3 DEF HeadSet
<1>14. RoomBefore(m, k, lo, hi)
  <2>1. lo < hi
    BY <1>3
  <2> QED
    BY ONLY <1>1, <2>1, PrependRoom
<1>15. \A a \in Addr : lo <= a /\ a < hi => m.head[a] = NoHeader
  BY <1>14 DEF RoomBefore
<1>16. ASSUME NEW a \in Addr \ {lo} PROVE y.head[a] = m.head[a]
  <2>1. y.head[a] = IF lo < a /\ a < lo + d THEN NoHeader ELSE x.head[a]
    BY <1>12 DEF HeadNew
  <2>2. a \in Int
    BY DEF Addr
  <2>3. lo < a /\ a < lo + d => m.head[a] = NoHeader
    <3>1. lo + d = hi
      BY <1>1
    <3>2. ASSUME lo < a, a < lo + d PROVE lo <= a /\ a < hi
      BY ONLY <1>3, <2>2, <3>1, <3>2
    <3> QED
      BY <1>15, <3>2
  <2> QED
    BY <1>9, <2>1, <2>3
<1>17. hi - lo = d
  BY ONLY <1>1, <1>3
<1>18. /\ y.bin = m.bin /\ y.dv = m.dv /\ y.dvsize = m.dvsize /\ y.top = m.top /\ y.topsize = m.topsize
       /\ y.seg = x.seg /\ y.footprint = x.footprint
  BY <1>9, <1>13 DEF SameButHead
<1>19. Prepended(m, y, k, lo, hi)
  BY ONLY <1>1, <1>9, <1>13, <1>16, <1>17, <1>18 DEF Prepended
<1> QED
  BY <1>8, <1>19

LEMMA PrependFirst ==
    ASSUME NEW m, NEW k, NEW lo, NEW d, NEW hi, Before(m, k, lo, d, hi),
           NEW x, EarlierIs(m, x, k, lo, d), NEW n, n = m.head[hi].size
    PROVE  FirstChunk(x, hi, n)
<1>1. /\ m \in State /\ Sound(m) /\ k \in DOMAIN m.seg /\ lo \in Addr /\ hi = m.seg[k].base
      /\ \A j \in DOMAIN m.seg \ {k} : hi <= m.seg[j].base \/ End(m.seg[j]) <= lo
      /\ lo < hi
  BY DEF Before, MinChunk, Addr
<1>2. RoomBefore(m, k, lo, hi)
  BY ONLY <1>1, PrependRoom
<1>3. hi \in Cells(m) /\ m.head[hi].pinuse = TRUE
  BY <1>2 DEF RoomBefore
<1>4. /\ hi \in Addr /\ hi \in Int /\ n \in Nat /\ n > 0 /\ m.head[hi].cinuse \in BOOLEAN
      /\ After(m, hi) = hi + n
  BY <1>1, <1>3, CellFacts DEF After
<1>5. Layout(m) /\ Filed(m)
  BY <1>1 DEF Sound
<1>6. /\ x \in State /\ x.head = m.head /\ x.bin = m.bin /\ x.dv = m.dv /\ x.dvsize = m.dvsize
      /\ x.top = m.top /\ x.topsize = m.topsize
  BY DEF EarlierIs
<1>7. NoRepeats(x)
  BY <1>5, <1>6 DEF NoRepeats, Filed
<1>8. hi + n \in Addr
  BY <1>3, <1>4, <1>5 DEF Layout
<1>9. hi = x.top => x.head[hi].cinuse = FALSE /\ n = x.topsize
  BY <1>4, <1>5, <1>6 DEF Layout
<1>10. hi = x.dv => x.head[hi].cinuse = FALSE /\ n = x.dvsize /\ hi # x.top
  <2>1. hi # Null
    BY <1>4 DEF Null, Addr
  <2> QED
    BY <1>4, <1>5, <1>6, <2>1 DEF Filed, Victim
<1>11. x.head[hi].cinuse = FALSE /\ hi # x.top => x.head[hi + n].pinuse = FALSE
  <2>1. Tagged(m, hi)
    BY <1>3, <1>5 DEF Layout
  <2> QED
    BY <1>4, <1>6, <2>1 DEF Tagged
<1> QED
  BY <1>3, <1>4, <1>6, <1>7, <1>8, <1>9, <1>10, <1>11 DEF FirstChunk

(* prepend_alloc serves the request from the memory before a segment.      *)
THEOREM PrependGrows ==
    ASSUME NEW m, NEW k, NEW lo, NEW d, NEW hi, Before(m, k, lo, d, hi), m.release_checks > 0,
           NEW nb \in Nat, nb >= MinChunk, d - nb >= MinChunk
    PROVE  Allocated(m, nb, prepend_alloc(Earlier(m, k, lo, d), lo, hi, nb), lo)
<1> DEFINE x == Earlier(m, k, lo, d)
           y == SetHead(x, lo, d, TRUE, TRUE)
           q == lo + nb
           s == d - nb
           A == SetHead(x, lo, nb, TRUE, TRUE)
           B == SetHead(A, q, s, TRUE, TRUE)
           m2 == dispose_chunk(B, q, s)
           n == m.head[hi].size
<1>1. /\ m \in State /\ Sound(m) /\ k \in DOMAIN m.seg /\ lo \in Addr /\ d \in Nat /\ d >= MinChunk
      /\ hi = m.seg[k].base /\ hi = lo + d
  BY DEF Before
<1>2. EarlierIs(m, x, k, lo, d) /\ Prepended(m, y, k, lo, hi)
  BY EarlierPrepended
<1>3. FirstChunk(x, hi, n)
  BY <1>2, PrependFirst
<1>4. y = SetHead(x, lo, d, TRUE, TRUE) /\ A = SetHead(x, lo, nb, TRUE, TRUE) /\ B = SetHead(A, q, s, TRUE, TRUE)
      /\ B = SetHead(SetHead(x, lo, nb, TRUE, TRUE), lo + nb, d - nb, TRUE, TRUE)
      /\ m2 = dispose_chunk(B, q, s)
  OBVIOUS
<1>5. q = lo + nb /\ s = d - nb
  OBVIOUS
<1> HIDE DEF x, y, A, B, m2, n
<1>6. Gained(m, y, lo) /\ BasesOf(y) = (BasesOf(m) \ {hi}) \cup {lo}
      /\ Cells(y) = Cells(m) \cup {lo} /\ FootOf(y) = FootOf(m)
  BY ONLY <1>1, <1>2, PrependGains
<1>7. PrependKnown(m, y, k, lo, hi)
  BY ONLY <1>1, <1>2, PrependFacts
<1>8. /\ lo \in Int /\ hi \in Int /\ lo < hi /\ \A a \in Cells(m) : a < lo \/ hi <= a
  BY <1>7 DEF PrependKnown
<1>9. /\ y \in State /\ Sound(y) /\ lo \notin InUse(m)
      /\ InUse(y) = InUse(m) \cup {lo} /\ RecordsOf(y) = RecordsOf(m) /\ lo \notin RecordsOf(m)
      /\ \A a \in InUse(m) : y.head[a].size = m.head[a].size
  BY <1>6 DEF Gained
<1>10. d \in Size
  <2>1. hi \in Addr
    BY ONLY <1>1, SegFacts
  <2>2. lo > 0 /\ hi <= Space /\ Space \in Nat
    BY <1>1, <2>1, Sizes0 DEF Addr
  <2> QED
    BY ONLY <1>1, <1>8, <2>2 DEF Size
<1>11. x \in State
  BY <1>2 DEF EarlierIs
<1>12. lo \in InUse(y) /\ lo \notin RecordsOf(y)
  BY <1>9
<1>13. Outcome(y, B, lo, lo + nb, lo + d, TRUE, TRUE)
  BY ONLY <1>1, <1>4, <1>9, <1>10, <1>11, <1>12, OnePartMore, nb \in Nat, nb >= MinChunk, d - nb >= MinChunk
<1>14. Outcome(y, B, lo, q, hi, TRUE, TRUE)
  BY ONLY <1>1, <1>5, <1>13
<1>15. q \in Int /\ s \in Nat /\ lo < q /\ q < hi /\ s = hi - q /\ s > 0 /\ nb > 0
  BY ONLY <1>1, <1>5, <1>8, nb \in Nat, nb >= MinChunk, d - nb >= MinChunk DEF MinChunk
<1> HIDE DEF q, s
<1>16. LastAt(lo, q, hi) = q
  BY <1>15 DEF LastAt
<1>17. /\ B \in State /\ Sound(B) /\ B.seg = y.seg /\ B.release_checks = y.release_checks
       /\ InUse(B) = {a \in InUse(y) : a < lo \/ hi <= a} \cup {lo} \cup {q}
       /\ \A a \in InUse(y) : a < lo \/ hi <= a => B.head[a].size = y.head[a].size
       /\ B.head[lo].size = q - lo /\ B.head[q].size = hi - q
  BY <1>14, <1>16 DEF Outcome
<1>18. InUse(m) \subseteq Cells(m) /\ q \notin Cells(m) /\ lo \notin Cells(m)
  BY <1>8, <1>15 DEF InUse
<1>19. InUse(B) = InUse(m) \cup {lo, q}
  BY <1>8, <1>9, <1>17, <1>18
<1>20. RecordsOf(B) = RecordsOf(m) /\ q \notin RecordsOf(m)
  <2>1. RecordsOf(m) \subseteq Cells(m)
    BY <1>1 DEF Sound, Layout
  <2>2. RecordsOf(B) = RecordsOf(y)
    BY <1>17 DEF RecordsOf
  <2> QED
    BY <1>9, <1>18, <2>1, <2>2
<1>21. q \in InUse(B) /\ q \notin RecordsOf(B) /\ s = B.head[q].size
  BY <1>15, <1>17, <1>19, <1>20
<1>22. Freed(B, m2, q)
  BY ONLY <1>4, <1>17, <1>21, DisposeFrees
<1>23. /\ m2 \in State /\ Sound(m2) /\ m2.seg = B.seg /\ m2.release_checks = B.release_checks
       /\ InUse(m2) = InUse(B) \ {q} /\ \A a \in InUse(m2) : m2.head[a].size = B.head[a].size
  BY <1>22 DEF Freed
<1>24. InUse(m2) = InUse(m) \cup {lo}
  BY <1>15, <1>18, <1>19, <1>23
<1>25. RecordsOf(m2) = RecordsOf(m)
  BY <1>20, <1>23 DEF RecordsOf
<1>26. Blocks(m2) = Blocks(m) \cup {lo} /\ lo \notin Blocks(m)
  BY <1>9, <1>24, <1>25 DEF Blocks
<1>27. \A a \in Blocks(m) : m2.head[a].size = m.head[a].size
  BY <1>8, <1>9, <1>17, <1>18, <1>23, <1>24 DEF Blocks
<1>28. m2.head[lo].size = nb
  <2>1. q - lo = nb
    BY ONLY <1>5, <1>8, nb \in Nat
  <2> QED
    BY <1>17, <1>23, <1>24, <2>1
<1>29. m2.head[lo].pinuse = TRUE
  <2>1. lo \in BasesOf(m2)
    <3>1. BasesOf(m2) = BasesOf(y)
      BY <1>17, <1>23 DEF BasesOf
    <3> QED
      BY <1>6, <3>1
  <2>2. m2.head[lo] \in Header
    BY <1>1, <1>23 DEF State
  <2> QED
    BY <1>23, <2>1, <2>2 DEF Sound, Layout, Header
<1>30. m2.release_checks > 0
  <2>1. y.release_checks = x.release_checks
    <3>1. TRUE \in BOOLEAN
      OBVIOUS
    <3>2. lo \in Addr /\ y = SetHead(x, lo, d, TRUE, TRUE)
      BY <1>1, <1>4
    <3>3. HeadNew(x, SetHead(x, lo, d, TRUE, TRUE), lo, d, TRUE, TRUE)
      BY ONLY <1>10, <1>11, <3>1, <3>2, HeadIsNew
    <3> QED
      BY ONLY <3>2, <3>3 DEF HeadNew, SameButHead
  <2> QED
    BY <1>2, <1>17, <1>23, <2>1 DEF EarlierIs
<1>31. prepend_alloc(x, lo, hi, nb) = m2
  <2>1. q # x.dv
    <3>1. x.dv = m.dv
      BY <1>2 DEF EarlierIs
    <3>2. Victim(m)
      BY <1>1 DEF Sound, Filed
    <3>3. q # Null
      BY <1>1, <1>15 DEF Null, Addr
    <3> QED
      BY <1>18, <3>1, <3>2, <3>3 DEF Victim
  <2>2. prepend_alloc(x, lo, hi, nb) = dispose_chunk(B, q, s)
    <3>1. lo \in Addr /\ nb > 0 /\ q = lo + nb /\ q < hi /\ s = hi - q
      BY <1>1, <1>5, <1>15
    <3>2. A = SetHead(x, lo, nb, TRUE, TRUE) /\ B = SetHead(A, q, s, TRUE, TRUE)
      BY <1>4
    <3>3. lo \in Int /\ q \in Int /\ hi \in Int /\ s \in Int /\ nb \in Int
      BY <1>8, <1>15
    <3>4. NewCut(x, hi, n, lo, nb, q, s, A, B)
      BY ONLY <1>3, <2>1, <3>1, <3>2, nb \in Nat DEF NewCut
    <3> QED
      BY ONLY <3>4, PrependIsDisposal
  <2> QED
    BY <1>4, <2>2
<1>32. nb <= m2.head[lo].size /\ m2.head[lo].size < nb + MinChunk
  BY <1>28 DEF MinChunk
<1>33. Allocated(m, nb, m2, lo)
  BY ONLY <1>1, <1>23, <1>26, <1>27, <1>29, <1>30, <1>32 DEF Allocated
<1> QED
  BY <1>31, <1>33 DEF x

-----------------------------------------------------------------------------
(* A new segment.                                                          *)

(* Top moves to a new segment, from b to b + d.  What was top is a chunk   *)
(* in use, unless it is too small, and one at sp that holds the entry of   *)
(* the segment that it ended.                                              *)
SegmentNew(m, y, b, d, sp) ==
    /\ y \in State /\ b \in Addr /\ d \in Nat /\ d > TopFoot /\ b + d <= Space
    /\ \A k \in DOMAIN m.seg : b + d <= m.seg[k].base \/ End(m.seg[k]) <= b
    /\ sp = IF m.topsize < MinChunk THEN m.top ELSE FootOf(m)
    /\ y.bin = m.bin /\ y.dv = m.dv /\ y.dvsize = m.dvsize
    /\ y.top = b /\ y.topsize = d - TopFoot
    /\ Len(y.seg) = Len(m.seg) + 1 /\ y.seg[1].base = b /\ y.seg[1].size = d
    /\ \A k \in DOMAIN m.seg :
          /\ y.seg[k + 1].base = m.seg[k].base /\ y.seg[k + 1].size = m.seg[k].size
          /\ y.seg[k + 1].record = IF k = 1 THEN sp ELSE m.seg[k].record
    /\ y.footprint = m.footprint + d
    /\ y.head[b].size = d - TopFoot /\ y.head[b].cinuse = FALSE /\ y.head[b].pinuse = TRUE
    /\ y.head[b + d - TopFoot].size = TopFoot /\ y.head[b + d - TopFoot].pinuse = FALSE
    /\ sp # m.top => y.head[m.top].size = sp - m.top
    /\ y.head[m.top].cinuse = TRUE /\ y.head[m.top].pinuse = TRUE
    /\ y.head[sp].size = RecordSize /\ y.head[sp].cinuse = TRUE /\ y.head[sp].pinuse = TRUE
    /\ y.head[sp + RecordSize] = Fencepost
    /\ \A a \in Addr : m.top < a /\ a < End(m.seg[1]) /\ a # sp /\ a # sp + RecordSize
                          => y.head[a] = NoHeader
    /\ \A a \in Addr : b < a /\ a < b + d /\ a # b + d - TopFoot => y.head[a] = NoHeader
    /\ \A a \in Addr : (a < m.top \/ End(m.seg[1]) <= a) /\ (a < b \/ b + d <= a)
                          => y.head[a] = m.head[a]

(* How the old top, t up to e, and the new one, with its foot at f, lie.   *)
NewPlaced(t, e, sp, b, f, z) ==
    /\ t \in Int /\ e \in Int /\ sp \in Int /\ b \in Int /\ f \in Int /\ z \in Int
    /\ t \in Addr /\ sp \in Addr /\ sp + RecordSize \in Addr /\ b \in Addr /\ f \in Addr
    /\ t > 0 /\ t <= sp /\ sp + TopFoot <= e /\ (sp = t \/ sp >= t + MinChunk)
    /\ b > 0 /\ b < f /\ f + TopFoot = z
    /\ z <= t \/ e <= b
    /\ e <= Space /\ z <= Space

(* Memory that is apart from the segments, and the place of the entry.     *)
NewRoom(m, b, d, sp) ==
    /\ b \in Addr /\ d \in Nat /\ d > TopFoot /\ b + d <= Space
    /\ \A k \in DOMAIN m.seg : b + d <= m.seg[k].base \/ End(m.seg[k]) <= b
    /\ sp = IF m.topsize < MinChunk THEN m.top ELSE FootOf(m)

LEMMA RoomPlaces ==
    ASSUME NEW m \in State, Sound(m), NEW b, NEW d, NEW sp, NewRoom(m, b, d, sp)
    PROVE  NewPlaced(m.top, End(m.seg[1]), sp, b, b + d - TopFoot, b + d)
<1>1. /\ b \in Addr /\ d \in Nat /\ d > TopFoot /\ b + d <= Space
      /\ \A k \in DOMAIN m.seg : b + d <= m.seg[k].base \/ End(m.seg[k]) <= b
      /\ sp = IF m.topsize < MinChunk THEN m.top ELSE FootOf(m)
  BY DEF NewRoom
<1>2. /\ 1 \in DOMAIN m.seg /\ m.top \in Addr /\ m.top \in Int /\ m.topsize \in Nat /\ m.topsize > 0
      /\ End(m.seg[1]) \in Int /\ m.seg[1].base \in Int /\ m.seg[1].base <= m.top
      /\ End(m.seg[1]) = m.top + m.topsize + TopFoot
  BY SegmentOne
<1>3. End(m.seg[1]) <= Space
  BY <1>2 DEF Sound, SegmentLayout
<1>4. b \in Int /\ b > 0 /\ m.top > 0 /\ Space \in Nat
  BY <1>1, <1>2, Sizes0 DEF Addr
<1>5. FootOf(m) = m.top + m.topsize
  BY DEF FootOf
<1>6. b + d <= m.seg[1].base \/ End(m.seg[1]) <= b
  BY <1>1, <1>2
<1> DEFINE t == m.top
           n == m.topsize
           e == End(m.seg[1])
           f == b + d - TopFoot
           z == b + d
<1>8. /\ t \in Int /\ n \in Int /\ n > 0 /\ e = t + n + TopFoot /\ t > 0 /\ e <= Space /\ b \in Int /\ b > 0
      /\ d \in Int /\ d > TopFoot /\ z = b + d /\ f = b + d - TopFoot /\ z <= Space
      /\ sp = IF n < MinChunk THEN t ELSE t + n
      /\ (z <= t \/ e <= b) /\ Space \in Nat /\ b \in Addr /\ t \in Addr
  <2>1. z <= t \/ e <= b
    BY <1>1, <1>2, <1>4, <1>6
  <2>2. sp = IF n < MinChunk THEN t ELSE t + n
    BY <1>1, <1>5
  <2> QED
    BY <1>1, <1>2, <1>3, <1>4, <2>1, <2>2
<1> HIDE DEF t, n, e, f, z
<1>9. /\ sp \in Int /\ sp \in Addr /\ sp + RecordSize \in Addr /\ t <= sp /\ sp + TopFoot <= e
      /\ (sp = t \/ sp >= t + MinChunk)
  <2>1. CASE n < MinChunk
    BY ONLY <1>8, <2>1 DEF TopFoot, RecordSize, MinChunk, Addr
  <2>2. CASE ~(n < MinChunk)
    BY ONLY <1>8, <2>2 DEF TopFoot, RecordSize, MinChunk, Addr
  <2> QED
    BY <2>1, <2>2
<1>10. z \in Int /\ f \in Int /\ e \in Int /\ f \in Addr /\ b < f /\ f + TopFoot = z
  BY ONLY <1>8 DEF TopFoot, RecordSize, MinChunk, Addr
<1>11. NewPlaced(t, e, sp, b, f, z)
  BY ONLY <1>8, <1>9, <1>10 DEF NewPlaced
<1> QED
  BY <1>11 DEF t, e, f, z

LEMMA NewPlaces ==
    ASSUME NEW m \in State, Sound(m), NEW y, NEW b, NEW d, NEW sp, SegmentNew(m, y, b, d, sp)
    PROVE  NewPlaced(m.top, End(m.seg[1]), sp, b, b + d - TopFoot, b + d) /\ FootOf(y) = b + d - TopFoot
<1>1. NewRoom(m, b, d, sp)
  BY DEF SegmentNew, NewRoom
<1>2. NewPlaced(m.top, End(m.seg[1]), sp, b, b + d - TopFoot, b + d)
  BY <1>1, RoomPlaces
<1>3. FootOf(y) = b + d - TopFoot
  <2>1. y.top = b /\ y.topsize = d - TopFoot /\ b \in Addr /\ d \in Nat
    BY DEF SegmentNew
  <2> QED
    BY <2>1 DEF FootOf, Addr, TopFoot, RecordSize, MinChunk
<1> QED
  BY <1>2, <1>3

(* Of a chunk of the old heap that is not top, and the header behind it.   *)
NewFar(m, a, t, e, b, z) ==
    LET n == After(m, a) IN
    /\ a \in Int /\ a \in Addr /\ n \in Int
    /\ a < t \/ e <= a
    /\ a < b \/ z <= a
    /\ n <= t \/ e <= n
    /\ n < b \/ z <= n

LEMMA NewIsFar ==
    ASSUME NEW m \in State, Sound(m), NEW b \in Int, NEW z \in Int,
           \A k \in DOMAIN m.seg : z <= m.seg[k].base \/ End(m.seg[k]) <= b,
           NEW a \in Cells(m), a # m.top
    PROVE  NewFar(m, a, m.top, End(m.seg[1]), b, z)
<1> DEFINE n == After(m, a)
           t == m.top
           e == End(m.seg[1])
<1>1. Layout(m) /\ SegmentLayout(m)
  BY DEF Sound
<1>2. a \in Int /\ a \in Addr /\ n \in Int /\ m.head[a] # NoHeader /\ a < n
  BY CellFacts DEF After
<1>3. PICK j \in DOMAIN m.seg : segment_holds(m.seg[j], a)
  BY <1>1, <1>2 DEF SegmentLayout
<1>4. /\ m.seg[j].base \in Int /\ End(m.seg[j]) \in Int /\ m.seg[j].base <= a /\ a < End(m.seg[j])
  BY <1>3, SegFacts DEF segment_holds, End
<1>5. n < End(m.seg[j])
  BY <1>1, <1>3 DEF SegmentLayout
<1>6. /\ 1 \in DOMAIN m.seg /\ t \in Int /\ e \in Int /\ m.seg[1].base \in Int /\ m.seg[1].base <= t
      /\ t \in Cells(m) /\ t \in Addr /\ t < e
  <2>1. /\ 1 \in DOMAIN m.seg /\ t \in Int /\ e \in Int /\ m.seg[1].base \in Int /\ m.seg[1].base <= t
        /\ t \in Cells(m) /\ t \in Addr /\ m.topsize \in Nat /\ e = t + m.topsize + TopFoot
    BY SegmentOne
  <2> HIDE DEF t, e
  <2>2. t < e
    BY <2>1 DEF TopFoot, RecordSize, MinChunk
  <2> QED
    BY <2>1, <2>2
<1> HIDE DEF n, t, e
<1>7. z <= m.seg[j].base \/ End(m.seg[j]) <= b
  BY <1>3
<1>8. (a < b \/ z <= a) /\ (n < b \/ z <= n)
  BY ONLY <1>2, <1>4, <1>5, <1>7, b \in Int, z \in Int
<1>9. (a < t \/ e <= a) /\ (n <= t \/ e <= n)
  <2>1. CASE j = 1
    <3>1. a <= t
      BY <1>1, <1>3, <2>1 DEF SegmentLayout, t
    <3>2. a < t
      BY <1>2, <1>6, <3>1 DEF t
    <3>3. m.head[t] # NoHeader
      BY <1>6, CellFacts
    <3>4. n <= t
      BY <1>1, <1>6, <3>2, <3>3 DEF Layout, n
    <3> QED
      BY <3>2, <3>4
  <2>2. CASE j # 1
    <3>1. End(m.seg[j]) <= m.seg[1].base \/ e <= m.seg[j].base
      BY <1>1, <1>6, <2>2 DEF SegmentLayout, e
    <3> QED
      BY ONLY <1>2, <1>4, <1>5, <1>6, <3>1
  <2> QED
    BY <2>1, <2>2
<1> QED
  BY <1>2, <1>8, <1>9 DEF NewFar, n, t, e

NewKnown(m, y, t, e, sp, b, f, z) ==
    /\ \A a \in Cells(m) : a # t => /\ NewFar(m, a, t, e, b, z)
                                    /\ y.head[a] = m.head[a] /\ After(y, a) = After(m, a)
    /\ Cells(y) = Cells(m) \cup {sp, b}
    /\ RecordsOf(y) = RecordsOf(m) \cup {sp}
    /\ BasesOf(y) = BasesOf(m) \cup {b}
    /\ After(y, sp) = sp + RecordSize /\ After(y, b) = f
    /\ sp # t => After(y, t) = sp
    /\ b \notin Cells(m) /\ (sp \in Cells(m) => sp = t) /\ sp \notin RecordsOf(m)
    /\ \A a \in Addr : b <= a /\ a < z => m.head[a] = NoHeader

LEMMA NewSets ==
    ASSUME NEW m \in State, NEW y, NEW b, NEW d, NEW sp, SegmentNew(m, y, b, d, sp), 1 \in DOMAIN m.seg
    PROVE  /\ RecordsOf(y) = RecordsOf(m) \cup {sp} /\ BasesOf(y) = BasesOf(m) \cup {b}
           /\ DOMAIN y.seg = {1} \cup {k + 1 : k \in DOMAIN m.seg}
<1>1. /\ y \in State /\ Len(y.seg) = Len(m.seg) + 1 /\ y.seg[1].base = b
      /\ \A k \in DOMAIN m.seg :
            /\ y.seg[k + 1].base = m.seg[k].base
            /\ y.seg[k + 1].record = IF k = 1 THEN sp ELSE m.seg[k].record
  BY DEF SegmentNew
<1>2. m.seg \in Seq(Segment) /\ y.seg \in Seq(Segment)
  BY <1>1 DEF State
<1>3. DOMAIN m.seg = 1 .. Len(m.seg) /\ DOMAIN y.seg = 1 .. Len(m.seg) + 1 /\ Len(m.seg) \in Nat
  <2> HIDE DEF Segment
  <2> QED
    BY <1>1, <1>2
<1>4. DOMAIN y.seg = {1} \cup {k + 1 : k \in DOMAIN m.seg}
  <2>1. ASSUME NEW i \in DOMAIN y.seg PROVE i = 1 \/ \E k \in DOMAIN m.seg : i = k + 1
    <3>1. CASE i = 1
      BY <3>1
    <3>2. CASE i # 1
      <4>1. i - 1 \in DOMAIN m.seg /\ i = (i - 1) + 1
        BY <1>3, <3>2
      <4> QED
        BY <4>1
    <3> QED
      BY <3>1, <3>2
  <2>2. \A k \in DOMAIN m.seg : k + 1 \in DOMAIN y.seg
    BY <1>3
  <2>3. 1 \in DOMAIN y.seg
    BY <1>3
  <2> QED
    BY <2>1, <2>2, <2>3
<1>5. \A k \in DOMAIN m.seg : k + 1 # 1 /\ (k + 1 = 2 <=> k = 1)
  BY <1>3
<1>6. BasesOf(y) = BasesOf(m) \cup {b}
  <2>1. BasesOf(y) \subseteq BasesOf(m) \cup {b}
    BY <1>1, <1>4 DEF BasesOf
  <2>2. b \in BasesOf(y)
    BY <1>1, <1>4 DEF BasesOf
  <2>3. ASSUME NEW k \in DOMAIN m.seg PROVE m.seg[k].base \in BasesOf(y)
    <3>1. k + 1 \in DOMAIN y.seg /\ y.seg[k + 1].base = m.seg[k].base
      BY <1>1, <1>4
    <3> QED
      BY <3>1 DEF BasesOf
  <2> QED
    BY <2>1, <2>2, <2>3 DEF BasesOf
<1>7. RecordsOf(y) = RecordsOf(m) \cup {sp}
  <2>1. ASSUME NEW i \in DOMAIN y.seg \ {1} PROVE y.seg[i].record \in RecordsOf(m) \cup {sp}
    <3>1. PICK k \in DOMAIN m.seg : i = k + 1
      BY <1>4
    <3> QED
      BY <1>1, <3>1 DEF RecordsOf
  <2>2. ASSUME NEW k \in DOMAIN m.seg
        PROVE  (IF k = 1 THEN sp ELSE m.seg[k].record) \in RecordsOf(y)
    <3>1. k + 1 \in DOMAIN y.seg \ {1}
      BY <1>4, <1>5
    <3>2. y.seg[k + 1].record = IF k = 1 THEN sp ELSE m.seg[k].record
      BY <1>1
    <3> QED
      BY <3>1, <3>2 DEF RecordsOf
  <2> QED
    BY <2>1, <2>2 DEF RecordsOf
<1> QED
  BY <1>4, <1>6, <1>7

LEMMA NewFacts ==
    ASSUME NEW m \in State, Sound(m), NEW y, NEW b, NEW d, NEW sp, SegmentNew(m, y, b, d, sp),
           NEW t, t = m.top, NEW e, e = End(m.seg[1]), NEW f, f = b + d - TopFoot, NEW z, z = b + d
    PROVE  NewPlaced(t, e, sp, b, f, z) /\ FootOf(y) = f /\ NewKnown(m, y, t, e, sp, b, f, z)
<1>1. NewPlaced(t, e, sp, b, f, z) /\ FootOf(y) = f
  BY NewPlaces
<1>2. /\ t \in Int /\ e \in Int /\ sp \in Int /\ b \in Int /\ f \in Int /\ z \in Int
      /\ t \in Addr /\ sp \in Addr /\ sp + RecordSize \in Addr /\ b \in Addr /\ f \in Addr
      /\ t > 0 /\ t <= sp /\ sp + TopFoot <= e /\ (sp = t \/ sp >= t + MinChunk)
      /\ b > 0 /\ b < f /\ f + TopFoot = z /\ (z <= t \/ e <= b)
  BY <1>1 DEF NewPlaced
<1>3. /\ y \in State /\ \A k \in DOMAIN m.seg : z <= m.seg[k].base \/ End(m.seg[k]) <= b
      /\ sp = IF m.topsize < MinChunk THEN m.top ELSE FootOf(m)
  BY DEF SegmentNew
<1>4. /\ y.head[b].size = f - b /\ y.head[b].cinuse = FALSE /\ y.head[b].pinuse = TRUE
      /\ y.head[f].size = TopFoot /\ y.head[f].pinuse = FALSE
      /\ sp # t => y.head[t].size = sp - t
      /\ y.head[t].cinuse = TRUE /\ y.head[t].pinuse = TRUE
      /\ y.head[sp].size = RecordSize
      /\ y.head[sp + RecordSize] = Fencepost
  <2>1. f - b = d - TopFoot
    <3>1. d \in Int
      BY DEF SegmentNew
    <3> QED
      BY <1>2, <3>1 DEF TopFoot, RecordSize, MinChunk
  <2> QED
    BY <2>1 DEF SegmentNew
<1>5. /\ \A a \in Addr : t < a /\ a < e /\ a # sp /\ a # sp + RecordSize => y.head[a] = NoHeader
      /\ \A a \in Addr : b < a /\ a < z /\ a # f => y.head[a] = NoHeader
      /\ \A a \in Addr : (a < t \/ e <= a) /\ (a < b \/ z <= a) => y.head[a] = m.head[a]
  BY DEF SegmentNew
<1>6. /\ 1 \in DOMAIN m.seg /\ t \in Cells(m) /\ After(m, t) = FootOf(m) /\ FootOf(m) + TopFoot = e
      /\ m.seg[1].base \in Int /\ m.seg[1].base <= t
  BY SegmentOne
<1>7. Layout(m) /\ SegmentLayout(m)
  BY DEF Sound
<1>8. ASSUME NEW a \in Cells(m), a # t
      PROVE  NewFar(m, a, t, e, b, z) /\ y.head[a] = m.head[a] /\ After(y, a) = After(m, a)
  <2>1. NewFar(m, a, t, e, b, z)
    BY <1>2, <1>3, <1>8, NewIsFar
  <2>2. y.head[a] = m.head[a]
    BY <1>5, <2>1 DEF NewFar
  <2> QED
    BY <2>1, <2>2 DEF After
<1>9. \A a \in Addr : b <= a /\ a < z => m.head[a] = NoHeader
  <2> SUFFICES ASSUME NEW a \in Addr, b <= a, a < z PROVE m.head[a] = NoHeader
    OBVIOUS
  <2>1. ASSUME NEW j \in DOMAIN m.seg, segment_holds(m.seg[j], a) PROVE FALSE
    <3>1. m.seg[j].base <= a /\ a < End(m.seg[j]) /\ m.seg[j].base \in Int /\ End(m.seg[j]) \in Int
      BY <2>1, SegFacts DEF segment_holds, End
    <3>2. z <= m.seg[j].base \/ End(m.seg[j]) <= b
      BY <1>3
    <3>3. a \in Int
      BY DEF Addr
    <3> QED
      BY <1>2, <3>1, <3>2, <3>3
  <2> QED
    BY <1>7, <2>1 DEF SegmentLayout
<1>10. b \notin Cells(m)
  <2>1. m.head[b] = NoHeader
    BY <1>2, <1>9 DEF TopFoot, RecordSize, MinChunk
  <2> QED
    BY <2>1 DEF Cells, NoHeader
<1>11. sp \in Cells(m) => sp = t
  <2>1. sp = t \/ sp = FootOf(m)
    BY <1>3
  <2> QED
    BY <2>1 DEF Cells
<1>12. sp \notin RecordsOf(m)
  <2>1. \A r \in RecordsOf(m) : r \in Cells(m) /\ m.head[r].cinuse
    BY <1>7 DEF Layout
  <2>2. ~m.head[t].cinuse
    BY <1>7 DEF Layout
  <2> QED
    BY <1>11, <2>1, <2>2
<1>13. Cells(y) = Cells(m) \cup {sp, b}
  <2>1. sp \in Cells(y) /\ b \in Cells(y) /\ t \in Cells(y)
    <3>1. sp # f /\ b # f /\ t # f
      BY <1>2 DEF TopFoot, RecordSize, MinChunk
    <3>2. y.head[sp].size > 0 /\ y.head[b].size > 0 /\ y.head[t].size > 0
      <4>1. sp = t => y.head[t].size = RecordSize
        BY <1>4
      <4> QED
        BY <1>2, <1>4, <4>1 DEF RecordSize, MinChunk
    <3> QED
      BY <1>1, <1>2, <3>1, <3>2 DEF Cells
  <2>2. ASSUME NEW a \in Cells(m) PROVE a \in Cells(y)
    <3>1. CASE a = t
      BY <2>1, <3>1
    <3>2. CASE a # t
      <4>1. y.head[a] = m.head[a] /\ NewFar(m, a, t, e, b, z)
        BY <1>8, <3>2
      <4>2. a # f
        BY <1>2, <4>1 DEF NewFar, TopFoot, RecordSize, MinChunk
      <4> QED
        BY <1>1, <4>1, <4>2 DEF Cells
    <3> QED
      BY <3>1, <3>2
  <2>3. ASSUME NEW a \in Cells(y), a # sp, a # b, a # t PROVE a \in Cells(m)
    <3>1. a \in Addr /\ a \in Int /\ y.head[a].size > 0 /\ a # f
      BY <1>1 DEF Cells, Addr
    <3>2. y.head[a] # NoHeader
      BY <3>1 DEF NoHeader
    <3>3. a # sp + RecordSize
      BY <1>4, <3>1 DEF Fencepost
    <3>4. (a < t \/ e <= a) /\ (a < b \/ z <= a)
      BY <1>2, <1>5, <2>3, <3>1, <3>2, <3>3
    <3>5. y.head[a] = m.head[a]
      BY <1>5, <3>1, <3>4
    <3>6. a # FootOf(m)
      <4>1. FootOf(m) \in Int /\ t < FootOf(m)
        BY <1>6, FootFacts, CellFacts DEF After
      <4> QED
        BY <1>2, <1>6, <3>1, <3>4, <4>1 DEF TopFoot, RecordSize, MinChunk
    <3> QED
      BY <3>1, <3>5, <3>6 DEF Cells
  <2> QED
    BY <1>6, <2>1, <2>2, <2>3
<1>14. RecordsOf(y) = RecordsOf(m) \cup {sp} /\ BasesOf(y) = BasesOf(m) \cup {b}
  BY <1>6, NewSets
<1>15. After(y, sp) = sp + RecordSize /\ After(y, b) = f /\ (sp # t => After(y, t) = sp)
  <2>1. After(y, b) = f
    BY <1>2, <1>4 DEF After
  <2>2. sp # t => After(y, t) = sp
    BY <1>2, <1>4 DEF After
  <2> QED
    BY <1>4, <2>1, <2>2 DEF After
<1>16. NewKnown(m, y, t, e, sp, b, f, z)
  BY <1>8, <1>9, <1>10, <1>11, <1>12, <1>13, <1>14, <1>15 DEF NewKnown
<1> QED
  BY <1>1, <1>16

LEMMA NewLayout ==
    ASSUME NEW m \in State, Sound(m), NEW y, NEW b, NEW d, NEW sp, SegmentNew(m, y, b, d, sp)
    PROVE  Layout(y)
<1> DEFINE t == m.top
           e == End(m.seg[1])
           f == b + d - TopFoot
           z == b + d
<1>1. NewPlaced(t, e, sp, b, f, z) /\ FootOf(y) = f /\ NewKnown(m, y, t, e, sp, b, f, z)
  BY NewFacts
<1>2. /\ y \in State /\ y.top = b /\ y.topsize = d - TopFoot
      /\ y.head[b].size = d - TopFoot /\ y.head[b].cinuse = FALSE /\ y.head[b].pinuse = TRUE
      /\ y.head[f].size = TopFoot /\ y.head[f].pinuse = FALSE
      /\ sp # t => y.head[t].size = sp - t
      /\ y.head[t].cinuse = TRUE /\ y.head[t].pinuse = TRUE
      /\ y.head[sp].size = RecordSize /\ y.head[sp].cinuse = TRUE /\ y.head[sp].pinuse = TRUE
      /\ y.head[sp + RecordSize] = Fencepost
  BY DEF SegmentNew
<1>3. /\ \A a \in Addr : t < a /\ a < e /\ a # sp /\ a # sp + RecordSize => y.head[a] = NoHeader
      /\ \A a \in Addr : b < a /\ a < z /\ a # f => y.head[a] = NoHeader
      /\ \A a \in Addr : (a < t \/ e <= a) /\ (a < b \/ z <= a) => y.head[a] = m.head[a]
  BY DEF SegmentNew
<1>4. /\ t \in Cells(m) /\ t = m.top /\ m.head[t].pinuse = TRUE /\ m.head[t].cinuse = FALSE /\ Layout(m)
  BY SegmentOne DEF Sound
<1> HIDE DEF t, e, f, z
<1>5. /\ t \in Int /\ e \in Int /\ sp \in Int /\ b \in Int /\ f \in Int /\ z \in Int
      /\ t \in Addr /\ sp \in Addr /\ sp + RecordSize \in Addr /\ b \in Addr /\ f \in Addr
      /\ t <= sp /\ sp + TopFoot <= e /\ (sp = t \/ sp >= t + MinChunk)
      /\ b < f /\ f + TopFoot = z /\ (z <= t \/ e <= b)
  BY <1>1 DEF NewPlaced
<1>6. \A a \in Cells(m) : a # t => /\ NewFar(m, a, t, e, b, z)
                                   /\ y.head[a] = m.head[a] /\ After(y, a) = After(m, a)
  BY <1>1 DEF NewKnown
<1>7. /\ Cells(y) = Cells(m) \cup {sp, b}
      /\ RecordsOf(y) = RecordsOf(m) \cup {sp} /\ BasesOf(y) = BasesOf(m) \cup {b}
      /\ After(y, sp) = sp + RecordSize /\ After(y, b) = f /\ (sp # t => After(y, t) = sp)
      /\ b \notin Cells(m) /\ (sp \in Cells(m) => sp = t) /\ sp \notin RecordsOf(m)
  BY <1>1 DEF NewKnown
<1>8. \A a \in Addr : b <= a /\ a < z => m.head[a] = NoHeader
  BY <1>1 DEF NewKnown
<1>9. \A a \in Cells(m) : m.head[a].cinuse \/ m.head[a].pinuse
  BY <1>4 DEF Layout, Tagged
<1>10. b # sp /\ b # t
  BY <1>4, <1>5, <1>7 DEF TopFoot, RecordSize, MinChunk
<1>11. ASSUME NEW a \in Cells(y), NEW c \in Addr, a < c, y.head[c] # NoHeader PROVE After(y, a) <= c
  <2>1. c \in Int
    BY DEF Addr
  <2>2. \/ c = t \/ c = sp \/ c = sp + RecordSize \/ c = b \/ c = f
        \/ (c < t \/ e <= c) /\ (c < b \/ z <= c) /\ m.head[c] # NoHeader
    BY <1>3, <1>5, <1>11, <2>1
  <2>3. CASE a \in Cells(m) /\ a # t
    <3>1. NewFar(m, a, t, e, b, z) /\ After(y, a) = After(m, a)
      BY <1>6, <2>3
    <3> DEFINE n == After(m, a)
    <3>2. a \in Int /\ n \in Int /\ (a < t \/ e <= a) /\ (a < b \/ z <= a)
          /\ (n <= t \/ e <= n) /\ (n < b \/ z <= n)
      BY <3>1 DEF NewFar
    <3> HIDE DEF n
    <3>3. m.head[c] # NoHeader => n <= c
      BY <1>4, <1>11, <2>3 DEF Layout, n
    <3>4. a < t => n <= t
      <4>1. m.head[t] # NoHeader
        BY <1>4, CellFacts
      <4> QED
        BY <1>4, <1>5, <2>3, <4>1 DEF Layout, n
    <3>5. a < b => n < b
      <4>1. CASE z <= n
        \* the segment of a would reach past the new one
        <5>1. SegmentLayout(m)
          BY DEF Sound
        <5>2. PICK j \in DOMAIN m.seg : segment_holds(m.seg[j], a)
          <6>1. a \in Addr /\ m.head[a] # NoHeader
            BY <2>3, CellFacts
          <6> QED
            BY <5>1, <6>1 DEF SegmentLayout
        <5>3. /\ m.seg[j].base \in Int /\ End(m.seg[j]) \in Int /\ m.seg[j].base <= a /\ a < End(m.seg[j])
          BY <5>2, SegFacts DEF segment_holds, End
        <5>4. n < End(m.seg[j])
          BY <2>3, <5>1, <5>2 DEF SegmentLayout, n
        <5>5. z <= m.seg[j].base \/ End(m.seg[j]) <= b
          BY DEF SegmentNew, z
        <5> QED
          BY ONLY <1>5, <3>2, <4>1, <5>3, <5>4, <5>5 DEF TopFoot, RecordSize, MinChunk
      <4> QED
        BY <3>2, <4>1
    <3>6. CASE c \in {t, sp, sp + RecordSize}
      <4>1. t <= c /\ c < e
        BY ONLY <1>5, <3>6 DEF TopFoot, RecordSize, MinChunk
      <4>2. a < t
        BY ONLY <1>5, <1>11, <2>1, <3>2, <4>1
      <4> QED
        BY ONLY <1>5, <2>1, <3>1, <3>2, <3>4, <4>1, <4>2 DEF n
    <3>7. CASE c \in {b, f}
      <4>1. b <= c /\ c < z
        BY ONLY <1>5, <3>7 DEF TopFoot, RecordSize, MinChunk
      <4>2. a < b
        BY ONLY <1>5, <1>11, <2>1, <3>2, <4>1
      <4> QED
        BY ONLY <1>5, <2>1, <3>1, <3>2, <3>5, <4>1, <4>2 DEF n
    <3> QED
      BY <2>2, <3>1, <3>3, <3>6, <3>7 DEF n
  <2>4. CASE a = t /\ sp # t
    <3>1. After(y, a) = sp
      BY <1>7, <2>4
    <3>2. c >= sp
      BY ONLY <1>3, <1>5, <1>11, <2>1, <2>4 DEF TopFoot, RecordSize, MinChunk
    <3> QED
      BY <3>1, <3>2
  <2>5. CASE a = sp
    <3>1. After(y, a) = sp + RecordSize
      BY <1>7, <2>5
    <3>2. c >= sp + RecordSize
      BY ONLY <1>3, <1>5, <1>11, <2>1, <2>5 DEF TopFoot, RecordSize, MinChunk
    <3> QED
      BY <3>1, <3>2
  <2>6. CASE a = b
    <3>1. After(y, a) = f
      BY <1>7, <2>6
    <3>2. c >= f
      BY ONLY <1>3, <1>5, <1>11, <2>1, <2>6 DEF TopFoot, RecordSize, MinChunk
    <3> QED
      BY <3>1, <3>2
  <2> QED
    BY <1>7, <1>11, <2>3, <2>4, <2>5, <2>6
<1>12. ASSUME NEW a \in Cells(m), a # t
       PROVE  /\ After(y, a) \in Addr /\ Followed(y, a) /\ Tagged(y, a)
              /\ a # y.top => y.head[a].size >= MinChunk
              /\ a \in BasesOf(y) \/ \E c \in Cells(y) : After(y, c) = a
  <2> DEFINE n == After(m, a)
  <2>1. n \in Addr /\ Followed(m, a) /\ Tagged(m, a) /\ m.head[a].size >= MinChunk
    BY <1>4, <1>12 DEF Layout
  <2>2. y.head[a] = m.head[a] /\ After(y, a) = n /\ NewFar(m, a, t, e, b, z) /\ a # sp /\ a # b
    BY <1>6, <1>7, <1>12
  <2>3. n \in Int /\ (n <= t \/ e <= n) /\ (n < b \/ z <= n)
    BY <2>2 DEF NewFar
  <2>4. n # b
    BY <1>5, <2>3 DEF TopFoot, RecordSize, MinChunk
  <2>5. n # t => y.head[n] = m.head[n]
    BY <1>3, <1>5, <2>1, <2>3
  <2>6. Followed(y, a)
    <3>1. CASE a \in RecordsOf(m)
      <4>1. m.head[n] = Fencepost
        BY <1>4, <1>12, <2>1, <3>1 DEF Followed
      <4>2. n # t
        BY <1>4, <4>1, CellFacts DEF Fencepost
      <4> QED
        BY <1>2, <1>7, <2>2, <2>5, <3>1, <4>1, <4>2 DEF Followed
    <3>2. CASE a \notin RecordsOf(m)
      <4>1. n \in Cells(m) \ BasesOf(m)
        BY <1>4, <1>12, <2>1, <3>2 DEF Followed
      <4>2. n \in Cells(y) \ BasesOf(y)
        BY <1>7, <2>4, <4>1
      <4> QED
        BY <1>2, <1>7, <2>2, <3>2, <4>2 DEF Followed
    <3> QED
      BY <3>1, <3>2
  <2>7. Tagged(y, a)
    <3>1. CASE n = t
      <4>1. m.head[a].cinuse = TRUE
        BY <1>4, <2>1, <3>1 DEF Tagged
      <4> QED
        BY <1>2, <2>2, <3>1, <4>1 DEF Tagged
    <3>2. CASE n # t
      <4>1. y.head[n] = m.head[n]
        BY <2>5, <3>2
      <4> QED
        BY <1>2, <1>4, <1>12, <2>1, <2>2, <4>1 DEF Tagged
    <3> QED
      BY <3>1, <3>2
  <2>8. a \in BasesOf(y) \/ \E c \in Cells(y) : After(y, c) = a
    <3>1. CASE a \in BasesOf(m)
      BY <1>7, <3>1
    <3>2. CASE a \notin BasesOf(m)
      <4>1. PICK c \in Cells(m) : After(m, c) = a
        BY <1>4, <3>2 DEF Layout
      <4>2. c # t
        <5>1. After(m, t) = FootOf(m)
          BY <1>4 DEF Layout, Followed
        <5> QED
          BY <1>12, <4>1, <5>1 DEF Cells
      <4>3. c \in Cells(y) /\ After(y, c) = a
        BY <1>6, <1>7, <4>1, <4>2
      <4> QED
        BY <4>3
    <3> QED
      BY <3>1, <3>2
  <2> QED
    BY <2>1, <2>2, <2>6, <2>7, <2>8
<1>13. /\ After(y, sp) \in Addr /\ Followed(y, sp) /\ Tagged(y, sp) /\ y.head[sp].size >= MinChunk
  <2>1. sp \in RecordsOf(y) /\ sp # y.top
    BY <1>2, <1>7, <1>10
  <2>2. Followed(y, sp)
    BY <1>2, <1>7, <2>1 DEF Followed
  <2>3. y.head[After(y, sp)].pinuse = TRUE
    BY <1>2, <1>7 DEF Fencepost
  <2>4. Tagged(y, sp)
    BY <1>2, <2>3 DEF Tagged
  <2> QED
    BY <1>2, <1>5, <1>7, <2>2, <2>4 DEF RecordSize, MinChunk
<1>14. /\ After(y, b) \in Addr /\ Followed(y, b) /\ Tagged(y, b) /\ b = y.top /\ b \in BasesOf(y)
  BY <1>1, <1>2, <1>5, <1>7 DEF Followed, Tagged
<1>15. sp # t => /\ After(y, t) \in Addr /\ Followed(y, t) /\ Tagged(y, t)
                 /\ y.head[t].size >= MinChunk
  <2> SUFFICES ASSUME sp # t
               PROVE  After(y, t) \in Addr /\ Followed(y, t) /\ Tagged(y, t) /\ y.head[t].size >= MinChunk
    OBVIOUS
  <2>1. After(y, t) = sp /\ y.head[t].size = sp - t
    BY <1>2, <1>7
  <2>2. sp - t >= MinChunk
    BY <1>5 DEF MinChunk
  <2>3. t \notin RecordsOf(y)
    BY <1>4, <1>7 DEF Layout
  <2>4. sp \in Cells(y) /\ sp \notin BasesOf(y)
    <3>1. sp \notin Cells(m)
      BY <1>7
    <3> QED
      BY <1>4, <1>7, <1>10, <3>1 DEF Layout
  <2>5. Followed(y, t)
    BY <1>2, <1>10, <2>1, <2>3, <2>4 DEF Followed
  <2>6. Tagged(y, t)
    BY <1>2, <2>1 DEF Tagged
  <2> QED
    BY <1>5, <2>1, <2>2, <2>5, <2>6
<1>16. t \in BasesOf(y) \/ \E c \in Cells(y) : After(y, c) = t
  <2>1. CASE t \in BasesOf(m)
    BY <1>7, <2>1
  <2>2. CASE t \notin BasesOf(m)
    <3>1. PICK c \in Cells(m) : After(m, c) = t
      BY <1>4, <2>2 DEF Layout
    <3>2. c # t
      BY <1>4, <3>1, CellFacts DEF After
    <3>3. c \in Cells(y) /\ After(y, c) = t
      BY <1>6, <1>7, <3>1, <3>2
    <3> QED
      BY <3>3
  <2> QED
    BY <2>1, <2>2
<1>17. sp \in BasesOf(y) \/ \E c \in Cells(y) : After(y, c) = sp
  <2>1. CASE sp = t
    BY <1>16, <2>1
  <2>2. CASE sp # t
    BY <1>4, <1>7, <2>2
  <2> QED
    BY <2>1, <2>2
<1>18. \A a \in Cells(y) : /\ After(y, a) \in Addr /\ Followed(y, a) /\ Tagged(y, a)
                           /\ a # y.top => y.head[a].size >= MinChunk
                           /\ a \in BasesOf(y) \/ \E c \in Cells(y) : After(y, c) = a
  <2> SUFFICES ASSUME NEW a \in Cells(y)
               PROVE  /\ After(y, a) \in Addr /\ Followed(y, a) /\ Tagged(y, a)
                      /\ a # y.top => y.head[a].size >= MinChunk
                      /\ a \in BasesOf(y) \/ \E c \in Cells(y) : After(y, c) = a
    OBVIOUS
  <2>1. CASE a = b
    BY <1>14, <2>1
  <2>2. CASE a = sp
    BY <1>13, <1>17, <2>2
  <2>3. CASE a = t /\ sp # t
    BY <1>15, <1>16, <2>3
  <2>4. CASE a \in Cells(m) /\ a # t
    BY <1>12, <2>4
  <2> QED
    BY <1>7, <2>1, <2>2, <2>3, <2>4
<1>19. \A a \in BasesOf(y) : a \in Cells(y) /\ y.head[a].pinuse
  <2> SUFFICES ASSUME NEW a \in BasesOf(y) PROVE a \in Cells(y) /\ y.head[a].pinuse
    OBVIOUS
  <2>1. CASE a = b
    BY <1>2, <1>7, <2>1
  <2>2. CASE a = t
    BY <1>2, <1>4, <1>7, <2>2
  <2>3. CASE a \in BasesOf(m) /\ a # t
    <3>1. a \in Cells(m) /\ m.head[a].pinuse
      BY <1>4, <2>3 DEF Layout
    <3> QED
      BY <1>6, <1>7, <2>3, <3>1
  <2> QED
    BY <1>7, <2>1, <2>2, <2>3
<1>20. \A r \in RecordsOf(y) : r \in Cells(y) /\ y.head[r].cinuse
  <2> SUFFICES ASSUME NEW r \in RecordsOf(y) PROVE r \in Cells(y) /\ y.head[r].cinuse
    OBVIOUS
  <2>1. CASE r = sp
    BY <1>2, <1>7, <2>1
  <2>2. CASE r \in RecordsOf(m)
    <3>1. r \in Cells(m) /\ m.head[r].cinuse
      BY <1>4, <2>2 DEF Layout
    <3>2. r # t
      BY <1>4, <3>1
    <3> QED
      BY <1>6, <1>7, <3>1, <3>2
  <2> QED
    BY <1>7, <2>1, <2>2
<1>21. y.top \in Cells(y) /\ ~y.head[y.top].cinuse /\ y.topsize = y.head[y.top].size
       /\ FootOf(y) \in Addr /\ y.head[FootOf(y)].size = TopFoot
  BY <1>1, <1>2, <1>5, <1>7
<1> QED
  BY <1>11, <1>18, <1>19, <1>20, <1>21 DEF Layout

LEMMA NewSegments ==
    ASSUME NEW m \in State, Sound(m), NEW y, NEW b, NEW d, NEW sp, SegmentNew(m, y, b, d, sp)
    PROVE  SegmentLayout(y)
<1> DEFINE t == m.top
           e == End(m.seg[1])
           f == b + d - TopFoot
           z == b + d
<1>1. NewPlaced(t, e, sp, b, f, z) /\ FootOf(y) = f /\ NewKnown(m, y, t, e, sp, b, f, z)
  BY NewFacts
<1>2. /\ y \in State /\ y.top = b /\ d \in Nat /\ y.seg[1].base = b /\ y.seg[1].size = d
      /\ y.footprint = m.footprint + d
      /\ \A k \in DOMAIN m.seg :
            /\ y.seg[k + 1].base = m.seg[k].base /\ y.seg[k + 1].size = m.seg[k].size
            /\ y.seg[k + 1].record = IF k = 1 THEN sp ELSE m.seg[k].record
      /\ \A k \in DOMAIN m.seg : z <= m.seg[k].base \/ End(m.seg[k]) <= b
  BY DEF SegmentNew
<1>3. /\ \A a \in Addr : t < a /\ a < e /\ a # sp /\ a # sp + RecordSize => y.head[a] = NoHeader
      /\ \A a \in Addr : (a < t \/ e <= a) /\ (a < b \/ z <= a) => y.head[a] = m.head[a]
  BY DEF SegmentNew
<1>4. /\ 1 \in DOMAIN m.seg /\ t \in Cells(m) /\ t = m.top /\ segment_holds(m.seg[1], t)
      /\ SegmentLayout(m) /\ Layout(m) /\ e = End(m.seg[1])
  BY SegmentOne DEF Sound
<1>5. DOMAIN y.seg = {1} \cup {k + 1 : k \in DOMAIN m.seg} /\ \A k \in DOMAIN m.seg : k \in Nat /\ k > 0
  BY <1>4, NewSets, SegFacts
<1>6. z = b + d
  OBVIOUS
<1> HIDE DEF t, e, f, z
<1>7. /\ t \in Int /\ e \in Int /\ sp \in Int /\ b \in Int /\ f \in Int /\ z \in Int
      /\ t <= sp /\ sp + TopFoot <= e
      /\ b < f /\ f + TopFoot = z /\ (z <= t \/ e <= b) /\ z <= Space
  BY <1>1 DEF NewPlaced
<1>8. \A a \in Cells(m) : a # t => NewFar(m, a, t, e, b, z) /\ After(y, a) = After(m, a)
  BY <1>1 DEF NewKnown
<1>9. /\ Cells(y) = Cells(m) \cup {sp, b}
      /\ After(y, sp) = sp + RecordSize /\ After(y, b) = f /\ (sp # t => After(y, t) = sp)
      /\ b \notin Cells(m) /\ (sp \in Cells(m) => sp = t)
  BY <1>1 DEF NewKnown
<1>10. End(y.seg[1]) = z /\ \A k \in DOMAIN m.seg : End(y.seg[k + 1]) = End(m.seg[k])
  BY <1>2, <1>6 DEF End
<1>11. \A a : (segment_holds(y.seg[1], a) <=> b <= a /\ a < z)
              /\ \A k \in DOMAIN m.seg : segment_holds(y.seg[k + 1], a) <=> segment_holds(m.seg[k], a)
  BY <1>2, <1>6 DEF segment_holds
<1>12. \A k \in DOMAIN m.seg : k + 1 # 1
  BY <1>5
<1>13. \A k \in DOMAIN m.seg : m.seg[k].base \in Int /\ End(m.seg[k]) \in Int /\ End(m.seg[k]) <= Space
  BY <1>4, SegFacts DEF SegmentLayout
<1>14. \A k \in DOMAIN y.seg : End(y.seg[k]) <= Space
  BY <1>5, <1>7, <1>10, <1>13
<1>15. \A j, k \in DOMAIN y.seg : j # k => End(y.seg[j]) <= y.seg[k].base \/ End(y.seg[k]) <= y.seg[j].base
  <2> SUFFICES ASSUME NEW j \in DOMAIN y.seg, NEW k \in DOMAIN y.seg, j # k
               PROVE  End(y.seg[j]) <= y.seg[k].base \/ End(y.seg[k]) <= y.seg[j].base
    OBVIOUS
  <2>1. CASE j = 1 \/ k = 1
    BY <1>2, <1>5, <1>10, <2>1
  <2>2. CASE j # 1 /\ k # 1
    <3>1. PICK i \in DOMAIN m.seg : j = i + 1
      BY <1>5, <2>2
    <3>2. PICK l \in DOMAIN m.seg : k = l + 1
      BY <1>5, <2>2
    <3>3. End(m.seg[i]) <= m.seg[l].base \/ End(m.seg[l]) <= m.seg[i].base
      BY <1>4, <3>1, <3>2 DEF SegmentLayout
    <3> QED
      BY <1>2, <1>10, <3>1, <3>2, <3>3
  <2> QED
    BY <2>1, <2>2
<1>16. \A a \in Addr : y.head[a] # NoHeader => \E k \in DOMAIN y.seg : segment_holds(y.seg[k], a)
  <2> SUFFICES ASSUME NEW a \in Addr, y.head[a] # NoHeader
               PROVE  \E k \in DOMAIN y.seg : segment_holds(y.seg[k], a)
    OBVIOUS
  <2>1. a \in Int
    BY DEF Addr
  <2>2. CASE b <= a /\ a < z
    BY <1>5, <1>11, <2>2
  <2>3. CASE (a < b \/ z <= a) /\ t <= a /\ a < e
    <3>1. segment_holds(m.seg[1], a)
      BY <1>4, <1>7, <1>13, <2>1, <2>3 DEF segment_holds, End
    <3>2. 1 + 1 \in DOMAIN y.seg /\ segment_holds(y.seg[1 + 1], a)
      BY <1>4, <1>5, <1>11, <3>1
    <3> QED
      BY <3>2
  <2>4. CASE (a < b \/ z <= a) /\ (a < t \/ e <= a)
    <3>1. m.head[a] # NoHeader
      BY <1>3, <2>4
    <3>2. PICK k \in DOMAIN m.seg : segment_holds(m.seg[k], a)
      BY <1>4, <3>1 DEF SegmentLayout
    <3>3. k + 1 \in DOMAIN y.seg /\ segment_holds(y.seg[k + 1], a)
      BY <1>5, <1>11, <3>2
    <3> QED
      BY <3>3
  <2> QED
    BY <1>7, <2>1, <2>2, <2>3, <2>4
<1>17. ASSUME NEW a \in Cells(y), segment_holds(y.seg[1], a) PROVE After(y, a) < z /\ a <= y.top
  <2>1. b <= a /\ a < z
    BY <1>11, <1>17
  <2>2. a = b
    <3>1. a # sp /\ a # t
      BY <1>7, <2>1 DEF TopFoot, RecordSize, MinChunk
    <3>2. a \in Cells(m) => FALSE
      BY <1>7, <1>8, <2>1, <3>1 DEF NewFar
    <3> QED
      BY <1>9, <3>1, <3>2
  <2> QED
    BY <1>2, <1>7, <1>9, <2>2 DEF TopFoot, RecordSize, MinChunk
<1>18. ASSUME NEW j \in DOMAIN m.seg, NEW a \in Cells(y), segment_holds(m.seg[j], a)
       PROVE  After(y, a) < End(m.seg[j]) /\ a <= IF j = 1 THEN sp ELSE m.seg[j].record
  <2>1. a # b
    <3>1. z <= m.seg[j].base \/ End(m.seg[j]) <= b
      BY <1>2
    <3> QED
      BY <1>7, <1>13, <1>18, <3>1 DEF segment_holds, End, TopFoot, RecordSize, MinChunk
  <2>2. CASE a = t \/ a = sp
    <3>1. segment_holds(m.seg[1], a)
      BY <1>4, <1>7, <1>13, <2>2 DEF segment_holds, End, TopFoot, RecordSize, MinChunk
    <3>2. a \in Int
      BY <1>7, <2>2
    <3>3. j = 1
      BY <1>4, <1>18, <3>1, <3>2, SegmentApart
    <3>4. After(y, a) < e /\ a <= sp
      BY <1>7, <1>9, <2>2 DEF TopFoot, RecordSize, MinChunk
    <3> QED
      BY <1>4, <3>3, <3>4
  <2>3. CASE a # t /\ a # sp
    <3>1. a \in Cells(m) /\ After(y, a) = After(m, a)
      BY <1>8, <1>9, <2>1, <2>3
    <3>2. After(m, a) < End(m.seg[j]) /\ a <= IF j = 1 THEN m.top ELSE m.seg[j].record
      BY <1>4, <1>18, <3>1 DEF SegmentLayout
    <3>3. a \in Int
      BY <3>1, CellInt
    <3> QED
      BY <1>4, <1>7, <3>1, <3>2, <3>3
  <2> QED
    BY <2>2, <2>3
<1>19. \A k \in DOMAIN y.seg : \A a \in Cells(y) :
          segment_holds(y.seg[k], a) =>
              After(y, a) < End(y.seg[k]) /\ a <= IF k = 1 THEN y.top ELSE y.seg[k].record
  <2> SUFFICES ASSUME NEW k \in DOMAIN y.seg, NEW a \in Cells(y), segment_holds(y.seg[k], a)
               PROVE  After(y, a) < End(y.seg[k]) /\ a <= IF k = 1 THEN y.top ELSE y.seg[k].record
    OBVIOUS
  <2>1. CASE k = 1
    BY <1>10, <1>17, <2>1
  <2>2. CASE k # 1
    <3>1. PICK j \in DOMAIN m.seg : k = j + 1
      BY <1>5, <2>2
    <3>2. segment_holds(m.seg[j], a)
      BY <1>11, <3>1
    <3> QED
      BY <1>2, <1>10, <1>18, <2>2, <3>1, <3>2
  <2> QED
    BY <2>1, <2>2
<1>20. \A k \in DOMAIN y.seg \ {1} :
          segment_holds(y.seg[k], y.seg[k].record) /\ y.seg[k].record + TopFoot <= End(y.seg[k])
  <2> SUFFICES ASSUME NEW k \in DOMAIN y.seg \ {1}
               PROVE  segment_holds(y.seg[k], y.seg[k].record) /\ y.seg[k].record + TopFoot <= End(y.seg[k])
    OBVIOUS
  <2>1. PICK j \in DOMAIN m.seg : k = j + 1
    BY <1>5
  <2>2. CASE j = 1
    <3>1. segment_holds(m.seg[1], sp)
      BY <1>4, <1>7, <1>13 DEF segment_holds, End, TopFoot, RecordSize, MinChunk
    <3>2. y.seg[k].record = sp
      BY <1>2, <2>1, <2>2
    <3> QED
      BY <1>4, <1>7, <1>10, <1>11, <2>1, <2>2, <3>1, <3>2
  <2>3. CASE j # 1
    BY <1>2, <1>4, <1>10, <1>11, <2>1, <2>3 DEF SegmentLayout
  <2> QED
    BY <2>2, <2>3
<1>21. segment_holds(y.seg[1], y.top) /\ FootOf(y) + TopFoot = End(y.seg[1])
  BY <1>1, <1>2, <1>7, <1>10, <1>11 DEF TopFoot, RecordSize, MinChunk
<1>22. y.footprint = Cardinality(Mapped(y))
  <2>1. Apart(y) /\ 1 \in DOMAIN y.seg
    BY <1>5, <1>14, <1>15 DEF Apart
  <2>2. MappedBut(y, 1) = Mapped(m)
    <3>1. ASSUME NEW k \in DOMAIN y.seg \ {1}
          PROVE  \E j \in DOMAIN m.seg : /\ y.seg[k].base = m.seg[j].base
                                         /\ End(y.seg[k]) = End(m.seg[j])
      <4>1. PICK j \in DOMAIN m.seg : k = j + 1
        BY <1>5
      <4> QED
        BY <1>2, <1>10, <4>1
    <3>2. ASSUME NEW j \in DOMAIN m.seg
          PROVE  \E k \in DOMAIN y.seg \ {1} : /\ y.seg[k].base = m.seg[j].base
                                               /\ End(y.seg[k]) = End(m.seg[j])
      <4>1. j + 1 \in DOMAIN y.seg \ {1}
        BY <1>5, <1>12
      <4> QED
        BY <1>2, <1>10, <4>1
    <3> QED
      BY <3>1, <3>2 DEF MappedBut, Mapped
  <2>3. /\ Cardinality(MappedBut(y, 1)) \in Nat
        /\ Cardinality(Mapped(y)) = Cardinality(MappedBut(y, 1)) + y.seg[1].size
    BY <1>2, <2>1, MappedAdds
  <2>4. m.footprint = Cardinality(Mapped(m))
    BY <1>4 DEF SegmentLayout
  <2> QED
    BY <1>2, <2>2, <2>3, <2>4
<1>23. y.seg # <<>>
  BY <1>5
<1> QED
  BY <1>14, <1>15, <1>16, <1>19, <1>20, <1>21, <1>22, <1>23 DEF SegmentLayout

(* The heap with the new segment: what was top is not yet free.            *)
NewGained(m, y, b, sp) ==
    /\ y \in State /\ Sound(y) /\ InUse(y) = InUse(m) \cup {m.top, sp}
    /\ Blocks(m) = InUse(y) \ (RecordsOf(y) \cup {m.top})
    /\ RecordsOf(y) = RecordsOf(m) \cup {sp}
    /\ m.top \notin RecordsOf(m) /\ m.top \notin InUse(m)
    /\ \A a \in Blocks(m) : y.head[a].size = m.head[a].size

LEMMA NewGains ==
    ASSUME NEW m \in State, Sound(m), NEW y, NEW b, NEW d, NEW sp, SegmentNew(m, y, b, d, sp)
    PROVE  NewGained(m, y, b, sp)
<1> DEFINE t == m.top
           e == End(m.seg[1])
           f == b + d - TopFoot
           z == b + d
<1>1. NewPlaced(t, e, sp, b, f, z) /\ NewKnown(m, y, t, e, sp, b, f, z)
  BY NewFacts
<1>2. /\ y \in State /\ y.top = b /\ y.bin = m.bin /\ y.dv = m.dv /\ y.dvsize = m.dvsize
      /\ y.head[b].cinuse = FALSE /\ y.head[t].cinuse = TRUE /\ y.head[sp].cinuse = TRUE
  BY DEF SegmentNew
<1>3. Layout(y) /\ SegmentLayout(y)
  BY NewLayout, NewSegments
<1>4. Layout(m) /\ Filed(m) /\ t \in Cells(m) /\ m.head[t].cinuse = FALSE
  BY SegmentOne DEF Sound
<1> HIDE DEF e, f, z
<1>5. /\ \A a \in Cells(m) : a # t => y.head[a] = m.head[a]
      /\ Cells(y) = Cells(m) \cup {sp, b} /\ RecordsOf(y) = RecordsOf(m) \cup {sp}
      /\ b \notin Cells(m) /\ (sp \in Cells(m) => sp = t)
  BY <1>1 DEF NewKnown
<1>6. b > 0 /\ b # sp
  <2>1. b \in Int /\ sp \in Int /\ e \in Int /\ f \in Int /\ z \in Int /\ t \in Int /\ b > 0 /\ b < f /\ f + TopFoot = z
        /\ t <= sp /\ sp + TopFoot <= e /\ (z <= t \/ e <= b)
    BY <1>1 DEF NewPlaced
  <2> HIDE DEF t
  <2> QED
    BY ONLY <2>1 DEF TopFoot, RecordSize, MinChunk
<1>7. InUse(y) = InUse(m) \cup {t, sp}
  BY <1>2, <1>4, <1>5, <1>6 DEF InUse
<1>8. Binnable(y) = Binnable(m) /\ \A a \in Binnable(m) : y.head[a] = m.head[a]
  BY <1>2, <1>4, <1>5 DEF Binnable
<1>9. Victim(y)
  <2>1. CASE m.dv = Null
    BY <1>2, <1>4, <2>1 DEF Victim, Filed
  <2>2. CASE m.dv # Null
    <3>1. m.dv \in Cells(m) /\ ~m.head[m.dv].cinuse /\ m.dv # t /\ m.dvsize = m.head[m.dv].size
      BY <1>4, <2>2 DEF Victim, Filed
    <3> QED
      BY <1>2, <1>5, <2>2, <3>1 DEF Victim
  <2> QED
    BY <2>1, <2>2
<1>10. Filed(y)
  BY <1>2, <1>4, <1>8, <1>9 DEF Filed, NoRepeats
<1>11. Sound(y)
  BY <1>2, <1>3, <1>6, <1>10 DEF Sound, Null
<1>12. t \notin RecordsOf(m) /\ t \notin InUse(m)
  BY <1>4 DEF Layout, InUse
<1>13. sp \notin InUse(m)
  BY <1>5, <1>12 DEF InUse
<1>14. Blocks(m) = InUse(y) \ (RecordsOf(y) \cup {t})
  BY <1>5, <1>7, <1>12, <1>13 DEF Blocks
<1>15. \A a \in Blocks(m) : y.head[a].size = m.head[a].size
  BY <1>5, <1>12 DEF Blocks, InUse
<1> QED
  BY <1>2, <1>5, <1>7, <1>11, <1>12, <1>14, <1>15 DEF NewGained


(* The list of segments with the new one first.                            *)
NewSegs(m, b, d, sp) ==
    <<[base |-> b, size |-> d, record |-> Null]>> \o [m.seg EXCEPT ![1].record = sp]

SegsNew(m, s, b, d, sp) ==
    /\ s \in Seq(Segment) /\ Len(s) = Len(m.seg) + 1 /\ s[1].base = b /\ s[1].size = d
    /\ \A k \in DOMAIN m.seg :
          /\ s[k + 1].base = m.seg[k].base /\ s[k + 1].size = m.seg[k].size
          /\ s[k + 1].record = IF k = 1 THEN sp ELSE m.seg[k].record

LEMMA SegsAdded ==
    ASSUME NEW m \in State, 1 \in DOMAIN m.seg, NEW b \in Addr, NEW d \in Size, NEW sp \in Addr
    PROVE  SegsNew(m, NewSegs(m, b, d, sp), b, d, sp)
<1> DEFINE r == [base |-> b, size |-> d, record |-> Null]
           w == [m.seg[1] EXCEPT !.record = sp]
           t == [m.seg EXCEPT ![1].record = sp]
           s == NewSegs(m, b, d, sp)
<1>1. m.seg \in Seq(Segment) /\ m.seg[1] \in Segment
  BY SegFacts DEF State
<1>2. r \in Segment /\ r.base = b /\ r.size = d
  BY DEF Segment
<1>3. w \in Segment /\ w.base = m.seg[1].base /\ w.size = m.seg[1].size /\ w.record = sp
  BY <1>1 DEF Segment
<1>4. t = [m.seg EXCEPT ![1] = w] /\ s = <<r>> \o t
  BY DEF NewSegs
<1> HIDE DEF r, w, t, s, Segment
<1>5. t \in Seq(Segment) /\ Len(t) = Len(m.seg)
      /\ \A k \in DOMAIN m.seg : t[k] = IF k = 1 THEN w ELSE m.seg[k]
  BY <1>1, <1>3, <1>4
<1>6. s \in Seq(Segment) /\ Len(s) = Len(m.seg) + 1 /\ s[1] = r
  BY <1>1, <1>2, <1>4, <1>5
<1>7. \A k \in DOMAIN m.seg : s[k + 1] = t[k]
  BY <1>1, <1>2, <1>4, <1>5
<1> QED
  <2>1. \A k \in DOMAIN m.seg :
          /\ s[k + 1].base = m.seg[k].base /\ s[k + 1].size = m.seg[k].size
          /\ s[k + 1].record = IF k = 1 THEN sp ELSE m.seg[k].record
    BY <1>3, <1>5, <1>7
  <2> QED
    BY <1>2, <1>6, <2>1 DEF SegsNew, s

(* The heap once the new top and the chunk at sp are made.                 *)
TopAdded(m, x, b, d, sp) ==
    /\ x \in State /\ x.bin = m.bin /\ x.dv = m.dv /\ x.dvsize = m.dvsize
    /\ x.release_checks = m.release_checks /\ x.footprint = m.footprint + d
    /\ x.top = b /\ x.topsize = d - TopFoot /\ SegsNew(m, x.seg, b, d, sp)
    /\ x.head[b].size = d - TopFoot /\ x.head[b].cinuse = FALSE /\ x.head[b].pinuse = TRUE
    /\ x.head[b + d - TopFoot].size = TopFoot /\ x.head[b + d - TopFoot].pinuse = FALSE
    /\ x.head[sp].size = RecordSize /\ x.head[sp].cinuse = TRUE /\ x.head[sp].pinuse = TRUE
    /\ x.head[sp + RecordSize] = Fencepost
    /\ \A a \in Addr : sp < a /\ a < End(m.seg[1]) /\ a # sp + RecordSize => x.head[a] = NoHeader
    /\ \A a \in Addr : b < a /\ a < b + d /\ a # b + d - TopFoot => x.head[a] = NoHeader
    /\ \A a \in Addr : (a < sp \/ End(m.seg[1]) <= a) /\ (a < b \/ b + d <= a)
                          => x.head[a] = m.head[a]

EntryKept(m, d, sp, e) ==
    SetHead(Forget([m EXCEPT !.footprint = @ + d], sp, e), sp, RecordSize, TRUE, TRUE)

EntryFenced(m, b, d, sp, e) ==
    [EntryKept(m, d, sp, e) EXCEPT !.head[sp + RecordSize] = Fencepost, !.seg = NewSegs(m, b, d, sp)]

(* The chunk at sp and the fenceposts behind it replace the end of top.    *)
Fenced(m, x, d, sp, e, s) ==
    /\ x \in State /\ x.bin = m.bin /\ x.dv = m.dv /\ x.dvsize = m.dvsize
    /\ x.release_checks = m.release_checks /\ x.footprint = m.footprint + d /\ x.seg = s
    /\ \A a \in Addr : a < sp \/ e <= a => x.head[a] = m.head[a]
    /\ x.head[sp].size = RecordSize /\ x.head[sp].cinuse = TRUE /\ x.head[sp].pinuse = TRUE
    /\ x.head[sp + RecordSize] = Fencepost
    /\ \A a \in Addr : sp < a /\ a < e /\ a # sp + RecordSize => x.head[a] = NoHeader

LEMMA EntryIsFenced ==
    ASSUME NEW m \in State, NEW b, NEW d, NEW sp, NEW e \in Int, m.footprint + d \in Size,
           sp \in Addr, sp + RecordSize \in Addr, sp + TopFoot <= e,
           NewSegs(m, b, d, sp) \in Seq(Segment)
    PROVE  Fenced(m, EntryFenced(m, b, d, sp, e), d, sp, e, NewSegs(m, b, d, sp))
<1> DEFINE g == [m EXCEPT !.footprint = @ + d]
           f == Forget(g, sp, e)
           y == EntryKept(m, d, sp, e)
           s == NewSegs(m, b, d, sp)
           x == EntryFenced(m, b, d, sp, e)
           h == [y.head EXCEPT ![sp + RecordSize] = Fencepost]
<1>1. sp \in Int /\ sp + 5 <= e /\ RecordSize = 3
  BY DEF Addr, TopFoot, RecordSize, MinChunk
<1>2. /\ g \in State /\ g.head = m.head /\ g.bin = m.bin /\ g.dv = m.dv /\ g.dvsize = m.dvsize
      /\ g.release_checks = m.release_checks /\ g.footprint = m.footprint + d
  BY DEF State
<1>3. y = SetHead(f, sp, RecordSize, TRUE, TRUE)
  BY DEF EntryKept
<1> HIDE DEF g
<1>4. /\ f \in State /\ SameButHead(g, f)
      /\ \A a \in Addr : f.head[a] = IF sp <= a /\ a < e THEN NoHeader ELSE g.head[a]
  BY <1>1, <1>2, ForgetFacts
<1>5. RecordSize \in Size
  BY <1>1, Sizes0 DEF Addr, Size
<1> HIDE DEF f, y
<1>6. HeadNew(f, y, sp, RecordSize, TRUE, TRUE)
  <2>1. TRUE \in BOOLEAN
    OBVIOUS
  <2> QED
    BY <1>3, <1>4, <1>5, <2>1, HeadIsNew
<1>7. y \in State /\ SameButHead(f, y)
  BY <1>6 DEF HeadNew
<1>8. h \in [Addr -> Header] /\ \A a \in Addr : h[a] = IF a = sp + RecordSize THEN Fencepost ELSE y.head[a]
  BY <1>7, Sizes0 DEF State
<1>9. x = [y EXCEPT !.head = h, !.seg = s]
  BY DEF EntryFenced, y
<1> HIDE DEF h, x, s
<1>10. /\ x \in State /\ x.head = h /\ x.seg = s /\ x.bin = y.bin /\ x.dv = y.dv /\ x.dvsize = y.dvsize
       /\ x.release_checks = y.release_checks /\ x.footprint = y.footprint
  <2>1. s \in Seq(Segment)
    BY DEF s
  <2> HIDE DEF Segment, Header, Addr, Size
  <2> QED
    BY <1>7, <1>8, <1>9, <2>1 DEF State
<1>11. y.head[sp].size = RecordSize /\ y.head[sp].cinuse = TRUE /\ y.head[sp].pinuse = TRUE
  BY <1>6 DEF HeadNew
<1>12. \A a \in Addr : a # sp => y.head[a] = IF sp < a /\ a < sp + RecordSize THEN NoHeader ELSE f.head[a]
  BY <1>6 DEF HeadNew
<1>13. \A a \in Addr : a < sp \/ e <= a => x.head[a] = m.head[a]
  BY <1>1, <1>2, <1>4, <1>8, <1>10, <1>12 DEF Addr
<1>14. \A a \in Addr : sp < a /\ a < e /\ a # sp + RecordSize => x.head[a] = NoHeader
  BY <1>1, <1>4, <1>8, <1>10, <1>12 DEF Addr
<1>15. x.head[sp] = y.head[sp] /\ x.head[sp + RecordSize] = Fencepost
  BY <1>1, <1>8, <1>10
<1>16. /\ x.bin = m.bin /\ x.dv = m.dv /\ x.dvsize = m.dvsize
       /\ x.release_checks = m.release_checks /\ x.footprint = m.footprint + d
  BY <1>2, <1>4, <1>7, <1>10 DEF SameButHead
<1>17. Fenced(m, x, d, sp, e, s)
  BY ONLY <1>10, <1>11, <1>13, <1>14, <1>15, <1>16 DEF Fenced
<1> QED
  BY <1>17 DEF x, s


AddedTop(m, b, d, sp) == init_top(EntryFenced(m, b, d, sp, End(m.seg[1])), b, d - TopFoot)

LEMMA TopIsAdded ==
    ASSUME NEW m \in State, Sound(m), NEW b, NEW d, NEW sp, NewRoom(m, b, d, sp)
    PROVE  TopAdded(m, AddedTop(m, b, d, sp), b, d, sp)
<1> DEFINE t == m.top
           e == End(m.seg[1])
           f == b + d - TopFoot
           z == b + d
           n == d - TopFoot
           s == NewSegs(m, b, d, sp)
           y == EntryFenced(m, b, d, sp, e)
           x == AddedTop(m, b, d, sp)
<1>0. x = init_top(y, b, n)
  BY DEF AddedTop
<1>1. NewPlaced(t, e, sp, b, f, z)
  BY RoomPlaces
<1>2. /\ b \in Addr /\ d \in Nat /\ d > TopFoot /\ b + d <= Space /\ z = b + d
      /\ \A k \in DOMAIN m.seg : b + d <= m.seg[k].base \/ End(m.seg[k]) <= b
  BY DEF NewRoom
<1>3. Apart(m) /\ m.footprint = Cardinality(Mapped(m)) /\ 1 \in DOMAIN m.seg
  BY SegmentOne DEF Sound, SegmentLayout, Apart
<1>4. m.footprint + d \in Size
  BY <1>2, <1>3, FootprintRoom
<1>5. e \in Int /\ e = End(m.seg[1]) /\ sp \in Addr /\ sp + RecordSize \in Addr /\ sp + TopFoot <= e
      /\ sp \in Int /\ b \in Int /\ b > 0 /\ z \in Int /\ f \in Int /\ f \in Addr /\ b < f /\ f + TopFoot = z
      /\ (z <= t \/ e <= b) /\ t \in Int /\ t <= sp /\ z <= Space
  BY <1>1 DEF NewPlaced
<1>6. d \in Size /\ n \in Size /\ n > 0 /\ b + n = f /\ TopFoot \in Size
  BY <1>2, <1>5, Sizes0 DEF Addr, Size, TopFoot, RecordSize, MinChunk
<1> HIDE DEF t, e, f, z, n, s
<1>7. SegsNew(m, s, b, d, sp) /\ s \in Seq(Segment)
  <2>1. SegsNew(m, s, b, d, sp)
    BY <1>2, <1>3, <1>5, <1>6, SegsAdded DEF s
  <2> QED
    BY <2>1 DEF SegsNew
<1>8. NewSegs(m, b, d, sp) \in Seq(Segment) /\ s = NewSegs(m, b, d, sp)
  BY <1>7 DEF s
<1>9. Fenced(m, y, d, sp, e, s)
  BY <1>4, <1>5, <1>8, EntryIsFenced
<1> HIDE DEF y
<1>10. y \in State
  BY <1>9 DEF Fenced
<1>11. TopMade(y, x, b, n)
  BY <1>0, <1>2, <1>5, <1>6, <1>10, InitTopMakes
<1> HIDE DEF x
<1>12. /\ x \in State
       /\ x.bin = y.bin /\ x.dv = y.dv /\ x.dvsize = y.dvsize /\ x.seg = y.seg
       /\ x.footprint = y.footprint /\ x.release_checks = y.release_checks
       /\ x.top = b /\ x.topsize = n
       /\ x.head[b].size = n /\ x.head[b].cinuse = FALSE /\ x.head[b].pinuse = TRUE
  BY <1>11 DEF TopMade
<1>13. x.head[f].size = TopFoot /\ x.head[f].pinuse = FALSE
  BY <1>6, <1>11 DEF TopMade
<1>14. \A a \in Addr : b < a /\ a < f => x.head[a] = NoHeader
  BY <1>6, <1>11 DEF TopMade
<1>15. \A a \in Addr : a < b \/ f < a => x.head[a] = y.head[a]
  BY <1>6, <1>11 DEF TopMade
<1>16. /\ y.bin = m.bin /\ y.dv = m.dv /\ y.dvsize = m.dvsize
       /\ y.release_checks = m.release_checks /\ y.footprint = m.footprint + d /\ y.seg = s
  BY <1>9 DEF Fenced
<1>17. \A a \in Addr : a < sp \/ e <= a => y.head[a] = m.head[a]
  BY <1>9 DEF Fenced
<1>18. /\ y.head[sp].size = RecordSize /\ y.head[sp].cinuse = TRUE /\ y.head[sp].pinuse = TRUE
       /\ y.head[sp + RecordSize] = Fencepost
  BY <1>9 DEF Fenced
<1>19. \A a \in Addr : sp < a /\ a < e /\ a # sp + RecordSize => y.head[a] = NoHeader
  BY <1>9 DEF Fenced
<1>20. ASSUME NEW a \in Addr, sp <= a, a < e PROVE x.head[a] = y.head[a]
  <2>1. a \in Int
    BY DEF Addr
  <2>2. f < z
    BY <1>5 DEF TopFoot, RecordSize, MinChunk
  <2>3. a < b \/ f < a
    BY ONLY <1>5, <1>20, <2>1, <2>2
  <2> QED
    BY <1>15, <2>3
<1>21. /\ sp < e /\ sp + RecordSize < e /\ sp <= sp + RecordSize
  BY <1>5 DEF TopFoot, RecordSize, MinChunk
<1>22. x.head[sp] = y.head[sp] /\ x.head[sp + RecordSize] = y.head[sp + RecordSize]
  <2>1. sp <= sp
    BY <1>5
  <2>2. x.head[sp] = y.head[sp]
    BY ONLY <1>5, <1>20, <1>21, <2>1
  <2>3. x.head[sp + RecordSize] = y.head[sp + RecordSize]
    BY ONLY <1>5, <1>20, <1>21
  <2> QED
    BY ONLY <2>2, <2>3
<1>23. \A a \in Addr : sp < a /\ a < e /\ a # sp + RecordSize => x.head[a] = NoHeader
  <2> SUFFICES ASSUME NEW a \in Addr, sp < a, a < e, a # sp + RecordSize PROVE x.head[a] = NoHeader
    OBVIOUS
  <2>1. sp <= a
    BY <1>5 DEF Addr
  <2>2. x.head[a] = y.head[a]
    BY <1>20, <2>1
  <2>3. y.head[a] = NoHeader
    BY <1>19
  <2> QED
    BY ONLY <2>2, <2>3
<1>24. \A a \in Addr : (a < sp \/ e <= a) /\ (a < b \/ z <= a) => x.head[a] = m.head[a]
  <2> SUFFICES ASSUME NEW a \in Addr, a < sp \/ e <= a, a < b \/ z <= a PROVE x.head[a] = m.head[a]
    OBVIOUS
  <2>1. a < b \/ f < a
    BY <1>5 DEF Addr, TopFoot, RecordSize, MinChunk
  <2>2. x.head[a] = y.head[a]
    BY <1>15, <2>1
  <2>3. y.head[a] = m.head[a]
    BY <1>17
  <2> QED
    BY ONLY <2>2, <2>3
<1>25. \A a \in Addr : b < a /\ a < z /\ a # f => x.head[a] = NoHeader
  <2> SUFFICES ASSUME NEW a \in Addr, b < a, a < z, a # f PROVE x.head[a] = NoHeader
    OBVIOUS
  <2>1. a \in Int
    BY DEF Addr
  <2>2. CASE a < f
    BY <1>14, <2>2
  <2>3. CASE f < a
    <3>1. x.head[a] = y.head[a]
      BY <1>15, <2>3
    <3>2. a < sp \/ e <= a
      BY ONLY <1>5, <2>1, t <= sp, b < a, a < z
    <3>3. y.head[a] = m.head[a]
      BY <1>17, <3>2
    <3>4. \A k \in DOMAIN m.seg : ~segment_holds(m.seg[k], a)
      <4> SUFFICES ASSUME NEW k \in DOMAIN m.seg, segment_holds(m.seg[k], a) PROVE FALSE
        OBVIOUS
      <4>1. m.seg[k].base \in Int /\ End(m.seg[k]) \in Int
        BY SegFacts
      <4>2. m.seg[k].base <= a /\ a < End(m.seg[k])
        BY DEF segment_holds, End
      <4>3. z <= m.seg[k].base \/ End(m.seg[k]) <= b
        BY <1>2
      <4> QED
        BY ONLY <1>5, <2>1, <4>1, <4>2, <4>3, b < a, a < z
    <3>5. m.head[a] = NoHeader
      BY <3>4, TopAlone
    <3> QED
      BY ONLY <3>1, <3>3, <3>5
  <2> QED
    BY ONLY <1>5, <2>1, <2>2, <2>3, a # f
<1>26. SegsNew(m, x.seg, b, d, sp)
  BY ONLY <1>7, <1>12, <1>16
<1> HIDE DEF Addr
<1>27. TopAdded(m, x, b, d, sp)
  <2>1. z = b + d /\ f = b + d - TopFoot /\ n = d - TopFoot /\ e = End(m.seg[1])
    BY DEF z, f, n, e
  <2> QED
    BY ONLY <1>12, <1>13, <1>16, <1>18, <1>22, <1>23, <1>24, <1>25, <1>26, <2>1 DEF TopAdded
<1> QED
  BY <1>27 DEF x


(* Without the old top, or with it as a chunk in use.                      *)
LEMMA AddedWhole ==
    ASSUME NEW m \in State, NEW x, NEW b, NEW d, NEW sp,
           NewRoom(m, b, d, sp), sp = m.top, TopAdded(m, x, b, d, sp)
    PROVE  SegmentNew(m, x, b, d, sp)
<1>1. sp = m.top
  OBVIOUS
<1>2. TopAdded(m, x, b, d, sp) /\ NewRoom(m, b, d, sp)
  OBVIOUS
<1> QED
  BY ONLY <1>1, <1>2 DEF TopAdded, NewRoom, SegsNew, SegmentNew

OldTopCut(m, x, y, b, d, sp) ==
    SegmentNew(m, y, b, d, sp) /\ Alike(y, x, m.top, sp) /\ y.release_checks = m.release_checks

LEMMA AddedCut ==
    ASSUME NEW m \in State, Sound(m), NEW x, NEW b, NEW d, NEW sp,
           NewRoom(m, b, d, sp), sp # m.top, TopAdded(m, x, b, d, sp),
           NEW p, p = m.top, NEW s, s = sp - p, NEW y, y = SetHead(x, p, s, TRUE, TRUE)
    PROVE  OldTopCut(m, x, y, b, d, sp)
<1> DEFINE t == m.top
           e == End(m.seg[1])
           f == b + d - TopFoot
           z == b + d
           n == sp - t
<1>1. NewPlaced(t, e, sp, b, f, z)
  BY RoomPlaces
<1>2. /\ e \in Int /\ e = End(m.seg[1]) /\ sp \in Addr /\ sp + RecordSize \in Addr /\ sp + TopFoot <= e
      /\ sp \in Int /\ b \in Int /\ b > 0 /\ z \in Int /\ f \in Int /\ f \in Addr /\ b < f /\ f + TopFoot = z
      /\ (z <= t \/ e <= b) /\ t \in Int /\ t \in Addr /\ t <= sp /\ t > 0 /\ z <= Space /\ b \in Addr
  BY <1>1 DEF NewPlaced
<1>3. sp # t
  OBVIOUS
<1>4. t < sp /\ t + n = sp /\ n \in Int /\ n > 0 /\ RecordSize = 3 /\ TopFoot = 5
  BY ONLY <1>2, <1>3 DEF TopFoot, RecordSize, MinChunk
<1>5. n \in Size
  BY ONLY <1>2, <1>4, Sizes0 DEF Addr, Size
<1>6. x \in State
  BY DEF TopAdded
<1>7. TopAdded(m, x, b, d, sp) /\ NewRoom(m, b, d, sp)
  OBVIOUS
<1>25. y = SetHead(x, t, n, TRUE, TRUE)
  OBVIOUS
<1> HIDE DEF t, e, f, z, n
<1>8. HeadNew(x, y, t, n, TRUE, TRUE)
  <2>1. TRUE \in BOOLEAN
    OBVIOUS
  <2> QED
    BY ONLY <1>2, <1>5, <1>6, <1>25, <2>1, HeadIsNew
<1>9. y \in State /\ SameButHead(x, y)
  BY <1>8 DEF HeadNew
<1>10. y.head[t].size = n /\ y.head[t].cinuse = TRUE /\ y.head[t].pinuse = TRUE
  BY ONLY <1>2, <1>8 DEF HeadNew
<1>11. \A a \in Addr : a < t \/ sp <= a => y.head[a] = x.head[a]
  BY ONLY <1>2, <1>4, <1>8 DEF HeadNew, Addr
<1>12. \A a \in Addr : t < a /\ a < sp => y.head[a] = NoHeader
  BY ONLY <1>2, <1>4, <1>8 DEF HeadNew, Addr
<1>13. Alike(y, x, t, sp)
  <2>1. SameButHead(y, x)
    BY <1>9 DEF SameButHead
  <2> QED
    BY ONLY <1>6, <1>9, <1>11, <2>1 DEF Alike
<1>14. y.head[b] = x.head[b] /\ y.head[f] = x.head[f]
  <2>1. (b < t \/ sp <= b) /\ (f < t \/ sp <= f)
    BY ONLY <1>2, <1>4
  <2> QED
    BY ONLY <1>2, <1>11, <2>1
<1>15. y.head[sp] = x.head[sp] /\ y.head[sp + RecordSize] = x.head[sp + RecordSize]
  <2>1. sp <= sp /\ sp <= sp + RecordSize
    BY ONLY <1>2, <1>4
  <2> QED
    BY ONLY <1>2, <1>11, <2>1
<1>16. /\ x.head[b].size = d - TopFoot /\ x.head[b].cinuse = FALSE /\ x.head[b].pinuse = TRUE
       /\ x.head[f].size = TopFoot /\ x.head[f].pinuse = FALSE
       /\ x.head[sp].size = RecordSize /\ x.head[sp].cinuse = TRUE /\ x.head[sp].pinuse = TRUE
       /\ x.head[sp + RecordSize] = Fencepost
  BY ONLY <1>7 DEF TopAdded, f
<1>17. \A a \in Addr : sp < a /\ a < e /\ a # sp + RecordSize => x.head[a] = NoHeader
  BY ONLY <1>7 DEF TopAdded, e
<1>18. \A a \in Addr : b < a /\ a < z /\ a # f => x.head[a] = NoHeader
  BY ONLY <1>7 DEF TopAdded, z, f
<1>19. \A a \in Addr : (a < sp \/ e <= a) /\ (a < b \/ z <= a) => x.head[a] = m.head[a]
  BY ONLY <1>7 DEF TopAdded, z, e
<1>20. \A a \in Addr : t < a /\ a < e /\ a # sp /\ a # sp + RecordSize => y.head[a] = NoHeader
  BY ONLY <1>2, <1>11, <1>12, <1>17 DEF Addr
<1>21. \A a \in Addr : b < a /\ a < z /\ a # f => y.head[a] = NoHeader
  BY ONLY <1>2, <1>4, <1>11, <1>18 DEF Addr
<1>22. \A a \in Addr : (a < t \/ e <= a) /\ (a < b \/ z <= a) => y.head[a] = m.head[a]
  BY ONLY <1>2, <1>4, <1>11, <1>19 DEF Addr
<1>23. /\ y.bin = m.bin /\ y.dv = m.dv /\ y.dvsize = m.dvsize /\ y.footprint = m.footprint + d
       /\ y.top = b /\ y.topsize = d - TopFoot /\ SegsNew(m, y.seg, b, d, sp)
       /\ y.release_checks = m.release_checks
  BY ONLY <1>7, <1>9 DEF TopAdded, SameButHead
<1>24. SegmentNew(m, y, b, d, sp)
  <2> HIDE DEF Addr
  <2>1. t = m.top /\ e = End(m.seg[1]) /\ f = b + d - TopFoot /\ z = b + d /\ n = sp - m.top
    BY DEF t, e, f, z, n
  <2>2. /\ y.head[b].size = d - TopFoot /\ y.head[b].cinuse = FALSE /\ y.head[b].pinuse = TRUE
        /\ y.head[f].size = TopFoot /\ y.head[f].pinuse = FALSE
        /\ y.head[sp].size = RecordSize /\ y.head[sp].cinuse = TRUE /\ y.head[sp].pinuse = TRUE
        /\ y.head[sp + RecordSize] = Fencepost
    BY ONLY <1>14, <1>15, <1>16
  <2>3. /\ Len(y.seg) = Len(m.seg) + 1 /\ y.seg[1].base = b /\ y.seg[1].size = d
        /\ \A k \in DOMAIN m.seg :
              /\ y.seg[k + 1].base = m.seg[k].base /\ y.seg[k + 1].size = m.seg[k].size
              /\ y.seg[k + 1].record = IF k = 1 THEN sp ELSE m.seg[k].record
    BY ONLY <1>23 DEF SegsNew
  <2>4. NewRoom(m, b, d, sp)
    BY ONLY <1>7
  <2> QED
    BY ONLY <1>9, <1>10, <1>20, <1>21, <1>22, <1>23, <2>1, <2>2, <2>3, <2>4 DEF SegmentNew, NewRoom
<1> QED
  BY <1>13, <1>23, <1>24 DEF OldTopCut, t

(* Of a chunk between two that are in use, only it is freed.               *)
LEMMA DisposeAlone ==
    ASSUME NEW m \in State, NEW p \in Addr, NEW s \in Nat, s > 0, m.head[p].pinuse = TRUE,
           NEW next, next = p + s, m.head[next].cinuse = TRUE
    PROVE  dispose_chunk(m, p, s) = insert_chunk(set_free_with_pinuse(m, p, s, next), p, s)
<1> DEFINE c == Consolidate(m, p, s)
           C(back, q, qs, e, k, m1) ==
            IF m.head[e].cinuse
            THEN IF back /\ q = m.dv
                 THEN Joined([set_free_with_pinuse(m1, q, qs, e) EXCEPT !.dvsize = qs])
                 ELSE [m |-> set_free_with_pinuse(m1, q, qs, e), mem |-> q, size |-> qs]
            ELSE IF e = m.top
            THEN Joined([SetHead(IF q = m.dv THEN NoVictim(m1) ELSE m1, q, qs + m.topsize, FALSE, TRUE)
                            EXCEPT !.top = q, !.topsize = qs + @])
            ELSE IF e = m.dv
            THEN Joined([set_size_and_pinuse_of_free_chunk(m1, q, qs + m.dvsize) EXCEPT
                            !.dv = q, !.dvsize = qs + @])
            ELSE IF q = m.dv
            THEN Joined([set_size_and_pinuse_of_free_chunk(unlink_chunk(m1, e, k), q, qs + k)
                            EXCEPT !.dvsize = qs + k])
            ELSE [m |-> set_size_and_pinuse_of_free_chunk(unlink_chunk(m1, e, k), q, qs + k),
                  mem |-> q, size |-> qs + k]
<1>1. c = C(FALSE, p, p + s - p, p + s, m.head[p + s].size, m)
  BY DEF Consolidate
<1>2. p + s - p = s /\ s # 0
  BY DEF Addr
<1>3. c = C(FALSE, p, s, next, m.head[next].size, m)
  <2> HIDE DEF C, c
  <2> QED
    BY <1>1, <1>2
<1> HIDE DEF c
<1>4. c = [m |-> set_free_with_pinuse(m, p, s, next), mem |-> p, size |-> s]
  BY <1>3
<1>5. c.m = set_free_with_pinuse(m, p, s, next) /\ c.mem = p /\ c.size = s
  BY <1>4
<1>6. dispose_chunk(m, p, s) = IF c.size = 0 THEN c.m ELSE insert_chunk(c.m, c.mem, c.size)
  BY DEF dispose_chunk, c
<1> QED
  BY ONLY <1>2, <1>5, <1>6


(* What add_segment leaves: the program's chunks, and a top that is new.   *)
SegmentAdds(m, m2, d) ==
    Kept(m, m2) /\ m2.topsize = d - TopFoot /\ m2.release_checks = m.release_checks

LEMMA AddedWholeAdds ==
    ASSUME NEW m \in State, Sound(m), NEW x, NEW b, NEW d, NEW sp,
           NewRoom(m, b, d, sp), sp = m.top, TopAdded(m, x, b, d, sp)
    PROVE  SegmentAdds(m, x, d)
<1>1. SegmentNew(m, x, b, d, sp)
  BY AddedWhole
<1>2. NewGained(m, x, b, sp)
  BY <1>1, NewGains
<1>3. /\ x \in State /\ Sound(x) /\ Blocks(m) = InUse(x) \ (RecordsOf(x) \cup {m.top})
      /\ RecordsOf(x) = RecordsOf(m) \cup {sp} /\ \A a \in Blocks(m) : x.head[a].size = m.head[a].size
  BY <1>2 DEF NewGained
<1>4. Blocks(x) = Blocks(m)
  BY <1>3 DEF Blocks
<1>5. x.topsize = d - TopFoot /\ x.release_checks = m.release_checks
  BY DEF TopAdded
<1> QED
  BY ONLY <1>3, <1>4, <1>5 DEF SegmentAdds, Kept

LEMMA AddedCutAdds ==
    ASSUME NEW m \in State, Sound(m), NEW x, NEW b, NEW d, NEW sp,
           NewRoom(m, b, d, sp), sp # m.top, TopAdded(m, x, b, d, sp),
           NEW t, t = m.top, NEW n, n = sp - t
    PROVE  SegmentAdds(m, insert_chunk(set_free_with_pinuse(x, t, n, sp), t, n), d)
<1> DEFINE y == SetHead(x, t, n, TRUE, TRUE)
           m2 == dispose_chunk(y, t, n)
           r == insert_chunk(set_free_with_pinuse(x, t, n, sp), t, n)
<1>0. OldTopCut(m, x, y, b, d, sp)
  BY AddedCut
<1>1. SegmentNew(m, y, b, d, sp) /\ Alike(y, x, t, sp) /\ y.release_checks = m.release_checks
  BY <1>0 DEF OldTopCut
<1>2. NewPlaced(t, End(m.seg[1]), sp, b, b + d - TopFoot, b + d)
  BY RoomPlaces
<1>3. t \in Int /\ sp \in Int /\ t \in Addr /\ sp \in Addr /\ t <= sp /\ t > 0 /\ sp # t
  BY <1>2 DEF NewPlaced
<1>4. t < sp /\ t + n = sp /\ n \in Nat /\ n > 0
  BY <1>3
<1>5. n \in Size
  BY ONLY <1>3, <1>4, Sizes0 DEF Addr, Size
<1>6. y \in State /\ y.head[t].size = n /\ y.head[t].pinuse = TRUE /\ y.head[sp].cinuse = TRUE
      /\ y.topsize = d - TopFoot
  <2>1. /\ y \in State /\ y.topsize = d - TopFoot /\ y.head[sp].cinuse = TRUE
        /\ sp # m.top => y.head[m.top].size = sp - m.top
        /\ y.head[m.top].pinuse = TRUE
    BY ONLY <1>1 DEF SegmentNew
  <2>2. sp # m.top /\ t = m.top /\ n = sp - t
    OBVIOUS
  <2> QED
    BY ONLY <2>1, <2>2
<1>7. NewGained(m, y, b, sp)
  BY <1>1, NewGains
<1> HIDE DEF y, m2, r
<1>8. /\ Sound(y) /\ InUse(y) = InUse(m) \cup {t, sp}
      /\ Blocks(m) = InUse(y) \ (RecordsOf(y) \cup {t})
      /\ RecordsOf(y) = RecordsOf(m) \cup {sp} /\ t \notin RecordsOf(m)
      /\ \A a \in Blocks(m) : y.head[a].size = m.head[a].size
  BY <1>7 DEF NewGained
<1>9. t \in InUse(y) /\ t \notin RecordsOf(y)
  BY ONLY <1>3, <1>8
<1>10. Freed(y, m2, t)
  BY <1>6, <1>8, <1>9, DisposeFrees DEF m2
<1>11. /\ m2 \in State /\ Sound(m2) /\ m2.seg = y.seg /\ m2.release_checks = y.release_checks
       /\ InUse(m2) = InUse(y) \ {t} /\ \A a \in InUse(m2) : m2.head[a].size = y.head[a].size
  BY <1>10 DEF Freed
<1>12. RecordsOf(m2) = RecordsOf(y)
  BY <1>11 DEF RecordsOf
<1>13. Blocks(m2) = Blocks(m) /\ Blocks(m) \subseteq InUse(m2)
  BY <1>8, <1>11, <1>12 DEF Blocks
<1>14. \A a \in Blocks(m) : m2.head[a].size = m.head[a].size
  BY <1>8, <1>11, <1>13
<1>15. Alike(clear_pinuse(y, sp), clear_pinuse(x, sp), t, sp)
  <2>1. Alike(y, x, t, sp) /\ sp \in Addr /\ sp <= sp
    BY <1>1, <1>3
  <2> QED
    BY ONLY <2>1, AlikeCleared
<1>16. SameFree(clear_pinuse(y, sp), clear_pinuse(x, sp), t, n)
  <2>1. sp <= t + n
    BY ONLY <1>3, <1>4
  <2> QED
    BY ONLY <1>3, <1>4, <1>5, <1>15, <2>1, AlikeFree
<1>17. set_free_with_pinuse(y, t, n, sp) = set_free_with_pinuse(x, t, n, sp)
  BY <1>16 DEF SameFree, set_free_with_pinuse, set_size_and_pinuse_of_free_chunk
<1>18. m2 = insert_chunk(set_free_with_pinuse(y, t, n, sp), t, n)
  <2>1. sp = t + n
    BY <1>4
  <2>2. y \in State /\ y.head[t].pinuse = TRUE /\ y.head[sp].cinuse = TRUE
    BY <1>6
  <2>3. dispose_chunk(y, t, n) = insert_chunk(set_free_with_pinuse(y, t, n, sp), t, n)
    BY ONLY <1>3, <1>4, <2>1, <2>2, DisposeAlone
  <2> QED
    BY <2>3 DEF m2
<1>19. r = m2
  BY <1>17, <1>18 DEF r
<1>20. m2.topsize = d - TopFoot
  BY <1>6, <1>18 DEF set_free_with_pinuse, set_size_and_pinuse_of_free_chunk, insert_chunk, SetHead,
                     Forget, clear_pinuse, State
<1> QED
  BY <1>1, <1>11, <1>13, <1>14, <1>19, <1>20 DEF SegmentAdds, Kept, r

(* add_segment, when the footprint has been counted already.               *)
THEOREM SegmentAdded ==
    ASSUME NEW m \in State, Sound(m), NEW b, NEW d, NEW sp, NewRoom(m, b, d, sp)
    PROVE  SegmentAdds(m, add_segment([m EXCEPT !.footprint = @ + d], b, d), d)
<1> DEFINE g == [m EXCEPT !.footprint = @ + d]
           t == m.top
           n == sp - t
           x == AddedTop(m, b, d, sp)
           r == add_segment(g, b, d)
           E(k) == g.seg[k].base + g.seg[k].size
           P(tp, e) == IF e - TopFoot < tp + MinChunk THEN tp ELSE e - TopFoot
           M(p, e) == init_top([set_size_and_pinuse_of_inuse_chunk(Forget(g, p, e), p, RecordSize) EXCEPT
                 !.head[p + RecordSize] = Fencepost,
                 !.seg = <<[base |-> b, size |-> d, record |-> Null]>> \o [@ EXCEPT ![1].record = p]],
                 b, d - TopFoot)
           A(tp, p, e) == IF p = tp THEN M(p, e)
                          ELSE insert_chunk(set_free_with_pinuse(M(p, e), tp, p - tp, p), tp, p - tp)
           S(p, e) == IF p = t THEN init_top(EntryFenced(m, b, d, p, e), b, d - TopFoot)
                      ELSE insert_chunk(set_free_with_pinuse(
                              init_top(EntryFenced(m, b, d, p, e), b, d - TopFoot), t, p - t, p), t, p - t)
<1>1. g.seg = m.seg /\ g.top = m.top
  BY DEF State
<1>2. SegmentOf(g, g.top) = 1
  <2>1. SegmentOf(m, m.top) = 1
    BY TopAlone
  <2> QED
    BY <1>1, <2>1 DEF SegmentOf
<1>3. \A p, e : EntryKept(m, d, p, e).seg = m.seg
  BY <1>1 DEF EntryKept, SetHead, Forget, State
<1>4. \A p, e : EntryFenced(m, b, d, p, e) =
          [set_size_and_pinuse_of_inuse_chunk(Forget(g, p, e), p, RecordSize) EXCEPT
                 !.head[p + RecordSize] = Fencepost,
                 !.seg = <<[base |-> b, size |-> d, record |-> Null]>> \o [@ EXCEPT ![1].record = p]]
  BY <1>3 DEF EntryFenced, EntryKept, NewSegs, set_size_and_pinuse_of_inuse_chunk
<1>5. r = S(P(t, End(m.seg[1])), End(m.seg[1]))
  <2>1. r = A(g.top, P(g.top, E(SegmentOf(g, g.top))), E(SegmentOf(g, g.top)))
    BY DEF add_segment
  <2>2. E(1) = End(m.seg[1])
    BY <1>1 DEF End
  <2>3. ASSUME NEW p, NEW e PROVE A(t, p, e) = S(p, e)
    <3>1. M(p, e) = init_top(EntryFenced(m, b, d, p, e), b, d - TopFoot)
      BY <1>4
    <3> HIDE DEF M, t
    <3> QED
      BY <3>1
  <2> HIDE DEF A, P, E, S, r
  <2>4. r = A(t, P(t, End(m.seg[1])), End(m.seg[1]))
    BY <1>1, <1>2, <2>1, <2>2
  <2> QED
    BY <2>3, <2>4
<1>6. /\ t \in Int /\ m.topsize \in Int /\ End(m.seg[1]) \in Int /\ End(m.seg[1]) = t + m.topsize + TopFoot
      /\ sp = IF m.topsize < MinChunk THEN t ELSE t + m.topsize
  <2>1. t \in Int /\ m.topsize \in Nat /\ End(m.seg[1]) \in Int /\ End(m.seg[1]) = t + m.topsize + TopFoot
    BY SegmentOne
  <2>2. sp = IF m.topsize < MinChunk THEN t ELSE t + m.topsize
    BY DEF NewRoom, FootOf
  <2> QED
    BY <2>1, <2>2
<1>7. sp = IF End(m.seg[1]) - TopFoot < t + MinChunk THEN t ELSE End(m.seg[1]) - TopFoot
  BY ONLY <1>6 DEF TopFoot, RecordSize, MinChunk
<1>8. r = S(sp, End(m.seg[1]))
  BY ONLY <1>5, <1>7
<1>9. TopAdded(m, x, b, d, sp)
  BY TopIsAdded
<1>10. x = init_top(EntryFenced(m, b, d, sp, End(m.seg[1])), b, d - TopFoot)
  BY DEF AddedTop
<1> HIDE DEF x, r
<1>11. CASE sp = t
  <2>1. r = x
    BY ONLY <1>8, <1>10, <1>11
  <2> QED
    BY <1>9, <1>11, <2>1, AddedWholeAdds DEF r
<1>12. CASE sp # t
  <2>1. r = insert_chunk(set_free_with_pinuse(x, t, n, sp), t, n)
    BY ONLY <1>8, <1>10, <1>12
  <2>2. t = m.top /\ n = sp - t
    OBVIOUS
  <2> HIDE DEF t, n
  <2>3. SegmentAdds(m, insert_chunk(set_free_with_pinuse(x, t, n, sp), t, n), d)
    BY <1>9, <1>12, <2>2, AddedCutAdds
  <2> QED
    BY <2>1, <2>3 DEF r
<1> QED
  BY <1>11, <1>12


-----------------------------------------------------------------------------
(* dlmalloc.                                                               *)

AllocatedBy(m, nb, r) == r.mem # Null /\ Allocated(m, nb, r.m, r.mem)

LEMMA HandedOut ==
    ASSUME NEW m, NEW x, Kept(m, x), x.release_checks > 0, NEW nb, NEW m2, NEW p, Handed(x, nb, m2, p)
    PROVE  Allocated(m, nb, m2, p)
<1>1. /\ m2 \in State /\ Sound(m2) /\ m2.seg = x.seg /\ m2.release_checks = x.release_checks
      /\ p \in Addr /\ p \notin InUse(x) /\ InUse(m2) = InUse(x) \cup {p}
      /\ \A a \in InUse(x) : m2.head[a].size = x.head[a].size
      /\ nb <= m2.head[p].size /\ m2.head[p].size < nb + MinChunk
  BY DEF Handed
<1>2. m2.head[p].pinuse = TRUE
  <2>1. m2.head[p].pinuse
    BY DEF Handed
  <2>2. m2.head[p].pinuse \in BOOLEAN
    BY <1>1 DEF State, Header
  <2> QED
    BY <2>1, <2>2
<1>3. x \in State /\ Sound(x) /\ Blocks(x) = Blocks(m) /\ \A a \in Blocks(m) : x.head[a].size = m.head[a].size
  BY DEF Kept
<1>4. RecordsOf(x) \subseteq InUse(x)
  BY <1>3 DEF Sound, Layout, InUse
<1>5. RecordsOf(m2) = RecordsOf(x)
  BY <1>1 DEF RecordsOf
<1>6. p \notin Blocks(m) /\ Blocks(m2) = Blocks(m) \cup {p}
  BY <1>1, <1>3, <1>4, <1>5 DEF Blocks
<1>7. \A a \in Blocks(m) : m2.head[a].size = m.head[a].size
  BY <1>1, <1>3 DEF Blocks
<1>8. m2.release_checks > 0
  BY <1>1
<1> QED
  BY ONLY <1>1, <1>2, <1>6, <1>7, <1>8 DEF Allocated

LEMMA TopHandedOut ==
    ASSUME NEW m, NEW x, Kept(m, x), x.release_checks > 0,
           NEW nb \in Nat, nb >= MinChunk, nb < x.topsize
    PROVE  AllocatedBy(m, nb, SplitNewTop(x, nb))
<1> DEFINE r == UseTop(x, nb)
<1>1. SplitNewTop(x, nb) = r
  BY DEF SplitNewTop
<1>2. x \in State /\ Sound(x)
  BY DEF Kept
<1>3. r.mem = x.top
  BY DEF UseTop, Found
<1>4. r.mem # Null
  BY <1>2, <1>3 DEF Sound
<1>5. Served(x, nb, r)
  BY <1>2, TopServed
<1> HIDE DEF r
<1>6. Handed(x, nb, r.m, r.mem)
  BY <1>4, <1>5 DEF Served
<1>7. Allocated(m, nb, r.m, r.mem)
  BY <1>6, HandedOut
<1> QED
  BY <1>1, <1>4, <1>7 DEF AllocatedBy

(* What mmap answers lies apart from the segments.                         *)
AnswerAt(m, b, d) ==
    /\ b \in Addr /\ b + d <= Space
    /\ \A k \in DOMAIN m.seg : b + d <= m.seg[k].base \/ End(m.seg[k]) <= b

LEMMA AnswersApart ==
    ASSUME NEW m \in State, NEW d, NEW b, b \in CALL_MMAP(m, d), b # Null
    PROVE  AnswerAt(m, b, d)
<1>1. /\ b \in Addr /\ b + d <= Space
      /\ \A k \in DOMAIN m.seg :
            b + d <= m.seg[k].base \/ RoundUp(m.seg[k].base + m.seg[k].size, Page) <= b
  BY DEF CALL_MMAP
<1>2. Page \in Nat /\ Page > 0
  BY ChunkAssumption DEF ChunkAssumption
<1>3. ASSUME NEW k \in DOMAIN m.seg PROVE b + d <= m.seg[k].base \/ End(m.seg[k]) <= b
  <2> DEFINE e == m.seg[k].base + m.seg[k].size
  <2>1. e \in Nat /\ e = End(m.seg[k])
    <3>1. e = End(m.seg[k])
      BY DEF End
    <3>2. End(m.seg[k]) \in Nat
      BY SegFacts
    <3> QED
      BY <3>1, <3>2
  <2>2. b + d <= m.seg[k].base \/ RoundUp(e, Page) <= b
    BY <1>1
  <2> HIDE DEF e
  <2>3. e <= RoundUp(e, Page) /\ RoundUp(e, Page) \in Nat
    BY <1>2, <2>1, RoundUpFacts
  <2>4. b \in Int
    BY <1>1 DEF Addr
  <2> QED
    BY ONLY <2>1, <2>2, <2>3, <2>4
<1> QED
  BY <1>1, <1>3 DEF AnswerAt

(* The new memory follows the first segment.                               *)
GrownFirst(m, d) == [[m EXCEPT !.footprint = @ + d] EXCEPT !.seg[1].size = @ + d]

LEMMA GrowsAbove ==
    ASSUME NEW m \in State, Sound(m), m.release_checks > 0, NEW nb \in Nat, nb >= MinChunk,
           NEW d \in Nat, d >= TopFoot, d > nb, NEW b, AnswerAt(m, b, d), b = End(m.seg[1])
    PROVE  AllocatedBy(m, nb, SplitNewTop(init_top(GrownFirst(m, d), m.top, m.topsize + d), nb))
<1> DEFINE x == init_top(FirstIs(m, d), m.top, m.topsize + d)
           e == End(m.seg[1])
           b1 == m.seg[1].base
<1>1. GrownFirst(m, d) = FirstIs(m, d)
  BY DEF GrownFirst, FirstIs, State
<1>2. /\ Sound(m) /\ 1 \in DOMAIN m.seg /\ e \in Int /\ b1 \in Int /\ m.topsize \in Nat
  BY SegmentOne
<1>3. e + d <= Space /\ \A k \in DOMAIN m.seg : e + d <= m.seg[k].base \/ End(m.seg[k]) <= e
  BY DEF AnswerAt
<1>4. ASSUME NEW k \in DOMAIN m.seg \ {1} PROVE e + d <= m.seg[k].base \/ End(m.seg[k]) <= b1
  <2>1. m.seg[k].base \in Int /\ End(m.seg[k]) \in Int /\ End(m.seg[k]) = m.seg[k].base + m.seg[k].size
    BY SegFacts DEF End
  <2>2. m.seg[k].base < End(m.seg[k])
    <3>1. segment_holds(m.seg[k], m.seg[k].base)
      BY BaseHeld
    <3> QED
      BY <2>1, <3>1 DEF segment_holds
  <2>3. End(m.seg[k]) <= b1 \/ e <= m.seg[k].base
    BY <1>2 DEF Sound, SegmentLayout
  <2>4. e + d <= m.seg[k].base \/ End(m.seg[k]) <= e
    BY <1>3
  <2> HIDE DEF e, b1
  <2> QED
    BY ONLY <1>2, <2>1, <2>2, <2>3, <2>4
<1> HIDE DEF x
<1>5. TopMoves(m, x, d) /\ x.release_checks = m.release_checks
  BY <1>3, <1>4, TopGrows DEF x
<1>6. Kept(m, x)
  <2>1. d \in Int
    OBVIOUS
  <2> QED
    BY <1>5, <2>1, MovedKept
<1>7. nb < x.topsize /\ x.release_checks > 0
  <2>1. x.topsize = m.topsize + d
    BY <1>5 DEF TopMoves
  <2> QED
    BY <1>2, <1>5, <2>1
<1>8. AllocatedBy(m, nb, SplitNewTop(x, nb))
  BY <1>6, <1>7, TopHandedOut
<1> QED
  BY <1>1, <1>8 DEF x

(* It lies before segment k.                                               *)
LEMMA GrowsBelow ==
    ASSUME NEW m \in State, Sound(m), m.release_checks > 0, NEW nb \in Nat, nb >= MinChunk,
           NEW d \in Nat, d - nb >= MinChunk, NEW b, AnswerAt(m, b, d),
           NEW k \in DOMAIN m.seg, m.seg[k].base = b + d
    PROVE  AllocatedBy(m, nb, Found(prepend_alloc(Earlier(m, k, b, d), b, b + d, nb), b))
<1> DEFINE hi == b + d
           r == prepend_alloc(Earlier(m, k, b, d), b, hi, nb)
<1>1. b \in Addr /\ \A j \in DOMAIN m.seg : b + d <= m.seg[j].base \/ End(m.seg[j]) <= b
  BY DEF AnswerAt
<1>2. b # Null /\ d >= MinChunk
  BY <1>1 DEF Addr, Null, MinChunk
<1>3. Before(m, k, b, d, hi)
  BY <1>1, <1>2 DEF Before
<1> HIDE DEF hi
<1>4. Allocated(m, nb, r, b)
  BY <1>3, PrependGrows
<1> HIDE DEF r
<1>5. Found(r, b).m = r /\ Found(r, b).mem = b
  BY DEF Found
<1>6. AllocatedBy(m, nb, Found(r, b))
  BY <1>2, <1>4, <1>5 DEF AllocatedBy
<1> QED
  BY <1>6 DEF r, hi

(* It is a segment of its own.                                             *)
LEMMA GrowsApart ==
    ASSUME NEW m \in State, Sound(m), m.release_checks > 0, NEW nb \in Nat, nb >= MinChunk,
           NEW d \in Nat, d - nb > TopFoot, NEW b, AnswerAt(m, b, d)
    PROVE  AllocatedBy(m, nb, SplitNewTop(add_segment([m EXCEPT !.footprint = @ + d], b, d), nb))
<1> DEFINE x == add_segment([m EXCEPT !.footprint = @ + d], b, d)
           sp == IF m.topsize < MinChunk THEN m.top ELSE FootOf(m)
<1>1. d > TopFoot /\ nb < d - TopFoot
  BY DEF TopFoot, RecordSize, MinChunk
<1>2. NewRoom(m, b, d, sp)
  BY <1>1 DEF NewRoom, AnswerAt
<1> HIDE DEF x, sp
<1>3. SegmentAdds(m, x, d)
  BY <1>2, SegmentAdded DEF x
<1>4. Kept(m, x) /\ x.topsize = d - TopFoot /\ x.release_checks = m.release_checks
  BY <1>3 DEF SegmentAdds
<1>5. AllocatedBy(m, nb, SplitNewTop(x, nb))
  BY <1>1, <1>4, TopHandedOut
<1> QED
  BY <1>5 DEF x


(* The heap grows by a share of itself and the request.                    *)
ShareCovers(m) == m.footprint \div FSD >= TopFoot

LEMMA ShareIs ==
    ASSUME NEW m \in State, m.top # Null, ShareCovers(m), NEW nb \in Nat, NEW d, d = GrowthSize(m, nb)
    PROVE  d \in Nat /\ d > nb /\ d >= TopFoot /\ d - nb >= MinChunk /\ d - nb > TopFoot
<1> DEFINE s == m.footprint \div FSD
<1>1. s \in Int /\ s >= TopFoot
  <2>1. m.footprint \in Int /\ FSD \in Int /\ FSD > 0
    BY Sizes0, ChunkAssumption DEF ChunkAssumption, State, Size
  <2>2. s \in Int
    BY ONLY <2>1
  <2> QED
    BY <2>2 DEF ShareCovers
<1>2. d = s + nb + 1
  BY DEF GrowthSize, is_initialized
<1> HIDE DEF s
<1>3. nb \in Nat
  OBVIOUS
<1> QED
  BY ONLY <1>1, <1>2, <1>3 DEF TopFoot, RecordSize, MinChunk

(* sys_alloc, dlmalloc.c:2647: wherever the system maps, after, before or  *)
(* apart from a segment, what is mapped serves the request and all that    *)
(* was in use still is.                                                    *)
THEOREM GrowthServes ==
    ASSUME NEW m \in State, Sound(m), m.release_checks > 0, ShareCovers(m), NEW nb \in Nat, nb >= MinChunk,
           NEW b, b \in CALL_MMAP(m, GrowthSize(m, nb)), b # Null
    PROVE  AllocatedBy(m, nb, Extended(m, nb, b))
<1> DEFINE d == GrowthSize(m, nb)
           g(s) == [m EXCEPT !.footprint = @ + s]
           before(s) == {k \in DOMAIN m.seg : /\ m.seg[k].base + m.seg[k].size = b
                                              /\ segment_holds(m.seg[k], m.top)}
           after(s) == {k \in DOMAIN m.seg : m.seg[k].base = b + s}
           Above(s, k) == SplitNewTop(init_top([g(s) EXCEPT !.seg[k].size = @ + s], m.top, m.topsize + s), nb)
           Below(s, k) == Found(prepend_alloc([g(s) EXCEPT !.seg[k].base = b, !.seg[k].size = @ + s],
                                              b, b + s, nb), b)
           Beside(s) == SplitNewTop(add_segment(g(s), b, s), nb)
           First(s) == SplitNewTop(init_top([g(s) EXCEPT
                            !.seg = <<[base |-> b, size |-> s, record |-> Null]>>,
                            !.release_checks = CheckRate], b, s - TopFoot), nb)
           X(s) == CASE ~is_initialized(m) -> First(s)
                     [] before(s) # {} -> Above(s, Min(before(s)))
                     [] before(s) = {} /\ after(s) # {} -> Below(s, Min(after(s)))
                     [] is_initialized(m) /\ before(s) = {} /\ after(s) = {} -> Beside(s)
           r == Extended(m, nb, b)
<1>1. r = X(d)
  BY DEF Extended
<1>2. is_initialized(m) /\ m.top # Null
  BY DEF is_initialized, Sound
<1>3. d \in Nat /\ d > nb /\ d >= TopFoot /\ d - nb >= MinChunk /\ d - nb > TopFoot
  BY <1>2, ShareIs
<1>4. AnswerAt(m, b, d)
  BY AnswersApart
<1> HIDE DEF r, d
<1>5. CASE before(d) # {}
  <2>1. before(d) \subseteq {1} /\ 1 \in DOMAIN m.seg
    <3>1. \A k \in DOMAIN m.seg : segment_holds(m.seg[k], m.top) => k = 1
      <4>1. SegmentLayout(m)
        BY DEF Sound
      <4>2. 1 \in DOMAIN m.seg /\ segment_holds(m.seg[1], m.top) /\ m.top \in Int
        BY SegmentOne
      <4> QED
        BY <4>1, <4>2, SegmentApart
    <3>2. 1 \in DOMAIN m.seg
      BY SegmentOne
    <3> QED
      BY <3>1, <3>2
  <2>2. before(d) = {1}
    BY <1>5, <2>1
  <2>3. m.seg[1].base + m.seg[1].size = b
    BY <2>2
  <2>4. Min(before(d)) = 1
    <3>1. {1} \in SUBSET Nat /\ {1} # {}
      OBVIOUS
    <3>2. Min({1}) \in {1}
      BY ONLY <3>1, MinFacts
    <3> QED
      BY <2>2, <3>2
  <2>5. b = End(m.seg[1])
    BY <2>3 DEF End
  <2> HIDE DEF before, after, Above, Below, Beside, First
  <2>6. r = Above(d, 1)
    BY <1>1, <1>2, <1>5, <2>4
  <2>7. Above(d, 1) = SplitNewTop(init_top(GrownFirst(m, d), m.top, m.topsize + d), nb)
    BY DEF Above, GrownFirst
  <2>8. AllocatedBy(m, nb, SplitNewTop(init_top(GrownFirst(m, d), m.top, m.topsize + d), nb))
    BY <1>3, <1>4, <2>5, GrowsAbove
  <2> QED
    BY <2>6, <2>7, <2>8 DEF r
<1>6. CASE before(d) = {} /\ after(d) # {}
  <2> DEFINE k == Min(after(d))
  <2>1. after(d) \in SUBSET Nat
    <3>1. \A j \in DOMAIN m.seg : j \in Nat
      BY SegFacts
    <3> QED
      BY <3>1
  <2>2. k \in after(d)
    <3> HIDE DEF after
    <3> QED
      BY ONLY <1>6, <2>1, MinFacts
  <2>3. k \in DOMAIN m.seg /\ m.seg[k].base = b + d
    BY <2>2
  <2> HIDE DEF before, after, Above, Below, Beside, First
  <2>4. r = Below(d, k)
    BY <1>1, <1>2, <1>6
  <2> HIDE DEF k
  <2>5. Below(d, k) = Found(prepend_alloc(Earlier(m, k, b, d), b, b + d, nb), b)
    BY DEF Below, Earlier
  <2>6. AllocatedBy(m, nb, Found(prepend_alloc(Earlier(m, k, b, d), b, b + d, nb), b))
    BY <1>3, <1>4, <2>3, GrowsBelow
  <2> QED
    BY <2>4, <2>5, <2>6 DEF r
<1>7. CASE before(d) = {} /\ after(d) = {}
  <2> HIDE DEF before, after, Above, Below, Beside, First
  <2>1. r = Beside(d)
    BY <1>1, <1>2, <1>7
  <2>2. AllocatedBy(m, nb, SplitNewTop(add_segment([m EXCEPT !.footprint = @ + d], b, d), nb))
    BY <1>3, <1>4, GrowsApart
  <2> QED
    BY <2>1, <2>2 DEF r, Beside
<1> QED
  BY <1>5, <1>6, <1>7


-----------------------------------------------------------------------------
(* The first growth.                                                       *)

(* No memory has been mapped yet.                                          *)
Untouched(m) ==
    /\ m \in State
    /\ \A a \in Addr : m.head[a] = NoHeader
    /\ \A s \in Size : m.bin[s] = <<>>
    /\ m.dv = Null /\ m.dvsize = 0 /\ m.top = Null /\ m.topsize = 0
    /\ m.seg = <<>> /\ m.footprint = 0

FirstSegment(m, b, d) ==
    [[m EXCEPT !.footprint = @ + d] EXCEPT
        !.seg = <<[base |-> b, size |-> d, record |-> Null]>>, !.release_checks = CheckRate]

LEMMA UntouchedEmpty ==
    ASSUME NEW m, Untouched(m)
    PROVE  Cells(m) = {} /\ InUse(m) = {} /\ Blocks(m) = {}
<1>1. \A a \in Addr : m.head[a].size = 0
  BY DEF Untouched, NoHeader
<1>2. Cells(m) = {}
  BY <1>1 DEF Cells
<1> QED
  BY <1>2 DEF InUse, Blocks

(* One segment that is top, and its foot.                                  *)
OnlyTop(x, b, f, z) ==
    /\ x \in State /\ b \in Addr /\ b \in Int /\ b > 0 /\ f \in Addr /\ f \in Int /\ b < f
    /\ z \in Int /\ f + TopFoot = z /\ z <= Space
    /\ x.top = b /\ x.topsize = f - b /\ x.dv = Null /\ x.dvsize = 0
    /\ x.seg = <<[base |-> b, size |-> z - b, record |-> Null]>> /\ x.footprint = z - b
    /\ \A s \in Size : x.bin[s] = <<>>
    /\ x.head[b].size = f - b /\ x.head[b].cinuse = FALSE /\ x.head[b].pinuse = TRUE
    /\ x.head[f].size = TopFoot /\ x.head[f].pinuse = FALSE
    /\ \A a \in Addr : a # b /\ a # f => x.head[a] = NoHeader

LEMMA OnlyTopSound ==
    ASSUME NEW x, NEW b, NEW f, NEW z, OnlyTop(x, b, f, z)
    PROVE  Sound(x) /\ InUse(x) = {}
<1>1. /\ x \in State /\ b \in Addr /\ b \in Int /\ b > 0 /\ f \in Addr /\ f \in Int /\ b < f
      /\ z \in Int /\ f + TopFoot = z /\ z <= Space
      /\ x.top = b /\ x.topsize = f - b /\ x.dv = Null /\ x.dvsize = 0
      /\ x.seg = <<[base |-> b, size |-> z - b, record |-> Null]>> /\ x.footprint = z - b
  BY DEF OnlyTop
<1>2. /\ \A s \in Size : x.bin[s] = <<>>
      /\ x.head[b].size = f - b /\ x.head[b].cinuse = FALSE /\ x.head[b].pinuse = TRUE
      /\ x.head[f].size = TopFoot /\ x.head[f].pinuse = FALSE
      /\ \A a \in Addr : a # b /\ a # f => x.head[a] = NoHeader
  BY DEF OnlyTop
<1>3. /\ DOMAIN x.seg = {1} /\ x.seg[1].base = b /\ x.seg[1].size = z - b /\ End(x.seg[1]) = z
      /\ x.seg # <<>>
  BY ONLY <1>1 DEF End
<1>4. FootOf(x) = f
  BY ONLY <1>1 DEF FootOf
<1>5. Cells(x) = {b}
  <2>1. \A a \in Addr : x.head[a].size > 0 => a = b \/ a = f
    BY <1>2 DEF NoHeader
  <2>2. x.head[b].size > 0 /\ b # f
    BY ONLY <1>1, <1>2
  <2> QED
    BY ONLY <1>1, <1>4, <2>1, <2>2 DEF Cells
<1>6. BasesOf(x) = {b} /\ RecordsOf(x) = {}
  BY ONLY <1>3 DEF BasesOf, RecordsOf
<1>7. After(x, b) = f
  BY ONLY <1>1, <1>2 DEF After
<1>8. Layout(x)
  <2>1. \A a \in Cells(x), c \in Addr : a < c /\ x.head[c] # NoHeader => After(x, a) <= c
    <3>1. ASSUME NEW c \in Addr, b < c, x.head[c] # NoHeader PROVE After(x, b) <= c
      <4>1. c = b \/ c = f
        BY <1>2, <3>1
      <4> QED
        BY ONLY <1>1, <1>7, <3>1, <4>1
    <3> QED
      BY <1>5, <3>1
  <2>2. Followed(x, b)
    BY ONLY <1>1, <1>4, <1>7 DEF Followed
  <2>3. Tagged(x, b)
    BY ONLY <1>1, <1>2, <1>7 DEF Tagged
  <2> QED
    BY ONLY <1>1, <1>2, <1>4, <1>5, <1>6, <1>7, <2>1, <2>2, <2>3 DEF Layout
<1>9. segment_holds(x.seg[1], b)
  BY ONLY <1>1, <1>3 DEF segment_holds, TopFoot, RecordSize, MinChunk
<1>10. x.footprint = Cardinality(Mapped(x))
  <2> DEFINE e == z - 1
  <2>1. Mapped(x) = b .. e
    BY ONLY <1>3 DEF Mapped
  <2>2. e \in Int /\ b \in Int /\ (IF b > e THEN 0 ELSE e - b + 1) = z - b
    BY ONLY <1>1 DEF TopFoot, RecordSize, MinChunk
  <2> HIDE DEF e
  <2>3. Cardinality(b .. e) = IF b > e THEN 0 ELSE e - b + 1
    BY ONLY <2>2, FS_Interval
  <2> DEFINE l == z - b
             u == IF b > e THEN 0 ELSE e - b + 1
  <2>6. u = l
    BY ONLY <2>2
  <2>7. Cardinality(b .. e) = u
    BY ONLY <2>3
  <2> HIDE DEF l, u
  <2>8. Cardinality(b .. e) = l
    BY ONLY <2>6, <2>7, Zenon
  <2>4. Cardinality(b .. e) = z - b
    BY ONLY <2>8 DEF l
  <2>5. x.footprint = z - b
    BY <1>1
  <2> QED
    BY ONLY <2>1, <2>4, <2>5, Zenon
<1>11. SegmentLayout(x)
  <2>1. \A a \in Addr : x.head[a] # NoHeader => segment_holds(x.seg[1], a)
    <3> SUFFICES ASSUME NEW a \in Addr, x.head[a] # NoHeader PROVE segment_holds(x.seg[1], a)
      OBVIOUS
    <3>1. a = b \/ a = f
      BY <1>2
    <3> QED
      BY ONLY <1>1, <1>3, <3>1 DEF segment_holds, TopFoot, RecordSize, MinChunk
  <2>2. f < z /\ b <= b
    BY ONLY <1>1 DEF TopFoot, RecordSize, MinChunk
  <2> QED
    BY ONLY <1>1, <1>3, <1>4, <1>5, <1>7, <1>9, <1>10, <2>1, <2>2 DEF SegmentLayout
<1>12. Filed(x)
  <2>1. NoRepeats(x)
    BY ONLY <1>2 DEF NoRepeats, IsInjective
  <2>2. Binnable(x) = {}
    BY ONLY <1>1, <1>5 DEF Binnable
  <2>3. \A s \in Size : Range(x.bin[s]) = {}
    BY ONLY <1>2 DEF Range
  <2> QED
    BY ONLY <1>1, <2>1, <2>2, <2>3 DEF Filed, Victim
<1>13. x.top # Null
  BY ONLY <1>1 DEF Null
<1>14. InUse(x) = {}
  BY ONLY <1>2, <1>5 DEF InUse
<1> QED
  BY ONLY <1>8, <1>11, <1>12, <1>13, <1>14 DEF Sound

FirstAdds(m, x, d) == Kept(m, x) /\ x.topsize = d - TopFoot /\ x.release_checks = CheckRate

LEMMA FirstGrown ==
    ASSUME NEW m, Untouched(m), NEW b, NEW d \in Nat, d > TopFoot, AnswerAt(m, b, d)
    PROVE  FirstAdds(m, init_top(FirstSegment(m, b, d), b, d - TopFoot), d)
<1> DEFINE s == <<[base |-> b, size |-> d, record |-> Null]>>
           y == FirstSegment(m, b, d)
           n == d - TopFoot
           f == b + n
           z == b + d
           x == init_top(y, b, n)
<1>1. /\ m \in State /\ \A a \in Addr : m.head[a] = NoHeader
      /\ \A t \in Size : m.bin[t] = <<>>
      /\ m.dv = Null /\ m.dvsize = 0 /\ m.footprint = 0
  BY DEF Untouched
<1>2. b \in Addr /\ z <= Space /\ Space \in Nat /\ b \in Int /\ b > 0 /\ z = b + d
  BY Sizes0 DEF AnswerAt, Addr
<1>3. /\ n \in Int /\ n > 0 /\ f \in Int /\ f + TopFoot = z /\ b < f /\ z \in Int /\ f \in Addr
      /\ d \in Size /\ n \in Size /\ TopFoot \in Size /\ n = f - b /\ d = z - b /\ 0 + d = d
  <2>1. d \in Nat /\ d > TopFoot
    OBVIOUS
  <2> QED
    BY ONLY <1>2, <2>1 DEF n, f, TopFoot, RecordSize, MinChunk, Addr, Size
<1>4. s \in Seq(Segment)
  <2> DEFINE w == [base |-> b, size |-> d, record |-> Null]
  <2>1. w \in Segment /\ s = <<w>>
    BY <1>2, <1>3 DEF Segment
  <2> HIDE DEF w, s, Segment
  <2> QED
    BY <2>1
<1>5. CheckRate \in Nat /\ CheckRate > 0
  BY ChunkAssumption DEF ChunkAssumption
<1>6. y = [m EXCEPT !.footprint = d, !.seg = s, !.release_checks = CheckRate]
  <2>1. m.footprint + d = d
    BY <1>1, <1>3
  <2> HIDE DEF s
  <2>2. y = [[m EXCEPT !.footprint = m.footprint + d] EXCEPT !.seg = s, !.release_checks = CheckRate]
    BY DEF FirstSegment, s
  <2> QED
    BY <1>1, <2>1, <2>2 DEF State
<1> HIDE DEF n, f, z, s, y
<1>7. /\ y \in State /\ y.head = m.head /\ y.bin = m.bin /\ y.dv = m.dv /\ y.dvsize = m.dvsize
      /\ y.seg = s /\ y.footprint = d /\ y.release_checks = CheckRate
  <2> HIDE DEF Header, Segment, Addr
  <2> QED
    BY <1>1, <1>3, <1>4, <1>5, <1>6 DEF State
<1>8. TopMade(y, x, b, n)
  <2>1. b + n \in Addr
    BY <1>3 DEF f
  <2> QED
    BY <1>2, <1>3, <1>7, <2>1, InitTopMakes
<1> HIDE DEF x
<1>9. /\ x \in State
      /\ x.bin = y.bin /\ x.dv = y.dv /\ x.dvsize = y.dvsize /\ x.seg = y.seg
      /\ x.footprint = y.footprint /\ x.release_checks = y.release_checks
      /\ x.top = b /\ x.topsize = n
      /\ x.head[b].size = n /\ x.head[b].cinuse = FALSE /\ x.head[b].pinuse = TRUE
      /\ x.head[f].size = TopFoot /\ x.head[f].pinuse = FALSE
  BY <1>8 DEF TopMade, f
<1>10. \A a \in Addr : a # b /\ a # f => x.head[a] = NoHeader
  <2> SUFFICES ASSUME NEW a \in Addr, a # b, a # f PROVE x.head[a] = NoHeader
    OBVIOUS
  <2>1. a \in Int
    BY DEF Addr
  <2>2. \A c \in Addr : b < c /\ c < f => x.head[c] = NoHeader
    BY <1>8 DEF TopMade, f
  <2>3. \A c \in Addr : c < b \/ f < c => x.head[c] = y.head[c]
    BY <1>8 DEF TopMade, f
  <2>4. y.head[a] = NoHeader
    BY <1>1, <1>7
  <2> QED
    BY <1>2, <1>3, <2>1, <2>2, <2>3, <2>4
<1>11. OnlyTop(x, b, f, z)
  <2>1. x.seg = <<[base |-> b, size |-> z - b, record |-> Null]>>
    BY <1>3, <1>7, <1>9 DEF s
  <2>2. x.topsize = f - b /\ x.footprint = z - b /\ x.head[b].size = f - b
    BY <1>3, <1>7, <1>9
  <2>3. x.dv = Null /\ x.dvsize = 0 /\ \A t \in Size : x.bin[t] = <<>>
    BY <1>1, <1>7, <1>9
  <2> QED
    BY ONLY <1>2, <1>3, <1>9, <1>10, <2>1, <2>2, <2>3 DEF OnlyTop
<1>12. Sound(x) /\ InUse(x) = {}
  BY <1>11, OnlyTopSound
<1>13. Blocks(x) = {} /\ Blocks(m) = {}
  BY <1>12, UntouchedEmpty DEF Blocks
<1>14. Kept(m, x)
  BY <1>9, <1>12, <1>13 DEF Kept
<1> QED
  BY <1>7, <1>9, <1>14 DEF FirstAdds, x, y, n


LEMMA FirstServes ==
    ASSUME NEW m, Untouched(m), NEW nb \in Nat, nb >= MinChunk,
           NEW b, b \in CALL_MMAP(m, GrowthSize(m, nb)), b # Null
    PROVE  AllocatedBy(m, nb, Extended(m, nb, b))
<1> DEFINE d == GrowthSize(m, nb)
           g(s) == [m EXCEPT !.footprint = @ + s]
           before(s) == {k \in DOMAIN m.seg : /\ m.seg[k].base + m.seg[k].size = b
                                              /\ segment_holds(m.seg[k], m.top)}
           after(s) == {k \in DOMAIN m.seg : m.seg[k].base = b + s}
           Above(s, k) == SplitNewTop(init_top([g(s) EXCEPT !.seg[k].size = @ + s], m.top, m.topsize + s), nb)
           Below(s, k) == Found(prepend_alloc([g(s) EXCEPT !.seg[k].base = b, !.seg[k].size = @ + s],
                                              b, b + s, nb), b)
           Beside(s) == SplitNewTop(add_segment(g(s), b, s), nb)
           First(s) == SplitNewTop(init_top([g(s) EXCEPT
                            !.seg = <<[base |-> b, size |-> s, record |-> Null]>>,
                            !.release_checks = CheckRate], b, s - TopFoot), nb)
           X(s) == CASE ~is_initialized(m) -> First(s)
                     [] before(s) # {} -> Above(s, Min(before(s)))
                     [] before(s) = {} /\ after(s) # {} -> Below(s, Min(after(s)))
                     [] is_initialized(m) /\ before(s) = {} /\ after(s) = {} -> Beside(s)
           r == Extended(m, nb, b)
           x == init_top(FirstSegment(m, b, d), b, d - TopFoot)
<1>1. r = X(d)
  BY DEF Extended
<1>2. m \in State /\ m.seg = <<>> /\ ~is_initialized(m)
  BY DEF Untouched, is_initialized
<1>3. before(d) = {} /\ after(d) = {}
  BY <1>2
<1>4. d \in Nat /\ d > TopFoot /\ d - TopFoot > nb
  <2> DEFINE n == nb + TopFoot + 1
  <2>1. d = RoundUp(n, Granularity)
    BY <1>2 DEF GrowthSize
  <2>2. n \in Nat /\ Granularity \in Nat /\ Granularity > 0 /\ n > nb + TopFoot
    BY ChunkAssumption DEF ChunkAssumption, TopFoot, RecordSize, MinChunk
  <2> HIDE DEF n, d
  <2>3. n <= RoundUp(n, Granularity) /\ RoundUp(n, Granularity) \in Nat
    BY ONLY <2>2, RoundUpFacts
  <2>4. nb \in Nat
    OBVIOUS
  <2> QED
    BY ONLY <2>1, <2>2, <2>3, <2>4 DEF TopFoot, RecordSize, MinChunk
<1>5. AnswerAt(m, b, d)
  BY <1>2, AnswersApart
<1> HIDE DEF r, d, before, after, Above, Below, Beside
<1>6. r = First(d)
  BY ONLY <1>1, <1>2, <1>3
<1>7. First(d) = SplitNewTop(x, nb)
  BY DEF FirstSegment
<1> HIDE DEF x, First
<1>8. FirstAdds(m, x, d)
  BY <1>4, <1>5, FirstGrown DEF x
<1>9. Kept(m, x) /\ nb < x.topsize /\ x.release_checks > 0
  BY <1>4, <1>8, ChunkAssumption DEF FirstAdds, ChunkAssumption
<1>10. AllocatedBy(m, nb, SplitNewTop(x, nb))
  BY <1>9, TopHandedOut
<1> QED
  BY <1>6, <1>7, <1>10 DEF r

(* Nothing is found in a heap without memory.                              *)
LEMMA NothingFound ==
    ASSUME NEW m, Untouched(m), NEW nb \in Nat, nb >= MinChunk
    PROVE  FindMemory(m, nb) = Found(m, Null)
<1>1. \A s \in Size : m.bin[s] = <<>>
  BY DEF Untouched
<1>2. Binned(m, nb) = {}
  BY <1>1 DEF Binned
<1>3. ~VictimServes(m, nb) /\ ~(nb < m.topsize)
  BY DEF Untouched, VictimServes, MinChunk
<1>4. is_small(nb) => m.bin[nb] = <<>>
  <2>1. is_small(nb) => nb \in Size
    BY Sizes0, ChunkAssumption DEF ChunkAssumption, is_small, Size
  <2> QED
    BY <1>1, <2>1
<1>5. ~BetterBinned(m, nb)
  BY <1>2 DEF BetterBinned
<1> QED
  BY <1>2, <1>3, <1>4, <1>5 DEF FindMemory

(* The states between two calls.                                           *)
Ready(m) == Untouched(m) \/ (m \in State /\ Sound(m) /\ m.release_checks > 0)

Answered(m, nb, r) == (r.mem = Null /\ r.m = m) \/ AllocatedBy(m, nb, r)

LEMMA SoundKept ==
    ASSUME NEW m \in State, Sound(m)
    PROVE  Kept(m, m)
BY DEF Kept

(* What dlmalloc owes: a block, or a heap that has not changed.            *)
THEOREM DlmallocServes ==
    ASSUME NEW m, Ready(m), is_initialized(m) => ShareCovers(m),
           NEW nb \in Nat, nb >= MinChunk, NEW r \in dlmalloc(m, nb)
    PROVE  Answered(m, nb, r)
<1> DEFINE found == FindMemory(m, nb)
<1>1. ASSUME found.mem = Null PROVE Answered(m, nb, r)
  <2>1. r \in sys_alloc(m, nb)
    BY <1>1 DEF dlmalloc
  <2>2. PICK b \in CALL_MMAP(m, GrowthSize(m, nb)) :
               r = IF b = Null THEN Found(m, Null) ELSE Extended(m, nb, b)
    BY <2>1 DEF sys_alloc
  <2>3. CASE b = Null
    BY <2>2, <2>3 DEF Found, Answered
  <2>4. CASE b # Null
    <3>1. CASE Untouched(m)
      <4>1. AllocatedBy(m, nb, Extended(m, nb, b))
        BY <2>4, <3>1, FirstServes
      <4> QED
        BY <2>2, <2>4, <4>1 DEF Answered
    <3>2. CASE m \in State /\ Sound(m) /\ m.release_checks > 0
      <4>1. ShareCovers(m)
        BY <3>2 DEF Sound, is_initialized
      <4>2. AllocatedBy(m, nb, Extended(m, nb, b))
        BY <2>4, <3>2, <4>1, GrowthServes
      <4> QED
        BY <2>2, <2>4, <4>2 DEF Answered
    <3> QED
      BY <3>1, <3>2 DEF Ready
  <2> QED
    BY <2>3, <2>4
<1>2. ASSUME found.mem # Null PROVE Answered(m, nb, r)
  <2>1. r = found
    BY <1>2 DEF dlmalloc
  <2>2. ~Untouched(m)
    BY <1>2, NothingFound DEF Found
  <2>3. m \in State /\ Sound(m) /\ m.release_checks > 0
    BY <2>2 DEF Ready
  <2>4. Served(m, nb, found)
    BY <2>3, FindMemoryServes
  <2> HIDE DEF found
  <2>5. Handed(m, nb, found.m, found.mem)
    BY <1>2, <2>4 DEF Served
  <2>6. Allocated(m, nb, found.m, found.mem)
    BY <2>3, <2>5, SoundKept, HandedOut
  <2> QED
    BY <1>2, <2>1, <2>6 DEF Answered, AllocatedBy
<1> QED
  BY <1>1, <1>2


-----------------------------------------------------------------------------
(* The program's calls.                                                    *)

(* The blocks l of the program are the chunks in use, and as large as was  *)
(* asked for, or up to MinChunk larger.                                    *)
Serves(m, l) ==
    /\ Ready(m)
    /\ DOMAIN l = Blocks(m)
    /\ \A p \in Blocks(m) :
          l[p] \in Nat /\ l[p] <= m.head[p].size /\ m.head[p].size <= l[p] + MinChunk

(* The blocks at S are as they were.                                       *)
SameAt(m, l, m2, l2, S) == \A a \in S : m2.head[a].size = m.head[a].size /\ l2[a] = l[a]

Adds(m, l, m2, l2) ==
    DOMAIN l \subseteq DOMAIN l2 /\ DOMAIN l2 # DOMAIN l /\ SameAt(m, l, m2, l2, DOMAIN l)
Drops(m, l, m2, l2) ==
    DOMAIN l2 \subseteq DOMAIN l /\ DOMAIN l2 # DOMAIN l /\ SameAt(m, l, m2, l2, DOMAIN l2)
Replaces(m, l, m2, l2) ==
    \E a \in DOMAIN l, c \in DOMAIN l2 :
        /\ c \notin DOMAIN l \ {a} /\ DOMAIN l2 = (DOMAIN l \ {a}) \cup {c}
        /\ SameAt(m, l, m2, l2, DOMAIN l \ {a})
Leaves(m, l, m2, l2) == DOMAIN l2 = DOMAIN l /\ SameAt(m, l, m2, l2, DOMAIN l)

Steps(m, l, m2, l2) ==
    \/ Adds(m, l, m2, l2)
    \/ Drops(m, l, m2, l2)
    \/ Replaces(m, l, m2, l2)
    \/ Leaves(m, l, m2, l2)

(* The heap serves the program still.                                      *)
ServesOn(m, l, m2, l2) == Serves(m2, l2) /\ Steps(m, l, m2, l2)

LEMMA ReadyIf ==
    ASSUME NEW m, m \in State, Sound(m), m.release_checks > 0
    PROVE  Ready(m)
BY DEF Ready

(* With a block there is a heap.                                           *)
LEMMA ServesSound ==
    ASSUME NEW m, NEW l, Serves(m, l), NEW p \in DOMAIN l
    PROVE  /\ m \in State /\ Sound(m) /\ m.release_checks > 0
           /\ p \in Blocks(m) /\ p \in InUse(m) /\ p \notin RecordsOf(m)
<1>1. p \in Blocks(m)
  BY DEF Serves
<1>2. ~Untouched(m)
  BY <1>1, UntouchedEmpty
<1> QED
  BY <1>1, <1>2 DEF Serves, Ready, Blocks

LEMMA StillServes ==
    ASSUME NEW m, NEW l, Serves(m, l)
    PROVE  ServesOn(m, l, m, l)
BY DEF ServesOn, Steps, Leaves, SameAt

LEMMA ServesAllocated ==
    ASSUME NEW m, NEW l, Serves(m, l), NEW nb \in Nat, NEW m2, NEW p, Allocated(m, nb, m2, p)
    PROVE  ServesOn(m, l, m2, [q \in DOMAIN l \cup {p} |-> IF q = p THEN nb ELSE l[q]])
<1> DEFINE k == [q \in DOMAIN l \cup {p} |-> IF q = p THEN nb ELSE l[q]]
<1>1. /\ m2 \in State /\ Sound(m2) /\ m2.release_checks > 0
      /\ p \notin Blocks(m) /\ Blocks(m2) = Blocks(m) \cup {p}
      /\ \A a \in Blocks(m) : m2.head[a].size = m.head[a].size
      /\ nb <= m2.head[p].size /\ m2.head[p].size < nb + MinChunk /\ p \in Addr
  BY DEF Allocated
<1>2. DOMAIN l = Blocks(m)
  BY DEF Serves
<1>3. /\ DOMAIN k = Blocks(m2) /\ k[p] = nb
      /\ \A a \in Blocks(m) : k[a] = l[a] /\ m2.head[a].size = m.head[a].size
  BY <1>1, <1>2
<1>4. m2.head[p].size <= nb + MinChunk
  <2>1. m2.head[p].size \in Nat
    BY <1>1 DEF State, Header, Size
  <2> QED
    BY <1>1, <2>1 DEF MinChunk
<1> HIDE DEF k
<1>5. ASSUME NEW a \in Blocks(m2)
      PROVE  k[a] \in Nat /\ k[a] <= m2.head[a].size /\ m2.head[a].size <= k[a] + MinChunk
  <2>1. CASE a = p
    BY ONLY <1>1, <1>3, <1>4, <2>1, nb \in Nat
  <2>2. CASE a \in Blocks(m)
    <3>1. l[a] \in Nat /\ l[a] <= m.head[a].size /\ m.head[a].size <= l[a] + MinChunk
      BY <2>2 DEF Serves
    <3> QED
      BY ONLY <1>3, <2>2, <3>1
  <2> QED
    BY <1>1, <2>1, <2>2
<1>6. Ready(m2)
  BY <1>1, ReadyIf
<1>7. Serves(m2, k)
  BY ONLY <1>3, <1>5, <1>6 DEF Serves
<1>8. Adds(m, l, m2, k)
  BY ONLY <1>1, <1>2, <1>3 DEF Adds, SameAt
<1> QED
  BY <1>7, <1>8 DEF ServesOn, Steps, k

LEMMA ServesReturned ==
    ASSUME NEW m, NEW l, Serves(m, l), NEW S, S \cap DOMAIN l # {}, NEW m2,
           m2 \in State, Sound(m2), m2.release_checks > 0, Blocks(m2) = Blocks(m) \ S,
           \A a \in Blocks(m2) : m2.head[a].size = m.head[a].size
    PROVE  ServesOn(m, l, m2, [q \in DOMAIN l \ S |-> l[q]])
<1> DEFINE k == [q \in DOMAIN l \ S |-> l[q]]
<1>1. DOMAIN l = Blocks(m)
  BY DEF Serves
<1>2. DOMAIN k = Blocks(m2) /\ \A a \in Blocks(m2) : k[a] = l[a] /\ m2.head[a].size = m.head[a].size
  BY <1>1
<1>3. DOMAIN k \subseteq DOMAIN l /\ DOMAIN k # DOMAIN l
  OBVIOUS
<1> HIDE DEF k
<1>4. ASSUME NEW a \in Blocks(m2)
      PROVE  k[a] \in Nat /\ k[a] <= m2.head[a].size /\ m2.head[a].size <= k[a] + MinChunk
  <2>1. l[a] \in Nat /\ l[a] <= m.head[a].size /\ m.head[a].size <= l[a] + MinChunk
    BY <1>1, <1>2, <1>3 DEF Serves
  <2> QED
    BY ONLY <1>2, <1>4, <2>1
<1>5. Ready(m2)
  BY ReadyIf
<1>6. Serves(m2, k)
  BY ONLY <1>2, <1>4, <1>5 DEF Serves
<1>7. Drops(m, l, m2, k)
  BY ONLY <1>2, <1>3 DEF Drops, SameAt
<1> QED
  BY <1>6, <1>7 DEF ServesOn, Steps, k

(* Block p is one at c now; the others have not moved.                     *)
LEMMA ServesReplaced ==
    ASSUME NEW m, NEW l, Serves(m, l), NEW p \in DOMAIN l, NEW c, c = p \/ c \notin DOMAIN l, NEW m2,
           m2 \in State, Sound(m2), m2.release_checks > 0, Blocks(m2) = (Blocks(m) \ {p}) \cup {c},
           \A a \in Blocks(m) \ {p} : m2.head[a].size = m.head[a].size,
           NEW nb \in Nat, nb <= m2.head[c].size, m2.head[c].size <= nb + MinChunk,
           NEW k, k = [q \in (DOMAIN l \ {p}) \cup {c} |-> IF q = c THEN nb ELSE l[q]]
    PROVE  ServesOn(m, l, m2, k)
<1>1. DOMAIN l = Blocks(m)
  BY DEF Serves
<1>2. /\ DOMAIN k = Blocks(m2) /\ k[c] = nb /\ c \in DOMAIN k /\ p \in Blocks(m)
      /\ \A a \in Blocks(m) \ {p} : k[a] = l[a] /\ m2.head[a].size = m.head[a].size
  BY <1>1
<1>3. c \notin Blocks(m) \ {p}
  BY <1>1
<1>4. ASSUME NEW a \in Blocks(m2)
      PROVE  k[a] \in Nat /\ k[a] <= m2.head[a].size /\ m2.head[a].size <= k[a] + MinChunk
  <2>1. CASE a = c
    BY <1>2, <2>1
  <2>2. CASE a \in Blocks(m) \ {p}
    <3>1. l[a] \in Nat /\ l[a] <= m.head[a].size /\ m.head[a].size <= l[a] + MinChunk
      BY <2>2 DEF Serves
    <3> QED
      BY ONLY <1>2, <2>2, <3>1
  <2> QED
    BY <2>1, <2>2
<1>5. Ready(m2)
  BY ReadyIf
<1>6. Serves(m2, k)
  BY ONLY <1>2, <1>4, <1>5 DEF Serves
<1>7. Replaces(m, l, m2, k)
  <2>1. DOMAIN k = (DOMAIN l \ {p}) \cup {c} /\ SameAt(m, l, m2, k, DOMAIN l \ {p})
    BY ONLY <1>1, <1>2, Blocks(m2) = (Blocks(m) \ {p}) \cup {c} DEF SameAt
  <2> QED
    BY ONLY <1>1, <1>2, <1>3, <2>1 DEF Replaces
<1> QED
  BY <1>6, <1>7 DEF ServesOn, Steps

LEMMA ServesKept ==
    ASSUME NEW m, NEW l, Serves(m, l), NEW m2, Kept(m, m2), m2.release_checks > 0
    PROVE  ServesOn(m, l, m2, l)
<1>1. /\ m2 \in State /\ Sound(m2) /\ Blocks(m2) = Blocks(m)
      /\ \A a \in Blocks(m) : m2.head[a].size = m.head[a].size
  BY DEF Kept
<1>2. Ready(m2)
  BY <1>1, ReadyIf
<1>3. DOMAIN l = Blocks(m)
  BY DEF Serves
<1>4. Serves(m2, l)
  BY <1>1, <1>2 DEF Serves
<1>5. Leaves(m, l, m2, l)
  BY <1>1, <1>3 DEF Leaves, SameAt
<1> QED
  BY <1>4, <1>5 DEF ServesOn, Steps

(* New blocks at S.                                                        *)
AddsAt(m, l, m2, k, S) ==
    /\ m2 \in State /\ Sound(m2) /\ m2.release_checks > 0
    /\ S # {} /\ S \cap Blocks(m) = {} /\ Blocks(m2) = Blocks(m) \cup S
    /\ \A a \in Blocks(m) : m2.head[a].size = m.head[a].size
    /\ DOMAIN k = DOMAIN l \cup S /\ \A a \in DOMAIN l : k[a] = l[a]
    /\ \A a \in S : k[a] \in Nat /\ k[a] <= m2.head[a].size /\ m2.head[a].size <= k[a] + MinChunk

LEMMA ServesAdded ==
    ASSUME NEW m, NEW l, Serves(m, l), NEW m2, NEW k, NEW S, AddsAt(m, l, m2, k, S)
    PROVE  ServesOn(m, l, m2, k)
<1>1. DOMAIN l = Blocks(m)
  BY DEF Serves
<1>2. /\ DOMAIN k = Blocks(m2) /\ S # {} /\ S \cap DOMAIN l = {} /\ DOMAIN k = DOMAIN l \cup S
      /\ \A a \in Blocks(m) : k[a] = l[a] /\ m2.head[a].size = m.head[a].size
  BY <1>1 DEF AddsAt
<1>3. ASSUME NEW a \in Blocks(m2)
      PROVE  k[a] \in Nat /\ k[a] <= m2.head[a].size /\ m2.head[a].size <= k[a] + MinChunk
  <2>1. CASE a \in S
    BY <2>1 DEF AddsAt
  <2>2. CASE a \in Blocks(m)
    <3>1. l[a] \in Nat /\ l[a] <= m.head[a].size /\ m.head[a].size <= l[a] + MinChunk
      BY <2>2 DEF Serves
    <3> QED
      BY ONLY <1>2, <2>2, <3>1
  <2> QED
    BY <1>1, <1>2, <2>1, <2>2
<1>4. Ready(m2)
  BY ReadyIf DEF AddsAt
<1>5. Serves(m2, k)
  BY ONLY <1>2, <1>3, <1>4 DEF Serves
<1>6. Adds(m, l, m2, k)
  BY ONLY <1>1, <1>2 DEF Adds, SameAt
<1> QED
  BY <1>5, <1>6 DEF ServesOn, Steps

(* A block of the heap that a change within the chunks leaves one.         *)
LEMMA RecordsInUse ==
    ASSUME NEW m, Sound(m), NEW m2, m2.seg = m.seg
    PROVE  RecordsOf(m2) = RecordsOf(m) /\ RecordsOf(m) \subseteq InUse(m)
<1>1. RecordsOf(m2) = RecordsOf(m)
  BY DEF RecordsOf
<1>2. Layout(m)
  BY DEF Sound
<1> QED
  BY <1>1, <1>2 DEF Layout, InUse

(* mymemalign.                                                             *)
LEMMA MemalignServes ==
    ASSUME NEW m, NEW l, Serves(m, l), is_initialized(m) => ShareCovers(m),
           NEW al \in Nat, al >= MinChunk, NEW nb \in Nat, nb >= MinChunk,
           NEW r \in dlmalloc(m, nb + al + MinChunk), r.mem # Null,
           NEW x, x = Aligned(r.m, r.mem, al, nb),
           NEW k, k = [q \in DOMAIN l \cup {x.mem} |-> IF q = x.mem THEN nb ELSE l[q]]
    PROVE  ServesOn(m, l, x.m, k)
<1> DEFINE n == nb + al + MinChunk
<1>1. n \in Nat /\ n >= MinChunk /\ r \in dlmalloc(m, n) /\ nb + al + MinChunk = n
  BY DEF MinChunk
<1> HIDE DEF n
<1>2. Ready(m)
  BY DEF Serves
<1>3. Answered(m, n, r)
  BY ONLY <1>1, <1>2, DlmallocServes, is_initialized(m) => ShareCovers(m)
<1> DEFINE h == r.m
           p == r.mem
<1>4. Allocated(m, n, h, p)
  BY <1>3 DEF Answered, AllocatedBy
<1> HIDE DEF h, p
<1>5. /\ h \in State /\ Sound(h) /\ h.release_checks > 0
      /\ p \notin Blocks(m) /\ Blocks(h) = Blocks(m) \cup {p}
      /\ \A a \in Blocks(m) : h.head[a].size = m.head[a].size
      /\ n <= h.head[p].size
  BY <1>4 DEF Allocated
<1>6. p \in InUse(h) /\ p \notin RecordsOf(h)
  BY <1>5 DEF Blocks
<1>7. x = Aligned(h, p, al, nb) /\ nb + al + MinChunk <= h.head[p].size
  BY <1>1, <1>5 DEF h, p
<1>8. Placed(h, al, nb, x.m, p, x.mem)
  BY <1>5, <1>6, <1>7, AlignedPlaces
<1> DEFINE y == x.m
           q == x.mem
<1>9. Placed(h, al, nb, y, p, q) /\ k = [b \in DOMAIN l \cup {q} |-> IF b = q THEN nb ELSE l[b]]
  BY <1>8
<1> HIDE DEF y, q
<1>10. /\ y \in State /\ Sound(y) /\ y.seg = h.seg /\ y.release_checks = h.release_checks
       /\ q = p \/ q \notin InUse(h)
       /\ InUse(y) = (InUse(h) \ {p}) \cup {q}
       /\ \A a \in InUse(h) : a # p => y.head[a].size = h.head[a].size
       /\ nb <= y.head[q].size /\ y.head[q].size <= nb + MinChunk
  BY <1>9 DEF Placed
<1>11. RecordsOf(y) = RecordsOf(h) /\ RecordsOf(h) \subseteq InUse(h)
  BY <1>5, <1>10, RecordsInUse
<1>12. q \notin RecordsOf(h) /\ q \notin Blocks(m)
  BY <1>5, <1>6, <1>10, <1>11 DEF Blocks
<1>13. Blocks(y) = Blocks(m) \cup {q}
  BY <1>5, <1>6, <1>10, <1>11, <1>12 DEF Blocks
<1>14. \A a \in Blocks(m) : y.head[a].size = m.head[a].size
  BY <1>5, <1>10 DEF Blocks
<1>15. DOMAIN l = Blocks(m)
  BY DEF Serves
<1>16. DOMAIN k = DOMAIN l \cup {q} /\ k[q] = nb /\ \A a \in DOMAIN l : k[a] = l[a]
  BY <1>9, <1>12, <1>15
<1>17. AddsAt(m, l, y, k, {q})
  BY <1>5, <1>10, <1>12, <1>13, <1>14, <1>16 DEF AddsAt
<1>18. ServesOn(m, l, y, k)
  BY <1>17, ServesAdded
<1> QED
  BY <1>18 DEF y

(* myfree.                                                                 *)
LEMMA FreeServes ==
    ASSUME NEW m, NEW l, Serves(m, l), NEW p \in DOMAIN l, NEW unmaps \in Answers(m),
           ~dlfree(m, p, unmaps).astray
    PROVE  ServesOn(m, l, dlfree(m, p, unmaps), [q \in DOMAIN l \ {p} |-> l[q]])
<1> DEFINE y == dlfree(m, p, unmaps)
<1>1. m \in State /\ Sound(m) /\ m.release_checks > 0 /\ p \in Blocks(m)
  BY ServesSound
<1>2. Returned(m, y, p)
  BY <1>1, FreeReturns
<1> HIDE DEF y
<1>3. /\ y \in State /\ Sound(y) /\ y.release_checks > 0 /\ Blocks(y) = Blocks(m) \ {p}
      /\ \A a \in Blocks(y) : y.head[a].size = m.head[a].size
  BY <1>2 DEF Returned
<1>4. {p} \cap DOMAIN l # {}
  OBVIOUS
<1>5. ServesOn(m, l, y, [q \in DOMAIN l \ {p} |-> l[q]])
  BY <1>3, <1>4, ServesReturned
<1> QED
  BY <1>5 DEF y

(* myrealloc, if try_realloc_chunk finds room.                             *)
LEMMA ReallocServes ==
    ASSUME NEW m, NEW l, Serves(m, l), NEW p \in DOMAIN l, NEW nb \in Nat, nb >= MinChunk,
           NEW r, r = try_realloc_chunk(m, p, nb), r.mem # Null,
           NEW k, k = [q \in DOMAIN l \cup {p} |-> IF q = p THEN nb ELSE l[q]]
    PROVE  ServesOn(m, l, r.m, k)
<1>1. /\ m \in State /\ Sound(m) /\ m.release_checks > 0
      /\ p \in Blocks(m) /\ p \in InUse(m) /\ p \notin RecordsOf(m)
  BY ServesSound
<1>2. try_realloc_chunk(m, p, nb).mem # Null
  OBVIOUS
<1>3. Resized(m, nb, try_realloc_chunk(m, p, nb).m, p)
  BY <1>1, <1>2, ReallocResizes
<1> DEFINE y == r.m
<1>4. Resized(m, nb, y, p)
  BY <1>3
<1> HIDE DEF y
<1>5. /\ y \in State /\ Sound(y) /\ y.seg = m.seg /\ y.release_checks = m.release_checks
      /\ InUse(y) = InUse(m)
      /\ \A a \in InUse(m) : a # p => y.head[a].size = m.head[a].size
      /\ nb <= y.head[p].size /\ y.head[p].size < nb + MinChunk
  BY <1>4 DEF Resized
<1>6. RecordsOf(y) = RecordsOf(m)
  BY <1>5 DEF RecordsOf
<1>7. /\ Blocks(y) = (Blocks(m) \ {p}) \cup {p}
      /\ \A a \in Blocks(m) \ {p} : y.head[a].size = m.head[a].size
  BY <1>1, <1>5, <1>6 DEF Blocks
<1>8. y.head[p].size <= nb + MinChunk
  <2>1. y.head[p].size \in Nat
    <3>1. p \in Addr
      BY <1>1 DEF InUse, Cells
    <3> QED
      BY <1>5, <3>1, Sizes0 DEF State, Header, Size
  <2> QED
    BY <1>5, <2>1 DEF MinChunk
<1>9. k = [q \in (DOMAIN l \ {p}) \cup {p} |-> IF q = p THEN nb ELSE l[q]]
  <2>1. (DOMAIN l \ {p}) \cup {p} = DOMAIN l \cup {p}
    OBVIOUS
  <2> QED
    BY <2>1
<1>10. p = p \/ p \notin DOMAIN l
  OBVIOUS
<1>11. y.release_checks > 0
  BY <1>1, <1>5
<1>12. ServesOn(m, l, y, k)
  BY <1>5, <1>7, <1>8, <1>9, <1>10, <1>11, ServesReplaced
<1> QED
  BY <1>12 DEF y

(* myrealloc, if the block moves.                                          *)
LEMMA MoveServes ==
    ASSUME NEW m, NEW l, Serves(m, l), is_initialized(m) => ShareCovers(m),
           NEW p \in DOMAIN l, NEW nb \in Nat, nb >= MinChunk,
           NEW r \in dlmalloc(m, nb), r.mem # Null, NEW unmaps \in Answers(r.m),
           ~dlfree(r.m, p, unmaps).astray,
           NEW k, k = [q \in (DOMAIN l \ {p}) \cup {r.mem} |-> IF q = r.mem THEN nb ELSE l[q]]
    PROVE  ServesOn(m, l, dlfree(r.m, p, unmaps), k)
<1>1. Ready(m)
  BY DEF Serves
<1>2. Answered(m, nb, r)
  BY <1>1, DlmallocServes
<1> DEFINE h == r.m
           c == r.mem
           y == dlfree(h, p, unmaps)
<1>3. Allocated(m, nb, h, c)
  BY <1>2 DEF Answered, AllocatedBy
<1>4. k = [q \in (DOMAIN l \ {p}) \cup {c} |-> IF q = c THEN nb ELSE l[q]]
  OBVIOUS
<1> HIDE DEF h, c
<1>5. /\ h \in State /\ Sound(h) /\ h.release_checks > 0 /\ c \in Addr
      /\ c \notin Blocks(m) /\ Blocks(h) = Blocks(m) \cup {c}
      /\ \A a \in Blocks(m) : h.head[a].size = m.head[a].size
      /\ nb <= h.head[c].size /\ h.head[c].size < nb + MinChunk
  BY <1>3 DEF Allocated
<1>6. p \in Blocks(m) /\ DOMAIN l = Blocks(m)
  BY DEF Serves
<1>7. Returned(h, y, p)
  <2>1. p \in Blocks(h)
    BY <1>5, <1>6
  <2>2. unmaps \in Answers(h) /\ ~dlfree(h, p, unmaps).astray
    BY DEF h
  <2> QED
    BY <1>5, <2>1, <2>2, FreeReturns
<1> HIDE DEF y
<1>8. /\ y \in State /\ Sound(y) /\ y.release_checks > 0
      /\ Blocks(y) = Blocks(h) \ {p}
      /\ \A a \in Blocks(y) : y.head[a].size = h.head[a].size
  BY <1>7 DEF Returned
<1>9. c # p /\ c \notin DOMAIN l /\ Blocks(y) = (Blocks(m) \ {p}) \cup {c}
  BY <1>5, <1>6, <1>8
<1>10. /\ y.head[c].size = h.head[c].size
       /\ \A a \in Blocks(m) \ {p} : y.head[a].size = m.head[a].size
  BY <1>5, <1>8, <1>9
<1>11. nb <= y.head[c].size /\ y.head[c].size <= nb + MinChunk
  <2>1. h.head[c].size \in Nat
    BY <1>5, Sizes0 DEF State, Header, Size
  <2> QED
    BY <1>5, <1>10, <2>1 DEF MinChunk
<1>12. c = p \/ c \notin DOMAIN l
  BY <1>9
<1>13. ServesOn(m, l, y, k)
  BY <1>4, <1>8, <1>9, <1>10, <1>11, <1>12, ServesReplaced
<1> QED
  BY <1>13 DEF y, h

LEMMA TrimServes ==
    ASSUME NEW m, NEW l, Serves(m, l), is_initialized(m), NEW pad \in Nat,
           NEW unmaps \in Answers(m), ~sys_trim(m, pad, unmaps).astray
    PROVE  ServesOn(m, l, sys_trim(m, pad, unmaps), l)
<1> DEFINE y == sys_trim(m, pad, unmaps)
<1>1. ~Untouched(m)
  BY DEF Untouched, is_initialized
<1>2. m \in State /\ Sound(m)
  BY <1>1 DEF Serves, Ready
<1>3. Kept(m, y) /\ y.release_checks > 0
  BY <1>2, TrimKeeps
<1> HIDE DEF y
<1>4. ServesOn(m, l, y, l)
  BY <1>3, ServesKept
<1> QED
  BY <1>4 DEF y

(* internal_bulk_free.                                                     *)
LEMMA BulkServes ==
    ASSUME NEW m, NEW l, Serves(m, l), NEW array \in Seq(DOMAIN l), Len(array) > 0, IsInjective(array)
    PROVE  ServesOn(m, l, internal_bulk_free(m, array), [q \in DOMAIN l \ Range(array) |-> l[q]])
<1> DEFINE y == internal_bulk_free(m, array)
           S == Range(array)
<1>1. array[1] \in DOMAIN l /\ array[1] \in S
  BY DEF Range
<1>2. m \in State /\ Sound(m) /\ m.release_checks > 0
  BY <1>1, ServesSound
<1>3. DOMAIN l = Blocks(m)
  BY DEF Serves
<1>4. Freeable(m, array)
  <2>1. \A i \in 1 .. Len(array) : array[i] \in Blocks(m)
    BY <1>3
  <2>2. \A i \in 1 .. Len(array) : array[i] \in InUse(m) /\ array[i] \notin RecordsOf(m)
    BY <2>1 DEF Blocks
  <2>3. array \in Seq(InUse(m))
    <3>1. array \in [1 .. Len(array) -> InUse(m)] /\ Len(array) \in Nat
      BY <2>2
    <3> QED
      BY <3>1
  <2> QED
    BY <1>2, <2>2, <2>3 DEF Freeable
<1>5. FreedAll(m, y, S)
  BY <1>4, BulkFrees
<1>6. S \cap DOMAIN l # {}
  BY <1>1
<1> HIDE DEF y, S
<1>7. /\ y \in State /\ Sound(y) /\ y.seg = m.seg /\ y.release_checks > 0
      /\ InUse(y) = InUse(m) \ S
      /\ \A a \in InUse(y) : y.head[a].size = m.head[a].size
  BY <1>2, <1>5 DEF FreedAll
<1>8. /\ Blocks(y) = Blocks(m) \ S
      /\ \A a \in Blocks(y) : y.head[a].size = m.head[a].size
  BY <1>7 DEF Blocks, RecordsOf
<1>9. ServesOn(m, l, y, [q \in DOMAIN l \ S |-> l[q]])
  BY <1>6, <1>7, <1>8, ServesReturned
<1> QED
  BY <1>9 DEF y, S

(* ialloc.                                                                 *)
LEMMA PartsServe ==
    ASSUME NEW m, NEW l, Serves(m, l), is_initialized(m) => ShareCovers(m),
           NEW parts \in Seq(Nat), Len(parts) > 0, \A i \in 1 .. Len(parts) : parts[i] >= MinChunk,
           NEW nb, nb = Total(parts)[Len(parts)], nb \in Nat, nb >= MinChunk,
           NEW r \in dlmalloc(m, nb), r.mem # Null,
           NEW d, d = Parted(r.m, r.mem, parts),
           NEW k, k = [q \in DOMAIN l \cup Range(d.at) |->
                         IF q \in DOMAIN l THEN l[q]
                         ELSE parts[CHOOSE i \in DOMAIN parts : d.at[i] = q]]
    PROVE  ServesOn(m, l, d.m, k)
<1>1. Ready(m) /\ DOMAIN l = Blocks(m)
  BY DEF Serves
<1>2. Answered(m, nb, r)
  BY <1>1, DlmallocServes
<1> DEFINE h == r.m
           p == r.mem
           n == Len(parts)
           y == d.m
           at == d.at
           S == Range(at)
<1>3. Allocated(m, nb, h, p)
  BY <1>2 DEF Answered, AllocatedBy
<1>4. d = Parted(h, p, parts)
  OBVIOUS
<1> HIDE DEF h, p
<1>5. /\ h \in State /\ Sound(h) /\ h.release_checks > 0 /\ p \in Addr
      /\ p \notin Blocks(m) /\ Blocks(h) = Blocks(m) \cup {p}
      /\ \A a \in Blocks(m) : h.head[a].size = m.head[a].size
      /\ nb <= h.head[p].size /\ h.head[p].size < nb + MinChunk /\ h.head[p].pinuse
  BY <1>3 DEF Allocated
<1>6. p \in InUse(h) /\ p \notin RecordsOf(h)
  BY <1>5 DEF Blocks
<1>7. Partable(h, p, parts)
  BY <1>5, <1>6 DEF Partable
<1>8. Parts(h, p, parts, d)
  BY <1>4, <1>7, PartedDivides
<1>9. h.head[p].size < Total(parts)[n] + MinChunk
  BY <1>5
<1>10. Divided(h, p, parts, at, y, n) /\ DOMAIN at = 1 .. n /\ at[1] = p
  BY <1>8 DEF Parts
<1>11. /\ \A i \in 2 .. n : at[i] \notin InUse(h)
       /\ \A i, j \in 1 .. n : i # j => at[i] # at[j]
       /\ \A i \in 1 .. n : at[i] \in Addr /\ parts[i] <= y.head[at[i]].size
                            /\ y.head[at[i]].size < parts[i] + MinChunk
  BY <1>8, <1>9 DEF Parts
<1>12. DOMAIN parts = 1 .. n /\ n \in Nat /\ n > 0 /\ \A i \in 1 .. n : parts[i] \in Nat
  OBVIOUS
<1>13. k = [q \in DOMAIN l \cup S |->
              IF q \in DOMAIN l THEN l[q] ELSE parts[CHOOSE i \in 1 .. n : at[i] = q]]
  BY <1>12
<1> HIDE DEF n, y, at
<1>14. S = {at[i] : i \in 1 .. n}
  BY <1>10 DEF Range
<1>15. S # {} /\ p \in S
  BY <1>10, <1>12, <1>14
<1> HIDE DEF S
<1>16. /\ y \in State /\ Sound(y) /\ y.seg = h.seg /\ y.release_checks = h.release_checks
       /\ InUse(y) = InUse(h) \cup S
       /\ \A a \in InUse(h) : a # p => y.head[a].size = h.head[a].size
  BY <1>10, <1>14 DEF Divided
<1>17. RecordsOf(y) = RecordsOf(h) /\ RecordsOf(h) \subseteq InUse(h)
  BY <1>5, <1>16, RecordsInUse
<1>18. ASSUME NEW q \in S PROVE q = p \/ q \notin InUse(h)
  <2>1. PICK i \in 1 .. n : q = at[i]
    BY <1>14
  <2>2. i = 1 \/ i \in 2 .. n
    BY <1>12
  <2> QED
    BY <1>10, <1>11, <2>1, <2>2
<1>19. S \cap RecordsOf(h) = {}
  BY <1>6, <1>17, <1>18
<1>20. Blocks(y) = Blocks(m) \cup S
  BY <1>5, <1>15, <1>16, <1>17, <1>19 DEF Blocks
<1>21. S \cap Blocks(m) = {}
  BY <1>5, <1>18 DEF Blocks
<1>22. \A a \in Blocks(m) : y.head[a].size = m.head[a].size
  BY <1>5, <1>16 DEF Blocks
<1>23. DOMAIN k = DOMAIN l \cup S /\ \A a \in DOMAIN l : k[a] = l[a]
  BY <1>13
<1>24. ASSUME NEW q \in S
       PROVE  k[q] \in Nat /\ k[q] <= y.head[q].size /\ y.head[q].size <= k[q] + MinChunk
  <2> DEFINE c == CHOOSE i \in 1 .. n : at[i] = q
  <2>1. \E i \in 1 .. n : at[i] = q
    BY <1>14
  <2>2. c \in 1 .. n /\ at[c] = q
    BY <2>1
  <2>3. q \notin DOMAIN l
    BY <1>1, <1>21
  <2>4. k[q] = parts[c]
    BY <1>13, <2>3
  <2> HIDE DEF c
  <2>5. q \in Addr /\ k[q] \in Nat /\ k[q] <= y.head[q].size /\ y.head[q].size < k[q] + MinChunk
    BY <1>11, <1>12, <2>2, <2>4
  <2>6. y.head[q].size \in Nat
    BY <1>16, <2>5, Sizes0 DEF State, Header, Size
  <2>7. k[q] \in Nat /\ k[q] <= y.head[q].size /\ y.head[q].size < k[q] + MinChunk
    BY ONLY <2>5
  <2>8. \A u \in Nat, v \in Nat : u < v + MinChunk => u <= v + MinChunk
    BY ONLY DEF MinChunk
  <2> QED
    BY ONLY <2>6, <2>7, <2>8
<1>25. AddsAt(m, l, y, k, S)
  BY <1>5, <1>15, <1>16, <1>20, <1>21, <1>22, <1>23, <1>24 DEF AddsAt
<1>26. ServesOn(m, l, y, k)
  BY <1>25, ServesAdded
<1> QED
  BY <1>26 DEF y

-----------------------------------------------------------------------------
(* What holds of every state.                                              *)

Serving == Serves(gm, live)

(* mparams.granularity is far above TOP_FOOT_SIZE; once a heap has been    *)
(* trimmed, a share of its footprint need not be.                          *)
ShareCoversFoot == is_initialized(gm) => ShareCovers(gm)

LEMMA InitServes == Init => Serving
<1> SUFFICES ASSUME Init PROVE Serving
  OBVIOUS
<1>1. Untouched(gm)
  <2> DEFINE h == [a \in Addr |-> NoHeader]
             b == [s \in Size |-> <<>>]
  <2>1. h \in [Addr -> Header] /\ b \in [Size -> Seq(Addr)] /\ 0 \in Size
    BY Sizes0 DEF Size
  <2>2. (<<>>) \in Seq(Segment) /\ 0 \in Nat
    OBVIOUS
  <2>3. gm = [head |-> h, bin |-> b, dv |-> Null, dvsize |-> 0, top |-> Null, topsize |-> 0,
              seg |-> <<>>, footprint |-> 0, release_checks |-> 0, astray |-> FALSE]
    BY DEF Init
  <2>4. (\A a \in Addr : h[a] = NoHeader) /\ (\A s \in Size : b[s] = <<>>)
    OBVIOUS
  <2> HIDE DEF h, b
  <2>5. gm \in State
    BY <2>1, <2>2, <2>3 DEF State
  <2> QED
    BY <2>3, <2>4, <2>5 DEF Untouched
<1>2. Blocks(gm) = {}
  BY <1>1, UntouchedEmpty
<1>3. DOMAIN live = {}
  BY DEF Init
<1> QED
  BY <1>1, <1>2, <1>3 DEF Serving, Serves, Ready

(* The sum of sizes is no less than the last one.                          *)
LEMMA TotalLeast ==
    ASSUME NEW sizes \in Seq(Nat), Len(sizes) > 0, \A i \in 1 .. Len(sizes) : sizes[i] >= MinChunk
    PROVE  Total(sizes)[Len(sizes)] \in Nat /\ Total(sizes)[Len(sizes)] >= MinChunk
<1> DEFINE n == Len(sizes)
           T == Total(sizes)
<1>1. n \in Nat /\ n \in 1 .. n /\ n \in 0 .. n /\ n - 1 \in 0 .. n
  OBVIOUS
<1>2. /\ \A i \in 1 .. n : T[i] = T[i - 1] + sizes[i]
      /\ \A i \in 0 .. n : T[i] \in Nat
  BY TotalFacts
<1>3. sizes[n] \in Nat /\ sizes[n] >= MinChunk
  BY <1>1
<1> HIDE DEF n, T
<1>4. T[n] = T[n - 1] + sizes[n] /\ T[n] \in Nat /\ T[n - 1] \in Nat
  BY <1>1, <1>2
<1>5. T[n] >= MinChunk
  BY <1>3, <1>4 DEF MinChunk
<1> QED
  BY <1>4, <1>5 DEF n, T

LEMMA ArraySizeFacts ==
    ASSUME NEW n \in Nat
    PROVE  ArraySize(n) \in Nat /\ ArraySize(n) >= MinChunk
<1> DEFINE d == (n + 2) \div 2
           S == {MinChunk, d}
<1>1. d \in Nat
  OBVIOUS
<1> HIDE DEF d
<1>2. \E x \in S : \A y \in S : x >= y
  <2>1. CASE d <= MinChunk
    BY <1>1, <2>1 DEF MinChunk
  <2>2. CASE d >= MinChunk
    BY <1>1, <2>2 DEF MinChunk
  <2> QED
    BY <1>1, <2>1, <2>2 DEF MinChunk
<1>3. Max(S) \in S /\ \A y \in S : Max(S) >= y
  BY <1>2 DEF Max
<1>4. ArraySize(n) = Max(S)
  BY DEF ArraySize, d
<1> QED
  BY <1>1, <1>3, <1>4 DEF MinChunk

(* What ialloc is asked for, with the array of the blocks or without it.   *)
LEMMA PartsAsked ==
    ASSUME NEW sizes \in UNION {[1 .. n -> Requests] : n \in 1 .. MaxLive}, NEW given \in BOOLEAN,
           NEW parts, parts = IF given THEN sizes ELSE Append(sizes, ArraySize(Len(sizes)))
    PROVE  /\ parts \in Seq(Nat) /\ Len(parts) > 0
           /\ \A i \in 1 .. Len(parts) : parts[i] >= MinChunk
<1>1. Requests \subseteq Nat /\ \A q \in Requests : q >= MinChunk
  BY ChunkAssumption DEF ChunkAssumption
<1>2. PICK n \in 1 .. MaxLive : sizes \in [1 .. n -> Requests]
  OBVIOUS
<1>3. MaxLive \in Nat
  BY ChunkAssumption DEF ChunkAssumption
<1>4. n \in Nat /\ n > 0
  BY <1>3
<1>5. sizes \in [1 .. n -> Nat] /\ \A i \in 1 .. n : sizes[i] >= MinChunk
  BY <1>1, <1>2
<1>6. sizes \in Seq(Nat) /\ Len(sizes) = n
  BY <1>4, <1>5
<1>7. CASE given
  BY <1>4, <1>5, <1>6, <1>7
<1>8. CASE ~given
  <2> DEFINE e == ArraySize(Len(sizes))
  <2>1. e \in Nat /\ e >= MinChunk
    BY <1>4, <1>6, ArraySizeFacts
  <2>2. parts = Append(sizes, e)
    BY <1>8
  <2> HIDE DEF e
  <2>3. /\ parts \in Seq(Nat) /\ Len(parts) = n + 1 /\ parts[n + 1] = e
        /\ \A i \in 1 .. n : parts[i] = sizes[i]
    BY <1>4, <1>6, <2>1, <2>2
  <2> QED
    BY <1>4, <1>5, <2>1, <2>3
<1> QED
  BY <1>7, <1>8

CallServed == ServesOn(gm, live, gm', live')

LEMMA MallocStep ==
    ASSUME Serving, ShareCoversFoot, NEW nb \in Requests, Malloc(nb)
    PROVE  CallServed
<1>1. nb \in Nat /\ nb >= MinChunk /\ Serves(gm, live) /\ (is_initialized(gm) => ShareCovers(gm))
  BY ChunkAssumption DEF ChunkAssumption, Serving, ShareCoversFoot
<1>2. PICK r \in dlmalloc(gm, nb) :
        gm' = r.m /\ live' = IF r.mem = Null THEN live ELSE Holding(r.mem, nb)
  BY DEF Malloc
<1>3. Ready(gm)
  BY <1>1 DEF Serves
<1>4. Answered(gm, nb, r)
  BY ONLY <1>1, <1>3, DlmallocServes
<1>5. CASE r.mem = Null
  <2>1. gm' = gm /\ live' = live
    BY <1>2, <1>4, <1>5 DEF Answered, AllocatedBy
  <2> QED
    BY <1>1, <2>1, StillServes DEF CallServed
<1>6. CASE r.mem # Null
  <2> DEFINE p == r.mem
             y == r.m
             k == [q \in DOMAIN live \cup {p} |-> IF q = p THEN nb ELSE live[q]]
  <2>1. Allocated(gm, nb, y, p)
    BY <1>4, <1>6 DEF Answered, AllocatedBy
  <2>2. gm' = y /\ live' = k
    BY <1>2, <1>6 DEF Holding
  <2> HIDE DEF p, y
  <2>3. ServesOn(gm, live, y, k)
    BY <1>1, <2>1, ServesAllocated
  <2> HIDE DEF k
  <2> QED
    BY ONLY <2>2, <2>3 DEF CallServed
<1> QED
  BY <1>5, <1>6

LEMMA MemalignStep ==
    ASSUME Serving, ShareCoversFoot, NEW nb \in Requests, NEW al \in Alignments, Memalign(al, nb)
    PROVE  CallServed
<1>1. /\ nb \in Nat /\ nb >= MinChunk /\ al \in Nat /\ al >= MinChunk
      /\ Serves(gm, live) /\ (is_initialized(gm) => ShareCovers(gm))
  BY ChunkAssumption DEF ChunkAssumption, Serving, ShareCoversFoot
<1>2. PICK r \in dlmalloc(gm, nb + al + MinChunk) :
        IF r.mem = Null THEN gm' = r.m /\ live' = live
        ELSE LET x == Aligned(r.m, r.mem, al, nb) IN gm' = x.m /\ live' = Holding(x.mem, nb)
  BY DEF Memalign
<1>3. CASE r.mem = Null
  <2> DEFINE n == nb + al + MinChunk
  <2>1. n \in Nat /\ n >= MinChunk /\ r \in dlmalloc(gm, n)
    BY <1>1 DEF MinChunk
  <2> HIDE DEF n
  <2>2. Ready(gm)
    BY <1>1 DEF Serves
  <2>3. Answered(gm, n, r)
    BY ONLY <1>1, <2>1, <2>2, DlmallocServes
  <2>4. gm' = gm /\ live' = live
    BY <1>2, <1>3, <2>3 DEF Answered, AllocatedBy
  <2> QED
    BY <1>1, <2>4, StillServes DEF CallServed
<1>4. CASE r.mem # Null
  <2> DEFINE x == Aligned(r.m, r.mem, al, nb)
             k == [q \in DOMAIN live \cup {x.mem} |-> IF q = x.mem THEN nb ELSE live[q]]
  <2>1. gm' = x.m /\ live' = k
    BY <1>2, <1>4 DEF Holding
  <2>2. ServesOn(gm, live, x.m, k)
    BY <1>1, <1>2, <1>4, MemalignServes
  <2> HIDE DEF x, k
  <2> QED
    BY ONLY <2>1, <2>2 DEF CallServed
<1> QED
  BY <1>3, <1>4

LEMMA FreeStep ==
    ASSUME Serving, NEW p \in DOMAIN live, Free(p), ReleasedAreLarge'
    PROVE  CallServed
<1>1. PICK unmaps \in Answers(gm) : gm' = dlfree(gm, p, unmaps)
  BY DEF Free
<1>2. live' = [q \in DOMAIN live \ {p} |-> live[q]]
  BY DEF Free, Without
<1>3. Serves(gm, live)
  BY DEF Serving
<1>4. ServesOn(gm, live, dlfree(gm, p, unmaps), [q \in DOMAIN live \ {p} |-> live[q]])
  BY <1>1, <1>3, FreeServes DEF ReleasedAreLarge
<1> QED
  BY ONLY <1>1, <1>2, <1>4 DEF CallServed

LEMMA ReallocStep ==
    ASSUME Serving, ShareCoversFoot, NEW nb \in Requests, NEW p \in DOMAIN live,
           ReallocInPlace(p, nb) \/ ReallocMoves(p, nb), ReleasedAreLarge'
    PROVE  CallServed
<1>1. nb \in Nat /\ nb >= MinChunk /\ Serves(gm, live) /\ (is_initialized(gm) => ShareCovers(gm))
  BY ChunkAssumption DEF ChunkAssumption, Serving, ShareCoversFoot
<1>2. CASE ReallocInPlace(p, nb)
  <2> DEFINE r == try_realloc_chunk(gm, p, nb)
             k == [q \in DOMAIN live \cup {p} |-> IF q = p THEN nb ELSE live[q]]
  <2>1. r.mem # Null /\ gm' = r.m /\ live' = k
    BY <1>2 DEF ReallocInPlace, Holding
  <2>2. ServesOn(gm, live, r.m, k)
    BY <1>1, <2>1, ReallocServes
  <2> HIDE DEF r, k
  <2> QED
    BY ONLY <2>1, <2>2 DEF CallServed
<1>3. CASE ReallocMoves(p, nb)
  <2>1. PICK r \in dlmalloc(gm, nb) :
          IF r.mem = Null THEN gm' = r.m /\ live' = live
          ELSE /\ gm' \in {dlfree(r.m, p, unmaps) : unmaps \in Answers(r.m)}
               /\ live' = [q \in (DOMAIN live \ {p}) \cup {r.mem} |->
                              IF q = r.mem THEN nb ELSE live[q]]
    BY <1>3 DEF ReallocMoves
  <2>2. CASE r.mem = Null
    <3>1. Ready(gm)
      BY <1>1 DEF Serves
    <3>2. Answered(gm, nb, r)
      BY ONLY <1>1, <3>1, DlmallocServes
    <3>3. gm' = gm /\ live' = live
      BY <2>1, <2>2, <3>2 DEF Answered, AllocatedBy
    <3> QED
      BY <1>1, <3>3, StillServes DEF CallServed
  <2>3. CASE r.mem # Null
    <3>1. PICK unmaps \in Answers(r.m) : gm' = dlfree(r.m, p, unmaps)
      BY <2>1, <2>3
    <3> DEFINE k == [q \in (DOMAIN live \ {p}) \cup {r.mem} |-> IF q = r.mem THEN nb ELSE live[q]]
    <3>2. live' = k
      BY <2>1, <2>3
    <3>3. ServesOn(gm, live, dlfree(r.m, p, unmaps), k)
      BY <1>1, <2>1, <2>3, <3>1, MoveServes DEF ReleasedAreLarge
    <3> HIDE DEF k
    <3> QED
      BY ONLY <3>1, <3>2, <3>3 DEF CallServed
  <2> QED
    BY <2>2, <2>3
<1> QED
  BY <1>2, <1>3

LEMMA PartsStep ==
    ASSUME Serving, ShareCoversFoot,
           NEW sizes \in UNION {[1 .. n -> Requests] : n \in 1 .. MaxLive}, NEW given \in BOOLEAN,
           IndependentAlloc(sizes, given)
    PROVE  CallServed
<1> DEFINE parts == IF given THEN sizes ELSE Append(sizes, ArraySize(Len(sizes)))
           nb == Total(parts)[Len(parts)]
<1>1. Serves(gm, live) /\ (is_initialized(gm) => ShareCovers(gm))
  BY DEF Serving, ShareCoversFoot
<1>2. /\ parts \in Seq(Nat) /\ Len(parts) > 0
      /\ \A i \in 1 .. Len(parts) : parts[i] >= MinChunk
  BY PartsAsked
<1>3. PICK r \in dlmalloc(gm, nb) :
          IF r.mem = Null THEN gm' = r.m /\ live' = live
          ELSE LET c == Parted(r.m, r.mem, parts)
               IN  /\ gm' = c.m
                   /\ live' = [q \in DOMAIN live \cup Range(c.at) |->
                                  IF q \in DOMAIN live THEN live[q]
                                  ELSE parts[CHOOSE i \in DOMAIN parts : c.at[i] = q]]
  BY DEF IndependentAlloc
<1> HIDE DEF parts
<1>4. nb \in Nat /\ nb >= MinChunk
  BY <1>2, TotalLeast
<1>5. CASE r.mem = Null
  <2>1. nb = Total(parts)[Len(parts)]
    OBVIOUS
  <2> HIDE DEF nb
  <2>2. Ready(gm)
    BY <1>1 DEF Serves
  <2>3. Answered(gm, nb, r)
    BY ONLY <1>1, <1>3, <1>4, <2>2, DlmallocServes
  <2>4. gm' = gm /\ live' = live
    BY <1>3, <1>5, <2>3 DEF Answered, AllocatedBy
  <2> QED
    BY <1>1, <2>4, StillServes DEF CallServed
<1>6. CASE r.mem # Null
  <2> DEFINE d == Parted(r.m, r.mem, parts)
             k == [q \in DOMAIN live \cup Range(d.at) |->
                      IF q \in DOMAIN live THEN live[q]
                      ELSE parts[CHOOSE i \in DOMAIN parts : d.at[i] = q]]
  <2>1. gm' = d.m /\ live' = k
    BY <1>3, <1>6
  <2>2. nb = Total(parts)[Len(parts)] /\ r \in dlmalloc(gm, nb)
    OBVIOUS
  <2> HIDE DEF nb
  <2>3. ServesOn(gm, live, d.m, k)
    BY <1>1, <1>2, <1>4, <1>6, <2>2, PartsServe
  <2> HIDE DEF d, k
  <2> QED
    BY ONLY <2>1, <2>3 DEF CallServed
<1> QED
  BY <1>5, <1>6

LEMMA BulkStep ==
    ASSUME Serving, NEW array \in Arrays(DOMAIN live, MaxArray), BulkFree(array)
    PROVE  CallServed
<1>1. IsInjective(array) /\ \E n \in 2 .. MaxArray : array \in [1 .. n -> DOMAIN live]
  BY DEF Arrays
<1>2. PICK n \in 2 .. MaxArray : array \in [1 .. n -> DOMAIN live]
  BY <1>1
<1>3. MaxArray \in Nat
  BY ChunkAssumption DEF ChunkAssumption
<1>4. array \in Seq(DOMAIN live) /\ Len(array) > 0
  BY <1>2, <1>3
<1>5. Serves(gm, live)
  BY DEF Serving
<1> DEFINE k == [q \in DOMAIN live \ Range(array) |-> live[q]]
<1>6. gm' = internal_bulk_free(gm, array) /\ live' = k
  BY DEF BulkFree
<1>7. ServesOn(gm, live, internal_bulk_free(gm, array), k)
  BY <1>1, <1>4, <1>5, BulkServes
<1> HIDE DEF k
<1> QED
  BY ONLY <1>6, <1>7 DEF CallServed

LEMMA TrimStep ==
    ASSUME Serving, NEW pad \in Pads, Trim(pad), ReleasedAreLarge'
    PROVE  CallServed
<1>1. pad \in Nat /\ Serves(gm, live)
  BY ChunkAssumption DEF ChunkAssumption, Serving
<1>2. PICK unmaps \in Answers(gm) : gm' = sys_trim(gm, pad, unmaps)
  BY DEF Trim
<1>3. live' = live /\ is_initialized(gm)
  BY DEF Trim
<1>4. ServesOn(gm, live, sys_trim(gm, pad, unmaps), live)
  BY <1>1, <1>2, <1>3, TrimServes DEF ReleasedAreLarge
<1> QED
  BY ONLY <1>2, <1>3, <1>4 DEF CallServed

(* Each call leaves a sound heap, with the blocks that the program has.    *)
LEMMA NextServes ==
    ASSUME Serving, ShareCoversFoot, ReleasedAreLarge', [Next]_vars
    PROVE  CallServed
<1>1. ASSUME NEW nb \in Requests, Malloc(nb) PROVE CallServed
  BY <1>1, MallocStep
<1>2. ASSUME NEW nb \in Requests, NEW al \in Alignments, Memalign(al, nb) PROVE CallServed
  BY <1>2, MemalignStep
<1>3. ASSUME NEW nb \in Requests, NEW p \in DOMAIN live,
             ReallocInPlace(p, nb) \/ ReallocMoves(p, nb)
      PROVE  CallServed
  BY <1>3, ReallocStep
<1>4. ASSUME NEW p \in DOMAIN live, Free(p) PROVE CallServed
  BY <1>4, FreeStep
<1>5. ASSUME NEW sizes \in UNION {[1 .. n -> Requests] : n \in 1 .. MaxLive}, NEW given \in BOOLEAN,
             IndependentAlloc(sizes, given)
      PROVE  CallServed
  BY <1>5, PartsStep
<1>6. ASSUME NEW array \in Arrays(DOMAIN live, MaxArray), BulkFree(array) PROVE CallServed
  BY <1>6, BulkStep
<1>7. ASSUME NEW pad \in Pads, Trim(pad) PROVE CallServed
  BY <1>7, TrimStep
<1>8. CASE UNCHANGED vars
  <2>1. gm' = gm /\ live' = live
    BY <1>8 DEF vars
  <2>2. Serves(gm, live)
    BY DEF Serving
  <2> QED
    BY <2>1, <2>2, StillServes DEF CallServed
<1> QED
  BY <1>1, <1>2, <1>3, <1>4, <1>5, <1>6, <1>7, <1>8 DEF Next

LEMMA ServingInvariant == Spec /\ []ShareCoversFoot /\ []ReleasedAreLarge => []Serving
<1>1. Init => Serving
  BY InitServes
<1>2. Serving /\ ShareCoversFoot /\ ReleasedAreLarge' /\ [Next]_vars => Serving'
  <2> SUFFICES ASSUME Serving, ShareCoversFoot, ReleasedAreLarge', [Next]_vars PROVE Serving'
    OBVIOUS
  <2>1. CallServed
    BY NextServes
  <2> QED
    BY <2>1 DEF CallServed, ServesOn, Serving
<1> QED
  BY <1>1, <1>2, PTL DEF Spec

-----------------------------------------------------------------------------
(* The properties.                                                         *)

LEMMA RecordsSame ==
    ASSUME NEW m \in State
    PROVE  RecordsOf(m) = {m.seg[k].record : k \in 2 .. Len(m.seg)}
<1>1. m.seg \in Seq(Segment)
  BY DEF State
<1>2. DOMAIN m.seg \ {1} = 2 .. Len(m.seg)
  BY <1>1
<1> QED
  BY <1>2 DEF RecordsOf

LEMMA ChunksAreCells ==
    ASSUME Serving
    PROVE  /\ gm \in State
           /\ IF is_initialized(gm) THEN Sound(gm) /\ Chunks = Cells(gm)
              ELSE Untouched(gm) /\ Chunks = {} /\ gm.seg = <<>> /\ Blocks(gm) = {}
           /\ Records = RecordsOf(gm)
<1>1. Ready(gm)
  BY DEF Serving, Serves
<1>2. CASE Untouched(gm)
  <2>1. gm \in State /\ gm.seg = <<>> /\ ~is_initialized(gm)
    BY <1>2 DEF Untouched, is_initialized
  <2>2. \A a \in Addr : gm.head[a].size = 0
    BY <1>2 DEF Untouched, NoHeader
  <2>3. Chunks = {}
    BY <2>2 DEF Chunks
  <2>4. Blocks(gm) = {}
    BY <1>2, UntouchedEmpty
  <2>5. Records = RecordsOf(gm)
    BY <2>1, RecordsSame DEF Records
  <2> QED
    BY <1>2, <2>1, <2>3, <2>4, <2>5
<1>3. CASE gm \in State /\ Sound(gm)
  <2>1. is_initialized(gm)
    BY <1>3 DEF Sound, is_initialized
  <2>2. Chunks = Cells(gm)
    BY <2>1 DEF Chunks, Cells, Foot, FootOf
  <2>3. Records = RecordsOf(gm)
    BY <1>3, RecordsSame DEF Records
  <2> QED
    BY <1>3, <2>1, <2>2, <2>3
<1> QED
  BY <1>1, <1>2, <1>3 DEF Ready

(* A chunk is in use, or free.                                             *)
LEMMA UsedCells ==
    ASSUME NEW m \in State, Sound(m), NEW a \in Cells(m)
    PROVE  is_inuse(m, a) <=> a \in InUse(m)
<1>1. m.head[a].cinuse \/ m.head[a].pinuse
  BY DEF Sound, Layout, Tagged
<1> QED
  BY <1>1 DEF is_inuse, InUse

LEMMA ServingTyped == Serving => TypeOK
<1> SUFFICES ASSUME Serving PROVE TypeOK
  OBVIOUS
<1>1. gm \in State
  BY ChunksAreCells
<1>2. DOMAIN live = Blocks(gm)
  BY DEF Serving, Serves
<1>3. DOMAIN live \subseteq Addr
  BY <1>2 DEF Blocks, InUse, Cells
<1> QED
  BY <1>1, <1>3 DEF TypeOK, State, Header, Segment

LEMMA ServingTiled == Serving => Tiled
<1> SUFFICES ASSUME Serving PROVE Tiled
  OBVIOUS
<1>1. CASE ~is_initialized(gm)
  <2>1. Chunks = {} /\ gm.seg = <<>>
    BY <1>1, ChunksAreCells
  <2> QED
    BY <2>1 DEF Tiled
<1>2. CASE is_initialized(gm)
  <2>1. gm \in State /\ Sound(gm) /\ Chunks = Cells(gm) /\ Records = RecordsOf(gm)
    BY <1>2, ChunksAreCells
  <2>2. Layout(gm)
    BY <2>1 DEF Sound
  <2>3. \A k \in DOMAIN gm.seg : gm.seg[k].base \in Chunks
    BY <2>1, <2>2 DEF Layout, BasesOf
  <2>4. ASSUME NEW a \in Chunks
        PROVE  \/ Following(a) \in Chunks
               \/ a = gm.top /\ Following(a) = Foot
               \/ a \in Records /\ gm.head[Following(a)] = Fencepost
    <3>1. Followed(gm, a)
      BY <2>1, <2>2 DEF Layout
    <3> QED
      BY <2>1, <3>1 DEF Followed, After, Following, Foot, FootOf
  <2>5. ASSUME NEW a \in Chunks
        PROVE  \/ \E k \in DOMAIN gm.seg : a = gm.seg[k].base
               \/ \E b \in Chunks : Following(b) = a
    <3>1. a \in BasesOf(gm) \/ \E b \in Cells(gm) : After(gm, b) = a
      BY <2>1, <2>2 DEF Layout
    <3> QED
      BY <2>1, <3>1 DEF BasesOf, After, Following
  <2> QED
    BY <2>3, <2>4, <2>5 DEF Tiled
<1> QED
  BY <1>1, <1>2

LEMMA ServingKeeps == Serving => NothingLost
<1> SUFFICES ASSUME Serving PROVE NothingLost
  OBVIOUS
<1>1. DOMAIN live = Blocks(gm)
  BY DEF Serving, Serves
<1>2. CASE ~is_initialized(gm)
  <2>1. Chunks = {} /\ Blocks(gm) = {} /\ gm.seg = <<>>
    BY <1>2, ChunksAreCells
  <2>2. Records = {}
    BY <2>1 DEF Records
  <2> QED
    BY <1>1, <2>1, <2>2 DEF NothingLost
<1>3. CASE is_initialized(gm)
  <2>1. gm \in State /\ Sound(gm) /\ Chunks = Cells(gm) /\ Records = RecordsOf(gm)
    BY <1>3, ChunksAreCells
  <2>2. RecordsOf(gm) \subseteq InUse(gm)
    BY <2>1, RecordsInUse
  <2>3. Chunks \ FreeChunks = InUse(gm)
    <3>1. \A a \in Cells(gm) : is_inuse(gm, a) <=> a \in InUse(gm)
      BY <2>1, UsedCells
    <3> QED
      BY <2>1, <3>1 DEF FreeChunks, InUse
  <2> QED
    BY <1>1, <2>1, <2>2, <2>3 DEF NothingLost, Blocks
<1> QED
  BY <1>2, <1>3

(* Memory is taken from the system if no free chunk serves the request.    *)
LEMMA NeedBeforeGrowth ==
    ASSUME Serving, gm'.footprint # gm.footprint, NEW nb \in Requests, Malloc(nb),
           NEW a \in FreeChunks, gm.head[a].size >= nb
    PROVE  a = gm.top /\ gm.head[a].size = nb
<1>1. nb \in Nat /\ nb >= MinChunk
  BY ChunkAssumption DEF ChunkAssumption
<1>2. PICK r \in dlmalloc(gm, nb) : gm' = r.m
  BY DEF Malloc
<1>3. a \in Chunks /\ ~is_inuse(gm, a)
  BY DEF FreeChunks
<1>4. gm \in State /\ Sound(gm) /\ Chunks = Cells(gm)
  BY <1>3, ChunksAreCells
<1> DEFINE f == FindMemory(gm, nb)
<1>5. Served(gm, nb, f)
  BY <1>1, <1>4, FindMemoryServes
<1>6. f.mem # Null => r = f
  BY <1>2 DEF dlmalloc
<1> HIDE DEF f
<1>7. f.mem # Null => r.m.footprint = gm.footprint
  BY <1>5, <1>6 DEF Served, Handed
<1>8. f.mem = Null
  BY <1>2, <1>7
<1>9. a \in Cells(gm) /\ ~gm.head[a].cinuse
  BY <1>3, <1>4 DEF is_inuse
<1> QED
  BY <1>5, <1>8, <1>9 DEF Served

LEMMA GrowthNeeded ==
    Serving => (gm'.footprint # gm.footprint =>
          \A nb \in Requests :
              (\E a \in FreeChunks :
                  gm.head[a].size >= nb /\ (a = gm.top => gm.head[a].size > nb))
              => ~Malloc(nb))
<1> SUFFICES ASSUME Serving, gm'.footprint # gm.footprint, NEW nb \in Requests, NEW a \in FreeChunks,
                    gm.head[a].size >= nb, a = gm.top => gm.head[a].size > nb, Malloc(nb)
             PROVE  FALSE
  OBVIOUS
<1>1. a = gm.top /\ gm.head[a].size = nb
  BY NeedBeforeGrowth
<1>2. nb \in Nat
  BY ChunkAssumption DEF ChunkAssumption
<1> QED
  BY <1>1, <1>2

(* What malloc does not serve it leaves alone.                             *)
LEMMA GrowthServed ==
    Serving /\ ShareCoversFoot =>
        (gm'.footprint # gm.footprint /\ live' = live => \A nb \in Requests : ~Malloc(nb))
<1> SUFFICES ASSUME Serving, ShareCoversFoot, gm'.footprint # gm.footprint, live' = live,
                    NEW nb \in Requests, Malloc(nb)
             PROVE  FALSE
  OBVIOUS
<1>1. nb \in Nat /\ nb >= MinChunk /\ Serves(gm, live) /\ (is_initialized(gm) => ShareCovers(gm))
  BY ChunkAssumption DEF ChunkAssumption, Serving, ShareCoversFoot
<1>2. PICK r \in dlmalloc(gm, nb) :
        gm' = r.m /\ live' = IF r.mem = Null THEN live ELSE Holding(r.mem, nb)
  BY DEF Malloc
<1>3. Ready(gm) /\ DOMAIN live = Blocks(gm)
  BY <1>1 DEF Serves
<1>4. Answered(gm, nb, r)
  BY ONLY <1>1, <1>3, DlmallocServes
<1>5. CASE r.mem = Null
  <2>1. gm' = gm
    BY <1>2, <1>4, <1>5 DEF Answered, AllocatedBy
  <2> QED
    BY <2>1
<1>6. CASE r.mem # Null
  <2>1. r.mem \notin DOMAIN live
    BY <1>3, <1>4, <1>6 DEF Answered, AllocatedBy, Allocated
  <2>2. r.mem \in DOMAIN live'
    BY <1>2, <1>6 DEF Holding
  <2> QED
    BY <2>1, <2>2
<1> QED
  BY <1>5, <1>6

-----------------------------------------------------------------------------
(* Sums of sizes are cardinalities.                                        *)

(* E gives each x of D a set of w[x] elements, each its own.               *)
Weighs(D, w, E) ==
    /\ IsFiniteSet(D)
    /\ \A x \in D : IsFiniteSet(E[x]) /\ Cardinality(E[x]) = w[x] /\ w[x] \in Nat
    /\ \A x, y \in D : x # y => E[x] \cap E[y] = {}

AllOf(E, s) == UNION {E[x] : x \in s}

(* What the fold over a set of weights is defined by.                      *)
SumsTo(D, w, g) ==
    g = [s \in SUBSET D |->
            IF s = {} THEN 0 ELSE LET x == CHOOSE y \in s : TRUE IN w[x] + g[s \ {x}]]

LEMMA AllAdd ==
    ASSUME NEW D, NEW w, NEW E, Weighs(D, w, E), IsFiniteSet(AllOf(E, D)),
           NEW s \in SUBSET D, NEW k \in s
    PROVE  Cardinality(AllOf(E, s)) = w[k] + Cardinality(AllOf(E, s \ {k}))
<1> DEFINE A == E[k]
           B == AllOf(E, s \ {k})
<1>1. k \in D /\ AllOf(E, s) = A \cup B
  BY DEF AllOf
<1>2. IsFiniteSet(A) /\ Cardinality(A) = w[k] /\ w[k] \in Nat
  BY <1>1 DEF Weighs
<1>3. B \in SUBSET AllOf(E, D)
  BY DEF AllOf
<1>4. A \cap B = {}
  BY <1>1 DEF AllOf, Weighs
<1> HIDE DEF A, B
<1>5. IsFiniteSet(B)
  BY <1>3, FS_Subset
<1>6. Cardinality(A \cup B) = Cardinality(A) + Cardinality(B) - Cardinality(A \cap B)
  BY <1>2, <1>5, FS_Union
<1>7. Cardinality(A \cap B) = 0 /\ Cardinality(B) \in Nat
  BY <1>4, <1>5, FS_EmptySet, FS_CardinalityType
<1>8. Cardinality(A \cup B) = w[k] + Cardinality(B)
  BY <1>2, <1>6, <1>7
<1> QED
  BY <1>1, <1>8 DEF B

LEMMA CardinalitySumsTo ==
    ASSUME NEW D, NEW w, NEW E, Weighs(D, w, E), IsFiniteSet(AllOf(E, D))
    PROVE  SumsTo(D, w, [s \in SUBSET D |-> Cardinality(AllOf(E, s))])
<1> DEFINE F == [s \in SUBSET D |-> Cardinality(AllOf(E, s))]
<1>1. ASSUME NEW s \in SUBSET D
      PROVE  F[s] = IF s = {} THEN 0
                    ELSE LET x == CHOOSE y \in s : TRUE IN w[x] + F[s \ {x}]
  <2>1. CASE s = {}
    <3>1. AllOf(E, s) = {}
      BY <2>1 DEF AllOf
    <3> QED
      BY <2>1, <3>1, FS_EmptySet
  <2>2. CASE s # {}
    <3> DEFINE x == CHOOSE y \in s : TRUE
    <3>1. x \in s
      BY <2>2
    <3> HIDE DEF x
    <3>2. Cardinality(AllOf(E, s)) = w[x] + Cardinality(AllOf(E, s \ {x}))
      BY <3>1, AllAdd
    <3>3. s \ {x} \in SUBSET D
      OBVIOUS
    <3>4. F[s] = w[x] + F[s \ {x}]
      BY <3>2, <3>3
    <3> HIDE DEF F
    <3> QED
      BY <2>2, <3>4 DEF x
  <2> QED
    BY <2>1, <2>2
<1>2. F = [s \in SUBSET D |-> F[s]]
  OBVIOUS
<1> HIDE DEF F
<1>3. F = [s \in SUBSET D |-> IF s = {} THEN 0
                              ELSE LET x == CHOOSE y \in s : TRUE IN w[x] + F[s \ {x}]]
  BY <1>1, <1>2
<1>4. SumsTo(D, w, F)
  BY <1>3 DEF SumsTo
<1> QED
  BY <1>4 DEF F

(* There is one such function.                                             *)
LEMMA SumsToOne ==
    ASSUME NEW D, IsFiniteSet(D), NEW w, NEW f, SumsTo(D, w, f), NEW g, SumsTo(D, w, g)
    PROVE  f[D] = g[D]
<1> DEFINE B == {s \in SUBSET D : f[s] # g[s]}
           C == {Cardinality(s) : s \in B}
<1>1. ASSUME NEW s \in SUBSET D, s # {}
      PROVE  LET x == CHOOSE y \in s : TRUE
             IN  f[s] = w[x] + f[s \ {x}] /\ g[s] = w[x] + g[s \ {x}]
  BY <1>1 DEF SumsTo
<1>2. \A s \in SUBSET D : s = {} => f[s] = 0 /\ g[s] = 0
  BY DEF SumsTo
<1>3. \A s \in SUBSET D : IsFiniteSet(s) /\ Cardinality(s) \in Nat
  BY FS_Subset, FS_CardinalityType
<1> SUFFICES ASSUME B # {} PROVE FALSE
  OBVIOUS
<1>4. C \in SUBSET Nat /\ C # {}
  BY <1>3
<1> HIDE DEF C
<1>5. Min(C) \in C /\ \A n \in C : Min(C) <= n
  BY <1>4, MinFacts
<1>6. PICK s \in B : Cardinality(s) = Min(C)
  BY <1>5 DEF C
<1>7. s \in SUBSET D /\ s # {} /\ f[s] # g[s]
  BY <1>2, <1>6
<1> DEFINE x == CHOOSE y \in s : TRUE
           t == s \ {x}
<1>8. x \in s
  BY <1>7
<1>9. f[s] = w[x] + f[t] /\ g[s] = w[x] + g[t]
  BY <1>1, <1>7
<1> HIDE DEF x
<1>10. t \in SUBSET D /\ Cardinality(t) = Cardinality(s) - 1
  BY <1>3, <1>7, <1>8, FS_RemoveElement
<1> HIDE DEF t
<1>11. f[t] # g[t]
  BY <1>7, <1>9
<1>12. Cardinality(t) \in C
  BY <1>10, <1>11 DEF C
<1>13. Cardinality(t) \in Nat /\ Cardinality(s) \in Nat
  BY <1>3, <1>7, <1>10
<1> QED
  BY ONLY <1>5, <1>6, <1>10, <1>12, <1>13

LEMMA WeightsSum ==
    ASSUME NEW D, NEW w, NEW E, Weighs(D, w, E), IsFiniteSet(AllOf(E, D)), NEW f, SumsTo(D, w, f)
    PROVE  f[D] = Cardinality(AllOf(E, D))
<1> DEFINE F == [s \in SUBSET D |-> Cardinality(AllOf(E, s))]
<1>1. SumsTo(D, w, F) /\ IsFiniteSet(D)
  BY CardinalitySumsTo DEF Weighs
<1>2. F[D] = Cardinality(AllOf(E, D))
  OBVIOUS
<1> HIDE DEF F
<1>3. f[D] = F[D]
  BY <1>1, SumsToOne
<1> QED
  BY <1>2, <1>3

-----------------------------------------------------------------------------
(* The footprint as a sum.                                                 *)

ExtentOf(m, k) == m.seg[k].base .. End(m.seg[k]) - 1

LEMMA ExtentFacts ==
    ASSUME NEW m \in State, Apart(m), NEW k \in DOMAIN m.seg
    PROVE  /\ ExtentOf(m, k) \subseteq 1 .. Space /\ IsFiniteSet(ExtentOf(m, k))
           /\ m.seg[k].size \in Nat /\ Cardinality(ExtentOf(m, k)) = m.seg[k].size
<1> DEFINE b == m.seg[k].base
           e == End(m.seg[k]) - 1
           z == m.seg[k].size
<1>1. b \in Int /\ b > 0 /\ z \in Nat /\ e = b + z - 1 /\ e < Space
  BY SegFacts, Sizes0 DEF Apart, End
<1>2. ExtentOf(m, k) = b .. e
  BY DEF ExtentOf
<1> HIDE DEF b, e, z
<1>3. e \in Int /\ Space \in Nat
  BY <1>1, Sizes0
<1>4. IsFiniteSet(b .. e) /\ Cardinality(b .. e) = IF b > e THEN 0 ELSE e - b + 1
  BY ONLY <1>1, <1>3, FS_Interval
<1>5. Cardinality(b .. e) = z
  BY ONLY <1>1, <1>3, <1>4
<1>6. b .. e \subseteq 1 .. Space
  BY ONLY <1>1, <1>3
<1> QED
  BY <1>1, <1>2, <1>4, <1>5, <1>6 DEF z

(* Segments lie apart: their sizes add up to what is mapped.               *)
LEMMA FootprintIsSum ==
    ASSUME NEW m \in State, Apart(m)
    PROVE  MapThenSumSet(LAMBDA k : m.seg[k].size, DOMAIN m.seg) = Cardinality(Mapped(m))
<1> DEFINE A == DOMAIN m.seg
           w == [k \in A |-> m.seg[k].size]
           E == [k \in A |-> ExtentOf(m, k)]
<1>1. Mapped(m) = AllOf(E, A)
  BY DEF Mapped, AllOf, ExtentOf
<1>2. ASSUME NEW k \in A
      PROVE  IsFiniteSet(E[k]) /\ Cardinality(E[k]) = w[k] /\ w[k] \in Nat
  BY ExtentFacts
<1>3. ASSUME NEW j \in A, NEW k \in A, j # k PROVE E[j] \cap E[k] = {}
  <2> SUFFICES ASSUME NEW x \in ExtentOf(m, j), x \in ExtentOf(m, k) PROVE FALSE
    OBVIOUS
  <2>1. End(m.seg[j]) <= m.seg[k].base \/ End(m.seg[k]) <= m.seg[j].base
    BY <1>3 DEF Apart
  <2>2. /\ m.seg[j].base \in Int /\ End(m.seg[j]) \in Int /\ m.seg[k].base \in Int /\ End(m.seg[k]) \in Int
    BY SegFacts
  <2>3. /\ m.seg[j].base <= x /\ x <= End(m.seg[j]) - 1 /\ m.seg[k].base <= x /\ x <= End(m.seg[k]) - 1
        /\ x \in Int
    BY <2>2 DEF ExtentOf
  <2> QED
    BY ONLY <2>1, <2>2, <2>3
<1>4. IsFiniteSet(A)
  <2>1. m.seg \in Seq(Segment)
    BY DEF State
  <2>2. A = 1 .. Len(m.seg) /\ Len(m.seg) \in Int
    BY <2>1
  <2>3. IsFiniteSet(1 .. Len(m.seg))
    BY <2>2, FS_Interval
  <2> QED
    BY <2>2, <2>3
<1>5. IsFiniteSet(AllOf(E, A))
  <2>1. ASSUME NEW x \in AllOf(E, A) PROVE x \in 1 .. Space
    <3>1. PICK k \in A : x \in ExtentOf(m, k)
      BY <2>1 DEF AllOf
    <3> QED
      BY <3>1, ExtentFacts
  <2>2. AllOf(E, A) \in SUBSET (1 .. Space)
    BY <2>1
  <2> QED
    BY <2>2, UpToSpace, FS_Subset
<1>6. Weighs(A, w, E)
  <2> HIDE DEF w, E
  <2> QED
    BY <1>2, <1>3, <1>4 DEF Weighs
<1> DEFINE Q(f) == f = [s \in SUBSET A |->
                          IF s = {} THEN 0
                          ELSE LET x == CHOOSE y \in s : TRUE IN m.seg[x].size + f[s \ {x}]]
<1>7. ASSUME NEW f PROVE Q(f) <=> SumsTo(A, w, f)
  <2>1. ASSUME NEW s \in SUBSET A, s # {}
        PROVE  LET x == CHOOSE y \in s : TRUE IN w[x] + f[s \ {x}] = m.seg[x].size + f[s \ {x}]
    <3> DEFINE x == CHOOSE y \in s : TRUE
    <3>1. x \in A
      BY <2>1
    <3> HIDE DEF x
    <3>2. w[x] = m.seg[x].size
      BY <3>1
    <3> HIDE DEF w
    <3> QED
      BY <3>2 DEF x
  <2> HIDE DEF w
  <2>2. [s \in SUBSET A |-> IF s = {} THEN 0
                            ELSE LET x == CHOOSE y \in s : TRUE IN m.seg[x].size + f[s \ {x}]]
      = [s \in SUBSET A |-> IF s = {} THEN 0
                            ELSE LET x == CHOOSE y \in s : TRUE IN w[x] + f[s \ {x}]]
    BY <2>1
  <2> QED
    BY <2>2 DEF SumsTo
<1> DEFINE g == CHOOSE f : Q(f)
<1>8. MapThenSumSet(LAMBDA k : m.seg[k].size, A) = g[A]
  BY DEF MapThenSumSet, MapThenFoldSet
<1> HIDE DEF w, E
<1>9. \E f : SumsTo(A, w, f)
  BY <1>5, <1>6, CardinalitySumsTo
<1> HIDE DEF Q
<1>10. SumsTo(A, w, g)
  BY <1>7, <1>9
<1> HIDE DEF g
<1>11. g[A] = Cardinality(AllOf(E, A))
  BY <1>5, <1>6, <1>10, WeightsSum
<1> QED
  BY <1>1, <1>8, <1>11

LEMMA ServingSegments == Serving => SegmentsKept
<1> SUFFICES ASSUME Serving PROVE SegmentsKept
  OBVIOUS
<1>1. gm \in State
  BY ChunksAreCells
<1>2. CASE ~is_initialized(gm)
  <2>1. Untouched(gm) /\ gm.seg = <<>>
    BY <1>2, ChunksAreCells
  <2>2. DOMAIN gm.seg = {}
    BY <2>1
  <2>3. Apart(gm) /\ Mapped(gm) = {}
    BY <2>2 DEF Apart, Mapped
  <2>4. MapThenSumSet(LAMBDA k : gm.seg[k].size, DOMAIN gm.seg) = Cardinality(Mapped(gm))
    BY <1>1, <2>3, FootprintIsSum
  <2>5. Cardinality(Mapped(gm)) = 0
    BY <2>3, FS_EmptySet
  <2>6. gm.footprint = 0
    BY <2>1 DEF Untouched
  <2>7. gm.footprint = MapThenSumSet(LAMBDA k : gm.seg[k].size, DOMAIN gm.seg)
    BY <2>4, <2>5, <2>6
  <2> QED
    BY <2>2, <2>7 DEF SegmentsKept
<1>3. CASE is_initialized(gm)
  <2>1. Sound(gm)
    BY <1>3, ChunksAreCells
  <2>2. SegmentLayout(gm) /\ Layout(gm)
    BY <2>1 DEF Sound
  <2>3. Apart(gm) /\ gm.footprint = Cardinality(Mapped(gm))
    BY <2>2 DEF SegmentLayout, Apart
  <2>4. MapThenSumSet(LAMBDA k : gm.seg[k].size, DOMAIN gm.seg) = Cardinality(Mapped(gm))
    BY <1>1, <2>3, FootprintIsSum
  <2>5. gm.footprint = MapThenSumSet(LAMBDA k : gm.seg[k].size, DOMAIN gm.seg)
    BY <2>3, <2>4
  <2>6. ASSUME NEW i \in DOMAIN gm.seg, NEW j \in DOMAIN gm.seg, i < j
        PROVE  End(gm.seg[i]) <= gm.seg[j].base \/ End(gm.seg[j]) <= gm.seg[i].base
    <3>1. i # j
      BY <1>1, <2>6, SegFacts
    <3> QED
      BY <2>3, <3>1 DEF Apart
  <2>7. /\ gm.top \in Cells(gm) /\ gm.topsize = gm.head[gm.top].size
        /\ segment_holds(gm.seg[1], gm.top) /\ FootOf(gm) + TopFoot = End(gm.seg[1])
    BY <2>2 DEF Layout, SegmentLayout
  <2>8. gm.topsize > 0 /\ gm.head[gm.top].size = gm.topsize
    BY <1>1, <2>7, CellFacts
  <2>9. Foot = End(gm.seg[1]) - TopFoot
    <3>1. FootOf(gm) \in Int
      BY <1>1, FootFacts
    <3> DEFINE e == End(gm.seg[1])
               f == FootOf(gm)
    <3>2. f + TopFoot = e /\ f \in Int /\ TopFoot \in Int /\ Foot = f
      BY <2>7, <3>1 DEF TopFoot, RecordSize, MinChunk, Foot, FootOf
    <3> HIDE DEF e, f
    <3>3. Foot = e - TopFoot
      BY <3>2
    <3> QED
      BY <3>3 DEF e
  <2>10. \A k \in DOMAIN gm.seg \ {1} : segment_holds(gm.seg[k], gm.seg[k].record)
    BY <2>2 DEF SegmentLayout
  <2> QED
    BY <2>5, <2>6, <2>7, <2>8, <2>9, <2>10 DEF SegmentsKept
<1> QED
  BY <1>2, <1>3

-----------------------------------------------------------------------------
(* The store of blocks.                                                    *)

Span(a, n) == a .. a + n - 1

LEMMA BlocksLieApart ==
    ASSUME NEW m, NEW l, Serves(m, l), NEW a \in DOMAIN l
    PROVE  /\ Span(a, m.head[a].size) \subseteq Mapped(m)
           /\ \A c \in DOMAIN l \ {a} : Span(a, m.head[a].size) \cap Span(c, m.head[c].size) = {}
<1>1. /\ m \in State /\ Sound(m)
      /\ \A c \in DOMAIN l : c \in Cells(m)
  <2>1. m \in State /\ Sound(m)
    BY ServesSound
  <2>2. \A c \in DOMAIN l : c \in Cells(m)
    BY DEF Serves, Blocks, InUse
  <2> QED
    BY <2>1, <2>2
<1>2. Layout(m) /\ SegmentLayout(m)
  BY <1>1 DEF Sound
<1>3. \A c \in DOMAIN l : c \in Int /\ c \in Addr /\ m.head[c].size \in Nat /\ m.head[c] # NoHeader
  BY <1>1, CellFacts
<1>4. Span(a, m.head[a].size) \subseteq Mapped(m)
  <2>1. PICK k \in DOMAIN m.seg : segment_holds(m.seg[k], a)
    BY <1>2, <1>3 DEF SegmentLayout
  <2>2. After(m, a) < End(m.seg[k])
    BY <1>1, <1>2, <2>1 DEF SegmentLayout
  <2>3. m.seg[k].base \in Int /\ End(m.seg[k]) \in Int /\ m.seg[k].base <= a
    BY <1>1, <2>1, SegFacts DEF segment_holds
  <2>4. After(m, a) = a + m.head[a].size
    BY DEF After
  <2>5. Span(a, m.head[a].size) \subseteq m.seg[k].base .. End(m.seg[k]) - 1
    BY <1>3, <2>2, <2>3, <2>4 DEF Span
  <2> QED
    BY <2>5 DEF Mapped
<1>5. ASSUME NEW c \in DOMAIN l, NEW d \in DOMAIN l, c < d, NEW x \in Span(c, m.head[c].size),
             x \in Span(d, m.head[d].size)
      PROVE  FALSE
  <2>1. After(m, c) <= d
    BY <1>1, <1>2, <1>3, <1>5 DEF Layout
  <2>2. After(m, c) = c + m.head[c].size
    BY DEF After
  <2> QED
    BY <1>3, <1>5, <2>1, <2>2 DEF Span
<1>6. ASSUME NEW c \in DOMAIN l \ {a}
      PROVE  Span(a, m.head[a].size) \cap Span(c, m.head[c].size) = {}
  <2>1. a < c \/ c < a
    BY <1>3
  <2> QED
    BY <1>5, <2>1
<1> QED
  BY <1>4, <1>6

BlocksOf(m, l) == [p \in DOMAIN l |-> [size |-> m.head[p].size, asked |-> l[p]]]

(* Blocks b are now c, of which those at S have not moved: the others fit  *)
(* between them.                                                           *)
Stayed(b, c, S) == S \subseteq DOMAIN c /\ \A a \in S : c[a] = b[a]
Fitting(a, b, S, c) ==
    /\ b.asked <= b.size /\ b.size <= b.asked + MinChunk
    /\ \A d \in S : Span(a, b.size) \cap Span(d, c[d].size) = {}

LEMMA ServedBlocks ==
    ASSUME NEW m, NEW l, NEW m2, NEW l2, Serves(m2, l2), NEW S, S \subseteq DOMAIN l,
           S \subseteq DOMAIN l2, SameAt(m, l, m2, l2, S),
           NEW b, b = BlocksOf(m, l), NEW c, c = BlocksOf(m2, l2)
    PROVE  /\ Stayed(b, c, S)
           /\ \A a \in DOMAIN c \ S : Fitting(a, c[a], S, b)
           /\ \A a \in DOMAIN c : \A d \in DOMAIN c \ {a} : Span(a, c[a].size) \cap Span(d, c[d].size) = {}
           /\ \A a \in DOMAIN c : Span(a, c[a].size) \subseteq Mapped(m2)
<1>1. /\ DOMAIN b = DOMAIN l /\ DOMAIN c = DOMAIN l2
      /\ \A a \in DOMAIN b : b[a].size = m.head[a].size /\ b[a].asked = l[a]
      /\ \A a \in DOMAIN c : c[a].size = m2.head[a].size /\ c[a].asked = l2[a]
  BY DEF BlocksOf
<1>2. \A a \in S : c[a] = b[a]
  BY DEF BlocksOf, SameAt
<1>3. \A a \in DOMAIN c : Span(a, c[a].size) \subseteq Mapped(m2)
  BY <1>1, BlocksLieApart
<1>4. \A a \in DOMAIN c : \A d \in DOMAIN c \ {a} : Span(a, c[a].size) \cap Span(d, c[d].size) = {}
  BY <1>1, BlocksLieApart
<1>5. \A a \in DOMAIN c : c[a].asked <= c[a].size /\ c[a].size <= c[a].asked + MinChunk
  BY <1>1 DEF Serves
<1>6. ASSUME NEW a \in DOMAIN c \ S PROVE Fitting(a, c[a], S, b)
  BY <1>1, <1>2, <1>4, <1>5 DEF Fitting
<1> QED
  BY <1>1, <1>2, <1>3, <1>4, <1>6 DEF Stayed

(* The actions of BlockStore, of blocks b that become c.                   *)
AllocatesTo(b, c) ==
    LET new == DOMAIN c \ DOMAIN b IN
    /\ new # {}
    /\ Stayed(b, c, DOMAIN b)
    /\ \A a \in new :
          /\ Fitting(a, c[a], DOMAIN b, b)
          /\ \A d \in new \ {a} : Span(a, c[a].size) \cap Span(d, c[d].size) = {}
ReleasesTo(b, c) == DOMAIN c # DOMAIN b /\ DOMAIN c \subseteq DOMAIN b /\ Stayed(b, c, DOMAIN c)
ResizesTo(b, c) ==
    \E a \in DOMAIN b, d \in DOMAIN c :
        /\ DOMAIN c = (DOMAIN b \ {a}) \cup {d}
        /\ Stayed(b, c, DOMAIN b \ {a})
        /\ Fitting(d, c[d], DOMAIN b \ {a}, b)

LEMMA StepsStored ==
    ASSUME NEW m, NEW l, NEW m2, NEW l2, ServesOn(m, l, m2, l2),
           NEW b, b = BlocksOf(m, l), NEW c, c = BlocksOf(m2, l2)
    PROVE  /\ AllocatesTo(b, c) \/ ReleasesTo(b, c) \/ ResizesTo(b, c) \/ c = b
           /\ \A a \in DOMAIN c : Span(a, c[a].size) \subseteq Mapped(m2)
<1>1. DOMAIN b = DOMAIN l /\ DOMAIN c = DOMAIN l2
  BY DEF BlocksOf
<1>2. Serves(m2, l2)
  BY DEF ServesOn
<1>3. ASSUME Adds(m, l, m2, l2) PROVE AllocatesTo(b, c)
  <2>1. DOMAIN l \subseteq DOMAIN l2 /\ DOMAIN l2 # DOMAIN l /\ SameAt(m, l, m2, l2, DOMAIN l)
    BY <1>3 DEF Adds
  <2>2. /\ Stayed(b, c, DOMAIN l)
        /\ \A a \in DOMAIN c \ DOMAIN l : Fitting(a, c[a], DOMAIN l, b)
        /\ \A a \in DOMAIN c : \A d \in DOMAIN c \ {a} : Span(a, c[a].size) \cap Span(d, c[d].size) = {}
    BY <1>2, <2>1, ServedBlocks
  <2>3. DOMAIN c \ DOMAIN b # {} /\ Stayed(b, c, DOMAIN b)
    BY <1>1, <2>1, <2>2
  <2>4. \A a \in DOMAIN c \ DOMAIN b : Fitting(a, c[a], DOMAIN b, b)
    BY <1>1, <2>2
  <2> QED
    BY ONLY <2>2, <2>3, <2>4 DEF AllocatesTo
<1>4. ASSUME Drops(m, l, m2, l2) PROVE ReleasesTo(b, c)
  <2>1. DOMAIN l2 \subseteq DOMAIN l /\ DOMAIN l2 # DOMAIN l /\ SameAt(m, l, m2, l2, DOMAIN l2)
    BY <1>4 DEF Drops
  <2>2. Stayed(b, c, DOMAIN l2)
    BY <1>2, <2>1, ServedBlocks
  <2>3. Stayed(b, c, DOMAIN c)
    BY <1>1, <2>2
  <2> QED
    BY <1>1, <2>1, <2>3 DEF ReleasesTo
<1>5. ASSUME Replaces(m, l, m2, l2) PROVE ResizesTo(b, c)
  <2>1. PICK a \in DOMAIN l, d \in DOMAIN l2 :
          /\ d \notin DOMAIN l \ {a} /\ DOMAIN l2 = (DOMAIN l \ {a}) \cup {d}
          /\ SameAt(m, l, m2, l2, DOMAIN l \ {a})
    BY <1>5 DEF Replaces
  <2> DEFINE S == DOMAIN l \ {a}
  <2>2. S \subseteq DOMAIN l /\ S \subseteq DOMAIN l2 /\ SameAt(m, l, m2, l2, S)
    BY <2>1
  <2> HIDE DEF S
  <2>3. Stayed(b, c, S) /\ \A x \in DOMAIN c \ S : Fitting(x, c[x], S, b)
    BY <1>2, <2>2, ServedBlocks
  <2>4. Fitting(d, c[d], S, b)
    BY <1>1, <2>1, <2>3 DEF S
  <2>5. S = DOMAIN b \ {a}
    BY <1>1 DEF S
  <2>6. /\ a \in DOMAIN b /\ d \in DOMAIN c /\ DOMAIN c = (DOMAIN b \ {a}) \cup {d}
        /\ Stayed(b, c, DOMAIN b \ {a}) /\ Fitting(d, c[d], DOMAIN b \ {a}, b)
    BY <1>1, <2>1, <2>3, <2>4, <2>5
  <2> QED
    BY ONLY <2>6 DEF ResizesTo
<1>6. ASSUME Leaves(m, l, m2, l2) PROVE c = b
  BY <1>6 DEF Leaves, SameAt, BlocksOf
<1>7. \A a \in DOMAIN c : Span(a, c[a].size) \subseteq Mapped(m2)
  <2>1. {} \subseteq DOMAIN l /\ {} \subseteq DOMAIN l2 /\ SameAt(m, l, m2, l2, {})
    BY DEF SameAt
  <2> QED
    BY <1>2, <2>1, ServedBlocks
<1> QED
  BY <1>3, <1>4, <1>5, <1>6, <1>7 DEF ServesOn, Steps

LEMMA InitStored == Init => Store!Init
<1> SUFFICES ASSUME Init PROVE Store!Init
  OBVIOUS
<1>1. live = <<>> /\ gm.seg = <<>>
  BY DEF Init
<1>2. DOMAIN live = {} /\ DOMAIN gm.seg = {}
  BY <1>1
<1>3. [p \in DOMAIN live |-> [size |-> gm.head[p].size, asked |-> live[p]]] = <<>>
  BY <1>2
<1> QED
  BY <1>2, <1>3 DEF Store!Init

LEMMA CallStored ==
    ASSUME CallServed
    PROVE  Store!Next
<1> DEFINE b == BlocksOf(gm, live)
           c == BlocksOf(gm', live')
<1>1. /\ AllocatesTo(b, c) \/ ReleasesTo(b, c) \/ ResizesTo(b, c) \/ c = b
      /\ \A a \in DOMAIN c : Span(a, c[a].size) \subseteq Mapped(gm')
  BY StepsStored DEF CallServed
<1>2. AllocatesTo(b, c) => Store!Allocate
  BY DEF AllocatesTo, Fitting, Stayed, Span, BlocksOf, Store!Allocate, Store!FitsAt, Store!Stay, Store!Extent
<1>3. ReleasesTo(b, c) => Store!Release
  BY DEF ReleasesTo, Stayed, BlocksOf, Store!Release, Store!Stay
<1>4. ResizesTo(b, c) => Store!Resize
  BY DEF ResizesTo, Fitting, Stayed, Span, BlocksOf, Store!Resize, Store!FitsAt, Store!Stay, Store!Extent
<1>5. c = b => Store!Map
  BY DEF BlocksOf, Store!Map
<1> QED
  BY <1>1, <1>2, <1>3, <1>4, <1>5 DEF Store!Next, Store!Extent, Span, Mapped, BlocksOf

-----------------------------------------------------------------------------
(* The checks of a build with DEBUG.                                       *)

(* A free chunk other than top lies between chunks in use, and the next    *)
(* one knows it.                                                           *)
LEMMA FreeBetween ==
    ASSUME NEW m \in State, Sound(m), NEW a \in Cells(m), ~m.head[a].cinuse, a # m.top
    PROVE  /\ After(m, a) \in InUse(m) /\ m.head[After(m, a)].pinuse = FALSE
           /\ m.head[After(m, a)].prev_foot = m.head[a].size
           /\ m.head[a].pinuse /\ m.head[a].size >= MinChunk
<1>1. Layout(m)
  BY DEF Sound
<1>2. a \notin RecordsOf(m)
  BY <1>1 DEF Layout
<1>3. After(m, a) \in Cells(m) /\ Tagged(m, a) /\ m.head[a].size >= MinChunk
  BY <1>1, <1>2 DEF Layout, Followed
<1>4. m.head[After(m, a)].pinuse = m.head[a].cinuse
  BY <1>3 DEF Tagged
<1>5. m.head[a].cinuse = FALSE
  BY CellFacts
<1>6. Tagged(m, After(m, a))
  BY <1>1, <1>3 DEF Layout
<1>7. m.head[After(m, a)].cinuse
  BY <1>4, <1>5, <1>6 DEF Tagged
<1> QED
  BY <1>3, <1>4, <1>5, <1>7 DEF Tagged, InUse

(* What lies before a chunk that is told so is free.                       *)
LEMMA FreeIsBefore ==
    ASSUME NEW m \in State, Sound(m), NEW a \in Cells(m), ~m.head[a].pinuse
    PROVE  \E b \in Cells(m) : After(m, b) = a /\ b # m.top /\ m.head[a].prev_foot = m.head[b].size
<1>1. Layout(m)
  BY DEF Sound
<1>2. a \notin BasesOf(m)
  BY <1>1 DEF Layout
<1>3. PICK b \in Cells(m) : After(m, b) = a
  BY <1>1, <1>2 DEF Layout
<1>4. b # m.top
  <2>1. a # FootOf(m)
    BY DEF Cells
  <2> QED
    BY <1>1, <1>3, <2>1 DEF Layout, Followed
<1>5. Tagged(m, b)
  BY <1>1 DEF Layout
<1> QED
  BY <1>3, <1>4, <1>5 DEF Tagged

LEMMA InUseChecked ==
    ASSUME NEW m \in State, Sound(m), NEW a \in InUse(m)
    PROVE  do_check_inuse_chunk(m, a)
<1>1. a \in Cells(m) /\ m.head[a].cinuse
  BY DEF InUse
<1>2. Tagged(m, a)
  BY <1>1 DEF Sound, Layout
<1>3. is_inuse(m, a) /\ next_pinuse(m, a)
  BY <1>1, <1>2 DEF Tagged, is_inuse, next_pinuse, After
<1>4. CASE m.head[a].pinuse
  BY <1>3, <1>4 DEF do_check_inuse_chunk
<1>5. CASE ~m.head[a].pinuse
  <2>1. PICK b \in Cells(m) : After(m, b) = a /\ m.head[a].prev_foot = m.head[b].size
    BY <1>1, <1>5, FreeIsBefore
  <2> DEFINE f == m.head[a].prev_foot
  <2>2. b \in Int /\ f \in Int /\ a = b + f /\ m.head[b].size = f
    BY <2>1, CellFacts DEF After
  <2> HIDE DEF f
  <2>3. a - f = b
    BY <2>2
  <2>4. m.head[a - f].size = f
    BY <2>2, <2>3
  <2> QED
    BY <1>3, <2>4 DEF do_check_inuse_chunk, f
<1> QED
  BY <1>4, <1>5

LEMMA FreeChecked ==
    ASSUME NEW m \in State, Sound(m), NEW a \in Cells(m), ~m.head[a].cinuse, a # m.top
    PROVE  do_check_free_chunk(m, a)
<1>1. /\ After(m, a) \in InUse(m) /\ m.head[After(m, a)].pinuse = FALSE
      /\ m.head[After(m, a)].prev_foot = m.head[a].size
      /\ m.head[a].pinuse /\ m.head[a].size >= MinChunk
  BY FreeBetween
<1>2. ~is_inuse(m, a)
  BY <1>1 DEF is_inuse
<1>3. is_inuse(m, After(m, a))
  BY <1>1 DEF is_inuse, InUse
<1> QED
  BY <1>1, <1>2, <1>3 DEF do_check_free_chunk, next_pinuse, After

(* A bin holds just the chunks that belong in one.                         *)
LEMMA FoundInBin ==
    ASSUME NEW m \in State, Sound(m), NEW a \in Cells(m)
    PROVE  bin_find(m, a) <=> a \in Binnable(m)
<1> DEFINE s == m.head[a].size
<1>1. s \in Size
  BY CellFacts DEF Header
<1>2. Range(m.bin[s]) = {b \in Binnable(m) : m.head[b].size = s}
  BY <1>1 DEF Sound, Filed
<1>3. bin_find(m, a) <=> a \in Range(m.bin[s])
  BY DEF bin_find, Range
<1> QED
  BY <1>2, <1>3

LEMMA BinChecked ==
    ASSUME NEW m \in State, Sound(m), NEW s \in Size
    PROVE  do_check_bin(m, s)
<1>1. IsInjective(m.bin[s])
  BY DEF Sound, Filed, NoRepeats
<1>2. Range(m.bin[s]) = {b \in Binnable(m) : m.head[b].size = s}
  BY DEF Sound, Filed
<1>3. ASSUME NEW i \in DOMAIN m.bin[s]
      PROVE  LET p == m.bin[s][i] IN
             /\ m.head[p].size = s /\ do_check_free_chunk(m, p)
             /\ m.head[p + s] # Fencepost => do_check_inuse_chunk(m, p + s)
  <2> DEFINE p == m.bin[s][i]
  <2>1. p \in Range(m.bin[s])
    BY DEF Range
  <2> HIDE DEF p
  <2>2. p \in Binnable(m) /\ m.head[p].size = s
    BY <1>2, <2>1
  <2>3. p \in Cells(m) /\ ~m.head[p].cinuse /\ p # m.top
    BY <2>2 DEF Binnable
  <2>4. do_check_free_chunk(m, p)
    BY <2>3, FreeChecked
  <2>5. p + s \in InUse(m)
    BY <2>2, <2>3, FreeBetween DEF After
  <2>6. do_check_inuse_chunk(m, p + s)
    BY <2>5, InUseChecked
  <2> QED
    BY <2>2, <2>4, <2>6 DEF p
<1> QED
  BY <1>1, <1>3 DEF do_check_bin

LEMMA TopChecked ==
    ASSUME NEW m \in State, Sound(m)
    PROVE  do_check_top_chunk(m, m.top) /\ ~bin_find(m, m.top)
<1>1. Layout(m) /\ SegmentLayout(m)
  BY DEF Sound
<1>2. /\ m.top \in Cells(m) /\ ~m.head[m.top].cinuse /\ m.topsize = m.head[m.top].size
      /\ segment_holds(m.seg[1], m.top) /\ FootOf(m) + TopFoot = End(m.seg[1])
  BY <1>1 DEF Layout, SegmentLayout
<1>3. 1 \in DOMAIN m.seg
  <2>1. m.seg \in Seq(Segment) /\ m.seg # <<>>
    BY <1>1 DEF State, SegmentLayout
  <2> QED
    BY <2>1
<1>4. SegmentOf(m, m.top) = 1
  <2>1. ASSUME NEW k \in DOMAIN m.seg, segment_holds(m.seg[k], m.top) PROVE k = 1
    <3> SUFFICES ASSUME k # 1 PROVE FALSE
      OBVIOUS
    <3>1. End(m.seg[1]) <= m.seg[k].base \/ End(m.seg[k]) <= m.seg[1].base
      BY <1>1, <1>3 DEF SegmentLayout
    <3>2. /\ m.seg[1].base <= m.top /\ m.top < End(m.seg[1])
          /\ m.seg[k].base <= m.top /\ m.top < End(m.seg[k])
      BY <1>2, <2>1 DEF segment_holds, End
    <3>3. /\ m.seg[1].base \in Int /\ End(m.seg[1]) \in Int /\ m.seg[k].base \in Int /\ End(m.seg[k]) \in Int
          /\ m.top \in Int
      BY <1>3, SegFacts, FootFacts
    <3> QED
      BY ONLY <3>1, <3>2, <3>3
  <2> QED
    BY <1>2, <1>3, <2>1 DEF SegmentOf
<1> DEFINE b == m.seg[1].base
           z == m.seg[1].size
           t == TopFoot
<1>5. /\ m.top \in Nat /\ m.topsize \in Nat /\ b \in Nat /\ z \in Nat /\ t \in Nat
      /\ (m.top + m.topsize) + t = b + z
  BY <1>2, <1>3, FootFacts, SegFacts DEF FootOf, End, TopFoot, RecordSize, MinChunk
<1>6. m.topsize = b + z - m.top - t
  <2> HIDE DEF b, z, t
  <2> QED
    BY ONLY <1>5
<1>7. m.topsize > 0
  BY <1>2, CellFacts
<1>8. Tagged(m, m.top) /\ After(m, m.top) = m.top + m.topsize
  BY <1>1, <1>2 DEF Layout, After
<1>9. m.head[m.top].pinuse /\ ~m.head[m.top + m.topsize].pinuse
  BY <1>2, <1>8 DEF Tagged
<1>10. do_check_top_chunk(m, m.top)
  BY <1>2, <1>4, <1>6, <1>7, <1>9 DEF do_check_top_chunk
<1>11. ~bin_find(m, m.top)
  BY <1>2, FoundInBin DEF Binnable
<1> QED
  BY <1>10, <1>11

LEMMA VictimChecked ==
    ASSUME NEW m \in State, Sound(m), m.dvsize # 0
    PROVE  m.dvsize = m.head[m.dv].size /\ m.dvsize >= MinChunk /\ ~bin_find(m, m.dv)
<1>1. m.dv \in Cells(m) /\ ~m.head[m.dv].cinuse /\ m.dv # m.top /\ m.dvsize = m.head[m.dv].size
  BY DEF Sound, Filed, Victim
<1>2. m.head[m.dv].size >= MinChunk
  BY <1>1, FreeBetween
<1>3. ~bin_find(m, m.dv)
  BY <1>1, FoundInBin DEF Binnable
<1> QED
  BY <1>1, <1>2, <1>3

-----------------------------------------------------------------------------
(* The walk over the segments.                                             *)

LEMMA HeldOnce ==
    ASSUME NEW m \in State, SegmentLayout(m), NEW j \in DOMAIN m.seg, NEW k \in DOMAIN m.seg,
           NEW a \in Int, segment_holds(m.seg[j], a), segment_holds(m.seg[k], a)
    PROVE  j = k
<1> SUFFICES ASSUME j # k PROVE FALSE
  OBVIOUS
<1>1. End(m.seg[j]) <= m.seg[k].base \/ End(m.seg[k]) <= m.seg[j].base
  BY DEF SegmentLayout
<1>2. m.seg[j].base <= a /\ a < End(m.seg[j]) /\ m.seg[k].base <= a /\ a < End(m.seg[k])
  BY DEF segment_holds, End
<1>3. /\ m.seg[j].base \in Int /\ End(m.seg[j]) \in Int /\ m.seg[k].base \in Int /\ End(m.seg[k]) \in Int
  BY SegFacts
<1> QED
  BY ONLY <1>1, <1>2, <1>3

(* The chunks of segment k from q on, but for top.                         *)
RestOf(m, k, q) == {a \in Cells(m) \ {m.top} : q <= a /\ segment_holds(m.seg[k], a)}

Stops(m, k, q) == ~segment_holds(m.seg[k], q) \/ q = m.top \/ m.head[q] = Fencepost

LEMMA RestFacts ==
    ASSUME NEW m \in State, Sound(m), NEW k \in DOMAIN m.seg, NEW q \in Cells(m),
           segment_holds(m.seg[k], q)
    PROVE  /\ q = m.top => RestOf(m, k, q) = {}
           /\ q # m.top => After(m, q) \in Addr
           /\ q # m.top /\ Stops(m, k, After(m, q)) => RestOf(m, k, q) = {q}
           /\ q # m.top /\ ~Stops(m, k, After(m, q)) =>
                 /\ After(m, q) \in Cells(m) /\ segment_holds(m.seg[k], After(m, q))
                 /\ RestOf(m, k, q) = {q} \cup RestOf(m, k, After(m, q))
<1> DEFINE z == After(m, q)
<1>1. Layout(m) /\ SegmentLayout(m)
  BY DEF Sound
<1>2. /\ q \in Int /\ z \in Int /\ q < z /\ z \in Addr /\ Followed(m, q)
      /\ \A a \in Cells(m) : a \in Int /\ a \in Addr /\ m.head[a] # NoHeader
  <2>1. z \in Addr /\ Followed(m, q)
    BY <1>1 DEF Layout
  <2>2. q \in Int /\ z \in Int /\ q < z
    BY CellFacts DEF After
  <2> QED
    BY <2>1, <2>2, CellFacts
<1>3. \A a \in Cells(m) : q < a => z <= a
  BY <1>1, <1>2 DEF Layout
<1>4. \A a \in Cells(m) : segment_holds(m.seg[k], a) => a <= IF k = 1 THEN m.top ELSE m.seg[k].record
  BY <1>1 DEF SegmentLayout
<1>5. z < End(m.seg[k])
  BY <1>1 DEF SegmentLayout
<1>6. segment_holds(m.seg[k], z)
  <2>1. m.seg[k].base \in Int /\ m.seg[k].base <= q
    BY SegFacts DEF segment_holds
  <2>2. m.seg[k].base <= z
    BY ONLY <1>2, <2>1
  <2> QED
    BY <1>5, <2>2 DEF segment_holds, End
<1>7. m.top \in Cells(m) /\ segment_holds(m.seg[1], m.top) /\ 1 \in DOMAIN m.seg
  <2>1. m.seg \in Seq(Segment) /\ m.seg # <<>>
    BY <1>1 DEF State, SegmentLayout
  <2>2. 1 \in DOMAIN m.seg
    BY <2>1
  <2> QED
    BY <1>1, <2>2 DEF Layout, SegmentLayout
<1>8. segment_holds(m.seg[k], m.top) => k = 1
  BY <1>1, <1>2, <1>7, HeldOnce
<1> HIDE DEF z
<1>9. ASSUME segment_holds(m.seg[k], m.top), NEW a \in Cells(m), segment_holds(m.seg[k], a), a # m.top
      PROVE  a < m.top
  <2>1. a <= m.top
    BY <1>4, <1>8, <1>9
  <2>2. a \in Int /\ m.top \in Int
    BY <1>2, <1>7
  <2> QED
    BY ONLY <1>9, <2>1, <2>2
<1>10. q = m.top => RestOf(m, k, q) = {}
  <2> SUFFICES ASSUME q = m.top, NEW a \in RestOf(m, k, q) PROVE FALSE
    OBVIOUS
  <2>1. a \in Cells(m) /\ a # m.top /\ q <= a /\ segment_holds(m.seg[k], a)
    BY DEF RestOf
  <2> QED
    BY <1>2, <1>9, <2>1
<1>11. ASSUME q # m.top, z = m.top PROVE RestOf(m, k, q) = {q}
  <2>1. ASSUME NEW a \in RestOf(m, k, q) PROVE a = q
    <3>1. a \in Cells(m) /\ a # m.top /\ q <= a /\ segment_holds(m.seg[k], a)
      BY <2>1 DEF RestOf
    <3>2. a < m.top
      BY <1>6, <1>9, <1>11, <3>1
    <3>3. q < a => m.top <= a
      BY <1>3, <1>11, <3>1
    <3>4. a \in Int /\ q \in Int /\ m.top \in Int
      BY <1>2, <1>7, <3>1
    <3> QED
      BY ONLY <3>1, <3>2, <3>3, <3>4
  <2>2. q \in RestOf(m, k, q)
    BY <1>2, <1>11 DEF RestOf
  <2> QED
    BY <2>1, <2>2
<1>12. ASSUME q # m.top, m.head[z] = Fencepost PROVE RestOf(m, k, q) = {q}
  <2>1. z \notin Cells(m)
    BY <1>12 DEF Cells, Fencepost
  <2>2. q \in RecordsOf(m)
    BY <1>2, <1>12, <2>1 DEF Followed, z
  <2>3. PICK j \in DOMAIN m.seg \ {1} : q = m.seg[j].record
    BY <2>2 DEF RecordsOf
  <2>4. segment_holds(m.seg[j], q)
    BY <1>1, <2>3 DEF SegmentLayout
  <2>5. j = k
    BY <1>1, <1>2, <2>3, <2>4, HeldOnce
  <2>6. ASSUME NEW a \in RestOf(m, k, q) PROVE a = q
    <3>1. a \in Cells(m) /\ q <= a /\ segment_holds(m.seg[k], a)
      BY <2>6 DEF RestOf
    <3>2. a <= q
      BY <1>4, <2>3, <2>5, <3>1
    <3>3. a \in Int /\ q \in Int
      BY <1>2, <3>1
    <3> QED
      BY ONLY <3>1, <3>2, <3>3
  <2>7. q \in RestOf(m, k, q)
    BY <1>2, <1>12 DEF RestOf
  <2> QED
    BY <2>6, <2>7
<1>13. ASSUME q # m.top, z # m.top, m.head[z] # Fencepost
       PROVE  z \in Cells(m) /\ RestOf(m, k, q) = {q} \cup RestOf(m, k, z)
  <2>1. z \in Cells(m)
    BY <1>2, <1>13 DEF Followed, z
  <2>2. \A a \in Cells(m) : q <= a <=> (a = q \/ z <= a)
    BY <1>2, <1>3
  <2> QED
    BY <1>13, <2>1, <2>2 DEF RestOf
<1>14. Stops(m, k, z) <=> z = m.top \/ m.head[z] = Fencepost
  BY <1>6 DEF Stops
<1> QED
  BY <1>2, <1>6, <1>10, <1>11, <1>12, <1>13, <1>14 DEF z

(* What the walk along segment k is defined by.                            *)
Walks(m, k, f) ==
    f = [q \in Addr |->
            IF ~segment_holds(m.seg[k], q) \/ q = m.top \/ m.head[q] = Fencepost THEN {}
            ELSE {q} \cup f[q + m.head[q].size]]

WalkBody(m, k, q) ==
    IF Stops(m, k, q) THEN {} ELSE IF q \in Cells(m) THEN RestOf(m, k, q) ELSE {q}

LEMMA SomeWalk ==
    ASSUME NEW m \in State, Sound(m), NEW k \in DOMAIN m.seg
    PROVE  \E f : Walks(m, k, f)
<1> DEFINE W == [q \in Addr |-> WalkBody(m, k, q)]
<1>1. Layout(m) /\ SegmentLayout(m)
  BY DEF Sound
<1>2. ASSUME NEW q \in Addr, ~Stops(m, k, q)
      PROVE  W[q] = {q} \cup W[q + m.head[q].size]
  <2>1. W[q] = WalkBody(m, k, q)
    OBVIOUS
  <2>2. CASE q \in Cells(m)
    <3>1. segment_holds(m.seg[k], q) /\ q # m.top
      BY <1>2 DEF Stops
    <3> DEFINE z == After(m, q)
    <3>2. z \in Addr /\ z = q + m.head[q].size
      BY <2>2, <3>1, RestFacts DEF After
    <3>3. W[z] = WalkBody(m, k, z)
      BY <3>2
    <3>4. W[q] = RestOf(m, k, q)
      BY <1>2, <2>1, <2>2 DEF WalkBody
    <3>5. RestOf(m, k, q) = {q} \cup WalkBody(m, k, z)
      <4>1. /\ Stops(m, k, z) => RestOf(m, k, q) = {q}
            /\ ~Stops(m, k, z) => z \in Cells(m) /\ RestOf(m, k, q) = {q} \cup RestOf(m, k, z)
        BY <2>2, <3>1, RestFacts
      <4> HIDE DEF z
      <4> QED
        BY <4>1 DEF WalkBody
    <3> HIDE DEF z, W
    <3> QED
      BY <3>2, <3>3, <3>4, <3>5
  <2>3. CASE q \notin Cells(m)
    <3>1. W[q] = {q}
      BY <1>2, <2>1, <2>3 DEF WalkBody
    <3>2. CASE m.head[q].size = 0
      <4>1. q + m.head[q].size = q
        BY <3>2 DEF Addr
      <4> HIDE DEF W
      <4> QED
        BY <3>1, <4>1
    <3>3. CASE m.head[q].size > 0
      <4>1. q = FootOf(m)
        BY <2>3, <3>3 DEF Cells
      <4>2. m.head[q].size = TopFoot /\ q + TopFoot = End(m.seg[1]) /\ End(m.seg[1]) <= Space
            /\ 1 \in DOMAIN m.seg /\ segment_holds(m.seg[1], m.top) /\ m.top \in Cells(m)
        <5>1. m.seg \in Seq(Segment) /\ m.seg # <<>>
          BY <1>1 DEF State, SegmentLayout
        <5>2. 1 \in DOMAIN m.seg
          BY <5>1
        <5> QED
          BY <1>1, <4>1, <5>2 DEF Layout, SegmentLayout
      <4> DEFINE e == End(m.seg[1])
      <4>3. e \in Nat /\ e <= Space /\ q \in Nat /\ q > 0 /\ q + TopFoot = e /\ q < e
        BY <4>2, SegFacts, Sizes0 DEF Addr, TopFoot, RecordSize, MinChunk
      <4>4. segment_holds(m.seg[1], q)
        <5>1. m.seg[1].base <= m.top /\ m.top <= q /\ m.seg[1].base \in Nat /\ m.top \in Nat
          BY <4>1, <4>2, SegFacts, FootFacts DEF segment_holds, FootOf
        <5>2. m.seg[1].base <= q
          BY <4>3, <5>1
        <5> QED
          BY <4>3, <5>2 DEF segment_holds, End
      <4>5. k = 1
        BY <1>1, <1>2, <4>2, <4>3, <4>4, HeldOnce DEF Stops
      <4> HIDE DEF e
      <4>6. e \in Addr /\ q + m.head[q].size = e
        BY <4>2, <4>3 DEF Addr
      <4>7. Stops(m, k, e)
        <5>1. ~segment_holds(m.seg[1], e)
          BY <4>3 DEF segment_holds, End, e
        <5> QED
          BY <4>5, <5>1 DEF Stops
      <4>8. W[e] = {}
        BY <4>6, <4>7 DEF WalkBody
      <4> HIDE DEF W
      <4> QED
        BY <3>1, <4>6, <4>8
    <3>4. m.head[q].size \in Nat
      BY Sizes0 DEF State, Header, Size
    <3> HIDE DEF W
    <3> QED
      BY <3>2, <3>3, <3>4
  <2> HIDE DEF W
  <2> QED
    BY <2>2, <2>3
<1>3. ASSUME NEW q \in Addr, Stops(m, k, q) PROVE W[q] = {}
  BY <1>3 DEF WalkBody
<1>4. W = [q \in Addr |-> W[q]]
  OBVIOUS
<1> HIDE DEF W
<1>5. ASSUME NEW q \in Addr
      PROVE  W[q] = IF ~segment_holds(m.seg[k], q) \/ q = m.top \/ m.head[q] = Fencepost THEN {}
                       ELSE {q} \cup W[q + m.head[q].size]
  BY <1>2, <1>3 DEF Stops
<1>6. Walks(m, k, W)
  <2>1. W = [q \in Addr |->
              IF ~segment_holds(m.seg[k], q) \/ q = m.top \/ m.head[q] = Fencepost THEN {}
              ELSE {q} \cup W[q + m.head[q].size]]
    BY <1>4, <1>5
  <2> QED
    BY <2>1 DEF Walks
<1> QED
  BY <1>6

(* Any such function gives the chunks from a chunk on.                     *)
LEMMA WalkIsRest ==
    ASSUME NEW m \in State, Sound(m), NEW k \in DOMAIN m.seg, NEW f, Walks(m, k, f)
    PROVE  \A q \in Cells(m) : segment_holds(m.seg[k], q) => f[q] = RestOf(m, k, q)
<1> DEFINE D == {n \in Nat : \E q \in Cells(m) : /\ n = Space - q /\ segment_holds(m.seg[k], q)
                                                 /\ f[q] # RestOf(m, k, q)}
<1>1. \A q \in Cells(m) : q \in Addr /\ q \in Int /\ Space - q \in Nat
  BY CellInt, Sizes0 DEF Addr
<1>2. ASSUME NEW q \in Addr
      PROVE  f[q] = IF Stops(m, k, q) THEN {} ELSE {q} \cup f[q + m.head[q].size]
  BY DEF Walks, Stops
<1> SUFFICES ASSUME D # {} PROVE FALSE
  BY <1>1
<1>3. D \in SUBSET Nat
  OBVIOUS
<1> HIDE DEF D
<1>4. Min(D) \in D /\ \A n \in D : Min(D) <= n
  BY <1>3, MinFacts
<1>5. PICK q \in Cells(m) : /\ Min(D) = Space - q /\ segment_holds(m.seg[k], q)
                            /\ f[q] # RestOf(m, k, q)
  BY <1>4 DEF D
<1> DEFINE z == After(m, q)
<1>6. z = q + m.head[q].size /\ q < z
  BY CellFacts DEF After
<1>7. m.head[q] # Fencepost
  BY DEF Cells, Fencepost
<1>8. q # m.top
  <2> SUFFICES ASSUME q = m.top PROVE FALSE
    OBVIOUS
  <2>1. f[q] = {}
    BY <1>1, <1>2 DEF Stops
  <2> QED
    BY <1>5, <2>1, RestFacts
<1>9. f[q] = {q} \cup f[z]
  BY <1>1, <1>2, <1>5, <1>6, <1>7, <1>8 DEF Stops
<1>10. /\ z \in Addr
       /\ Stops(m, k, z) => RestOf(m, k, q) = {q}
       /\ ~Stops(m, k, z) => /\ z \in Cells(m) /\ segment_holds(m.seg[k], z)
                             /\ RestOf(m, k, q) = {q} \cup RestOf(m, k, z)
  BY <1>5, <1>8, RestFacts
<1> HIDE DEF z
<1>11. CASE Stops(m, k, z)
  <2>1. f[z] = {}
    BY <1>2, <1>10, <1>11
  <2> QED
    BY <1>5, <1>9, <1>10, <1>11, <2>1
<1>12. CASE ~Stops(m, k, z)
  <2>1. f[z] # RestOf(m, k, z)
    BY <1>5, <1>9, <1>10, <1>12
  <2>2. Space - z \in D
    BY <1>1, <1>10, <1>12, <2>1 DEF D
  <2>3. Space - z \in Int /\ Space - q \in Int /\ Space \in Int /\ z \in Int /\ q \in Int
    BY <1>1, <1>10, Sizes0 DEF Addr
  <2> QED
    BY <1>4, <1>5, <1>6, <2>2, <2>3
<1> QED
  BY <1>11, <1>12

LEMMA WalkIs ==
    ASSUME NEW m \in State, Sound(m)
    PROVE  Walk(m) = Cells(m) \ {m.top}
<1> DEFINE From(k) == CHOOSE f : Walks(m, k, f)
<1>1. \A k \in DOMAIN m.seg : Walks(m, k, From(k))
  BY SomeWalk
<1>2. Walk(m) = UNION {From(k)[m.seg[k].base] : k \in DOMAIN m.seg}
  BY DEF Walk, Walks
<1>3. Layout(m) /\ SegmentLayout(m)
  BY DEF Sound
<1>4. ASSUME NEW k \in DOMAIN m.seg
      PROVE  From(k)[m.seg[k].base] = {a \in Cells(m) \ {m.top} : segment_holds(m.seg[k], a)}
  <2> DEFINE b == m.seg[k].base
             f == From(k)
  <2>1. Walks(m, k, f)
    BY <1>1
  <2> HIDE DEF f
  <2>2. b \in Cells(m)
    BY <1>3 DEF Layout, BasesOf
  <2>3. \E a \in Int : segment_holds(m.seg[k], a)
    <3>1. CASE k = 1
      BY <1>3, <3>1, FootFacts DEF SegmentLayout
    <3>2. CASE k # 1
      BY <1>3, <3>2, SegFacts DEF SegmentLayout
    <3> QED
      BY <3>1, <3>2
  <2>4. segment_holds(m.seg[k], b)
    <3>1. PICK a \in Int : segment_holds(m.seg[k], a)
      BY <2>3
    <3> QED
      BY <3>1, SegFacts DEF segment_holds
  <2>5. f[b] = RestOf(m, k, b)
    BY <2>1, <2>2, <2>4, WalkIsRest
  <2>6. RestOf(m, k, b) = {a \in Cells(m) \ {m.top} : segment_holds(m.seg[k], a)}
    BY DEF RestOf, segment_holds
  <2> QED
    BY <2>5, <2>6 DEF f
<1>5. \A a \in Cells(m) : \E k \in DOMAIN m.seg : segment_holds(m.seg[k], a)
  BY <1>3, CellFacts DEF SegmentLayout
<1> HIDE DEF From
<1> QED
  BY <1>2, <1>4, <1>5

-----------------------------------------------------------------------------
(* What the walk finds is what the bins know.                              *)
LEMMA Traversed ==
    ASSUME NEW m \in State, Sound(m)
    PROVE  traverse_and_check(m)
<1>1. Layout(m)
  BY DEF Sound
<1>2. Walk(m) = Cells(m) \ {m.top}
  BY WalkIs
<1>3. ASSUME NEW k \in DOMAIN m.seg PROVE m.head[m.seg[k].base].pinuse
  BY <1>1 DEF Layout, BasesOf
<1>4. ASSUME NEW q \in Walk(m)
      PROVE  IF is_inuse(m, q)
             THEN ~bin_find(m, q) /\ do_check_inuse_chunk(m, q)
             ELSE /\ q = m.dv \/ bin_find(m, q)
                  /\ q + m.head[q].size \in Walk(m) => is_inuse(m, q + m.head[q].size)
                  /\ do_check_free_chunk(m, q)
  <2>1. q \in Cells(m) /\ q # m.top /\ (bin_find(m, q) <=> q \in Binnable(m))
    BY <1>2, FoundInBin
  <2>2. is_inuse(m, q) <=> m.head[q].cinuse
    BY <1>1, <2>1 DEF Layout, Tagged, is_inuse
  <2>3. CASE m.head[q].cinuse
    <3>1. ~bin_find(m, q)
      BY <2>1, <2>3 DEF Binnable
    <3>2. do_check_inuse_chunk(m, q)
      BY <2>1, <2>3, InUseChecked DEF InUse
    <3> QED
      BY <2>2, <2>3, <3>1, <3>2
  <2>4. CASE ~m.head[q].cinuse
    <3>1. q = m.dv \/ bin_find(m, q)
      BY <2>1, <2>4 DEF Binnable
    <3>2. is_inuse(m, After(m, q))
      BY <2>1, <2>4, FreeBetween DEF InUse, is_inuse
    <3>3. do_check_free_chunk(m, q)
      BY <2>1, <2>4, FreeChecked
    <3> QED
      BY <2>2, <2>4, <3>1, <3>2, <3>3 DEF After
  <2> QED
    BY <2>3, <2>4
<1> QED
  BY <1>3, <1>4 DEF traverse_and_check

-----------------------------------------------------------------------------
(* Who owns a unit of memory.                                              *)

LEMMA DisjointAdds ==
    ASSUME NEW A, NEW B, IsFiniteSet(A), IsFiniteSet(B), A \cap B = {}
    PROVE  IsFiniteSet(A \cup B) /\ Cardinality(A \cup B) = Cardinality(A) + Cardinality(B)
<1>1. /\ IsFiniteSet(A \cup B)
      /\ Cardinality(A \cup B) = Cardinality(A) + Cardinality(B) - Cardinality(A \cap B)
  BY FS_Union
<1>2. Cardinality(A \cap B) = 0 /\ Cardinality(A) \in Nat /\ Cardinality(B) \in Nat
  BY FS_EmptySet, FS_CardinalityType
<1> QED
  BY <1>1, <1>2

LEMMA MappedFinite ==
    ASSUME NEW m \in State, SegmentLayout(m)
    PROVE  IsFiniteSet(Mapped(m)) /\ Mapped(m) \subseteq 1 .. Space
<1>1. ASSUME NEW k \in DOMAIN m.seg PROVE m.seg[k].base .. End(m.seg[k]) - 1 \subseteq 1 .. Space
  BY SegFacts, Sizes0 DEF SegmentLayout
<1>2. Mapped(m) \subseteq 1 .. Space
  BY <1>1 DEF Mapped
<1>3. IsFiniteSet(1 .. Space)
  BY UpToSpace
<1> QED
  BY <1>2, <1>3, FS_Subset

(* Unit x belongs to the last chunk before it in its segment.              *)
Owner(m, a, x) ==
    /\ a \in Cells(m) /\ a <= x
    /\ \E k \in DOMAIN m.seg :
          /\ segment_holds(m.seg[k], a) /\ segment_holds(m.seg[k], x)
          /\ \A b \in Cells(m) : segment_holds(m.seg[k], b) /\ b <= x => b <= a

OwnedBy(m, A) == {x \in Mapped(m) : \E a \in A : Owner(m, a, x)}

LEMMA OwnerOne ==
    ASSUME NEW m \in State, SegmentLayout(m), NEW x \in Int, NEW a, NEW b, Owner(m, a, x), Owner(m, b, x)
    PROVE  a = b
<1>1. PICK j \in DOMAIN m.seg :
          /\ segment_holds(m.seg[j], a) /\ segment_holds(m.seg[j], x)
          /\ \A c \in Cells(m) : segment_holds(m.seg[j], c) /\ c <= x => c <= a
  BY DEF Owner
<1>2. PICK k \in DOMAIN m.seg :
          /\ segment_holds(m.seg[k], b) /\ segment_holds(m.seg[k], x)
          /\ \A c \in Cells(m) : segment_holds(m.seg[k], c) /\ c <= x => c <= b
  BY DEF Owner
<1>3. j = k
  BY <1>1, <1>2, HeldOnce
<1>4. a \in Cells(m) /\ b \in Cells(m) /\ a <= x /\ b <= x
  BY DEF Owner
<1>5. a <= b /\ b <= a
  BY <1>1, <1>2, <1>3, <1>4
<1>6. a \in Int /\ b \in Int
  BY <1>4, CellInt
<1> QED
  BY ONLY <1>5, <1>6

LEMMA InMapped ==
    ASSUME NEW m \in State, NEW x
    PROVE  x \in Mapped(m) <=> x \in Int /\ \E k \in DOMAIN m.seg : segment_holds(m.seg[k], x)
<1>1. ASSUME NEW k \in DOMAIN m.seg
      PROVE  x \in m.seg[k].base .. End(m.seg[k]) - 1 <=> x \in Int /\ segment_holds(m.seg[k], x)
  BY SegFacts DEF segment_holds, End
<1> QED
  BY <1>1 DEF Mapped

(* Each unit has an owner: a segment begins with a chunk.                  *)
LEMMA SomeOwner ==
    ASSUME NEW m \in State, Sound(m), NEW x \in Mapped(m)
    PROVE  \E a \in Cells(m) : Owner(m, a, x)
<1>1. Layout(m)
  BY DEF Sound
<1>2. PICK k \in DOMAIN m.seg : x \in Int /\ segment_holds(m.seg[k], x)
  BY InMapped
<1> DEFINE B == m.seg[k].base
           D == {n \in Nat : \E b \in Cells(m) : /\ segment_holds(m.seg[k], b) /\ b <= x
                                                 /\ n = x - b}
<1>3. B \in Cells(m) /\ B \in Int /\ B <= x /\ segment_holds(m.seg[k], B)
  BY <1>1, <1>2, SegFacts DEF Layout, BasesOf, segment_holds
<1>4. \A b \in Cells(m) : b \in Int
  BY CellInt
<1> HIDE DEF B
<1>5. x - B \in D
  BY <1>2, <1>3
<1>6. D \in SUBSET Nat
  OBVIOUS
<1>7. \A b \in Cells(m) : segment_holds(m.seg[k], b) /\ b <= x => x - b \in D
  BY <1>2, <1>4
<1>8. \A n \in D : \E b \in Cells(m) : segment_holds(m.seg[k], b) /\ b <= x /\ n = x - b
  OBVIOUS
<1> HIDE DEF D
<1>9. Min(D) \in D /\ \A n \in D : Min(D) <= n
  BY <1>5, <1>6, MinFacts
<1>10. PICK a \in Cells(m) : segment_holds(m.seg[k], a) /\ a <= x /\ Min(D) = x - a
  BY <1>8, <1>9
<1>11. ASSUME NEW b \in Cells(m), segment_holds(m.seg[k], b), b <= x PROVE b <= a
  <2>1. x - a <= x - b
    BY <1>7, <1>9, <1>10, <1>11
  <2>2. a \in Int /\ b \in Int /\ x \in Int
    BY <1>2, <1>4
  <2> QED
    BY ONLY <2>1, <2>2
<1> QED
  BY <1>2, <1>10, <1>11 DEF Owner

(* A chunk owns what it spans ...                                          *)
LEMMA SpanOwned ==
    ASSUME NEW m \in State, Sound(m), NEW a \in Cells(m), NEW x \in Span(a, m.head[a].size)
    PROVE  x \in Mapped(m) /\ Owner(m, a, x)
<1>1. Layout(m) /\ SegmentLayout(m)
  BY DEF Sound
<1>2. /\ a \in Int /\ m.head[a].size \in Nat /\ m.head[a] # NoHeader /\ a \in Addr
      /\ After(m, a) = a + m.head[a].size
  BY CellFacts DEF After
<1>3. x \in Int /\ a <= x /\ x < After(m, a)
  BY <1>2 DEF Span
<1>4. PICK k \in DOMAIN m.seg : segment_holds(m.seg[k], a)
  BY <1>1, <1>2 DEF SegmentLayout
<1>5. After(m, a) < End(m.seg[k])
  BY <1>1, <1>4 DEF SegmentLayout
<1>6. m.seg[k].base <= a /\ m.seg[k].base \in Int /\ End(m.seg[k]) \in Int
  BY <1>4, SegFacts DEF segment_holds
<1>7. After(m, a) \in Int
  BY CellFacts
<1>8. m.seg[k].base <= x /\ x < End(m.seg[k])
  BY ONLY <1>2, <1>3, <1>5, <1>6, <1>7
<1>9. segment_holds(m.seg[k], x)
  BY <1>8 DEF segment_holds, End
<1>10. ASSUME NEW b \in Cells(m), b <= x PROVE b <= a
  <2>1. b \in Int /\ b \in Addr /\ m.head[b] # NoHeader
    BY CellFacts
  <2>2. a < b => After(m, a) <= b
    BY <1>1, <2>1 DEF Layout
  <2> QED
    BY ONLY <1>2, <1>3, <1>7, <1>10, <2>1, <2>2
<1> QED
  BY <1>3, <1>4, <1>9, <1>10, InMapped DEF Owner

(* ... and nothing else, unless its segment ends behind it.                *)
LEMMA OwnedSpan ==
    ASSUME NEW m \in State, Sound(m), NEW a \in Cells(m), a # m.top, a \notin RecordsOf(m),
           NEW x \in Int, Owner(m, a, x)
    PROVE  x \in Span(a, m.head[a].size)
<1>1. Layout(m) /\ SegmentLayout(m)
  BY DEF Sound
<1>2. PICK k \in DOMAIN m.seg :
          /\ segment_holds(m.seg[k], a) /\ segment_holds(m.seg[k], x) /\ a <= x
          /\ \A b \in Cells(m) : segment_holds(m.seg[k], b) /\ b <= x => b <= a
  BY DEF Owner
<1> DEFINE z == After(m, a)
<1>3. z \in Cells(m) /\ z \in Int
  BY <1>1, CellInt DEF Layout, Followed
<1>4. a \in Int /\ a < z /\ m.head[a].size \in Nat /\ z = a + m.head[a].size
  BY CellFacts DEF After
<1>5. z < End(m.seg[k])
  BY <1>1, <1>2 DEF SegmentLayout
<1>6. segment_holds(m.seg[k], z)
  <2>1. m.seg[k].base \in Int /\ m.seg[k].base <= a
    BY <1>2, SegFacts DEF segment_holds
  <2> HIDE DEF z
  <2>2. m.seg[k].base <= z
    BY ONLY <1>3, <1>4, <2>1
  <2> QED
    BY <1>5, <2>2 DEF segment_holds, End
<1>7. z <= x => z <= a
  BY <1>2, <1>3, <1>6
<1> HIDE DEF z
<1>8. x < z
  BY ONLY <1>3, <1>4, <1>7, x \in Int
<1> QED
  BY <1>2, <1>4, <1>8 DEF Span

LastSpan(m, k, a) == a .. End(m.seg[k]) - 1

(* The last chunk of a segment owns the rest of it.                        *)
LEMMA LastOwns ==
    ASSUME NEW m \in State, Sound(m), NEW k \in DOMAIN m.seg,
           NEW a, a = IF k = 1 THEN m.top ELSE m.seg[k].record
    PROVE  /\ a \in Cells(m) /\ segment_holds(m.seg[k], a) /\ LastSpan(m, k, a) \subseteq Mapped(m)
           /\ \A x \in Int : Owner(m, a, x) <=> x \in LastSpan(m, k, a)
<1>1. Layout(m) /\ SegmentLayout(m)
  BY DEF Sound
<1>2. a \in Cells(m) /\ segment_holds(m.seg[k], a)
  <2>1. CASE k = 1
    BY <1>1, <2>1 DEF Layout, SegmentLayout
  <2>2. CASE k # 1
    BY <1>1, <2>2 DEF Layout, SegmentLayout, RecordsOf
  <2> QED
    BY <2>1, <2>2
<1>3. /\ a \in Int /\ m.seg[k].base \in Int /\ End(m.seg[k]) \in Int
      /\ m.seg[k].base <= a /\ a < End(m.seg[k])
  BY <1>2, SegFacts, CellInt DEF segment_holds, End
<1>4. ASSUME NEW x \in Int PROVE x \in LastSpan(m, k, a) <=> segment_holds(m.seg[k], x) /\ a <= x
  <2>1. segment_holds(m.seg[k], x) <=> m.seg[k].base <= x /\ x < End(m.seg[k])
    BY <1>3 DEF segment_holds, End
  <2> DEFINE e == End(m.seg[k])
             B == m.seg[k].base
  <2>2. e \in Int /\ B \in Int /\ B <= a
    BY <1>3
  <2> HIDE DEF e, B
  <2>3. x \in a .. e - 1 <=> B <= x /\ x < e /\ a <= x
    BY ONLY <1>3, <2>2, x \in Int
  <2> QED
    BY <2>1, <2>3 DEF LastSpan, e, B
<1>5. \A b \in Cells(m) : segment_holds(m.seg[k], b) => b <= a
  BY <1>1 DEF SegmentLayout
<1>6. ASSUME NEW x \in Int, Owner(m, a, x) PROVE segment_holds(m.seg[k], x) /\ a <= x
  <2>1. PICK j \in DOMAIN m.seg : segment_holds(m.seg[j], a) /\ segment_holds(m.seg[j], x) /\ a <= x
    BY <1>6 DEF Owner
  <2>2. j = k
    BY <1>1, <1>2, <1>3, <2>1, HeldOnce
  <2> QED
    BY <2>1, <2>2
<1>7. ASSUME NEW x \in Int, segment_holds(m.seg[k], x), a <= x PROVE Owner(m, a, x)
  BY <1>2, <1>5, <1>7 DEF Owner
<1>8. LastSpan(m, k, a) \subseteq Mapped(m)
  <2>1. \A x \in LastSpan(m, k, a) : x \in Int
    BY <1>3 DEF LastSpan
  <2> QED
    BY <1>4, <2>1, InMapped
<1> QED
  BY <1>2, <1>4, <1>6, <1>7, <1>8

SpansOf(m, A) == UNION {Span(a, m.head[a].size) : a \in A}

(* Sizes of chunks add up to what the chunks span.                         *)
LEMMA SizesSum ==
    ASSUME NEW m \in State, Sound(m), NEW A \in SUBSET Cells(m)
    PROVE  /\ SpansOf(m, A) \subseteq OwnedBy(m, A) /\ IsFiniteSet(SpansOf(m, A))
           /\ MapThenSumSet(LAMBDA q : m.head[q].size, A) = Cardinality(SpansOf(m, A))
<1> DEFINE w == [a \in A |-> m.head[a].size]
           E == [a \in A |-> Span(a, m.head[a].size)]
<1>1. SegmentLayout(m)
  BY DEF Sound
<1>2. SpansOf(m, A) = AllOf(E, A)
  BY DEF SpansOf, AllOf
<1>3. SpansOf(m, A) \subseteq OwnedBy(m, A)
  BY SpanOwned DEF SpansOf, OwnedBy
<1>4. IsFiniteSet(SpansOf(m, A))
  <2>1. SpansOf(m, A) \in SUBSET Mapped(m)
    BY <1>3 DEF OwnedBy
  <2> QED
    BY <1>1, <2>1, MappedFinite, FS_Subset
<1>5. ASSUME NEW a \in A
      PROVE  IsFiniteSet(E[a]) /\ Cardinality(E[a]) = w[a] /\ w[a] \in Nat
  <2> DEFINE n == m.head[a].size
             e == a + n - 1
  <2>1. a \in Int /\ n \in Nat /\ n > 0
    BY CellFacts
  <2>2. E[a] = a .. e /\ w[a] = n
    BY DEF Span
  <2> HIDE DEF n
  <2>3. e \in Int /\ a <= e /\ e - a + 1 = n
    BY <2>1
  <2> HIDE DEF e, E, w
  <2>4. IsFiniteSet(a .. e) /\ Cardinality(a .. e) = IF a > e THEN 0 ELSE e - a + 1
    BY ONLY <2>1, <2>3, FS_Interval
  <2>5. Cardinality(a .. e) = n
    BY ONLY <2>1, <2>3, <2>4
  <2> QED
    BY <2>1, <2>2, <2>4, <2>5
<1>6. ASSUME NEW a \in A, NEW b \in A, a # b PROVE E[a] \cap E[b] = {}
  <2> SUFFICES ASSUME NEW x \in E[a], x \in E[b] PROVE FALSE
    OBVIOUS
  <2>1. x \in Int
    BY SpanOwned, InMapped
  <2>2. Owner(m, a, x) /\ Owner(m, b, x)
    BY SpanOwned
  <2> QED
    BY <1>1, <1>6, <2>1, <2>2, OwnerOne
<1>7. IsFiniteSet(A)
  <2>1. A \in SUBSET (1 .. Space)
    BY CellInt, Sizes0 DEF Addr
  <2>2. IsFiniteSet(1 .. Space)
    BY UpToSpace
  <2> HIDE DEF w, E
  <2> QED
    BY <2>1, <2>2, FS_Subset
<1>8. Weighs(A, w, E)
  <2> HIDE DEF w, E
  <2> QED
    BY <1>5, <1>6, <1>7 DEF Weighs
<1> DEFINE Q(f) == f = [s \in SUBSET A |->
                          IF s = {} THEN 0
                          ELSE LET x == CHOOSE y \in s : TRUE IN m.head[x].size + f[s \ {x}]]
<1>9. ASSUME NEW f PROVE Q(f) <=> SumsTo(A, w, f)
  <2>1. ASSUME NEW s \in SUBSET A, s # {}
        PROVE  LET x == CHOOSE y \in s : TRUE IN w[x] + f[s \ {x}] = m.head[x].size + f[s \ {x}]
    <3> DEFINE x == CHOOSE y \in s : TRUE
    <3>1. x \in A
      BY <2>1
    <3> HIDE DEF x
    <3>2. w[x] = m.head[x].size
      BY <3>1
    <3> HIDE DEF w
    <3> QED
      BY <3>2 DEF x
  <2> HIDE DEF w
  <2>2. [s \in SUBSET A |-> IF s = {} THEN 0
                            ELSE LET x == CHOOSE y \in s : TRUE IN m.head[x].size + f[s \ {x}]]
      = [s \in SUBSET A |-> IF s = {} THEN 0
                            ELSE LET x == CHOOSE y \in s : TRUE IN w[x] + f[s \ {x}]]
    BY <2>1
  <2> QED
    BY <2>2 DEF SumsTo
<1> DEFINE g == CHOOSE f : Q(f)
<1>10. MapThenSumSet(LAMBDA q : m.head[q].size, A) = g[A]
  BY DEF MapThenSumSet, MapThenFoldSet
<1> HIDE DEF w, E
<1>11. \E f : SumsTo(A, w, f)
  BY <1>2, <1>4, <1>8, CardinalitySumsTo
<1> HIDE DEF Q
<1>12. SumsTo(A, w, g)
  BY <1>9, <1>11
<1> HIDE DEF g
<1>13. g[A] = Cardinality(AllOf(E, A))
  BY <1>2, <1>4, <1>8, <1>12, WeightsSum
<1> QED
  BY <1>2, <1>3, <1>4, <1>10, <1>13

LastsOf(m) == UNION {LastSpan(m, k, m.seg[k].record) : k \in DOMAIN m.seg \ {1}}

(* So do the ends of segments from their records on.                       *)
LEMMA LastsSum ==
    ASSUME NEW m \in State, Sound(m)
    PROVE  /\ LastsOf(m) = OwnedBy(m, RecordsOf(m)) /\ IsFiniteSet(LastsOf(m))
           /\ MapThenSumSet(LAMBDA k : End(m.seg[k]) - m.seg[k].record, DOMAIN m.seg \ {1})
              = Cardinality(LastsOf(m))
<1> DEFINE A == DOMAIN m.seg \ {1}
           w == [k \in A |-> End(m.seg[k]) - m.seg[k].record]
           E == [k \in A |-> LastSpan(m, k, m.seg[k].record)]
<1>1. SegmentLayout(m)
  BY DEF Sound
<1>2. LastsOf(m) = AllOf(E, A)
  BY DEF LastsOf, AllOf
<1>3. ASSUME NEW k \in A
      PROVE  /\ m.seg[k].record \in Cells(m) /\ segment_holds(m.seg[k], m.seg[k].record)
             /\ LastSpan(m, k, m.seg[k].record) \subseteq Mapped(m)
             /\ \A x \in Int : Owner(m, m.seg[k].record, x) <=> x \in LastSpan(m, k, m.seg[k].record)
  <2> DEFINE a == m.seg[k].record
  <2>1. k \in DOMAIN m.seg /\ a = IF k = 1 THEN m.top ELSE m.seg[k].record
    OBVIOUS
  <2> HIDE DEF a
  <2>2. /\ a \in Cells(m) /\ segment_holds(m.seg[k], a) /\ LastSpan(m, k, a) \subseteq Mapped(m)
        /\ \A x \in Int : Owner(m, a, x) <=> x \in LastSpan(m, k, a)
    BY <2>1, LastOwns
  <2> QED
    BY <2>2 DEF a
<1>4. \A x \in Mapped(m) : x \in Int
  BY InMapped
<1>5. LastsOf(m) = OwnedBy(m, RecordsOf(m))
  <2>1. LastsOf(m) \subseteq OwnedBy(m, RecordsOf(m))
    BY <1>3, <1>4 DEF LastsOf, OwnedBy, RecordsOf
  <2>2. OwnedBy(m, RecordsOf(m)) \subseteq LastsOf(m)
    BY <1>3, <1>4 DEF LastsOf, OwnedBy, RecordsOf
  <2> QED
    BY <2>1, <2>2
<1>6. IsFiniteSet(LastsOf(m))
  <2>1. LastsOf(m) \in SUBSET Mapped(m)
    BY <1>5 DEF OwnedBy
  <2> QED
    BY <1>1, <2>1, MappedFinite, FS_Subset
<1>7. ASSUME NEW k \in A
      PROVE  IsFiniteSet(E[k]) /\ Cardinality(E[k]) = w[k] /\ w[k] \in Nat
  <2> DEFINE a == m.seg[k].record
             z == End(m.seg[k])
             e == z - 1
  <2>1. a \in Int /\ z \in Int /\ a < z
    BY <1>3, SegFacts, CellInt DEF segment_holds, End
  <2>2. E[k] = a .. e /\ w[k] = z - a
    BY DEF LastSpan
  <2> HIDE DEF a, z, w, E
  <2>3. e \in Int /\ a <= e /\ e - a + 1 = z - a /\ z - a \in Nat
    BY <2>1
  <2> HIDE DEF e
  <2>4. IsFiniteSet(a .. e) /\ Cardinality(a .. e) = IF a > e THEN 0 ELSE e - a + 1
    BY ONLY <2>1, <2>3, FS_Interval
  <2>5. Cardinality(a .. e) = z - a
    BY ONLY <2>1, <2>3, <2>4
  <2> QED
    BY <2>2, <2>3, <2>4, <2>5
<1>8. ASSUME NEW j \in A, NEW k \in A, j # k PROVE E[j] \cap E[k] = {}
  <2> SUFFICES ASSUME NEW x \in E[j], x \in E[k] PROVE FALSE
    OBVIOUS
  <2>1. x \in Int
    BY <1>3, <1>4
  <2>2. Owner(m, m.seg[j].record, x) /\ Owner(m, m.seg[k].record, x)
    BY <1>3, <2>1
  <2> DEFINE a == m.seg[j].record
             b == m.seg[k].record
  <2>3. a = b
    <3> HIDE DEF a, b
    <3>1. Owner(m, a, x) /\ Owner(m, b, x)
      BY <2>2 DEF a, b
    <3> QED
      BY <1>1, <2>1, <3>1, OwnerOne
  <2>4. segment_holds(m.seg[j], a) /\ segment_holds(m.seg[k], a) /\ a \in Int
    BY <1>3, <2>3, CellInt
  <2> HIDE DEF a, b, w, E
  <2> QED
    BY <1>1, <1>8, <2>4, HeldOnce
<1>9. IsFiniteSet(A)
  <2>1. m.seg \in Seq(Segment)
    BY DEF State
  <2>2. A \in SUBSET (1 .. Len(m.seg)) /\ Len(m.seg) \in Int
    BY <2>1
  <2>3. IsFiniteSet(1 .. Len(m.seg))
    BY <2>2, FS_Interval
  <2> HIDE DEF A
  <2> QED
    BY <2>2, <2>3, FS_Subset
<1>10. Weighs(A, w, E)
  <2> HIDE DEF w, E
  <2> QED
    BY <1>7, <1>8, <1>9 DEF Weighs
<1> DEFINE Q(f) == f = [s \in SUBSET A |->
                          IF s = {} THEN 0
                          ELSE LET x == CHOOSE y \in s : TRUE
                               IN  End(m.seg[x]) - m.seg[x].record + f[s \ {x}]]
<1>11. ASSUME NEW f PROVE Q(f) <=> SumsTo(A, w, f)
  <2>1. ASSUME NEW s \in SUBSET A, s # {}
        PROVE  LET x == CHOOSE y \in s : TRUE
               IN  w[x] + f[s \ {x}] = End(m.seg[x]) - m.seg[x].record + f[s \ {x}]
    <3> DEFINE x == CHOOSE y \in s : TRUE
    <3>1. x \in A
      BY <2>1
    <3> HIDE DEF x
    <3>2. w[x] = End(m.seg[x]) - m.seg[x].record
      BY <3>1
    <3> HIDE DEF w
    <3> QED
      BY <3>2 DEF x
  <2> HIDE DEF w
  <2>2. [s \in SUBSET A |-> IF s = {} THEN 0
                            ELSE LET x == CHOOSE y \in s : TRUE
                                 IN  End(m.seg[x]) - m.seg[x].record + f[s \ {x}]]
      = [s \in SUBSET A |-> IF s = {} THEN 0
                            ELSE LET x == CHOOSE y \in s : TRUE IN w[x] + f[s \ {x}]]
    BY <2>1
  <2> QED
    BY <2>2 DEF SumsTo
<1> DEFINE g == CHOOSE f : Q(f)
<1>12. MapThenSumSet(LAMBDA k : End(m.seg[k]) - m.seg[k].record, A) = g[A]
  BY DEF MapThenSumSet, MapThenFoldSet
<1> HIDE DEF w, E
<1>13. \E f : SumsTo(A, w, f)
  BY <1>2, <1>6, <1>10, CardinalitySumsTo
<1> HIDE DEF Q
<1>14. SumsTo(A, w, g)
  BY <1>11, <1>13
<1> HIDE DEF g
<1>15. g[A] = Cardinality(AllOf(E, A))
  BY <1>2, <1>6, <1>10, <1>14, WeightsSum
<1> QED
  BY <1>2, <1>5, <1>6, <1>12, <1>15

LEMMA OwnedApart ==
    ASSUME NEW m \in State, SegmentLayout(m), NEW A, NEW B, A \cap B = {}
    PROVE  OwnedBy(m, A) \cap OwnedBy(m, B) = {}
<1> SUFFICES ASSUME NEW x \in OwnedBy(m, A), x \in OwnedBy(m, B) PROVE FALSE
  OBVIOUS
<1>1. PICK a \in A : Owner(m, a, x)
  BY DEF OwnedBy
<1>2. PICK b \in B : Owner(m, b, x)
  BY DEF OwnedBy
<1>3. x \in Int
  BY InMapped DEF OwnedBy
<1> QED
  BY <1>1, <1>2, <1>3, OwnerOne

FreeOf(m) == {q \in Walk(m) : ~is_inuse(m, q)}

(* Top, free chunks, blocks of the program and records are all there is.   *)
LEMMA CellClasses ==
    ASSUME NEW m \in State, Sound(m)
    PROVE  /\ FreeOf(m) \subseteq Cells(m) /\ Blocks(m) \subseteq Cells(m) /\ RecordsOf(m) \subseteq Cells(m)
           /\ Cells(m) = ({m.top} \cup FreeOf(m)) \cup (Blocks(m) \cup RecordsOf(m))
           /\ {m.top} \cap FreeOf(m) = {} /\ Blocks(m) \cap RecordsOf(m) = {}
           /\ ({m.top} \cup FreeOf(m)) \cap (Blocks(m) \cup RecordsOf(m)) = {}
<1>1. Layout(m)
  BY DEF Sound
<1>2. Walk(m) = Cells(m) \ {m.top}
  BY WalkIs
<1>3. \A a \in Cells(m) : is_inuse(m, a) <=> m.head[a].cinuse
  BY <1>1 DEF Layout, Tagged, is_inuse
<1>4. FreeOf(m) = {a \in Cells(m) \ {m.top} : ~m.head[a].cinuse}
  BY <1>2, <1>3 DEF FreeOf
<1>5. m.top \in Cells(m) /\ ~m.head[m.top].cinuse
  BY <1>1 DEF Layout
<1>6. \A r \in RecordsOf(m) : r \in Cells(m) /\ m.head[r].cinuse
  BY <1>1 DEF Layout
<1> QED
  BY <1>4, <1>5, <1>6 DEF Blocks, InUse

LEMMA TopOwns ==
    ASSUME NEW m \in State, Sound(m)
    PROVE  /\ IsFiniteSet(OwnedBy(m, {m.top}))
           /\ Cardinality(OwnedBy(m, {m.top})) = m.topsize + TopFoot
<1>1. Layout(m) /\ SegmentLayout(m)
  BY DEF Sound
<1>2. 1 \in DOMAIN m.seg
  <2>1. m.seg \in Seq(Segment) /\ m.seg # <<>>
    BY <1>1 DEF State, SegmentLayout
  <2> QED
    BY <2>1
<1> DEFINE a == m.top
           z == End(m.seg[1])
           e == z - 1
           n == m.topsize + TopFoot
<1>3. /\ LastSpan(m, 1, a) \subseteq Mapped(m) /\ \A x \in Int : Owner(m, a, x) <=> x \in LastSpan(m, 1, a)
  <2>1. a = IF 1 = 1 THEN m.top ELSE m.seg[1].record
    OBVIOUS
  <2> HIDE DEF a
  <2> QED
    BY <1>2, <2>1, LastOwns
<1>4. OwnedBy(m, {a}) = a .. e
  <2>1. \A x \in Mapped(m) : x \in Int
    BY InMapped
  <2> QED
    BY <1>3, <2>1 DEF OwnedBy, LastSpan
<1>5. a \in Int /\ z \in Int /\ a + n = z /\ n \in Nat /\ n > 0
  <2>1. a \in Int /\ z \in Int /\ m.topsize \in Nat /\ FootOf(m) + TopFoot = z /\ TopFoot \in Nat /\ TopFoot > 0
    BY <1>1, <1>2, SegFacts, FootFacts DEF SegmentLayout, TopFoot, RecordSize, MinChunk
  <2> HIDE DEF z
  <2> QED
    BY <2>1 DEF FootOf
<1> HIDE DEF a, z, n
<1>6. e \in Int /\ a <= e /\ e - a + 1 = n
  BY <1>5
<1> HIDE DEF e
<1>7. IsFiniteSet(a .. e) /\ Cardinality(a .. e) = IF a > e THEN 0 ELSE e - a + 1
  BY ONLY <1>5, <1>6, FS_Interval
<1>8. Cardinality(a .. e) = n
  BY ONLY <1>5, <1>6, <1>7
<1> QED
  BY <1>4, <1>7, <1>8 DEF a, n

(* The chunks of the walk, top and its foot fit in what is mapped.         *)
LEMMA ArenaFits ==
    ASSUME NEW m \in State, Sound(m)
    PROVE  mallinfo(m).arena <= m.footprint
<1> DEFINE W == Walk(m)
           A == SpansOf(m, W)
           B == OwnedBy(m, {m.top})
           n == m.topsize + TopFoot
<1>1. SegmentLayout(m) /\ Layout(m)
  BY DEF Sound
<1>2. W \in SUBSET Cells(m) /\ {m.top} \cap W = {}
  BY WalkIs
<1> HIDE DEF W
<1>3. /\ A \subseteq OwnedBy(m, W) /\ IsFiniteSet(A)
      /\ MapThenSumSet(LAMBDA q : m.head[q].size, W) = Cardinality(A)
  BY <1>2, SizesSum
<1>4. IsFiniteSet(B) /\ Cardinality(B) = n
  BY TopOwns
<1>5. B \cap OwnedBy(m, W) = {}
  BY <1>1, <1>2, OwnedApart
<1>6. mallinfo(m).arena = n + MapThenSumSet(LAMBDA q : m.head[q].size, W)
  <2>1. is_initialized(m)
    BY DEF Sound, is_initialized
  <2> QED
    BY <2>1 DEF mallinfo, W
<1>7. B \cup A \in SUBSET Mapped(m)
  BY <1>3 DEF OwnedBy
<1>8. B \cap A = {}
  BY <1>3, <1>5
<1> HIDE DEF A, B, n
<1>9. Cardinality(B \cup A) = Cardinality(B) + Cardinality(A)
  BY <1>3, <1>4, <1>8, DisjointAdds
<1>10. Cardinality(B \cup A) <= Cardinality(Mapped(m))
  BY <1>1, <1>7, MappedFinite, FS_Subset
<1>11. m.footprint = Cardinality(Mapped(m))
  BY <1>1 DEF SegmentLayout
<1> QED
  BY <1>3, <1>4, <1>6, <1>9, <1>10, <1>11

LEMMA SoundChecked ==
    ASSUME NEW m \in State, Sound(m)
    PROVE  do_check_malloc_state(m)
<1>1. \A s \in Size : do_check_bin(m, s)
  BY BinChecked
<1>2. m.dvsize # 0 =>
        m.dvsize = m.head[m.dv].size /\ m.dvsize >= MinChunk /\ ~bin_find(m, m.dv)
  BY VictimChecked
<1>3. do_check_top_chunk(m, m.top) /\ ~bin_find(m, m.top)
  BY TopChecked
<1>4. traverse_and_check(m)
  BY Traversed
<1>5. mallinfo(m).arena <= m.footprint
  BY ArenaFits
<1> QED
  BY <1>1, <1>2, <1>3, <1>4, <1>5 DEF do_check_malloc_state

LEMMA UntouchedChecked ==
    ASSUME NEW m, Untouched(m), ~is_initialized(m)
    PROVE  do_check_malloc_state(m)
<1>1. \A s \in Size : do_check_bin(m, s)
  <2>1. \A s \in Size : m.bin[s] = <<>>
    BY DEF Untouched
  <2>2. DOMAIN << >> = {}
    OBVIOUS
  <2> QED
    BY <2>1, <2>2 DEF do_check_bin, IsInjective
<1>2. m.dvsize = 0 /\ m.footprint = 0 /\ DOMAIN m.seg = {}
  BY DEF Untouched
<1>3. Walk(m) = {}
  BY <1>2 DEF Walk
<1>4. traverse_and_check(m)
  BY <1>2, <1>3 DEF traverse_and_check
<1>5. mallinfo(m).arena = 0
  BY DEF mallinfo
<1> QED
  BY <1>1, <1>2, <1>4, <1>5 DEF do_check_malloc_state

LEMMA ServingChecked == Serving => StateChecked
<1> SUFFICES ASSUME Serving PROVE StateChecked
  OBVIOUS
<1>1. CASE is_initialized(gm)
  BY <1>1, ChunksAreCells, SoundChecked DEF StateChecked
<1>2. CASE ~is_initialized(gm)
  BY <1>2, ChunksAreCells, UntouchedChecked DEF StateChecked
<1> QED
  BY <1>1, <1>2

(* What is mapped: top with its foot, free chunks, blocks, and the ends of *)
(* segments from their records on.                                         *)
LEMMA MappedAddsUp ==
    ASSUME NEW m \in State, Sound(m)
    PROVE  m.footprint = (m.topsize + TopFoot)
                         + Cardinality(SpansOf(m, FreeOf(m)))
                         + (Cardinality(SpansOf(m, Blocks(m))) + Cardinality(LastsOf(m)))
<1> DEFINE T == OwnedBy(m, {m.top})
           F == OwnedBy(m, FreeOf(m))
           B == OwnedBy(m, Blocks(m))
           R == OwnedBy(m, RecordsOf(m))
<1>1. SegmentLayout(m)
  BY DEF Sound
<1>2. \A x \in Mapped(m) : x \in Int
  BY InMapped
<1>3. ASSUME NEW A \in SUBSET Cells(m), m.top \notin A, A \cap RecordsOf(m) = {}
      PROVE  SpansOf(m, A) = OwnedBy(m, A)
  <2>1. SpansOf(m, A) \subseteq OwnedBy(m, A)
    BY SizesSum
  <2>2. ASSUME NEW x \in OwnedBy(m, A) PROVE x \in SpansOf(m, A)
    <3>1. PICK a \in A : Owner(m, a, x)
      BY DEF OwnedBy
    <3>2. x \in Int
      BY <1>2 DEF OwnedBy
    <3>3. a \in Cells(m) /\ a # m.top /\ a \notin RecordsOf(m)
      BY <1>3
    <3>4. x \in Span(a, m.head[a].size)
      BY <3>1, <3>2, <3>3, OwnedSpan
    <3> QED
      BY <3>4 DEF SpansOf
  <2> QED
    BY <2>1, <2>2
<1>4. SpansOf(m, FreeOf(m)) = F /\ SpansOf(m, Blocks(m)) = B
  BY <1>3, CellClasses
<1>5. LastsOf(m) = R
  BY LastsSum
<1>6. Mapped(m) = (T \cup F) \cup (B \cup R)
  BY SomeOwner, CellClasses DEF OwnedBy
<1>7. T \cap F = {} /\ B \cap R = {}
  BY <1>1, CellClasses, OwnedApart
<1>8. (T \cup F) \cap (B \cup R) = {}
  <2> DEFINE C == {m.top} \cup FreeOf(m)
             D == Blocks(m) \cup RecordsOf(m)
  <2>1. C \cap D = {}
    BY CellClasses
  <2>2. T \cup F \subseteq OwnedBy(m, C) /\ B \cup R \subseteq OwnedBy(m, D)
    BY DEF OwnedBy
  <2> HIDE DEF C, D
  <2>3. OwnedBy(m, C) \cap OwnedBy(m, D) = {}
    BY <1>1, <2>1, OwnedApart
  <2> QED
    BY <2>2, <2>3
<1>9. /\ IsFiniteSet(T) /\ IsFiniteSet(F) /\ IsFiniteSet(B) /\ IsFiniteSet(R)
  <2>1. T \in SUBSET Mapped(m) /\ F \in SUBSET Mapped(m) /\ B \in SUBSET Mapped(m) /\ R \in SUBSET Mapped(m)
    BY DEF OwnedBy
  <2> QED
    BY <1>1, <2>1, MappedFinite, FS_Subset
<1>10. Cardinality(T) = m.topsize + TopFoot
  BY TopOwns
<1>11. m.footprint = Cardinality(Mapped(m))
  BY <1>1 DEF SegmentLayout
<1> HIDE DEF T, F, B, R
<1>12. IsFiniteSet(T \cup F) /\ Cardinality(T \cup F) = Cardinality(T) + Cardinality(F)
  BY ONLY <1>7, <1>9, DisjointAdds
<1>13. IsFiniteSet(B \cup R) /\ Cardinality(B \cup R) = Cardinality(B) + Cardinality(R)
  BY ONLY <1>7, <1>9, DisjointAdds
<1>14. Cardinality((T \cup F) \cup (B \cup R)) = Cardinality(T \cup F) + Cardinality(B \cup R)
  BY ONLY <1>8, <1>12, <1>13, DisjointAdds
<1> QED
  BY <1>4, <1>5, <1>6, <1>10, <1>11, <1>12, <1>13, <1>14

LEMMA ServingAccounted == Serving => Accounted
<1> SUFFICES ASSUME Serving PROVE Accounted
  OBVIOUS
<1>1. gm \in State /\ DOMAIN live = Blocks(gm)
  BY ChunksAreCells DEF Serving, Serves
<1>2. DOMAIN gm.seg = 1 .. Len(gm.seg) /\ Len(gm.seg) \in Nat /\ 2 .. Len(gm.seg) = DOMAIN gm.seg \ {1}
  BY <1>1 DEF State
<1> DEFINE X == MapThenSumSet(LAMBDA p : gm.head[p].size, DOMAIN live)
           Y == MapThenSumSet(LAMBDA k : End(gm.seg[k]) - gm.seg[k].record, 2 .. Len(gm.seg))
           Z == MapThenSumSet(LAMBDA q : gm.head[q].size, FreeOf(gm))
<1>3. CASE is_initialized(gm)
  <2>1. Sound(gm)
    BY <1>3, ChunksAreCells
  <2>2. FreeOf(gm) \in SUBSET Cells(gm) /\ Blocks(gm) \in SUBSET Cells(gm)
    BY <1>1, <2>1, CellClasses
  <2>3. /\ X = Cardinality(SpansOf(gm, Blocks(gm))) /\ IsFiniteSet(SpansOf(gm, Blocks(gm)))
    BY <1>1, <2>1, <2>2, SizesSum
  <2>4. /\ Z = Cardinality(SpansOf(gm, FreeOf(gm))) /\ IsFiniteSet(SpansOf(gm, FreeOf(gm)))
    BY <1>1, <2>1, <2>2, SizesSum
  <2>5. Y = Cardinality(LastsOf(gm)) /\ IsFiniteSet(LastsOf(gm))
    BY <1>1, <1>2, <2>1, LastsSum
  <2>6. gm.footprint = (gm.topsize + TopFoot) + Cardinality(SpansOf(gm, FreeOf(gm)))
                       + (Cardinality(SpansOf(gm, Blocks(gm))) + Cardinality(LastsOf(gm)))
    BY <1>1, <2>1, MappedAddsUp
  <2>7. mallinfo(gm).uordblks = gm.footprint - (gm.topsize + TopFoot + Z)
    BY <1>3 DEF mallinfo, FreeOf
  <2>8. gm.topsize + TopFoot \in Nat
    BY <1>1, FootFacts DEF TopFoot, RecordSize, MinChunk
  <2>9. X \in Nat /\ Y \in Nat /\ Z \in Nat
    BY <2>3, <2>4, <2>5, FS_CardinalityType
  <2>10. gm.footprint = (gm.topsize + TopFoot) + Z + (X + Y)
    BY <2>3, <2>4, <2>5, <2>6
  <2> DEFINE n == gm.topsize + TopFoot
  <2> HIDE DEF X, Y, Z, n
  <2>11. mallinfo(gm).uordblks = X + Y
    <3>1. mallinfo(gm).uordblks = gm.footprint - (n + Z) /\ gm.footprint = n + Z + (X + Y) /\ n \in Nat
      BY <2>7, <2>8, <2>10 DEF n
    <3> QED
      BY ONLY <2>9, <3>1
  <2> QED
    BY <2>11 DEF Accounted, X, Y
<1>4. CASE ~is_initialized(gm)
  <2>1. Untouched(gm)
    BY <1>4, ChunksAreCells
  <2>2. gm.seg = <<>> /\ \A a \in Addr : gm.head[a] = NoHeader
    BY <2>1 DEF Untouched
  <2>3. DOMAIN live = {}
    <3>1. Cells(gm) = {}
      BY <2>2 DEF Cells, NoHeader
    <3> QED
      BY <1>1, <3>1 DEF Blocks, InUse
  <2>4. 2 .. Len(gm.seg) = {}
    BY <2>2
  <2>5. X = 0
    <3>1. MapThenSumSet(LAMBDA p : gm.head[p].size, {}) = 0
      BY DEF MapThenSumSet, MapThenFoldSet
    <3> QED
      BY <2>3, <3>1
  <2>6. Y = 0
    <3>1. MapThenSumSet(LAMBDA k : End(gm.seg[k]) - gm.seg[k].record, {}) = 0
      BY DEF MapThenSumSet, MapThenFoldSet
    <3> QED
      BY <2>4, <3>1
  <2>7. mallinfo(gm).uordblks = 0
    BY <1>4 DEF mallinfo
  <2> HIDE DEF X, Y, Z
  <2>8. mallinfo(gm).uordblks = X + Y
    BY <2>5, <2>6, <2>7
  <2> QED
    BY <2>8 DEF Accounted, X, Y
<1> QED
  BY <1>3, <1>4

-----------------------------------------------------------------------------
(* The theorems.                                                           *)

(* Each call of the program, whatever it is and wherever the system maps,  *)
(* leaves headers, feet, bins, dv, top, segments and footprint in          *)
(* agreement, and the chunks in use are the program's blocks and the       *)
(* segments' records.                                                      *)
THEOREM HeapServes == Spec /\ []ShareCoversFoot /\ []ReleasedAreLarge => []Serving
BY ServingInvariant

(* With FSD 1 the share of any heap covers the foot of top: the hypothesis *)
(* of the theorems here then holds by itself.                              *)
LEMMA WholeShare ==
    ASSUME FSD = 1, Serving
    PROVE  ShareCoversFoot
<1> SUFFICES ASSUME is_initialized(gm) PROVE ShareCovers(gm)
  BY DEF ShareCoversFoot
<1>1. gm \in State /\ Sound(gm)
  BY ChunksAreCells
<1>2. SegmentLayout(gm) /\ Layout(gm)
  BY <1>1 DEF Sound
<1>3. Apart(gm) /\ gm.footprint = Cardinality(Mapped(gm)) /\ 1 \in DOMAIN gm.seg
  <2>1. gm.seg \in Seq(Segment) /\ gm.seg # <<>>
    BY <1>1, <1>2 DEF State, SegmentLayout
  <2>2. 1 \in DOMAIN gm.seg
    BY <2>1
  <2> QED
    BY <1>2, <2>2 DEF SegmentLayout, Apart
<1>4. Cardinality(MappedBut(gm, 1)) \in Nat
      /\ gm.footprint = Cardinality(MappedBut(gm, 1)) + gm.seg[1].size
  BY <1>1, <1>3, MappedAdds
<1>5. segment_holds(gm.seg[1], gm.top) /\ FootOf(gm) + TopFoot = End(gm.seg[1])
  BY <1>2 DEF SegmentLayout
<1>6. gm.seg[1].base <= gm.top
  BY <1>5 DEF segment_holds
<1>7. /\ gm.seg[1].base \in Nat /\ gm.seg[1].size \in Nat
      /\ End(gm.seg[1]) = gm.seg[1].base + gm.seg[1].size
  BY <1>1, <1>3, SegFacts DEF End
<1>8. gm.top \in Nat /\ gm.topsize \in Nat
  BY <1>1, FootFacts
<1>9. FootOf(gm) = gm.top + gm.topsize
  BY DEF FootOf
<1> DEFINE b == gm.seg[1].base
           s == gm.seg[1].size
           c == Cardinality(MappedBut(gm, 1))
           t == TopFoot
<1>10. t \in Nat
  BY DEF TopFoot, RecordSize, MinChunk
<1>11. /\ b \in Nat /\ s \in Nat /\ c \in Nat /\ gm.footprint = c + s
       /\ b <= gm.top /\ (gm.top + gm.topsize) + t = b + s
  BY <1>4, <1>5, <1>6, <1>7, <1>9
<1> HIDE DEF b, s, c, t
<1>12. gm.footprint >= t /\ gm.footprint \in Nat
  BY ONLY <1>8, <1>10, <1>11
<1>13. gm.footprint \div 1 = gm.footprint
  BY ONLY <1>12
<1> QED
  BY <1>12, <1>13 DEF ShareCovers, t

(* Where a growth is of the whole footprint, as in the chunks run, no call *)
(* lets the heap become too small a share of itself.                       *)
THEOREM WholeShareCovers ==
    ASSUME FSD = 1
    PROVE  Spec /\ []ReleasedAreLarge => []ShareCoversFoot
<1>1. Init => Serving
  BY InitServes
<1>2. Serving /\ ShareCoversFoot /\ ReleasedAreLarge' /\ [Next]_vars => Serving'
  BY NextServes DEF CallServed, ServesOn, Serving
<1>3. Serving => ShareCoversFoot
  BY WholeShare
<1> QED
  BY <1>1, <1>2, <1>3, PTL DEF Spec

(* ChunkHeap's fields keep their types: no header, size or footprint       *)
(* leaves the address space.                                               *)
THEOREM ChunkTypes == Spec /\ []ShareCoversFoot /\ []ReleasedAreLarge => []TypeOK
BY ServingInvariant, ServingTyped, PTL

(* dlmalloc.c:2001: chunks follow one another through each segment.        *)
THEOREM ChunksTile == Spec /\ []ShareCoversFoot /\ []ReleasedAreLarge => []Tiled
BY ServingInvariant, ServingTiled, PTL

(* What is in use is the program's or a segment record: no block is lost   *)
(* or handed out twice.                                                    *)
THEOREM NothingIsLost == Spec /\ []ShareCoversFoot /\ []ReleasedAreLarge => []NothingLost
BY ServingInvariant, ServingKeeps, PTL

(* Segments lie apart, make up the footprint and hold top or their record. *)
THEOREM SegmentsHold == Spec /\ []ShareCoversFoot /\ []ReleasedAreLarge => []SegmentsKept
BY ServingInvariant, ServingSegments, PTL

(* dlmalloc.c:2033: whatever a build with DEBUG asserts of the state after *)
(* a call, of bins, dv, top, the chunks of the walk and the statistics,    *)
(* holds.                                                                  *)
THEOREM StateIsChecked == Spec /\ []ShareCoversFoot /\ []ReleasedAreLarge => []StateChecked
BY ServingInvariant, ServingChecked, PTL

(* dlmalloc.c:2065: what mallinfo reports as used is what the program's    *)
(* blocks and the ends of old segments occupy, no more and no less.        *)
THEOREM StatisticsAddUp == Spec /\ []ShareCoversFoot /\ []ReleasedAreLarge => []Accounted
BY ServingInvariant, ServingAccounted, PTL

(* dlmalloc.c:3287: the system is asked only when no free chunk would do.  *)
THEOREM GrowthIsNeeded == Spec /\ []ShareCoversFoot /\ []ReleasedAreLarge => GrowsForNeed
<1>1. Serving /\ [Next]_vars =>
        [gm'.footprint # gm.footprint =>
          \A nb \in Requests :
              (\E a \in FreeChunks :
                  gm.head[a].size >= nb /\ (a = gm.top => gm.head[a].size > nb))
              => ~Malloc(nb)]_vars
  BY GrowthNeeded
<1> QED
  BY <1>1, ServingInvariant, PTL DEF Spec, GrowsForNeed

(* dlmalloc.c:2694: what is mapped for a request serves it, as long as the *)
(* share of the footprint covers the foot of top.                          *)
THEOREM GrowthIsEnough == Spec /\ []ShareCoversFoot /\ []ReleasedAreLarge => GrowthSuffices
<1>1. Serving /\ ShareCoversFoot /\ [Next]_vars =>
        [gm'.footprint # gm.footprint /\ live' = live => \A nb \in Requests : ~Malloc(nb)]_vars
  BY GrowthServed
<1> QED
  BY <1>1, ServingInvariant, PTL DEF Spec, GrowthSuffices

(* dlmalloc, with its bins, boundary tags and segments, implements         *)
(* BlockStore: blocks do not overlap, lie in mapped memory, have the size  *)
(* that was asked for, and only a call about a block moves or resizes it.  *)
THEOREM HeapImplementsStore == Spec /\ []ShareCoversFoot /\ []ReleasedAreLarge => StoreKept
<1>1. Serving /\ ShareCoversFoot /\ ReleasedAreLarge' /\ [Next]_vars => [Store!Next]_(Store!vars)
  BY NextServes, CallStored
<1> QED
  BY <1>1, InitStored, ServingInvariant, PTL DEF Spec, StoreKept, Store!Spec

=============================================================================
