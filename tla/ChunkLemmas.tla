---------------------------- MODULE ChunkLemmas ----------------------------
(***************************************************************************)
(* The heap of ChunkHeap as a set of chunks.  Sound says of a state what   *)
(* the code relies on: headers and feet agree, chunks tile the segments,   *)
(* and each free chunk is filed in one place.  A step that cuts, joins,    *)
(* takes or gives back chunks changes one region of the heap: it replaces  *)
(* the chunks of lo .. hi - 1 by one or two others.  ReshapeSound shows    *)
(* that a step of that form keeps the heap sound, whatever the region held *)
(* before, and the lemmas behind it that FindMemory and dispose_chunk are  *)
(* of that form.                                                           *)
(***************************************************************************)
EXTENDS ChunkHeap, SequenceTheorems, FiniteSetTheorems, NaturalsInduction,
        WellFoundedInduction, TLAPS

-----------------------------------------------------------------------------
(* Sequences.                                                              *)

(* What is left of a sequence without its element i.                       *)
LEMMA RemoveAtFacts ==
    ASSUME NEW A, NEW s \in Seq(A), NEW i \in 1 .. Len(s)
    PROVE  /\ RemoveAt(s, i) \in Seq(A) /\ Len(RemoveAt(s, i)) = Len(s) - 1
           /\ \A j \in 1 .. Len(s) - 1 : RemoveAt(s, i)[j] = IF j < i THEN s[j] ELSE s[j + 1]
<1> DEFINE a == SubSeq(s, 1, i - 1)
           b == SubSeq(s, i + 1, Len(s))
<1>1. a \in Seq(A) /\ Len(a) = i - 1 /\ \A j \in 1 .. i - 1 : a[j] = s[j]
  BY SubSeqProperties
<1>2. b \in Seq(A) /\ Len(b) = Len(s) - i /\ \A j \in 1 .. Len(s) - i : b[j] = s[i + j]
  BY SubSeqProperties
<1>3. RemoveAt(s, i) = a \o b
  BY DEF RemoveAt
<1> HIDE DEF a, b
<1>4. /\ a \o b \in Seq(A) /\ Len(a \o b) = Len(a) + Len(b)
      /\ \A j \in 1 .. Len(a) + Len(b) : (a \o b)[j] = IF j <= Len(a) THEN a[j] ELSE b[j - Len(a)]
  BY <1>1, <1>2, ConcatProperties
<1>5. ASSUME NEW j \in 1 .. Len(s) - 1 PROVE (a \o b)[j] = IF j < i THEN s[j] ELSE s[j + 1]
  <2>1. CASE j < i
    BY <1>1, <1>2, <1>4, <2>1
  <2>2. CASE j >= i
    <3>1. (a \o b)[j] = b[j - (i - 1)]
      BY <1>1, <1>2, <1>4, <2>2
    <3>2. j - (i - 1) \in 1 .. Len(s) - i /\ i + (j - (i - 1)) = j + 1
      BY <2>2 DEF a
    <3>3. b[j - (i - 1)] = s[j + 1]
      BY <1>2, <3>2
    <3> QED
      BY <2>2, <3>1, <3>3
  <2>3. j < i \/ j >= i
    OBVIOUS
  <2> QED
    BY <2>1, <2>2, <2>3
<1> QED
  BY <1>1, <1>2, <1>3, <1>4, <1>5

(* The smallest element of a set of natural numbers.                       *)
LEMMA MinFacts ==
    ASSUME NEW S \in SUBSET Nat, S # {}
    PROVE  Min(S) \in S /\ \A x \in S : Min(S) <= x
<1> DEFINE R == OpToRel(<, Nat)
<1>1. IsWellFoundedOn(R, Nat)
  BY NatLessThanWellFounded
<1>2. PICK m \in S : \A k \in S : <<k, m>> \notin R
  <2> HIDE DEF R
  <2> QED BY <1>1, WFMin
<1>3. \A k \in S : k < m => <<k, m>> \in R
  BY DEF OpToRel
<1> HIDE DEF R
<1>4. \A k \in S : ~(k < m)
  BY <1>2, <1>3
<1>5. m \in Nat /\ \A k \in S : m <= k
  BY <1>4
<1> QED
  BY <1>5 DEF Min

LEMMA RemoveFirstIs ==
    ASSUME NEW A, NEW s \in Seq(A), NEW e, NEW k \in 1 .. Len(s), s[k] = e
    PROVE  \E i \in 1 .. Len(s) : s[i] = e /\ RemoveFirst(s, e) = RemoveAt(s, i)
<1> DEFINE I == {i \in 1 .. Len(s) : s[i] = e}
<1>2. I \in SUBSET Nat /\ I # {}
  OBVIOUS
<1>4. RemoveFirst(s, e) = RemoveAt(s, Min(I))
  BY DEF RemoveFirst, SelectInSeq
<1> HIDE DEF I
<1>3. Min(I) \in I
  BY <1>2, MinFacts
<1> QED
  BY <1>3, <1>4 DEF I

(* Without e, a sequence that holds nothing twice holds all else.          *)
LEMMA RemoveFirstFacts ==
    ASSUME NEW A, NEW s \in Seq(A), IsInjective(s), NEW e
    PROVE  /\ RemoveFirst(s, e) \in Seq(A) /\ IsInjective(RemoveFirst(s, e))
           /\ Range(RemoveFirst(s, e)) = Range(s) \ {e}
<1>1. CASE ~ \E k \in 1 .. Len(s) : s[k] = e
  BY <1>1 DEF RemoveFirst, Range
<1>2. CASE \E k \in 1 .. Len(s) : s[k] = e
  <2>1. PICK i \in 1 .. Len(s) : s[i] = e /\ RemoveFirst(s, e) = RemoveAt(s, i)
    BY <1>2, RemoveFirstIs
  <2> DEFINE r == RemoveAt(s, i)
  <2>2. /\ r \in Seq(A) /\ Len(r) = Len(s) - 1
        /\ \A j \in 1 .. Len(s) - 1 : r[j] = IF j < i THEN s[j] ELSE s[j + 1]
    BY RemoveAtFacts
  <2> HIDE DEF r
  <2>3. DOMAIN r = 1 .. Len(s) - 1 /\ DOMAIN s = 1 .. Len(s) /\ Len(s) \in Nat
    BY <2>2
  <2> DEFINE at(j) == IF j < i THEN j ELSE j + 1
  <2>8. \A j \in DOMAIN r : at(j) \in DOMAIN s /\ r[j] = s[at(j)] /\ at(j) # i
    BY <2>2, <2>3
  <2>9. \A j, k \in DOMAIN r : at(j) = at(k) => j = k
    BY <2>3
  <2>4. IsInjective(r)
    <3> HIDE DEF at
    <3> QED
      BY <2>8, <2>9 DEF IsInjective
  <2>5. ASSUME NEW j \in DOMAIN r PROVE \E k \in DOMAIN s : s[k] = r[j] /\ k # i
    BY <2>8
  <2>6. ASSUME NEW k \in DOMAIN s, k # i PROVE \E j \in DOMAIN r : r[j] = s[k]
    <3>1. CASE k < i
      BY <2>2, <2>3, <3>1
    <3>2. CASE k > i
      <4>1. k - 1 \in DOMAIN r /\ r[k - 1] = s[k]
        BY <2>2, <2>3, <3>2
      <4> QED
        BY <4>1
    <3> QED
      BY <3>1, <3>2, <2>3, <2>6
  <2>7. Range(r) = Range(s) \ {e}
    <3>1. \A k \in DOMAIN s : s[k] = e <=> k = i
      BY <2>1, <2>3 DEF IsInjective
    <3> QED
      BY <2>5, <2>6, <3>1 DEF Range
  <2> QED
    BY <2>1, <2>2, <2>4, <2>7 DEF r
<1> QED
  BY <1>1, <1>2

-----------------------------------------------------------------------------
(* States and headers.                                                     *)

Header  == [size : Size, cinuse : BOOLEAN, pinuse : BOOLEAN, prev_foot : Size]
Segment == [base : Addr, size : Size, record : Addr \cup {Null}]
State ==
    [head : [Addr -> Header], bin : [Size -> Seq(Addr)],
     dv : Addr \cup {Null}, dvsize : Size, top : Addr \cup {Null}, topsize : Size,
     seg : Seq(Segment), footprint : Size, release_checks : Nat, astray : BOOLEAN]

(* Two states that differ in headers only.                                 *)
SameButHead(m, m2) ==
    /\ m2.bin = m.bin /\ m2.dv = m.dv /\ m2.dvsize = m.dvsize
    /\ m2.top = m.top /\ m2.topsize = m.topsize /\ m2.seg = m.seg
    /\ m2.footprint = m.footprint /\ m2.release_checks = m.release_checks
    /\ m2.astray = m.astray

LEMMA Sizes0 == Space \in Nat /\ Space > 0 /\ NoHeader \in Header /\ Fencepost \in Header
BY ChunkAssumption DEF ChunkAssumption, Header, NoHeader, Fencepost, Size

LEMMA UpToSpace == IsFiniteSet(1 .. Space) /\ Cardinality(1 .. Space) = Space
<1> DEFINE i == 1
<1>1. i \in Int /\ Space \in Int /\ Space > 0 /\ i = 1
  BY Sizes0
<1> HIDE DEF i
<1>2. IsFiniteSet(i .. Space) /\ Cardinality(i .. Space) = IF i > Space THEN 0 ELSE Space - i + 1
  BY ONLY <1>1, FS_Interval
<1>3. Cardinality(i .. Space) = Space
  BY ONLY <1>1, <1>2
<1> QED
  BY <1>2, <1>3 DEF i

LEMMA HeadState ==
    ASSUME NEW m \in State, NEW h \in [Addr -> Header]
    PROVE  /\ [m EXCEPT !.head = h] \in State
           /\ [m EXCEPT !.head = h].head = h
           /\ SameButHead(m, [m EXCEPT !.head = h])
BY DEF State, SameButHead

LEMMA ForgetFacts ==
    ASSUME NEW m \in State, NEW lo \in Int, NEW hi \in Int
    PROVE  /\ Forget(m, lo, hi) \in State
           /\ SameButHead(m, Forget(m, lo, hi))
           /\ \A a \in Addr : Forget(m, lo, hi).head[a] =
                                IF lo <= a /\ a < hi THEN NoHeader ELSE m.head[a]
<1> DEFINE h == [a \in Addr |-> IF a \in lo .. hi - 1 THEN NoHeader ELSE m.head[a]]
<1>1. h \in [Addr -> Header]
  BY Sizes0 DEF State
<1>2. Forget(m, lo, hi) = [m EXCEPT !.head = h]
  BY DEF Forget
<1> QED
  <2>1. \A a \in Addr : h[a] = IF lo <= a /\ a < hi THEN NoHeader ELSE m.head[a]
    BY DEF Addr
  <2> HIDE DEF h
  <2> QED
    BY <1>1, <1>2, <2>1, HeadState

LEMMA SetHeadFacts ==
    ASSUME NEW m \in State, NEW p \in Addr, NEW s \in Size, NEW c \in BOOLEAN, NEW pin \in BOOLEAN
    PROVE  /\ SetHead(m, p, s, c, pin) \in State
           /\ SameButHead(m, SetHead(m, p, s, c, pin))
           /\ \A a \in Addr : SetHead(m, p, s, c, pin).head[a] =
                 IF a = p THEN [size |-> s, cinuse |-> c, pinuse |-> pin,
                                prev_foot |-> IF pin THEN 0 ELSE m.head[p].prev_foot]
                 ELSE IF p < a /\ a < p + s THEN NoHeader ELSE m.head[a]
<1> DEFINE f == Forget(m, p + 1, p + s)
           r == [size |-> s, cinuse |-> c, pinuse |-> pin,
                 prev_foot |-> IF pin THEN 0 ELSE f.head[p].prev_foot]
           h == [f.head EXCEPT ![p] = r]
<1>1. /\ f \in State /\ SameButHead(m, f)
      /\ \A a \in Addr : f.head[a] = IF p + 1 <= a /\ a < p + s THEN NoHeader ELSE m.head[a]
  <2>1. p + 1 \in Int /\ p + s \in Int
    BY DEF Addr, Size
  <2> QED
    BY <2>1, ForgetFacts
<1>2. SetHead(m, p, s, c, pin) = [f EXCEPT !.head = h]
  BY <1>1 DEF SetHead, State
<1>3. f.head[p] = m.head[p]
  BY <1>1 DEF Addr
<1>4. r \in Header
  <2>1. f.head[p] \in Header
    BY <1>1 DEF State
  <2>2. f.head[p].prev_foot \in Size /\ 0 \in Size
    BY <2>1, Sizes0 DEF Header, Size
  <2> QED
    BY <2>2 DEF Header
<1>5. h \in [Addr -> Header] /\ \A a \in Addr : h[a] = IF a = p THEN r ELSE f.head[a]
  <2> HIDE DEF f, r
  <2> QED
    BY <1>1, <1>4 DEF State
<1>6. SetHead(m, p, s, c, pin) \in State /\ SameButHead(f, SetHead(m, p, s, c, pin))
      /\ SetHead(m, p, s, c, pin).head = h
  <2> HIDE DEF f, h
  <2> QED
    BY <1>1, <1>2, <1>5, HeadState
<1>7. SameButHead(m, SetHead(m, p, s, c, pin))
  <2> HIDE DEF f
  <2> QED
  BY <1>1, <1>6 DEF SameButHead
<1>8. r = [size |-> s, cinuse |-> c, pinuse |-> pin,
           prev_foot |-> IF pin THEN 0 ELSE m.head[p].prev_foot]
  BY <1>3
<1>9. ASSUME NEW a \in Addr, a # p
      PROVE  h[a] = IF p < a /\ a < p + s THEN NoHeader ELSE m.head[a]
  BY <1>1, <1>5, <1>9 DEF Addr
<1> QED
  <2> HIDE DEF f, r, h
  <2> QED
    BY <1>5, <1>6, <1>7, <1>8, <1>9

-----------------------------------------------------------------------------
(* The heap as a set of chunks.                                            *)

FootOf(m)    == m.top + m.topsize
Cells(m)     == {a \in Addr : m.head[a].size > 0} \ {FootOf(m)}
After(m, a)  == a + m.head[a].size
InUse(m)     == {a \in Cells(m) : m.head[a].cinuse}
BasesOf(m)   == {m.seg[k].base : k \in DOMAIN m.seg}
RecordsOf(m) == {m.seg[k].record : k \in DOMAIN m.seg \ {1}}

(* A chunk is followed by the next one of its segment; by the fencepost    *)
(* behind its record; or, if it is top, by the foot.                       *)
Followed(m, a) ==
    IF a = m.top THEN After(m, a) = FootOf(m)
    ELSE IF a \in RecordsOf(m) THEN m.head[After(m, a)] = Fencepost
    ELSE After(m, a) \in Cells(m) \ BasesOf(m)

(* The header behind a chunk agrees with that of the chunk.                *)
Tagged(m, a) ==
    /\ m.head[After(m, a)].pinuse = m.head[a].cinuse
    /\ m.head[a].cinuse \/ m.head[a].pinuse
    /\ m.head[a].cinuse \/ a = m.top \/ m.head[After(m, a)].prev_foot = m.head[a].size

Layout(m) ==
    /\ \A a \in Cells(m), b \in Addr : a < b /\ m.head[b] # NoHeader => After(m, a) <= b
    /\ \A a \in Cells(m) :
          /\ After(m, a) \in Addr
          /\ Followed(m, a)
          /\ Tagged(m, a)
          /\ a # m.top => m.head[a].size >= MinChunk
          /\ a \in BasesOf(m) \/ \E b \in Cells(m) : After(m, b) = a
    /\ \A a \in BasesOf(m) : a \in Cells(m) /\ m.head[a].pinuse
    /\ \A r \in RecordsOf(m) : r \in Cells(m) /\ m.head[r].cinuse
    /\ m.top \in Cells(m) /\ ~m.head[m.top].cinuse
    /\ m.topsize = m.head[m.top].size
    /\ FootOf(m) \in Addr /\ m.head[FootOf(m)].size = TopFoot

(* From chunk lo on, whole chunks up to hi, in one segment.                *)
Region(m, lo, hi) ==
    /\ lo \in Cells(m) /\ hi \in Cells(m) \cup {FootOf(m)} /\ lo < hi /\ hi \notin BasesOf(m)
    /\ \A a \in Cells(m) : lo <= a /\ a < hi =>
          /\ a \notin RecordsOf(m)
          /\ a = lo \/ a \notin BasesOf(m)
          /\ a = m.top <=> hi = FootOf(m) /\ After(m, a) = hi

(* Headers h become g: lo .. hi - 1 is now a chunk at lo and, if mid is    *)
(* not hi, one at mid, and c1 and c2 say whether they are in use.          *)
Retiled(h, g, lo, mid, hi, c1, c2) ==
    /\ \A a \in Addr : a < lo \/ hi < a => g[a] = h[a]
    /\ \A a \in Addr : lo < a /\ a < hi /\ a # mid => g[a] = NoHeader
    /\ g[lo].size = mid - lo /\ g[lo].cinuse = c1 /\ g[lo].pinuse = h[lo].pinuse
    /\ ~h[lo].pinuse => g[lo].prev_foot = h[lo].prev_foot
    /\ mid = hi => c2 = c1
    /\ mid # hi => g[mid].size = hi - mid /\ g[mid].cinuse = c2 /\ g[mid].pinuse = c1
    /\ g[hi].size = h[hi].size /\ g[hi].cinuse = h[hi].cinuse /\ g[hi].pinuse = c2

LastAt(lo, mid, hi) == IF mid = hi THEN lo ELSE mid

(* What a retiling must observe: no two free chunks touch, the foot of a   *)
(* free chunk is written, and the last one before the foot of top is top.  *)
Fits(m, m2, lo, mid, hi, c1, c2) ==
    LET z == LastAt(lo, mid, hi) IN
    /\ lo < mid /\ mid <= hi
    /\ mid # hi => c1
    /\ c1 \/ m.head[lo].pinuse
    /\ c1 => mid - lo >= MinChunk
    /\ IF hi = FootOf(m) THEN ~c2 /\ m2.top = z /\ m2.topsize = hi - z
       ELSE /\ hi - z >= MinChunk
            /\ m2.top = m.top /\ m2.topsize = m.topsize
            /\ c2 \/ (m.head[hi].cinuse /\ m2.head[hi].prev_foot = hi - z)

LEMMA CellFacts ==
    ASSUME NEW m \in State, NEW a \in Cells(m)
    PROVE  a \in Addr /\ a \in Int /\ a > 0 /\ m.head[a].size \in Nat /\ m.head[a].size > 0
           /\ m.head[a] \in Header /\ After(m, a) \in Int /\ m.head[a] # NoHeader
           /\ m.head[a].cinuse \in BOOLEAN /\ m.head[a].pinuse \in BOOLEAN
<1>1. a \in Addr /\ m.head[a] \in Header /\ m.head[a].size > 0
  BY DEF Cells, State
<1> QED
  BY <1>1, Sizes0 DEF Header, Addr, Size, After, NoHeader

LEMMA FootFacts ==
    ASSUME NEW m \in State
    PROVE  FootOf(m) \in Nat /\ m.top \in Nat /\ m.topsize \in Nat
BY Sizes0 DEF State, FootOf, Addr, Size, Null

LEMMA RegionOne ==
    ASSUME NEW m \in State, Layout(m), NEW a \in Cells(m), a \notin RecordsOf(m)
    PROVE  Region(m, a, After(m, a))
<1>1. \A b \in Cells(m) : a <= b /\ b < After(m, a) => b = a
  <2> SUFFICES ASSUME NEW b \in Cells(m), a < b, b < After(m, a) PROVE FALSE
    BY CellFacts
  <2>1. After(m, a) <= b
    BY CellFacts DEF Layout
  <2> QED
    BY <2>1, CellFacts
<1>2. a < After(m, a) /\ After(m, a) \in Addr
  BY CellFacts DEF Layout, After
<1>3. Followed(m, a)
  BY DEF Layout
<1>4. FootOf(m) \notin Cells(m)
  BY DEF Cells
<1>5. FootOf(m) \notin BasesOf(m)
  BY <1>4 DEF Layout
<1> QED
  BY <1>1, <1>2, <1>3, <1>4, <1>5 DEF Region, Followed

LEMMA RegionMore ==
    ASSUME NEW m \in State, Layout(m), NEW lo, NEW a \in Cells(m), Region(m, lo, a),
           a \notin RecordsOf(m)
    PROVE  Region(m, lo, After(m, a))
<1>1. Region(m, a, After(m, a))
  BY RegionOne
<1>2. FootOf(m) \notin Cells(m)
  BY DEF Cells
<1>3. ASSUME NEW b \in Cells(m), lo <= b, b < a
      PROVE  b # m.top /\ After(m, b) # After(m, a)
  <2>1. b # m.top
    BY <1>2, <1>3 DEF Region
  <2>2. After(m, b) <= a
    BY <1>3, CellFacts DEF Layout
  <2> QED
    BY <2>1, <2>2, CellFacts DEF After
<1>4. lo < After(m, a)
  BY CellFacts, <1>1 DEF Region
<1>5. ASSUME NEW b \in Cells(m), lo <= b, b < After(m, a)
      PROVE  /\ b \notin RecordsOf(m)
             /\ b = lo \/ b \notin BasesOf(m)
             /\ b = m.top <=> After(m, a) = FootOf(m) /\ After(m, b) = After(m, a)
  <2>1. CASE b < a
    BY <2>1, <1>3, <1>5 DEF Region
  <2>2. CASE a <= b
    BY <2>2, <1>1, <1>5 DEF Region
  <2> QED
    BY <2>1, <2>2, CellFacts
<1> QED
  BY <1>1, <1>4, <1>5 DEF Region


Mapped(m) == UNION {m.seg[k].base .. End(m.seg[k]) - 1 : k \in DOMAIN m.seg}

(* The segments lie apart and hold all headers.  A chunk and the header    *)
(* behind it are in one segment; the last chunk is the segment's record,   *)
(* or top.                                                                 *)
SegmentLayout(m) ==
    /\ m.seg # <<>>
    /\ \A k \in DOMAIN m.seg : End(m.seg[k]) <= Space
    /\ \A j, k \in DOMAIN m.seg :
          j # k => End(m.seg[j]) <= m.seg[k].base \/ End(m.seg[k]) <= m.seg[j].base
    /\ \A a \in Addr : m.head[a] # NoHeader => \E k \in DOMAIN m.seg : segment_holds(m.seg[k], a)
    /\ \A k \in DOMAIN m.seg : \A a \in Cells(m) :
          segment_holds(m.seg[k], a) =>
              /\ After(m, a) < End(m.seg[k])
              /\ a <= IF k = 1 THEN m.top ELSE m.seg[k].record
    /\ \A k \in DOMAIN m.seg \ {1} :
          segment_holds(m.seg[k], m.seg[k].record) /\ m.seg[k].record + TopFoot <= End(m.seg[k])
    /\ segment_holds(m.seg[1], m.top) /\ FootOf(m) + TopFoot = End(m.seg[1])
    /\ m.footprint = Cardinality(Mapped(m))

LEMMA SegFacts ==
    ASSUME NEW m \in State, NEW k \in DOMAIN m.seg
    PROVE  /\ k \in Nat /\ k > 0 /\ m.seg[k] \in Segment
           /\ m.seg[k].base \in Nat /\ m.seg[k].base > 0 /\ m.seg[k].base \in Addr
           /\ m.seg[k].size \in Nat /\ End(m.seg[k]) \in Nat
           /\ m.seg[k].record \in Nat
<1>1. m.seg \in Seq(Segment)
  BY DEF State
<1>2. k \in 1 .. Len(m.seg) /\ m.seg[k] \in Segment
  <2> HIDE DEF Segment
  <2> QED
    BY <1>1
<1> QED
  BY <1>2, Sizes0 DEF Segment, Addr, Size, Null, End

LEMMA RetiledCells ==
    ASSUME NEW m \in State, NEW m2 \in State, Layout(m), m2.seg = m.seg,
           NEW lo, NEW mid \in Int, NEW hi, NEW c1 \in BOOLEAN, NEW c2 \in BOOLEAN,
           Region(m, lo, hi), Retiled(m.head, m2.head, lo, mid, hi, c1, c2),
           Fits(m, m2, lo, mid, hi, c1, c2)
    PROVE  /\ lo \in Addr /\ hi \in Addr /\ mid \in Addr
           /\ FootOf(m2) = FootOf(m)
           /\ Cells(m2) = {a \in Cells(m) : a < lo \/ hi <= a} \cup {lo, LastAt(lo, mid, hi)}
           /\ \A a \in Cells(m) : a < lo \/ hi <= a =>
                 /\ After(m2, a) = After(m, a) /\ m2.head[a].size = m.head[a].size
                 /\ m2.head[a].cinuse = m.head[a].cinuse
<1>1. lo \in Addr /\ hi \in Addr /\ lo < hi
  BY CellFacts DEF Region, Layout
<1>2. mid \in Addr
  BY <1>1, Sizes0 DEF Fits, Addr
<1>3. FootOf(m2) = FootOf(m)
  <2>1. CASE hi = FootOf(m)
    BY <1>1, <1>2, <2>1 DEF Fits, FootOf, Addr, LastAt
  <2>2. CASE hi # FootOf(m)
    BY <2>2 DEF Fits, FootOf
  <2> QED
    BY <2>1, <2>2
<1>4. FootOf(m) \in Addr /\ (lo > FootOf(m) \/ hi <= FootOf(m))
  <2>1. m.head[FootOf(m)] # NoHeader /\ FootOf(m) \in Addr
    BY DEF Layout, NoHeader, TopFoot, RecordSize, MinChunk
  <2>2. CASE hi = FootOf(m)
    BY <2>1, <2>2, <1>1 DEF Addr
  <2>3. CASE hi # FootOf(m) /\ lo < FootOf(m) /\ FootOf(m) < hi
    <3>1. m.top \in Cells(m) /\ After(m, m.top) = FootOf(m)
      BY DEF Layout, Followed
    <3>2. lo \in Cells(m) /\ lo # m.top
      <4>1. lo \in Cells(m)
        BY DEF Region
      <4> QED
        BY <2>3, <1>1, <4>1 DEF Region, Addr
    <3>3. ~(lo <= m.top /\ m.top < hi)
      BY <2>3, <3>1 DEF Region
    <3>4. m.top < FootOf(m) /\ m.top \in Nat /\ FootOf(m) \in Nat
      BY <3>1, CellFacts, FootFacts DEF After
    <3>5. m.top < lo
      BY <3>3, <3>4, <2>3, <1>1 DEF Addr
    <3>6. After(m, m.top) <= lo
      BY <3>1, <3>2, <3>5, CellFacts DEF Layout
    <3> QED
      BY <3>1, <3>6, <2>3, <1>1, <2>1 DEF Addr
  <2> QED
    BY <1>1, <2>1, <2>2, <2>3 DEF Addr, Region, Cells
<1>5. ASSUME NEW a \in Addr PROVE a \in Cells(m2) <=>
        \/ a \in Cells(m) /\ (a < lo \/ hi <= a)
        \/ a \in {lo, LastAt(lo, mid, hi)}
  <2>1. CASE a < lo \/ hi < a
    BY <2>1, <1>1, <1>2, <1>3 DEF Cells, Retiled, LastAt, Fits, Addr
  <2>2. CASE a = hi
    <3>1. a \notin {lo, LastAt(lo, mid, hi)}
      BY <2>2, <1>1 DEF LastAt, Addr
    <3> QED
      BY <2>2, <3>1, <1>1, <1>3 DEF Cells, Retiled, Addr
  <2>3. CASE a = lo
    BY <2>3, <1>1, <1>2, <1>3, <1>4 DEF Cells, Retiled, Fits, Addr
  <2>4. CASE lo < a /\ a < hi /\ a # mid
    BY <2>4, <1>1, <1>2, <1>3 DEF Cells, Retiled, NoHeader, LastAt, Addr
  <2>5. CASE a = mid /\ lo < a /\ a < hi
    BY <2>5, <1>1, <1>2, <1>3, <1>4 DEF Cells, Retiled, LastAt, Addr
  <2> QED
    BY <2>1, <2>2, <2>3, <2>4, <2>5, <1>1 DEF Addr
<1>6. ASSUME NEW a \in Cells(m), a < lo \/ hi <= a
      PROVE  /\ After(m2, a) = After(m, a) /\ m2.head[a].size = m.head[a].size
             /\ m2.head[a].cinuse = m.head[a].cinuse
  BY <1>1, <1>6, CellFacts DEF Retiled, After, Addr
<1> QED
  <2>1. Cells(m2) \subseteq Addr /\ Cells(m) \subseteq Addr /\ {lo, LastAt(lo, mid, hi)} \subseteq Addr
    BY <1>1, <1>2 DEF Cells, LastAt
  <2>2. Cells(m2) = {a \in Cells(m) : a < lo \/ hi <= a} \cup {lo, LastAt(lo, mid, hi)}
    BY <1>5, <2>1
  <2> QED
    BY <1>1, <1>2, <1>3, <1>6, <2>2


(* Top is where it was, or the last chunk of the region.                   *)
LEMMA RetiledTop ==
    ASSUME NEW m \in State, NEW m2 \in State, Layout(m),
           NEW lo, NEW mid \in Int, NEW hi, NEW c1 \in BOOLEAN, NEW c2 \in BOOLEAN,
           Region(m, lo, hi), Fits(m, m2, lo, mid, hi, c1, c2),
           lo \in Addr, hi \in Addr
    PROVE  /\ lo = m2.top => LastAt(lo, mid, hi) = lo /\ hi = FootOf(m)
           /\ LastAt(lo, mid, hi) = m2.top <=> hi = FootOf(m)
           /\ \A a \in Cells(m) : a < lo \/ hi <= a => (a = m2.top <=> a = m.top)
<1> DEFINE z == LastAt(lo, mid, hi)
           C == Cells(m)
<1>1. /\ lo < hi /\ lo < mid /\ mid <= hi /\ lo <= z /\ z < hi
      /\ lo \in Int /\ hi \in Int /\ z \in Int /\ mid \in Int
  BY DEF Fits, LastAt, Addr
<1>2. lo \in C /\ m.head[lo] # NoHeader
  BY CellFacts DEF Region
<1>3. CASE hi = FootOf(m)
  <2>1. m2.top = z
    BY <1>3 DEF Fits
  <2>2. m.top \in C /\ After(m, m.top) = hi /\ m.top < hi
    BY <1>3, CellFacts DEF Layout, Followed, After
  <2>3. m.top >= lo
    <3> SUFFICES ASSUME m.top < lo PROVE FALSE
      BY <2>2, CellFacts, <1>1
    <3>1. After(m, m.top) <= lo
      BY <2>2, <1>2, CellFacts DEF Layout
    <3> QED
      BY <3>1, <2>2, <1>1
  <2> QED
    BY <2>1, <2>2, <2>3, <1>3, <1>1, CellFacts
<1>4. CASE hi # FootOf(m)
  <2>1. m2.top = m.top
    BY <1>4 DEF Fits
  <2>2. m.top \in C
    BY DEF Layout
  <2>3. ~(lo <= m.top /\ m.top < hi)
    BY <1>4, <2>2 DEF Region
  <2> QED
    BY <1>4, <2>1, <2>3, <1>1
<1> QED
  BY <1>3, <1>4

(* The layout is kept.                                                     *)
LEMMA RetileLayout ==
    ASSUME NEW m \in State, NEW m2 \in State, Layout(m), m2.seg = m.seg,
           NEW lo, NEW mid \in Int, NEW hi, NEW c1 \in BOOLEAN, NEW c2 \in BOOLEAN,
           Region(m, lo, hi), Retiled(m.head, m2.head, lo, mid, hi, c1, c2),
           Fits(m, m2, lo, mid, hi, c1, c2)
    PROVE  Layout(m2)
<1> DEFINE z == LastAt(lo, mid, hi)
           C == Cells(m)
           C2 == Cells(m2)
           h == m.head
           g == m2.head
<1>1. /\ lo \in Addr /\ hi \in Addr /\ mid \in Addr
      /\ FootOf(m2) = FootOf(m)
      /\ C2 = {a \in C : a < lo \/ hi <= a} \cup {lo, z}
      /\ \A a \in C : a < lo \/ hi <= a =>
                 After(m2, a) = After(m, a) /\ g[a].size = h[a].size /\ g[a].cinuse = h[a].cinuse
  BY RetiledCells
<1>2. BasesOf(m2) = BasesOf(m) /\ RecordsOf(m2) = RecordsOf(m)
  BY DEF BasesOf, RecordsOf
<1>3. /\ lo < hi /\ lo < mid /\ mid <= hi /\ lo <= z /\ z < hi
      /\ lo \in Int /\ hi \in Int /\ z \in Int /\ mid \in Int /\ z \in Addr
  BY <1>1 DEF Fits, LastAt, Addr
<1>4. g[z].size = hi - z /\ After(m2, z) = hi /\ g[z].cinuse = c2 /\ z \in C2
  BY <1>1, <1>3 DEF Retiled, LastAt, After
<1>5. mid # hi => z = mid /\ After(m2, lo) = mid /\ c1
  BY <1>3 DEF LastAt, Fits, Retiled, After
<1>6. mid = hi => z = lo /\ c1 = c2
  BY DEF LastAt, Retiled
<1>7. hi \in C \cup {FootOf(m)} /\ hi \notin BasesOf(m) /\ lo \in C
  BY DEF Region
<1> HIDE DEF C
<1>20. \A a \in C : a \in Int /\ a \in Addr /\ After(m, a) \in Int /\ After(m, a) > a
  BY CellFacts DEF C, After
<1>21. \A a \in C : lo <= a /\ a < hi =>
          /\ a \notin RecordsOf(m)
          /\ a = lo \/ a \notin BasesOf(m)
          /\ a = m.top <=> (hi = FootOf(m) /\ After(m, a) = hi)
  BY DEF Region, C
<1> USE DEF C
<1>8. lo \notin RecordsOf(m) /\ z \notin RecordsOf(m) /\ (z = lo \/ z \notin BasesOf(m))
  <2>1. \A a \in Addr : lo < a /\ a < hi /\ a \in RecordsOf(m) \cup BasesOf(m) => FALSE
    BY <1>3 DEF Region, Layout, Addr
  <2>2. lo \notin RecordsOf(m)
    BY <1>3, <1>7 DEF Region
  <2> QED
    BY <2>1, <2>2, <1>3
<1>9. /\ lo = m2.top => z = lo /\ hi = FootOf(m)
      /\ z = m2.top <=> hi = FootOf(m)
      /\ \A a \in C : a < lo \/ hi <= a => (a = m2.top <=> a = m.top)
  BY <1>1, RetiledTop
<1>10. ASSUME NEW a \in C2, NEW b \in Addr, a < b, g[b] # NoHeader PROVE After(m2, a) <= b
  <2>1. b < lo \/ hi < b => g[b] = h[b]
    BY DEF Retiled
  <2>2. h[lo] # NoHeader /\ h[hi] # NoHeader
    <3>1. h[FootOf(m)] # NoHeader
      BY DEF Layout, NoHeader, TopFoot, RecordSize, MinChunk
    <3> QED
      BY <1>7, <3>1, CellFacts
  <2>3. lo < b /\ b < hi => b = mid
    BY <1>3, <1>10 DEF Retiled
  <2>4. CASE a \in C /\ (a < lo \/ hi <= a)
    <3>1. h[b] # NoHeader \/ (a < lo /\ lo < b)
      <4>1. CASE b < lo \/ hi < b
        BY <4>1, <2>1, <1>10
      <4>2. CASE b = lo \/ b = hi
        BY <4>2, <2>2
      <4>3. CASE lo < b /\ b < hi
        <5>1. ~(hi <= a)
          BY <4>3, <1>3, <1>10, <2>4, CellFacts DEF Addr
        <5> QED
          BY <4>3, <5>1, <2>4
      <4> QED
        BY <4>1, <4>2, <4>3, <1>3 DEF Addr
    <3>2. After(m, a) <= b
      <4>1. CASE h[b] # NoHeader
        BY <4>1, <1>10, <2>4 DEF Layout
      <4>2. CASE a < lo /\ lo < b
        <5>1. After(m, a) <= lo
          BY <4>2, <2>2, <2>4, <1>1 DEF Layout
        <5> QED
          BY <5>1, <4>2, <2>4, <1>3, CellFacts DEF Addr
      <4> QED
        BY <3>1, <4>1, <4>2
    <3> QED
      BY <1>1, <2>4, <3>2
  <2>5. CASE a = lo \/ a = z
    <3>1. b >= hi \/ b = mid
      BY <2>3, <2>5, <1>3, <1>10 DEF Addr
    <3> QED
      BY <3>1, <2>5, <1>3, <1>4, <1>5, <1>6, <1>10 DEF Addr
  <2> QED
    BY <1>1, <2>4, <2>5
<1>11. ASSUME NEW a \in C2 PROVE After(m2, a) \in Addr
  BY <1>1, <1>4, <1>5, <1>6 DEF Layout
<1>12. ASSUME NEW a \in C2 PROVE Followed(m2, a)
  <2>1. CASE a \in C /\ (a < lo \/ hi <= a)
    <3>1. Followed(m, a) /\ After(m2, a) = After(m, a)
      BY <1>1, <2>1 DEF Layout
    <3>2. CASE a = m.top
      BY <3>1, <3>2, <2>1, <1>1, <1>9 DEF Followed
    <3>3. CASE a # m.top /\ a \in RecordsOf(m)
      <4>1. h[After(m, a)] = Fencepost /\ After(m, a) \in Addr
        BY <3>1, <3>3, <2>1 DEF Followed, Layout
      <4>2. After(m, a) # hi /\ After(m, a) # lo
        <5>1. h[lo].size > 0 /\ h[hi].size > 0
          BY <1>7 DEF Cells, Layout, TopFoot, RecordSize, MinChunk
        <5> QED
          BY <5>1, <4>1 DEF Fencepost
      <4>3. After(m, a) < lo \/ hi < After(m, a)
        <5>1. a < lo => After(m, a) <= lo
          BY <2>1, <1>7, <1>1, CellFacts DEF Layout
        <5>2. hi <= a => hi < After(m, a)
          BY <2>1, <1>3, CellFacts DEF After
        <5> QED
          BY <5>1, <5>2, <4>2, <2>1, <1>3, CellFacts
      <4>4. g[After(m2, a)] = Fencepost
        BY <4>1, <4>3, <3>1 DEF Retiled
      <4> QED
        BY <4>4, <3>3, <2>1, <1>2, <1>9 DEF Followed
    <3>4. CASE a # m.top /\ a \notin RecordsOf(m)
      <4>1. After(m, a) \in C \ BasesOf(m)
        BY <3>1, <3>4 DEF Followed
      <4>2. After(m, a) <= lo \/ hi <= After(m, a)
        <5>1. a < lo => After(m, a) <= lo
          BY <2>1, <1>7, <1>1, CellFacts DEF Layout
        <5>2. hi <= a => hi < After(m, a)
          BY <2>1, <1>3, CellFacts DEF After
        <5> QED
          BY <5>1, <5>2, <2>1, <1>3, CellFacts
      <4>3. After(m, a) \in C2
        BY <4>1, <4>2, <1>1, <1>3, CellFacts
      <4> QED
        BY <4>1, <4>3, <3>1, <3>4, <2>1, <1>2, <1>9 DEF Followed
    <3> QED
      BY <3>2, <3>3, <3>4
  <2>2. CASE a = z
    <3>1. CASE hi = FootOf(m)
      BY <2>2, <3>1, <1>1, <1>4, <1>9 DEF Followed
    <3>2. CASE hi # FootOf(m)
      BY <2>2, <3>2, <1>1, <1>2, <1>4, <1>7, <1>8, <1>9 DEF Followed
    <3> QED
      BY <3>1, <3>2
  <2>3. CASE a = lo /\ mid # hi
    <3>1. After(m2, a) = z /\ z # lo
      BY <2>3, <1>3, <1>5
    <3> QED
      BY <2>3, <3>1, <1>2, <1>4, <1>8, <1>9 DEF Followed
  <2> QED
    BY <1>1, <1>6, <2>1, <2>2, <2>3
<1>13. ASSUME NEW a \in C2 PROVE Tagged(m2, a)
  <2>1. CASE a \in C /\ (a < lo \/ hi <= a)
    <3>1. Tagged(m, a) /\ After(m2, a) = After(m, a) /\ After(m, a) \in Addr
      BY <1>1, <2>1 DEF Layout
    <3>2. After(m, a) <= lo \/ hi < After(m, a)
      <4>1. a < lo => After(m, a) <= lo
        BY <2>1, <1>7, <1>1, CellFacts DEF Layout
      <4>2. hi <= a => hi < After(m, a)
        BY <2>1, <1>3, CellFacts DEF After
      <4> QED
        BY <4>1, <4>2, <2>1, <1>3, CellFacts
    <3>3. /\ g[After(m, a)].pinuse = h[After(m, a)].pinuse
          /\ ~h[After(m, a)].pinuse => g[After(m, a)].prev_foot = h[After(m, a)].prev_foot
      BY <3>1, <3>2, <1>3, CellFacts, <2>1 DEF Retiled
    <3>4. g[a].cinuse = h[a].cinuse /\ g[a].size = h[a].size /\ h[a].cinuse \in BOOLEAN
      BY <2>1, <1>1, CellFacts
    <3>5. g[a].cinuse \/ g[a].pinuse
      <4>1. CASE a = hi
        <5>1. hi # FootOf(m)
          BY <2>1, <4>1 DEF Cells
        <5> QED
          BY <5>1, <3>4, <4>1 DEF Fits, Retiled
      <4>2. CASE a # hi
        <5>1. g[a] = h[a]
          BY <2>1, <4>2, <1>3, CellFacts DEF Retiled
        <5> QED
          BY <5>1, <3>1 DEF Tagged
      <4> QED
        BY <4>1, <4>2
    <3>6. g[a].cinuse \/ a = m2.top \/ g[After(m, a)].prev_foot = g[a].size
      BY <3>1, <3>3, <3>4, <2>1, <1>9 DEF Tagged
    <3> QED
      BY <3>1, <3>3, <3>4, <3>5, <3>6 DEF Tagged
  <2>2. CASE a = z
    <3>1. g[hi].pinuse = c2
      BY DEF Retiled
    <3>2. c2 \/ g[z].pinuse
      BY <1>3, <1>5, <1>6 DEF Retiled, Fits
    <3>3. c2 \/ z = m2.top \/ g[hi].prev_foot = g[z].size
      BY <1>4, <1>9 DEF Fits
    <3> QED
      BY <2>2, <3>1, <3>2, <3>3, <1>4 DEF Tagged
  <2>3. CASE a = lo /\ mid # hi
    BY <2>3, <1>5 DEF Tagged, Retiled
  <2> QED
    BY <1>1, <1>6, <2>1, <2>2, <2>3
<1>14. ASSUME NEW a \in C2, a # m2.top PROVE g[a].size >= MinChunk
  <2>1. CASE a \in C /\ (a < lo \/ hi <= a)
    BY <2>1, <1>1, <1>9, <1>14 DEF Layout
  <2>2. CASE a = z
    <3>1. hi # FootOf(m)
      BY <2>2, <1>9, <1>14
    <3> QED
      BY <2>2, <3>1, <1>4 DEF Fits
  <2>3. CASE a = lo /\ mid # hi
    BY <2>3, <1>5 DEF Fits, Retiled
  <2> QED
    BY <1>1, <1>6, <2>1, <2>2, <2>3
<1>15. ASSUME NEW a \in C2 PROVE a \in BasesOf(m2) \/ \E b \in C2 : After(m2, b) = a
  <2>1. CASE a = hi
    BY <2>1, <1>4
  <2>2. CASE a \in C /\ (a <= lo \/ hi < a)
    <3>1. a \in BasesOf(m) \/ \E b \in C : After(m, b) = a
      BY <2>2 DEF Layout
    <3>2. ASSUME NEW b \in C, After(m, b) = a PROVE b < lo \/ hi <= b
      <4> SUFFICES ASSUME lo <= b, b < hi PROVE FALSE
        BY <1>3, CellFacts
      <4>1. h[hi] # NoHeader
        <5>1. h[FootOf(m)] # NoHeader
          BY DEF Layout, NoHeader, TopFoot, RecordSize, MinChunk
        <5> QED
          BY <1>7, <5>1, CellFacts
      <4>2. After(m, b) <= hi
        BY <4>1, <1>1 DEF Layout
      <4>3. After(m, b) > lo
        BY <1>3, CellFacts DEF After
      <4> QED
        BY <4>2, <4>3, <3>2, <2>2, <1>3, CellFacts
    <3> QED
      BY <3>1, <3>2, <1>1, <1>2
  <2>3. CASE a = z /\ mid # hi
    BY <2>3, <1>1, <1>5
  <2>4. (a \in C /\ (a < lo \/ hi <= a)) \/ a = lo \/ a = z
    BY <1>1, <1>15
  <2>5. a \in C => a \in Int
    BY CellFacts
  <2>6. (a \in C /\ (a <= lo \/ hi < a)) \/ a = hi \/ a = z
    BY <2>4, <2>5, <1>3, <1>7
  <2> HIDE DEF C, C2
  <2> QED
    BY <1>3, <1>6, <1>7, <2>1, <2>2, <2>3, <2>6
<1>16. ASSUME NEW a \in BasesOf(m2) PROVE a \in C2 /\ g[a].pinuse
  <2>1. a \in C /\ h[a].pinuse /\ a # hi
    BY <1>2, <1>7 DEF Layout
  <2>2. a <= lo \/ hi < a
    <3>1. a \in BasesOf(m)
      BY <1>2
    <3> HIDE DEF C
    <3> QED
      BY <2>1, <3>1, <1>3, <1>20, <1>21
  <2> QED
    BY <2>1, <2>2, <1>1, <1>3, CellFacts DEF Retiled
<1>17. ASSUME NEW a \in RecordsOf(m2) PROVE a \in C2 /\ g[a].cinuse
  <2>1. a \in C /\ h[a].cinuse
    BY <1>2 DEF Layout
  <2>2. a < lo \/ hi <= a
    <3>1. a \in RecordsOf(m)
      BY <1>2
    <3> HIDE DEF C
    <3> QED
      BY <2>1, <3>1, <1>3, <1>20, <1>21
  <2> QED
    BY <2>1, <2>2, <1>1
<1>18. m2.top \in C2 /\ ~g[m2.top].cinuse /\ m2.topsize = g[m2.top].size
  <2>1. CASE hi = FootOf(m)
    BY <2>1, <1>4 DEF Fits
  <2>2. CASE hi # FootOf(m)
    <3>1. m2.top = m.top /\ m2.topsize = m.topsize
      BY <2>2 DEF Fits
    <3>2. m.top \in C /\ ~h[m.top].cinuse /\ m.topsize = h[m.top].size
      BY DEF Layout
    <3>3. m.top < lo \/ hi <= m.top
      <4> HIDE DEF C
      <4> QED
        BY <2>2, <3>2, <1>3, <1>20, <1>21
    <3> QED
      BY <3>1, <3>2, <3>3, <1>1
  <2> QED
    BY <2>1, <2>2
<1>19. FootOf(m2) \in Addr /\ g[FootOf(m2)].size = TopFoot
  <2>1. FootOf(m) \in Addr /\ h[FootOf(m)].size = TopFoot /\ h[FootOf(m)] # NoHeader
    BY DEF Layout, NoHeader, TopFoot, RecordSize, MinChunk
  <2>2. FootOf(m) <= lo \/ hi <= FootOf(m)
    <3> SUFFICES ASSUME lo < FootOf(m), FootOf(m) < hi PROVE FALSE
      BY <2>1, <1>3 DEF Addr
    <3>1. m2.top = m.top /\ m.top \in C /\ After(m, m.top) = FootOf(m)
      BY <1>3 DEF Fits, Layout, Followed
    <3>2. m.top < lo \/ hi <= m.top
      <4> HIDE DEF C
      <4> QED
        BY <3>1, <1>3, <1>20, <1>21
    <3>3. m.top < FootOf(m)
      BY <3>1, <1>20
    <3>4. m.top < lo
      BY <3>1, <3>2, <3>3, <1>3, <1>20, <2>1 DEF Addr
    <3>5. h[lo] # NoHeader
      BY <1>7, CellFacts
    <3>6. After(m, m.top) <= lo
      BY <3>1, <3>4, <3>5, <1>1 DEF Layout
    <3> QED
      BY <3>1, <3>6, <1>3, <2>1 DEF Addr
  <2>3. FootOf(m) # lo
    BY <1>7 DEF Cells
  <2> QED
    BY <1>1, <1>3, <2>1, <2>2, <2>3 DEF Retiled, Addr
<1> QED
  <2> HIDE DEF C2, g
  <2>1. \A a \in C2, b \in Addr : a < b /\ g[b] # NoHeader => After(m2, a) <= b
    BY <1>10
  <2>2. \A a \in C2 : After(m2, a) \in Addr /\ Followed(m2, a) /\ Tagged(m2, a)
    BY <1>11, <1>12, <1>13
  <2>3. \A a \in C2 : (a # m2.top => g[a].size >= MinChunk)
                      /\ (a \in BasesOf(m2) \/ \E b \in C2 : After(m2, b) = a)
    BY <1>14, <1>15
  <2> QED
    BY <2>1, <2>2, <2>3, <1>16, <1>17, <1>18, <1>19 DEF Layout, C2, g

(* A region lies in one segment.                                           *)
LEMMA RegionInSegment ==
    ASSUME NEW m \in State, Layout(m), SegmentLayout(m), NEW lo, NEW hi, Region(m, lo, hi),
           NEW k \in DOMAIN m.seg, NEW x \in Int, lo <= x, x <= hi, segment_holds(m.seg[k], x)
    PROVE  segment_holds(m.seg[k], lo) /\ segment_holds(m.seg[k], hi)
<1>1. /\ lo \in Cells(m) /\ lo \in Int /\ hi \in Addr /\ hi \in Int /\ lo < hi /\ hi \notin BasesOf(m)
      /\ m.head[hi] # NoHeader
  <2>1. FootOf(m) \in Addr /\ m.head[FootOf(m)] # NoHeader
    BY DEF Layout, NoHeader, TopFoot, RecordSize, MinChunk
  <2>2. lo \in Cells(m) /\ hi \in Cells(m) \cup {FootOf(m)} /\ lo < hi /\ hi \notin BasesOf(m)
    BY DEF Region
  <2>3. hi \in Addr /\ m.head[hi] # NoHeader
    BY <2>1, <2>2, CellFacts
  <2>4. hi \in Int
    BY <2>3 DEF Addr
  <2>5. lo \in Int
    BY <2>2, CellFacts
  <2> QED
    BY <2>2, <2>3, <2>4, <2>5
<1>2. ASSUME NEW j \in DOMAIN m.seg, NEW y \in Int, lo <= y, y <= hi, segment_holds(m.seg[j], y)
      PROVE  segment_holds(m.seg[j], lo)
  <2> DEFINE b == m.seg[j].base
  <2>1. b \in BasesOf(m) /\ b \in Cells(m) /\ b \in Int /\ End(m.seg[j]) \in Int
    BY SegFacts DEF BasesOf, Layout
  <2>2. b <= y /\ y < End(m.seg[j])
    BY <1>2 DEF segment_holds, End
  <2>3. ~(lo < b /\ b < hi)
    BY <1>1, <2>1 DEF Region
  <2> HIDE DEF b
  <2>4. b <= lo
    BY <1>1, <1>2, <2>1, <2>2, <2>3
  <2> QED
    BY <1>1, <1>2, <2>1, <2>2, <2>4 DEF segment_holds, b, End
<1>3. segment_holds(m.seg[k], lo)
  BY <1>2
<1>4. PICK j \in DOMAIN m.seg : segment_holds(m.seg[j], hi)
  BY <1>1 DEF SegmentLayout
<1>5. segment_holds(m.seg[j], lo)
  BY <1>1, <1>2, <1>4
<1>6. j = k
  <2>1. /\ m.seg[j].base \in Int /\ End(m.seg[j]) \in Int /\ m.seg[k].base \in Int /\ End(m.seg[k]) \in Int
        /\ m.seg[j].base <= lo /\ lo < End(m.seg[j]) /\ m.seg[k].base <= lo /\ lo < End(m.seg[k])
    BY <1>3, <1>5, SegFacts DEF segment_holds, End
  <2> QED
    BY <1>1, <2>1 DEF SegmentLayout
<1> QED
  BY <1>3, <1>4, <1>6

(* The segments are kept.                                                  *)
LEMMA RetileSegments ==
    ASSUME NEW m \in State, NEW m2 \in State, Layout(m), SegmentLayout(m),
           m2.seg = m.seg, m2.footprint = m.footprint,
           NEW lo, NEW mid \in Int, NEW hi, NEW c1 \in BOOLEAN, NEW c2 \in BOOLEAN,
           Region(m, lo, hi), Retiled(m.head, m2.head, lo, mid, hi, c1, c2),
           Fits(m, m2, lo, mid, hi, c1, c2)
    PROVE  SegmentLayout(m2)
<1>0. /\ lo \in Addr /\ hi \in Addr /\ mid \in Addr
      /\ FootOf(m2) = FootOf(m)
      /\ Cells(m2) = {a \in Cells(m) : a < lo \/ hi <= a} \cup {lo, LastAt(lo, mid, hi)}
      /\ \A a \in Cells(m) : a < lo \/ hi <= a =>
            /\ After(m2, a) = After(m, a) /\ m2.head[a].size = m.head[a].size
            /\ m2.head[a].cinuse = m.head[a].cinuse
  BY RetiledCells
<1> DEFINE z == LastAt(lo, mid, hi)
           C == Cells(m)
           C2 == Cells(m2)
           h == m.head
           g == m2.head
<1>1. /\ lo \in Addr /\ hi \in Addr /\ mid \in Addr
      /\ FootOf(m2) = FootOf(m)
      /\ C2 = {a \in C : a < lo \/ hi <= a} \cup {lo, z}
      /\ \A a \in C : a < lo \/ hi <= a =>
                 After(m2, a) = After(m, a) /\ g[a].size = h[a].size /\ g[a].cinuse = h[a].cinuse
  BY <1>0
<1>2. /\ lo < hi /\ lo < mid /\ mid <= hi /\ lo <= z /\ z < hi
      /\ lo \in Int /\ hi \in Int /\ z \in Int /\ mid \in Int /\ z \in Addr
  BY <1>1 DEF Fits, LastAt, Addr
<1>3. After(m2, z) = hi /\ After(m2, lo) <= hi
  BY <1>1, <1>2 DEF Retiled, LastAt, After
<1>4. lo \in C /\ hi \notin BasesOf(m) /\ h[lo] # NoHeader /\ h[hi] # NoHeader
  <2>1. FootOf(m) \in Addr /\ m.head[FootOf(m)] # NoHeader
    BY DEF Layout, NoHeader, TopFoot, RecordSize, MinChunk
  <2>2. lo \in Cells(m) /\ hi \in Cells(m) \cup {FootOf(m)} /\ lo < hi /\ hi \notin BasesOf(m)
    BY DEF Region
  <2> QED
    BY <2>1, <2>2, CellFacts
<1> HIDE DEF C
<1>5. \A a \in C : a \in Int /\ a \in Addr
  BY CellFacts DEF C
<1>6. \A a \in C : lo <= a /\ a < hi =>
          /\ a \notin RecordsOf(m)
          /\ a = m.top <=> (hi = FootOf(m) /\ After(m, a) = hi)
  BY DEF Region, C
<1>7. /\ m.top \in C /\ m.top \in Int /\ After(m, m.top) = FootOf(m) /\ m.top < FootOf(m)
  BY CellFacts DEF C, Layout, Followed, After
<1>8. \A r \in RecordsOf(m) : r \in C
  BY DEF Layout, C
<1>9. 1 \in DOMAIN m.seg /\ FootOf(m) + TopFoot = End(m.seg[1]) /\ segment_holds(m.seg[1], m.top)
  <2>1. m.seg \in Seq(Segment) /\ m.seg # <<>>
    BY DEF State, SegmentLayout
  <2> HIDE DEF Segment
  <2> QED
    BY <2>1 DEF SegmentLayout
<1>10. ASSUME NEW k \in DOMAIN m.seg, NEW x \in Int, lo <= x, x <= hi, segment_holds(m.seg[k], x)
       PROVE  segment_holds(m.seg[k], lo) /\ segment_holds(m.seg[k], hi)
  BY <1>10, RegionInSegment
<1>11. IF hi = FootOf(m) THEN m2.top = z /\ segment_holds(m.seg[1], lo) /\ m.top >= lo
       ELSE m2.top = m.top /\ ~(lo <= m.top /\ m.top < hi)
  <2>1. CASE hi = FootOf(m)
    <3>1. segment_holds(m.seg[1], hi)
      BY <1>2, <1>7, <1>9, <2>1, SegFacts DEF segment_holds, End, TopFoot, RecordSize, MinChunk
    <3>2. segment_holds(m.seg[1], lo)
      BY <1>2, <1>9, <1>10, <3>1
    <3>3. m.top >= lo
      <4> SUFFICES ASSUME m.top < lo PROVE FALSE
        BY <1>2, <1>7
      <4>1. After(m, m.top) <= lo
        BY <1>1, <1>4, <1>7 DEF Layout, C
      <4> QED
        BY <1>2, <1>7, <2>1, <4>1
    <3> QED
      BY <2>1, <3>2, <3>3 DEF Fits
  <2>2. CASE hi # FootOf(m)
    BY <1>6, <1>7, <2>2 DEF Fits
  <2> QED
    BY <2>1, <2>2
<1>12. ASSUME NEW a \in Addr, g[a] # NoHeader PROVE \E k \in DOMAIN m.seg : segment_holds(m.seg[k], a)
  <2>1. CASE h[a] # NoHeader
    BY <2>1 DEF SegmentLayout
  <2>2. CASE h[a] = NoHeader
    <3>1. lo <= a /\ a <= hi /\ a \in Int
      BY <1>2, <1>12, <2>2 DEF Retiled, Addr
    <3>2. PICK k \in DOMAIN m.seg : segment_holds(m.seg[k], lo)
      BY <1>1, <1>4 DEF SegmentLayout
    <3>3. segment_holds(m.seg[k], hi)
      BY <1>2, <1>10, <3>2
    <3> QED
      BY <1>2, <3>1, <3>2, <3>3, SegFacts DEF segment_holds
  <2> QED
    BY <2>1, <2>2
<1>13. ASSUME NEW k \in DOMAIN m.seg, NEW a \in C2, segment_holds(m.seg[k], a)
       PROVE  After(m2, a) < End(m.seg[k]) /\ a <= IF k = 1 THEN m2.top ELSE m.seg[k].record
  <2>1. CASE a \in C /\ (a < lo \/ hi <= a)
    <3>1. After(m, a) < End(m.seg[k]) /\ a <= IF k = 1 THEN m.top ELSE m.seg[k].record
      BY <1>13, <2>1 DEF SegmentLayout, C
    <3>2. After(m2, a) = After(m, a)
      BY <1>1, <2>1
    <3>3. k = 1 => a <= m2.top
      BY <1>2, <1>5, <1>7, <1>11, <2>1, <3>1
    <3> QED
      BY <3>1, <3>2, <3>3
  <2>2. CASE a = lo \/ a = z
    <3>1. segment_holds(m.seg[k], lo) /\ segment_holds(m.seg[k], hi)
      BY <1>2, <1>10, <1>13, <2>2
    <3>2. After(m2, a) < End(m.seg[k])
      <4>1. After(m2, lo) \in Int /\ End(m.seg[k]) \in Int
        BY <1>1, <1>2, SegFacts DEF Retiled, After
      <4> QED
        BY <1>2, <1>3, <2>2, <3>1, <4>1 DEF segment_holds, End
    <3>3. CASE k = 1
      <4>1. lo <= m.top
        BY <1>4, <3>1, <3>3 DEF SegmentLayout, C
      <4> QED
        BY <1>2, <1>7, <1>11, <2>2, <3>2, <3>3, <4>1
    <3>4. CASE k # 1
      <4>1. m.seg[k].record \in RecordsOf(m) /\ m.seg[k].record \in C /\ m.seg[k].record \in Int
        BY <1>8, <3>4, SegFacts DEF RecordsOf
      <4>2. lo <= m.seg[k].record
        BY <1>4, <3>1, <3>4 DEF SegmentLayout, C
      <4>3. hi <= m.seg[k].record
        BY <1>2, <1>6, <4>1, <4>2
      <4> QED
        BY <1>2, <2>2, <3>2, <3>4, <4>1, <4>3
    <3> QED
      BY <3>3, <3>4
  <2> QED
    BY <1>1, <2>1, <2>2
<1>14. segment_holds(m2.seg[1], m2.top)
  <2>1. CASE hi = FootOf(m)
    <3>1. segment_holds(m.seg[1], hi)
      BY <1>2, <1>7, <1>9, <2>1, SegFacts DEF segment_holds, End, TopFoot, RecordSize, MinChunk
    <3> QED
      BY <1>2, <1>9, <1>11, <2>1, <3>1, SegFacts DEF segment_holds
  <2>2. CASE hi # FootOf(m)
    BY <1>9, <1>11, <2>2
  <2> QED
    BY <2>1, <2>2
<1>15. m2.footprint = Cardinality(Mapped(m2))
  BY DEF SegmentLayout, Mapped
<1> QED
  <2> HIDE DEF g, C2
  <2> QED
    BY <1>1, <1>9, <1>12, <1>13, <1>14, <1>15 DEF SegmentLayout, g, C2

-----------------------------------------------------------------------------
(* Bins.                                                                   *)

SameButBin(m, m2) ==
    /\ m2.head = m.head /\ m2.dv = m.dv /\ m2.dvsize = m.dvsize
    /\ m2.top = m.top /\ m2.topsize = m.topsize /\ m2.seg = m.seg
    /\ m2.footprint = m.footprint /\ m2.release_checks = m.release_checks

NoRepeats(m) == \A s \in Size : IsInjective(m.bin[s])

LEMMA BinState ==
    ASSUME NEW m \in State, NEW s \in Size, NEW b \in Seq(Addr)
    PROVE  /\ [m EXCEPT !.bin[s] = b] \in State /\ SameButBin(m, [m EXCEPT !.bin[s] = b])
           /\ \A t \in Size : [m EXCEPT !.bin[s] = b].bin[t] = IF t = s THEN b ELSE m.bin[t]
BY DEF State, SameButBin

(* Chunk p has gone to, or left, bin s.                                    *)
Inserts(m, m2, p, s) ==
    /\ m2 \in State /\ SameButBin(m, m2) /\ NoRepeats(m2)
    /\ \A t \in Size : Range(m2.bin[t]) = IF t = s THEN Range(m.bin[t]) \cup {p} ELSE Range(m.bin[t])

Unlinks(m, m2, p, s) ==
    /\ m2 \in State /\ SameButBin(m, m2) /\ NoRepeats(m2)
    /\ \A t \in Size : Range(m2.bin[t]) = IF t = s THEN Range(m.bin[t]) \ {p} ELSE Range(m.bin[t])

LEMMA UnlinkFacts ==
    ASSUME NEW m \in State, NoRepeats(m), NEW p, NEW s \in Size
    PROVE  Unlinks(m, unlink_chunk(m, p, s), p, s)
<1> DEFINE b == RemoveFirst(m.bin[s], p)
           m2 == unlink_chunk(m, p, s)
<1>1. m.bin[s] \in Seq(Addr) /\ IsInjective(m.bin[s])
  BY DEF State, NoRepeats
<1>2. b \in Seq(Addr) /\ IsInjective(b) /\ Range(b) = Range(m.bin[s]) \ {p}
  BY <1>1, RemoveFirstFacts
<1>3. m2 = [m EXCEPT !.bin[s] = b]
  BY DEF unlink_chunk
<1> HIDE DEF b, m2
<1>4. /\ m2 \in State /\ SameButBin(m, m2)
      /\ \A t \in Size : m2.bin[t] = IF t = s THEN b ELSE m.bin[t]
  <2>1. /\ [m EXCEPT !.bin[s] = b] \in State /\ SameButBin(m, [m EXCEPT !.bin[s] = b])
        /\ \A t \in Size : [m EXCEPT !.bin[s] = b].bin[t] = IF t = s THEN b ELSE m.bin[t]
    BY <1>2, BinState
  <2> QED
    BY <1>3, <2>1
<1>5. NoRepeats(m2)
  BY <1>2, <1>4 DEF NoRepeats
<1>6. \A t \in Size : Range(m2.bin[t]) = IF t = s THEN Range(m.bin[t]) \ {p} ELSE Range(m.bin[t])
  BY <1>2, <1>4
<1> QED
  BY <1>4, <1>5, <1>6 DEF m2, Unlinks

LEMMA InsertFacts ==
    ASSUME NEW m \in State, NoRepeats(m), NEW p \in Addr, NEW s \in Size, p \notin Range(m.bin[s])
    PROVE  Inserts(m, insert_chunk(m, p, s), p, s)
<1> DEFINE c == m.bin[s]
           b == IF is_small(s) THEN <<p>> \o c ELSE Append(c, p)
           m2 == insert_chunk(m, p, s)
<1>1. c \in Seq(Addr) /\ IsInjective(c) /\ p \notin Range(c)
  BY DEF State, NoRepeats
<1> HIDE DEF c
<1>2. b \in Seq(Addr) /\ IsInjective(b) /\ Range(b) = Range(c) \cup {p}
  <2>1. CASE is_small(s)
    <3>1. /\ b \in Seq(Addr) /\ Len(b) = Len(c) + 1
          /\ \A i \in 1 .. Len(c) + 1 : b[i] = IF i = 1 THEN p ELSE c[i - 1]
      BY <1>1, <2>1
    <3>2. DOMAIN b = 1 .. Len(c) + 1 /\ DOMAIN c = 1 .. Len(c) /\ Len(c) \in Nat
      BY <1>1, <3>1
    <3> HIDE DEF b
    <3>3. \A i \in DOMAIN c : i + 1 \in DOMAIN b /\ b[i + 1] = c[i]
      BY <3>1, <3>2
    <3>4. 1 \in DOMAIN b /\ b[1] = p
      BY <3>1, <3>2
    <3>5. \A i \in DOMAIN b : i = 1 \/ (i - 1 \in DOMAIN c /\ b[i] = c[i - 1])
      BY <3>1, <3>2
    <3>6. Range(b) = Range(c) \cup {p}
      BY <3>3, <3>4, <3>5 DEF Range
    <3>7. IsInjective(b)
      <4> SUFFICES ASSUME NEW i \in DOMAIN b, NEW j \in DOMAIN b, b[i] = b[j], i # j PROVE FALSE
        BY DEF IsInjective
      <4>1. CASE i # 1 /\ j # 1
        BY <1>1, <3>2, <3>5, <4>1 DEF IsInjective
      <4>2. CASE i = 1 \/ j = 1
        BY <1>1, <3>4, <3>5, <4>2 DEF Range
      <4> QED
        BY <4>1, <4>2
    <3> QED
      BY <3>1, <3>6, <3>7
  <2>2. CASE ~is_small(s)
    <3>1. /\ b \in Seq(Addr) /\ Len(b) = Len(c) + 1
          /\ \A i \in 1 .. Len(c) : b[i] = c[i]
          /\ b[Len(c) + 1] = p
      BY <1>1, <2>2, AppendProperties
    <3>2. DOMAIN b = 1 .. Len(c) + 1 /\ DOMAIN c = 1 .. Len(c) /\ Len(c) \in Nat
      BY <1>1, <3>1
    <3> HIDE DEF b
    <3>3. \A i \in DOMAIN c : i \in DOMAIN b /\ b[i] = c[i]
      BY <3>1, <3>2
    <3>4. Len(c) + 1 \in DOMAIN b
      BY <3>2
    <3>5. \A i \in DOMAIN b : i = Len(c) + 1 \/ i \in DOMAIN c
      BY <3>2
    <3>6. Range(b) = Range(c) \cup {p}
      BY <3>1, <3>3, <3>4, <3>5 DEF Range
    <3>7. IsInjective(b)
      <4> SUFFICES ASSUME NEW i \in DOMAIN b, NEW j \in DOMAIN b, b[i] = b[j], i # j PROVE FALSE
        BY DEF IsInjective
      <4>1. CASE i \in DOMAIN c /\ j \in DOMAIN c
        BY <1>1, <3>3, <4>1 DEF IsInjective
      <4>2. CASE i \notin DOMAIN c \/ j \notin DOMAIN c
        BY <1>1, <3>1, <3>3, <3>5, <4>2 DEF Range
      <4> QED
        BY <4>1, <4>2
    <3> QED
      BY <3>1, <3>6, <3>7
  <2> QED
    BY <2>1, <2>2
<1>3. m2 = [m EXCEPT !.bin[s] = b]
  BY DEF insert_chunk, c
<1> HIDE DEF b, m2
<1>4. /\ m2 \in State /\ SameButBin(m, m2)
      /\ \A t \in Size : m2.bin[t] = IF t = s THEN b ELSE m.bin[t]
  <2>1. /\ [m EXCEPT !.bin[s] = b] \in State /\ SameButBin(m, [m EXCEPT !.bin[s] = b])
        /\ \A t \in Size : [m EXCEPT !.bin[s] = b].bin[t] = IF t = s THEN b ELSE m.bin[t]
    BY <1>2, BinState
  <2> QED
    BY <1>3, <2>1
<1>5. NoRepeats(m2)
  BY <1>2, <1>4 DEF NoRepeats
<1>6. \A t \in Size : Range(m2.bin[t]) = IF t = s THEN Range(m.bin[t]) \cup {p} ELSE Range(m.bin[t])
  BY <1>2, <1>4 DEF c
<1> QED
  BY <1>4, <1>5, <1>6 DEF m2, Inserts

(* The free chunks that are in a bin.                                      *)
Binnable(m) == {a \in Cells(m) : ~m.head[a].cinuse} \ {m.dv, m.top}

Victim(m) ==
    IF m.dv = Null THEN m.dvsize = 0
    ELSE m.dv \in Cells(m) /\ ~m.head[m.dv].cinuse /\ m.dv # m.top /\ m.dvsize = m.head[m.dv].size

Filed(m) ==
    /\ NoRepeats(m)
    /\ \A s \in Size : Range(m.bin[s]) = {a \in Binnable(m) : m.head[a].size = s}
    /\ Victim(m)

Sound(m) ==
    m.top # Null /\ Layout(m) /\ SegmentLayout(m) /\ Filed(m)

(* Headers and bins after a step that retiles lo .. hi - 1: what lies      *)
(* elsewhere stays in its bin, a victim that is replaced goes to one, and  *)
(* so does the last chunk of the region unless it is in use, dv or top.    *)
Refiled(m, m2, lo, mid, hi, c2) ==
    LET z == LastAt(lo, mid, hi) IN
    /\ NoRepeats(m2)
    /\ \A s \in Size, a \in Addr :
          a \in Range(m2.bin[s]) <=>
              \/ (a < lo \/ hi <= a) /\ a \in Range(m.bin[s])
              \/ (a < lo \/ hi <= a) /\ a = m.dv /\ m2.dv # m.dv /\ s = m.dvsize
              \/ a = z /\ s = hi - z /\ ~c2 /\ z # m2.dv /\ z # m2.top
    /\ \/ /\ m2.dv = m.dv /\ m2.dvsize = m.dvsize
          /\ m.dv = Null \/ m.dv < lo \/ hi <= m.dv
       \/ m2.dv = z /\ m2.dvsize = hi - z /\ ~c2 /\ z # m2.top
       \/ m2.dv = Null /\ m2.dvsize = 0

LEMMA RetileFiled ==
    ASSUME NEW m \in State, NEW m2 \in State, Layout(m), Filed(m), m2.seg = m.seg,
           NEW lo, NEW mid \in Int, NEW hi, NEW c1 \in BOOLEAN, NEW c2 \in BOOLEAN,
           Region(m, lo, hi), Retiled(m.head, m2.head, lo, mid, hi, c1, c2),
           Fits(m, m2, lo, mid, hi, c1, c2), Refiled(m, m2, lo, mid, hi, c2)
    PROVE  Filed(m2)
<1> DEFINE z == LastAt(lo, mid, hi)
           C == Cells(m)
           C2 == Cells(m2)
           h == m.head
           g == m2.head
           out(a) == a < lo \/ hi <= a
<1>1. /\ lo \in Addr /\ hi \in Addr /\ mid \in Addr
      /\ C2 = {a \in C : a < lo \/ hi <= a} \cup {lo, z}
      /\ \A a \in C : a < lo \/ hi <= a => g[a].size = h[a].size /\ g[a].cinuse = h[a].cinuse
  BY RetiledCells
<1>2. /\ lo < hi /\ lo < mid /\ mid <= hi /\ lo <= z /\ z < hi
      /\ lo \in Int /\ hi \in Int /\ z \in Int /\ mid \in Int /\ z \in Addr
  BY <1>1 DEF Fits, LastAt, Addr
<1>3. g[z].size = hi - z /\ g[z].cinuse = c2 /\ z \in C2
  BY <1>1, <1>2 DEF Retiled, LastAt
<1>4. lo # z => g[lo].cinuse
  BY <1>2 DEF LastAt, Fits, Retiled
<1>5. \A a \in C : out(a) => (a = m2.top <=> a = m.top)
  BY <1>1, RetiledTop
<1>6. z \in Size /\ hi - z \in Size /\ hi - z > 0
  <2>1. z > 0 /\ z <= Space /\ hi <= Space
    BY <1>1, <1>2, Sizes0 DEF Addr
  <2> HIDE DEF z
  <2> QED
    BY <2>1, <1>2, Sizes0 DEF Size
<1>7. \A a \in C : a \in Addr /\ a \in Int /\ a # Null /\ h[a].size \in Nat /\ h[a].size > 0
  BY CellFacts DEF Null
<1>8. \A a \in Addr : a \in C2 <=> (a \in C /\ out(a)) \/ a = lo \/ a = z
  BY <1>1
<1>9. C2 \subseteq Addr
  BY DEF Cells
<1>10. z # Null /\ ~out(z) /\ ~out(lo)
  BY <1>1, <1>2 DEF Null, Addr
<1>11. \A s \in Size, a \in Addr : a \in Range(m.bin[s]) <=>
          a \in C /\ ~h[a].cinuse /\ a # m.dv /\ a # m.top /\ h[a].size = s
  BY DEF Filed, Binnable
<1>12. m.dv # Null => m.dv \in C /\ ~h[m.dv].cinuse /\ m.dv # m.top /\ m.dvsize = h[m.dv].size
  BY DEF Filed, Victim
<1>13. \/ m2.dv = m.dv /\ m2.dvsize = m.dvsize /\ (m.dv = Null \/ out(m.dv))
       \/ m2.dv = z /\ m2.dvsize = hi - z /\ ~c2 /\ z # m2.top
       \/ m2.dv = Null /\ m2.dvsize = 0
  BY DEF Refiled
<1>14. Victim(m2)
  <2>1. CASE m2.dv = m.dv /\ m2.dvsize = m.dvsize /\ (m.dv = Null \/ out(m.dv))
    <3>1. CASE m.dv = Null
      BY <2>1, <3>1 DEF Filed, Victim
    <3>2. CASE m.dv # Null
      BY <2>1, <3>2, <1>1, <1>5, <1>12 DEF Victim
    <3> QED
      BY <3>1, <3>2
  <2>2. CASE m2.dv = z /\ m2.dvsize = hi - z /\ ~c2 /\ z # m2.top
    BY <2>2, <1>3, <1>10 DEF Victim
  <2>3. CASE m2.dv = Null /\ m2.dvsize = 0
    BY <2>3 DEF Victim
  <2> QED
    BY <1>13, <2>1, <2>2, <2>3
<1>15. ASSUME NEW s \in Size, NEW a \in Addr
       PROVE  a \in Range(m2.bin[s]) <=>
                 a \in C2 /\ ~g[a].cinuse /\ a # m2.dv /\ a # m2.top /\ g[a].size = s
  <2>1. a \in Range(m2.bin[s]) <=>
              \/ out(a) /\ a \in Range(m.bin[s])
              \/ out(a) /\ a = m.dv /\ m2.dv # m.dv /\ s = m.dvsize
              \/ a = z /\ s = hi - z /\ ~c2 /\ z # m2.dv /\ z # m2.top
    BY DEF Refiled
  <2> HIDE DEF C, C2, z, h, g
  <2>2. CASE out(a)
    <3>1. a # z /\ a # lo
      BY <2>2, <1>10
    <3>2. a \in C2 <=> a \in C
      BY <2>2, <3>1, <1>8
    <3>3. a \in C => g[a].size = h[a].size /\ g[a].cinuse = h[a].cinuse /\ (a = m2.top <=> a = m.top)
      BY <2>2, <1>1, <1>5
    <3>4. a \in C /\ a # m.dv => a # m2.dv
      BY <3>1, <1>7, <1>13
    <3>5. a = m.dv => a \in C /\ ~h[a].cinuse /\ a # m.top /\ m.dvsize = h[a].size
      BY <1>12 DEF Null, Addr
    <3> QED
      BY <2>1, <2>2, <3>1, <3>2, <3>3, <3>4, <3>5, <1>11
  <2>3. CASE ~out(a)
    <3>1. a \in C2 /\ ~g[a].cinuse => a = z
      BY <2>3, <1>4, <1>8
    <3> QED
      BY <2>1, <2>3, <3>1, <1>3
  <2> QED
    BY <2>2, <2>3
<1> QED
  <2>1. \A s \in Size : Range(m2.bin[s]) \subseteq Addr
    BY DEF State, Range
  <2>2. ASSUME NEW s \in Size PROVE Range(m2.bin[s]) = {a \in Binnable(m2) : m2.head[a].size = s}
    <3>1. Range(m2.bin[s]) \subseteq Addr
      BY <2>1
    <3>2. Binnable(m2) \subseteq Addr
      BY <1>9 DEF Binnable
    <3>3. ASSUME NEW a \in Addr
          PROVE  a \in Range(m2.bin[s]) <=> a \in Binnable(m2) /\ m2.head[a].size = s
      BY <1>15 DEF Binnable
    <3> QED
      BY ONLY <3>1, <3>2, <3>3
  <2> QED
    BY <2>2, <1>14 DEF Filed, Refiled

(* A step that changes the chunks of one region, and its outcome.          *)
Reshaped(m, m2, lo, mid, hi, c1, c2) ==
    /\ m2 \in State
    /\ m2.seg = m.seg /\ m2.footprint = m.footprint /\ m2.release_checks = m.release_checks
    /\ Region(m, lo, hi)
    /\ Retiled(m.head, m2.head, lo, mid, hi, c1, c2)
    /\ Fits(m, m2, lo, mid, hi, c1, c2)
    /\ Refiled(m, m2, lo, mid, hi, c2)

Outcome(m, m2, lo, mid, hi, c1, c2) ==
    /\ m2 \in State /\ Sound(m2) /\ m2.seg = m.seg /\ m2.footprint = m.footprint
    /\ m2.release_checks = m.release_checks
    /\ InUse(m2) = {a \in InUse(m) : a < lo \/ hi <= a}
                      \cup {a \in {lo} : c1} \cup {a \in {LastAt(lo, mid, hi)} : c2}
    /\ \A a \in InUse(m) : a < lo \/ hi <= a => m2.head[a].size = m.head[a].size
    /\ m2.head[lo].size = mid - lo
    /\ m2.head[LastAt(lo, mid, hi)].size = hi - LastAt(lo, mid, hi)
    /\ m2.head[lo].pinuse = m.head[lo].pinuse

(* A step that gives the units of a region to one chunk or two, and files  *)
(* what is free of them, keeps the heap sound.                             *)
THEOREM ReshapeSound ==
    ASSUME NEW m \in State, Sound(m), NEW m2, NEW lo, NEW mid \in Int, NEW hi,
           NEW c1 \in BOOLEAN, NEW c2 \in BOOLEAN, Reshaped(m, m2, lo, mid, hi, c1, c2)
    PROVE  Outcome(m, m2, lo, mid, hi, c1, c2)
<1>1. /\ m2 \in State /\ m2.seg = m.seg /\ m2.footprint = m.footprint /\ m2.release_checks = m.release_checks
      /\ Region(m, lo, hi) /\ Retiled(m.head, m2.head, lo, mid, hi, c1, c2)
      /\ Fits(m, m2, lo, mid, hi, c1, c2) /\ Refiled(m, m2, lo, mid, hi, c2)
      /\ Layout(m) /\ SegmentLayout(m) /\ Filed(m)
  BY DEF Reshaped, Sound
<1>2. Layout(m2)
  BY <1>1, RetileLayout
<1>3. SegmentLayout(m2)
  BY <1>1, RetileSegments
<1>4. Filed(m2)
  BY <1>1, RetileFiled
<1>5. m2.top # Null
  BY <1>1, <1>2, CellFacts DEF Layout, Null
<1>6. /\ lo \in Addr /\ hi \in Addr /\ mid \in Addr
      /\ Cells(m2) = {a \in Cells(m) : a < lo \/ hi <= a} \cup {lo, LastAt(lo, mid, hi)}
      /\ \A a \in Cells(m) : a < lo \/ hi <= a =>
            /\ m2.head[a].size = m.head[a].size /\ m2.head[a].cinuse = m.head[a].cinuse
  <2>1. /\ m2 \in State /\ Layout(m) /\ m2.seg = m.seg /\ Region(m, lo, hi)
        /\ Retiled(m.head, m2.head, lo, mid, hi, c1, c2) /\ Fits(m, m2, lo, mid, hi, c1, c2)
    BY <1>1
  <2> QED
    <3>1. /\ lo \in Addr /\ hi \in Addr /\ mid \in Addr
          /\ FootOf(m2) = FootOf(m)
          /\ Cells(m2) = {a \in Cells(m) : a < lo \/ hi <= a} \cup {lo, LastAt(lo, mid, hi)}
          /\ \A a \in Cells(m) : a < lo \/ hi <= a =>
                /\ After(m2, a) = After(m, a) /\ m2.head[a].size = m.head[a].size
                /\ m2.head[a].cinuse = m.head[a].cinuse
      BY ONLY <2>1, m \in State, mid \in Int, c1 \in BOOLEAN, c2 \in BOOLEAN, RetiledCells
    <3> QED
      BY <3>1
<1>7. /\ m2.head[lo].size = mid - lo /\ m2.head[lo].cinuse = c1
      /\ m2.head[LastAt(lo, mid, hi)].size = hi - LastAt(lo, mid, hi)
      /\ m2.head[LastAt(lo, mid, hi)].cinuse = c2
      /\ m2.head[lo].pinuse = m.head[lo].pinuse
  BY <1>1 DEF Retiled, LastAt
<1>8. InUse(m2) = {a \in InUse(m) : a < lo \/ hi <= a}
                     \cup {a \in {lo} : c1} \cup {a \in {LastAt(lo, mid, hi)} : c2}
  BY <1>6, <1>7 DEF InUse
<1> QED
  BY <1>1, <1>2, <1>3, <1>4, <1>5, <1>6, <1>7, <1>8 DEF Sound, InUse, Outcome

-----------------------------------------------------------------------------
(* Writing headers.                                                        *)

(* x is m with a chunk at p of size s, whose neighbours' headers stay but  *)
(* for what the one behind says about this chunk.                          *)
Written(m, x, p, s, c, pin) ==
    /\ x \in State /\ SameButHead(m, x)
    /\ \A a \in Addr : a < p \/ p + s < a => x.head[a] = m.head[a]
    /\ \A a \in Addr : p < a /\ a < p + s => x.head[a] = NoHeader
    /\ x.head[p].size = s /\ x.head[p].cinuse = c /\ x.head[p].pinuse = pin
    /\ ~pin => x.head[p].prev_foot = m.head[p].prev_foot
    /\ x.head[p + s].size = m.head[p + s].size /\ x.head[p + s].cinuse = m.head[p + s].cinuse

LEMMA SetHeadWritten ==
    ASSUME NEW m \in State, NEW p \in Addr, NEW s \in Size, s > 0, p + s \in Addr,
           NEW c \in BOOLEAN, NEW pin \in BOOLEAN
    PROVE  /\ Written(m, SetHead(m, p, s, c, pin), p, s, c, pin)
           /\ SetHead(m, p, s, c, pin).head[p + s] = m.head[p + s]
<1>1. p \in Int /\ s \in Int
  BY DEF Addr, Size
<1> DEFINE x == SetHead(m, p, s, c, pin)
<1>2. /\ x \in State /\ SameButHead(m, x)
      /\ \A a \in Addr : x.head[a] =
            IF a = p THEN [size |-> s, cinuse |-> c, pinuse |-> pin,
                           prev_foot |-> IF pin THEN 0 ELSE m.head[p].prev_foot]
            ELSE IF p < a /\ a < p + s THEN NoHeader ELSE m.head[a]
  BY SetHeadFacts
<1> HIDE DEF x
<1>3. \A a \in Addr : a < p \/ p + s < a => x.head[a] = m.head[a]
  BY <1>1, <1>2 DEF Addr
<1>4. \A a \in Addr : p < a /\ a < p + s => x.head[a] = NoHeader
  BY <1>1, <1>2 DEF Addr
<1>5. x.head[p] = [size |-> s, cinuse |-> c, pinuse |-> pin,
                   prev_foot |-> IF pin THEN 0 ELSE m.head[p].prev_foot]
  BY <1>2
<1>6. x.head[p + s] = m.head[p + s]
  BY <1>1, <1>2
<1> QED
  BY <1>2, <1>3, <1>4, <1>5, <1>6 DEF Written, x

(* One field of one header.                                                *)
LEMMA OneHead ==
    ASSUME NEW m \in State, NEW a \in Addr, NEW r \in Header
    PROVE  LET x == [m EXCEPT !.head[a] = r] IN
           /\ x \in State /\ SameButHead(m, x)
           /\ x.head[a] = r /\ \A b \in Addr : b # a => x.head[b] = m.head[b]
BY DEF State, SameButHead

LEMMA SetPinuseFacts ==
    ASSUME NEW m \in State, NEW a \in Addr
    PROVE  LET x == SetPinuse(m, a) IN
           /\ x \in State /\ SameButHead(m, x)
           /\ \A b \in Addr : b # a => x.head[b] = m.head[b]
           /\ x.head[a].size = m.head[a].size /\ x.head[a].cinuse = m.head[a].cinuse
           /\ x.head[a].pinuse = TRUE
<1> DEFINE r == [m.head[a] EXCEPT !.pinuse = TRUE, !.prev_foot = 0]
<1>1. m.head[a] \in Header /\ 0 \in Size
  BY Sizes0 DEF State, Size
<1>2. r \in Header /\ r.size = m.head[a].size /\ r.cinuse = m.head[a].cinuse /\ r.pinuse = TRUE
  BY <1>1 DEF Header
<1>3. SetPinuse(m, a) = [m EXCEPT !.head[a] = r]
  BY <1>1 DEF SetPinuse, State, Header
<1> DEFINE y == [m EXCEPT !.head[a] = r]
<1> HIDE DEF r
<1>4. /\ y \in State /\ SameButHead(m, y)
      /\ y.head[a] = r /\ \A b \in Addr : b # a => y.head[b] = m.head[b]
  BY <1>2, OneHead
<1> HIDE DEF y
<1> QED
  BY <1>2, <1>3, <1>4 DEF y

LEMMA ClearPinuseFacts ==
    ASSUME NEW m \in State, NEW a \in Addr
    PROVE  LET x == clear_pinuse(m, a) IN
           /\ x \in State /\ SameButHead(m, x)
           /\ \A b \in Addr : b # a => x.head[b] = m.head[b]
           /\ x.head[a].size = m.head[a].size /\ x.head[a].cinuse = m.head[a].cinuse
           /\ x.head[a].pinuse = FALSE /\ x.head[a].prev_foot = m.head[a].prev_foot
<1> DEFINE r == [m.head[a] EXCEPT !.pinuse = FALSE]
<1>1. m.head[a] \in Header
  BY DEF State
<1>2. r \in Header /\ r.size = m.head[a].size /\ r.cinuse = m.head[a].cinuse /\ r.pinuse = FALSE
      /\ r.prev_foot = m.head[a].prev_foot
  BY <1>1 DEF Header
<1>3. clear_pinuse(m, a) = [m EXCEPT !.head[a] = r]
  BY <1>1 DEF clear_pinuse, State, Header
<1> DEFINE y == [m EXCEPT !.head[a] = r]
<1> HIDE DEF r
<1>4. /\ y \in State /\ SameButHead(m, y)
      /\ y.head[a] = r /\ \A b \in Addr : b # a => y.head[b] = m.head[b]
  BY <1>2, OneHead
<1> HIDE DEF y
<1> QED
  BY <1>2, <1>3, <1>4 DEF y

LEMMA PrevFootFacts ==
    ASSUME NEW m \in State, NEW a \in Addr, NEW s \in Size
    PROVE  LET x == [m EXCEPT !.head[a].prev_foot = s] IN
           /\ x \in State /\ SameButHead(m, x)
           /\ \A b \in Addr : b # a => x.head[b] = m.head[b]
           /\ x.head[a].size = m.head[a].size /\ x.head[a].cinuse = m.head[a].cinuse
           /\ x.head[a].pinuse = m.head[a].pinuse /\ x.head[a].prev_foot = s
<1> DEFINE r == [m.head[a] EXCEPT !.prev_foot = s]
<1>1. m.head[a] \in Header
  BY DEF State
<1>2. r \in Header /\ r.size = m.head[a].size /\ r.cinuse = m.head[a].cinuse
      /\ r.pinuse = m.head[a].pinuse /\ r.prev_foot = s
  BY <1>1 DEF Header
<1>3. [m EXCEPT !.head[a].prev_foot = s] = [m EXCEPT !.head[a] = r]
  BY <1>1 DEF State, Header
<1> DEFINE y == [m EXCEPT !.head[a] = r]
<1> HIDE DEF r
<1>4. /\ y \in State /\ SameButHead(m, y)
      /\ y.head[a] = r /\ \A b \in Addr : b # a => y.head[b] = m.head[b]
  BY <1>2, OneHead
<1> HIDE DEF y
<1> QED
  BY <1>2, <1>3, <1>4 DEF y

(* After a chunk is written, something else is put into the header behind. *)
LEMMA WrittenThen ==
    ASSUME NEW m, NEW y, NEW x \in State, NEW p \in Addr, NEW s \in Size, s > 0,
           NEW c, NEW pin, Written(m, y, p, s, c, pin), SameButHead(y, x),
           \A b \in Addr : b # p + s => x.head[b] = y.head[b],
           x.head[p + s].size = y.head[p + s].size, x.head[p + s].cinuse = y.head[p + s].cinuse
    PROVE  Written(m, x, p, s, c, pin)
<1>1. p \in Int /\ s \in Int /\ p # p + s
  BY DEF Addr, Size
<1>2. SameButHead(m, x)
  BY DEF Written, SameButHead
<1>3. \A a \in Addr : a < p \/ p + s < a => x.head[a] = m.head[a]
  BY <1>1 DEF Written, Addr
<1>4. \A a \in Addr : p < a /\ a < p + s => x.head[a] = NoHeader
  BY <1>1 DEF Written, Addr
<1>5. x.head[p] = y.head[p]
  BY <1>1
<1> QED
  BY <1>2, <1>3, <1>4, <1>5 DEF Written

WritesFree(m, x, p, s) ==
    /\ Written(m, x, p, s, FALSE, TRUE)
    /\ x.head[p + s].prev_foot = s /\ x.head[p + s].pinuse = m.head[p + s].pinuse

TellsFree(m, x, p, s) ==
    /\ Written(m, x, p, s, FALSE, TRUE)
    /\ x.head[p + s].prev_foot = s /\ x.head[p + s].pinuse = FALSE

WritesInuse(m, x, p, s, pin) ==
    Written(m, x, p, s, TRUE, pin) /\ x.head[p + s].pinuse = TRUE

LEMMA FreeWritten ==
    ASSUME NEW m \in State, NEW p \in Addr, NEW s \in Size, s > 0, p + s \in Addr
    PROVE  WritesFree(m, set_size_and_pinuse_of_free_chunk(m, p, s), p, s)
<1> DEFINE y == SetHead(m, p, s, FALSE, TRUE)
           x == set_size_and_pinuse_of_free_chunk(m, p, s)
<1>0. TRUE \in BOOLEAN /\ FALSE \in BOOLEAN
  OBVIOUS
<1>1. Written(m, y, p, s, FALSE, TRUE) /\ y.head[p + s] = m.head[p + s]
  BY <1>0, SetHeadWritten
<1>5. y \in State
  BY <1>1 DEF Written
<1>2. x = [y EXCEPT !.head[p + s].prev_foot = s]
  BY DEF set_size_and_pinuse_of_free_chunk
<1> HIDE DEF x, y
<1>3. /\ x \in State /\ SameButHead(y, x)
      /\ \A b \in Addr : b # p + s => x.head[b] = y.head[b]
      /\ x.head[p + s].size = y.head[p + s].size /\ x.head[p + s].cinuse = y.head[p + s].cinuse
      /\ x.head[p + s].pinuse = y.head[p + s].pinuse /\ x.head[p + s].prev_foot = s
  BY <1>1, <1>2, <1>5, PrevFootFacts
<1>4. Written(m, x, p, s, FALSE, TRUE)
  BY <1>1, <1>3, WrittenThen
<1> QED
  BY <1>1, <1>3, <1>4 DEF x, WritesFree

LEMMA FreeToldWritten ==
    ASSUME NEW m \in State, NEW p \in Addr, NEW s \in Size, s > 0, p + s \in Addr, NEW n, n = p + s
    PROVE  TellsFree(m, set_free_with_pinuse(m, p, s, n), p, s)
<1> DEFINE y == clear_pinuse(m, n)
           x == set_free_with_pinuse(m, p, s, n)
<1>1. /\ y \in State /\ SameButHead(m, y)
      /\ \A b \in Addr : b # n => y.head[b] = m.head[b]
      /\ y.head[n].size = m.head[n].size /\ y.head[n].cinuse = m.head[n].cinuse
      /\ y.head[n].pinuse = FALSE
  BY ClearPinuseFacts
<1>2. x = set_size_and_pinuse_of_free_chunk(y, p, s)
  BY DEF set_free_with_pinuse
<1> HIDE DEF x, y
<1>3. /\ Written(y, x, p, s, FALSE, TRUE)
      /\ x.head[p + s].prev_foot = s /\ x.head[p + s].pinuse = y.head[p + s].pinuse
  <2>1. WritesFree(y, x, p, s)
    BY <1>1, <1>2, FreeWritten
  <2> QED
    BY <2>1 DEF WritesFree
<1>4. p \in Int /\ s \in Int /\ p # n
  BY DEF Addr, Size
<1>5. \A a \in Addr : a < p \/ p + s < a => x.head[a] = m.head[a]
  BY <1>1, <1>3, <1>4 DEF Written, Addr
<1>6. SameButHead(m, x)
  BY <1>1, <1>3 DEF Written, SameButHead
<1>7. Written(m, x, p, s, FALSE, TRUE)
  BY <1>1, <1>3, <1>4, <1>5, <1>6 DEF Written
<1> QED
  BY <1>1, <1>3, <1>7 DEF x, TellsFree

LEMMA InuseWritten ==
    ASSUME NEW m \in State, NEW p \in Addr, NEW s \in Size, s > 0, p + s \in Addr
    PROVE  /\ WritesInuse(m, set_inuse(m, p, s), p, s, m.head[p].pinuse)
           /\ WritesInuse(m, set_inuse_and_pinuse(m, p, s), p, s, TRUE)
<1>1. ASSUME NEW pin \in BOOLEAN
      PROVE  LET x == SetPinuse(SetHead(m, p, s, TRUE, pin), p + s) IN
             WritesInuse(m, x, p, s, pin)
  <2> DEFINE y == SetHead(m, p, s, TRUE, pin)
             x == SetPinuse(y, p + s)
  <2>0. TRUE \in BOOLEAN
    OBVIOUS
  <2>1. Written(m, y, p, s, TRUE, pin)
    BY <2>0, SetHeadWritten
  <2>4. y \in State
    BY <2>1 DEF Written
  <2> HIDE DEF y
  <2>2. /\ x \in State /\ SameButHead(y, x)
        /\ \A b \in Addr : b # p + s => x.head[b] = y.head[b]
        /\ x.head[p + s].size = y.head[p + s].size /\ x.head[p + s].cinuse = y.head[p + s].cinuse
        /\ x.head[p + s].pinuse = TRUE
    BY <2>4, SetPinuseFacts
  <2> HIDE DEF x
  <2>3. Written(m, x, p, s, TRUE, pin)
    BY <2>1, <2>2, WrittenThen
  <2> QED
    BY <2>2, <2>3 DEF x, y, WritesInuse
<1>2. m.head[p].pinuse \in BOOLEAN
  BY DEF State, Header
<1> QED
  BY <1>1, <1>2 DEF set_inuse, set_inuse_and_pinuse

LEMMA OneRetiled ==
    ASSUME NEW m \in State, NEW x, NEW lo \in Addr, NEW s \in Nat, s > 0, lo + s \in Addr,
           NEW c \in BOOLEAN, Written(m, x, lo, s, c, m.head[lo].pinuse), x.head[lo + s].pinuse = c
    PROVE  Retiled(m.head, x.head, lo, lo + s, lo + s, c, c)
<1>1. lo \in Int /\ s \in Int /\ (lo + s) - lo = s
  BY DEF Addr
<1> QED
  BY <1>1 DEF Retiled, Written

LEMMA TwoRetiled ==
    ASSUME NEW m \in State, NEW y, NEW x, NEW lo \in Addr, NEW s \in Nat, s > 0, NEW t \in Nat, t > 0,
           NEW c1 \in BOOLEAN, NEW c2 \in BOOLEAN, NEW mid, mid = lo + s, mid \in Addr,
           NEW hi, hi = mid + t, hi \in Addr,
           Written(m, y, lo, s, c1, m.head[lo].pinuse), Written(y, x, mid, t, c2, c1),
           x.head[hi].pinuse = c2
    PROVE  Retiled(m.head, x.head, lo, mid, hi, c1, c2)
<1>1. lo \in Int /\ s \in Int /\ t \in Int /\ mid \in Int /\ hi \in Int /\ mid - lo = s /\ hi - mid = t
      /\ lo < mid /\ mid < hi
  BY DEF Addr
<1>2. \A a \in Addr : a < lo \/ hi < a => x.head[a] = m.head[a]
  BY <1>1 DEF Written, Addr
<1>3. \A a \in Addr : lo < a /\ a < hi /\ a # mid => x.head[a] = NoHeader
  BY <1>1 DEF Written, Addr
<1>4. x.head[lo] = y.head[lo] /\ y.head[hi] = m.head[hi]
  BY <1>1 DEF Written
<1> QED
  BY <1>1, <1>2, <1>3, <1>4 DEF Retiled, Written

(* The chunk behind is written first.                                      *)
LEMMA TwoRetiledBack ==
    ASSUME NEW m \in State, NEW y, NEW x, NEW lo \in Addr, NEW s \in Nat, s > 0, NEW t \in Nat, t > 0,
           NEW c1 \in BOOLEAN, NEW c2 \in BOOLEAN, NEW pin, NEW mid, mid = lo + s, mid \in Addr,
           NEW hi, hi = mid + t, hi \in Addr,
           Written(m, y, mid, t, c2, pin), Written(y, x, lo, s, c1, m.head[lo].pinuse),
           x.head[mid].pinuse = c1, x.head[hi].pinuse = c2
    PROVE  Retiled(m.head, x.head, lo, mid, hi, c1, c2)
<1>1. lo \in Int /\ s \in Int /\ t \in Int /\ mid \in Int /\ hi \in Int /\ mid - lo = s /\ hi - mid = t
      /\ lo < mid /\ mid < hi
  BY DEF Addr
<1>2. \A a \in Addr : a < lo \/ hi < a => x.head[a] = m.head[a]
  BY <1>1 DEF Written, Addr
<1>3. \A a \in Addr : lo < a /\ a < hi /\ a # mid => x.head[a] = NoHeader
  BY <1>1 DEF Written, Addr
<1>4. x.head[hi] = y.head[hi] /\ y.head[lo] = m.head[lo]
  BY <1>1 DEF Written
<1> QED
  BY <1>1, <1>2, <1>3, <1>4 DEF Retiled, Written

-----------------------------------------------------------------------------
(* Bins after a step.  x is a state in which the chunks of lo .. hi - 1    *)
(* have left their bins.                                                   *)

Cleared(m, x, lo, hi) ==
    /\ NoRepeats(x)
    /\ \A s \in Size, a \in Addr :
          a \in Range(x.bin[s]) <=> (a < lo \/ hi <= a) /\ a \in Range(m.bin[s])

(* The victim is not of the region, or has ceased to be one.               *)
VictimApart(m, x, lo, hi) ==
    \/ x.dv = m.dv /\ x.dvsize = m.dvsize /\ (m.dv < lo \/ hi <= m.dv)
    \/ x.dv = Null /\ x.dvsize = 0 /\ lo <= m.dv /\ m.dv < hi

LEMMA RefiledUnfiled ==
    ASSUME NEW m \in State, NEW x, NEW m2, NEW lo \in Addr, NEW mid \in Int, NEW hi \in Addr,
           NEW c2 \in BOOLEAN, Cleared(m, x, lo, hi), m2.bin = x.bin, VictimApart(m, m2, lo, hi),
           c2 \/ LastAt(lo, mid, hi) = m2.top
    PROVE  Refiled(m, m2, lo, mid, hi, c2)
<1>1. m.dv \in Int /\ lo \in Int /\ hi \in Int
  BY DEF State, Addr, Null
<1>2. NoRepeats(m2)
  BY DEF Cleared, NoRepeats
<1>3. ASSUME NEW a \in Addr, a < lo \/ hi <= a, a = m.dv PROVE m2.dv = m.dv
  BY <1>1, <1>3 DEF VictimApart
<1>4. \/ m2.dv = m.dv /\ m2.dvsize = m.dvsize /\ (m.dv = Null \/ m.dv < lo \/ hi <= m.dv)
      \/ m2.dv = Null /\ m2.dvsize = 0
  BY DEF VictimApart
<1> QED
  BY <1>2, <1>3, <1>4 DEF Refiled, Cleared

LEMMA RefiledVictim ==
    ASSUME NEW m \in State, NEW x, NEW m2, NEW lo \in Addr, NEW mid \in Int, NEW hi \in Addr,
           Cleared(m, x, lo, hi), m2.bin = x.bin, m.dv = Null \/ (lo <= m.dv /\ m.dv < hi),
           m2.dv = LastAt(lo, mid, hi), m2.dvsize = hi - LastAt(lo, mid, hi), m2.dv # m2.top
    PROVE  Refiled(m, m2, lo, mid, hi, FALSE)
<1>1. m.dv \in Int /\ lo \in Int /\ hi \in Int
  BY DEF State, Addr, Null
<1>2. NoRepeats(m2)
  BY DEF Cleared, NoRepeats
<1>3. ~ \E a \in Addr : (a < lo \/ hi <= a) /\ a = m.dv
  BY <1>1 DEF Null, Addr
<1> QED
  BY <1>2, <1>3 DEF Refiled, Cleared

(* m2 is x with the last chunk of the region put where it belongs.         *)
Refiles(m, x, m2, lo, mid, hi) ==
    /\ m2 \in State /\ Refiled(m, m2, lo, mid, hi, FALSE)
    /\ m2.head = x.head /\ m2.top = x.top /\ m2.topsize = x.topsize /\ m2.seg = x.seg
    /\ m2.footprint = x.footprint /\ m2.release_checks = x.release_checks

LEMMA RefiledInserted ==
    ASSUME NEW m \in State, NEW x \in State, NEW lo \in Addr, NEW mid \in Int, NEW hi \in Addr,
           Cleared(m, x, lo, hi), VictimApart(m, x, lo, hi),
           NEW z \in Addr, z = LastAt(lo, mid, hi), lo <= z, z < hi, z # x.top, NEW s \in Size, s = hi - z
    PROVE  Refiles(m, x, insert_chunk(x, z, s), lo, mid, hi)
<1> DEFINE m2 == insert_chunk(x, z, s)
<1>1. m.dv \in Int /\ lo \in Int /\ hi \in Int /\ z \in Int /\ z # Null
  BY DEF State, Addr, Null
<1>2. z \notin Range(x.bin[s]) /\ NoRepeats(x)
  BY <1>1 DEF Cleared
<1>3. /\ m2 \in State /\ SameButBin(x, m2) /\ NoRepeats(m2)
      /\ \A t \in Size : Range(m2.bin[t]) = IF t = s THEN Range(x.bin[t]) \cup {z} ELSE Range(x.bin[t])
  <2>1. Inserts(x, m2, z, s)
    BY <1>2, InsertFacts
  <2> QED
    BY <2>1 DEF Inserts
<1> HIDE DEF m2
<1>4. m2.dv = x.dv /\ m2.dvsize = x.dvsize /\ m2.top = x.top
  BY <1>3 DEF SameButBin
<1>5. z # m2.dv
  BY <1>1, <1>4 DEF VictimApart
<1>6. ASSUME NEW a \in Addr, a < lo \/ hi <= a, a = m.dv PROVE m2.dv = m.dv
  BY <1>1, <1>4, <1>6 DEF VictimApart
<1>7. \/ m2.dv = m.dv /\ m2.dvsize = m.dvsize /\ (m.dv = Null \/ m.dv < lo \/ hi <= m.dv)
      \/ m2.dv = Null /\ m2.dvsize = 0
  BY <1>4 DEF VictimApart
<1>8. ASSUME NEW t \in Size, NEW a \in Addr
      PROVE  a \in Range(m2.bin[t]) <=>
              \/ (a < lo \/ hi <= a) /\ a \in Range(m.bin[t])
              \/ (a < lo \/ hi <= a) /\ a = m.dv /\ m2.dv # m.dv /\ t = m.dvsize
              \/ a = z /\ t = hi - z /\ ~FALSE /\ z # m2.dv /\ z # m2.top
  <2>1. a \in Range(m2.bin[t]) <=> a \in Range(x.bin[t]) \/ (t = s /\ a = z)
    BY <1>3
  <2> QED
    BY <2>1, <1>4, <1>5, <1>6 DEF Cleared
<1>9. Refiled(m, m2, lo, mid, hi, FALSE)
  BY <1>3, <1>7, <1>8 DEF Refiled
<1> QED
  BY <1>3, <1>9 DEF m2, Refiles, SameButBin

(* The chunk becomes the victim, and the victim before goes to a bin.      *)
LEMMA RefiledReplaced ==
    ASSUME NEW m \in State, Filed(m), NEW x \in State, NEW lo \in Addr, NEW mid \in Int, NEW hi \in Addr,
           Cleared(m, x, lo, hi), VictimApart(m, x, lo, hi),
           NEW z \in Addr, z = LastAt(lo, mid, hi), lo <= z, z < hi, z # x.top, NEW s \in Size, s = hi - z
    PROVE  Refiles(m, x, replace_dv(x, z, s), lo, mid, hi)
<1> DEFINE y == IF x.dvsize = 0 THEN x ELSE insert_chunk(x, x.dv, x.dvsize)
           m2 == replace_dv(x, z, s)
<1>1. m.dv \in Int /\ lo \in Int /\ hi \in Int /\ z \in Int /\ z # Null /\ x.dvsize \in Size /\ Null < lo
  BY DEF State, Addr, Null
<1>2. m2 = [y EXCEPT !.dv = z, !.dvsize = s]
  BY DEF replace_dv
<1>3. x.dvsize # 0 => x.dv = m.dv /\ m.dv \in Addr /\ x.dvsize = m.dvsize /\ (m.dv < lo \/ hi <= m.dv)
  BY DEF VictimApart, Filed, Victim, Cells
<1>4. x.dvsize = 0 => m.dv = Null \/ (lo <= m.dv /\ m.dv < hi)
  BY CellFacts DEF VictimApart, Filed, Victim
<1>5. x.dvsize # 0 => m.dv \notin Range(x.bin[x.dvsize])
  BY <1>1, <1>3 DEF Cleared, Filed, Binnable
<1>6. /\ y \in State /\ SameButBin(x, y) /\ NoRepeats(y)
      /\ \A t \in Size : Range(y.bin[t]) =
            IF t = x.dvsize /\ x.dvsize # 0 THEN Range(x.bin[t]) \cup {x.dv} ELSE Range(x.bin[t])
  <2>1. CASE x.dvsize = 0
    BY <2>1 DEF SameButBin, Cleared
  <2>2. CASE x.dvsize # 0
    <3>1. x.dv \in Addr /\ x.dvsize \in Size /\ x.dv \notin Range(x.bin[x.dvsize]) /\ NoRepeats(x)
      BY <2>2, <1>1, <1>3, <1>5 DEF Cleared
    <3>2. y = insert_chunk(x, x.dv, x.dvsize)
      BY <2>2
    <3> HIDE DEF y
    <3>3. /\ y \in State /\ SameButBin(x, y) /\ NoRepeats(y)
          /\ \A t \in Size : Range(y.bin[t]) =
                IF t = x.dvsize THEN Range(x.bin[t]) \cup {x.dv} ELSE Range(x.bin[t])
      <4> DEFINE d == x.dv
                 v == x.dvsize
      <4>1. d \in Addr /\ v \in Size /\ d \notin Range(x.bin[v]) /\ y = insert_chunk(x, d, v)
        BY <3>1, <3>2
      <4> HIDE DEF d, v
      <4>2. /\ y \in State /\ SameButBin(x, y) /\ NoRepeats(y)
            /\ \A t \in Size : Range(y.bin[t]) =
                  IF t = v THEN Range(x.bin[t]) \cup {d} ELSE Range(x.bin[t])
        <5>1. Inserts(x, y, d, v)
          BY <3>1, <4>1, InsertFacts
        <5> QED
          BY <5>1 DEF Inserts
      <4> QED
        BY <4>2 DEF d, v
    <3> QED
      BY <2>2, <3>3
  <2> QED
    BY <2>1, <2>2
<1> HIDE DEF y, m2
<1>7. /\ m2 \in State /\ m2.bin = y.bin /\ m2.dv = z /\ m2.dvsize = s
      /\ m2.head = x.head /\ m2.top = x.top /\ m2.topsize = x.topsize /\ m2.seg = x.seg
      /\ m2.footprint = x.footprint /\ m2.release_checks = x.release_checks
  BY <1>2, <1>6 DEF State, SameButBin
<1>8. NoRepeats(m2)
  BY <1>6, <1>7 DEF NoRepeats
<1>9. ASSUME NEW t \in Size, NEW a \in Addr
      PROVE  a \in Range(m2.bin[t]) <=>
              \/ (a < lo \/ hi <= a) /\ a \in Range(m.bin[t])
              \/ (a < lo \/ hi <= a) /\ a = m.dv /\ m2.dv # m.dv /\ t = m.dvsize
              \/ a = z /\ t = hi - z /\ ~FALSE /\ z # m2.dv /\ z # m2.top
  <2>1. a \in Range(m2.bin[t]) <=> a \in Range(x.bin[t]) \/ (t = x.dvsize /\ x.dvsize # 0 /\ a = x.dv)
    BY <1>6, <1>7
  <2>2. a \in Range(x.bin[t]) <=> (a < lo \/ hi <= a) /\ a \in Range(m.bin[t])
    BY DEF Cleared
  <2>3. m2.dv = z
    BY <1>7
  <2>4. CASE x.dvsize = 0
    <3>1. ~((a < lo \/ hi <= a) /\ a = m.dv)
      BY <2>4, <1>1, <1>4 DEF Addr, Null
    <3> QED
      BY <2>1, <2>2, <2>3, <2>4, <3>1
  <2>5. CASE x.dvsize # 0
    <3>1. z # m.dv
      BY <2>5, <1>1, <1>3
    <3> QED
      BY <2>1, <2>2, <2>3, <2>5, <3>1, <1>3
  <2> QED
    BY <2>4, <2>5
<1>10. Refiled(m, m2, lo, mid, hi, FALSE)
  BY <1>7, <1>8, <1>9 DEF Refiled
<1> QED
  BY <1>7, <1>10 DEF m2, Refiles

-----------------------------------------------------------------------------
(* Using a free chunk.                                                     *)

LEMMA CellInt ==
    ASSUME NEW m \in State
    PROVE  /\ \A a \in Cells(m) : a \in Int /\ a \in Addr
           /\ \A a \in InUse(m) : a \in Int /\ a \in Addr /\ a \in Cells(m)
BY DEF Cells, InUse, Addr

(* A free chunk p other than top, up to hi, lies between chunks in use.    *)
LoneFree(m, p, hi) ==
    /\ p \in Addr /\ p \in Int /\ hi \in Addr /\ hi \in Int /\ p < hi /\ hi = p + m.head[p].size
    /\ m.head[p].size \in Size /\ m.head[p].size \in Nat /\ m.head[p].size >= MinChunk
    /\ m.head[p].pinuse = TRUE /\ p \notin RecordsOf(m)
    /\ hi \in Cells(m) /\ hi \notin BasesOf(m) /\ hi # FootOf(m)
    /\ m.head[hi].cinuse = TRUE /\ m.head[hi].pinuse = FALSE
    /\ m.head[hi].prev_foot = m.head[p].size
    /\ Region(m, p, hi)
    /\ \A a \in Cells(m) : p <= a /\ a < hi => a = p

LEMMA FreeCell ==
    ASSUME NEW m \in State, Layout(m), NEW p \in Cells(m), ~m.head[p].cinuse, p # m.top,
           NEW hi, hi = After(m, p)
    PROVE  LoneFree(m, p, hi)
<1>1. p \in Addr /\ p \in Int /\ m.head[p].size \in Nat /\ m.head[p].size > 0 /\ m.head[p].size \in Size
      /\ hi = p + m.head[p].size /\ m.head[p].cinuse \in BOOLEAN /\ m.head[p].pinuse \in BOOLEAN
  BY CellFacts DEF After, Header
<1>2. m.head[p].size >= MinChunk /\ hi \in Addr
  BY DEF Layout
<1>3. p \notin RecordsOf(m)
  BY DEF Layout
<1>4. Followed(m, p) /\ Tagged(m, p)
  BY DEF Layout
<1>5. hi \in Cells(m) /\ hi \notin BasesOf(m)
  BY <1>3, <1>4 DEF Followed
<1>6. m.head[hi].cinuse \in BOOLEAN /\ m.head[hi].pinuse \in BOOLEAN /\ hi \in Int
  BY <1>5, CellFacts
<1>7. m.head[p].pinuse = TRUE /\ m.head[hi].pinuse = FALSE /\ m.head[hi].prev_foot = m.head[p].size
  BY <1>1, <1>4, <1>6 DEF Tagged
<1>8. m.head[hi].cinuse = TRUE
  <2>1. Tagged(m, hi)
    BY <1>5 DEF Layout
  <2> QED
    BY <2>1, <1>6, <1>7 DEF Tagged
<1>9. Region(m, p, hi)
  BY <1>3, RegionOne
<1>10. ASSUME NEW a \in Cells(m), p <= a, a < hi PROVE a = p
  <2> SUFFICES ASSUME p < a PROVE FALSE
    BY <1>1, <1>10, CellFacts
  <2>1. hi <= a
    BY CellFacts DEF Layout
  <2> QED
    BY <2>1, <1>6, <1>10, CellFacts
<1>11. hi # FootOf(m)
  BY <1>5 DEF Cells
<1>12. p < hi
  BY <1>1
<1> QED
  BY <1>1, <1>2, <1>3, <1>5, <1>6, <1>7, <1>8, <1>9, <1>10, <1>11, <1>12 DEF LoneFree

(* m1 is m, but chunk p has left its bin or is the victim no more.         *)
Taken(m, m1, p) ==
    /\ m1 \in State /\ m1.head = m.head /\ m1.top = m.top /\ m1.topsize = m.topsize
    /\ m1.seg = m.seg /\ m1.footprint = m.footprint /\ m1.release_checks = m.release_checks
    /\ Cleared(m, m1, p, After(m, p)) /\ VictimApart(m, m1, p, After(m, p))

LEMMA UnlinkTaken ==
    ASSUME NEW m \in State, Sound(m), NEW p \in Binnable(m), NEW s, s = m.head[p].size
    PROVE  Taken(m, unlink_chunk(m, p, s), p)
<1> DEFINE m1 == unlink_chunk(m, p, s)
           hi == After(m, p)
<1>1. Layout(m) /\ Filed(m) /\ p \in Cells(m) /\ ~m.head[p].cinuse /\ p # m.top /\ p # m.dv
  BY DEF Sound, Binnable
<1>20. LoneFree(m, p, hi)
  BY <1>1, FreeCell
<1>2. s \in Size /\ p \in Int /\ hi \in Int /\ p < hi /\ \A a \in Cells(m) : p <= a /\ a < hi => a = p
  BY <1>20 DEF LoneFree
<1>3. Unlinks(m, m1, p, s)
  BY <1>1, <1>2, UnlinkFacts DEF Filed
<1> HIDE DEF m1
<1>4. /\ m1 \in State /\ SameButBin(m, m1) /\ NoRepeats(m1)
      /\ \A t \in Size : Range(m1.bin[t]) = IF t = s THEN Range(m.bin[t]) \ {p} ELSE Range(m.bin[t])
  BY <1>3 DEF Unlinks
<1>5. ASSUME NEW t \in Size, NEW a \in Addr
      PROVE  a \in Range(m1.bin[t]) <=> (a < p \/ hi <= a) /\ a \in Range(m.bin[t])
  <2>1. a \in Range(m.bin[t]) => a \in Cells(m) /\ m.head[a].size = t
    BY <1>1 DEF Filed, Binnable
  <2>2. a \in Int
    BY DEF Addr
  <2>3. a \in Range(m.bin[t]) => (a = p <=> ~(a < p \/ hi <= a))
    BY <1>2, <2>1, <2>2
  <2> QED
    BY <1>4, <2>1, <2>3
<1>6. m.dv < p \/ hi <= m.dv
  <2>1. m.dv # Null => m.dv \in Cells(m)
    BY <1>1 DEF Filed, Victim
  <2>2. p > 0 /\ m.dv \in Int
    <3>1. m.dv \in Addr \cup {Null}
      BY DEF State
    <3>2. p \in Addr /\ p > 0
      BY <1>1, CellFacts
    <3> QED
      BY ONLY <3>1, <3>2 DEF Addr, Null
  <2> QED
    BY <1>1, <1>2, <2>1, <2>2 DEF Null
<1>7. Cleared(m, m1, p, hi) /\ VictimApart(m, m1, p, hi)
  BY <1>4, <1>5, <1>6 DEF Cleared, VictimApart, SameButBin
<1> QED
  BY <1>4, <1>7 DEF Taken, SameButBin, m1

LEMMA VictimTaken ==
    ASSUME NEW m \in State, Sound(m), m.dv # Null
    PROVE  Taken(m, NoVictim(m), m.dv)
<1> DEFINE m1 == NoVictim(m)
           p == m.dv
           hi == After(m, p)
<1>1. Layout(m) /\ Filed(m) /\ p \in Cells(m) /\ ~m.head[p].cinuse /\ p # m.top
  BY DEF Sound, Filed, Victim
<1>20. LoneFree(m, p, hi)
  BY <1>1, FreeCell
<1>2. p \in Int /\ hi \in Int /\ p < hi /\ \A a \in Cells(m) : p <= a /\ a < hi => a = p
  BY <1>20 DEF LoneFree
<1>3. /\ m1 \in State /\ m1.head = m.head /\ m1.top = m.top /\ m1.topsize = m.topsize
      /\ m1.seg = m.seg /\ m1.footprint = m.footprint /\ m1.release_checks = m.release_checks
      /\ m1.bin = m.bin /\ m1.dv = Null /\ m1.dvsize = 0
  <2>1. Null \in Addr \cup {Null} /\ 0 \in Size
    BY Sizes0 DEF Size
  <2>2. m1 = [m EXCEPT !.dv = Null, !.dvsize = 0]
    BY DEF NoVictim
  <2> HIDE DEF m1
  <2> QED
    BY <2>1, <2>2 DEF State
<1>4. NoRepeats(m1)
  BY <1>1, <1>3 DEF Filed, NoRepeats
<1>5. ASSUME NEW t \in Size, NEW a \in Addr
      PROVE  a \in Range(m.bin[t]) => (a < p \/ hi <= a)
  <2>1. a \in Range(m.bin[t]) => a \in Cells(m) /\ a # p
    BY <1>1 DEF Filed, Binnable
  <2>2. a \in Int
    BY DEF Addr
  <2> QED
    BY <1>2, <2>1, <2>2
<1>6. Cleared(m, m1, p, hi)
  <2> HIDE DEF m1, p, hi
  <2> QED
    BY <1>3, <1>4, <1>5 DEF Cleared
<1>7. VictimApart(m, m1, p, hi)
  BY <1>2, <1>3 DEF VictimApart
<1> QED
  BY <1>3, <1>6, <1>7 DEF Taken

(* What dlmalloc owes for a request: the heap is sound, p is in use and of *)
(* the size asked for, or one unit more, and every other chunk in use is   *)
(* as it was.                                                              *)
Handed(m, nb, m2, p) ==
    /\ m2 \in State /\ Sound(m2) /\ m2.seg = m.seg /\ m2.footprint = m.footprint
    /\ m2.release_checks = m.release_checks
    /\ p \in Addr /\ p \notin InUse(m) /\ InUse(m2) = InUse(m) \cup {p}
    /\ \A a \in InUse(m) : m2.head[a].size = m.head[a].size
    /\ nb <= m2.head[p].size /\ m2.head[p].size < nb + MinChunk
    /\ m2.head[p].pinuse

LEMMA UseWhole ==
    ASSUME NEW m \in State, Sound(m), NEW p \in Cells(m), ~m.head[p].cinuse, p # m.top,
           NEW s, s = m.head[p].size, NEW nb \in Nat, nb <= s, s - nb < MinChunk,
           NEW m1, Taken(m, m1, p)
    PROVE  Handed(m, nb, set_inuse_and_pinuse(m1, p, s), p)
<1> DEFINE m2 == set_inuse_and_pinuse(m1, p, s)
           hi == After(m, p)
<1>0. Layout(m)
  BY DEF Sound
<1>20. LoneFree(m, p, hi)
  BY <1>0, FreeCell
<1>1. /\ p \in Addr /\ p \in Int /\ hi \in Addr /\ hi \in Int /\ p < hi /\ hi = p + s
      /\ s \in Size /\ s \in Nat /\ s >= MinChunk /\ s > 0
      /\ m.head[p].pinuse = TRUE /\ hi # FootOf(m)
      /\ Region(m, p, hi) /\ \A a \in Cells(m) : p <= a /\ a < hi => a = p
  BY <1>20 DEF LoneFree, MinChunk
<1>2. /\ m1 \in State /\ m1.head = m.head /\ m1.top = m.top /\ m1.topsize = m.topsize
      /\ m1.seg = m.seg /\ m1.footprint = m.footprint /\ m1.release_checks = m.release_checks
      /\ Cleared(m, m1, p, hi) /\ VictimApart(m, m1, p, hi)
  BY DEF Taken
<1> HIDE DEF hi
<1>3. Written(m1, m2, p, s, TRUE, TRUE) /\ m2.head[hi].pinuse = TRUE
  <2>1. WritesInuse(m1, m2, p, s, TRUE)
    BY <1>1, <1>2, InuseWritten
  <2> QED
    BY <2>1, <1>1 DEF WritesInuse
<1> HIDE DEF m2
<1>4. m2 \in State /\ SameButHead(m1, m2)
  BY <1>3 DEF Written
<1>5. Retiled(m.head, m2.head, p, hi, hi, TRUE, TRUE)
  <2>1. TRUE \in BOOLEAN
    OBVIOUS
  <2> QED
    BY <1>1, <1>2, <1>3, <2>1, OneRetiled
<1>6. LastAt(p, hi, hi) = p
  BY DEF LastAt
<1>7. Fits(m, m2, p, hi, hi, TRUE, TRUE)
  <2>1. p < hi /\ hi <= hi /\ hi - p >= MinChunk
    BY <1>1 DEF MinChunk
  <2>2. m2.top = m.top /\ m2.topsize = m.topsize
    BY <1>2, <1>4 DEF SameButHead
  <2> QED
    BY <1>1, <1>6, <2>1, <2>2 DEF Fits
<1>8. Refiled(m, m2, p, hi, hi, TRUE)
  <2>1. m2.bin = m1.bin /\ VictimApart(m, m2, p, hi)
    BY <1>2, <1>4 DEF SameButHead, VictimApart
  <2> QED
    BY <1>1, <1>2, <2>1, RefiledUnfiled
<1>9. Reshaped(m, m2, p, hi, hi, TRUE, TRUE)
  BY <1>1, <1>2, <1>4, <1>5, <1>7, <1>8 DEF Reshaped, SameButHead, Sound
<1>10. /\ Sound(m2)
       /\ InUse(m2) = {a \in InUse(m) : a < p \/ hi <= a} \cup {p}
       /\ \A a \in InUse(m) : a < p \/ hi <= a => m2.head[a].size = m.head[a].size
       /\ m2.head[p].size = s /\ m2.head[p].pinuse = TRUE
  <2>1. Outcome(m, m2, p, hi, hi, TRUE, TRUE)
    BY <1>1, <1>9, ReshapeSound
  <2> QED
    BY <2>1, <1>1, <1>3, <1>6 DEF Written, Outcome
<1>11. p \notin InUse(m) /\ \A a \in InUse(m) : a < p \/ hi <= a
  BY <1>1, CellInt DEF InUse
<1>12. m2.seg = m.seg /\ m2.footprint = m.footprint /\ m2.release_checks = m.release_checks
  BY <1>2, <1>4 DEF SameButHead
<1>13. InUse(m2) = InUse(m) \cup {p}
  BY <1>10, <1>11
<1>14. nb <= s /\ s < nb + MinChunk
  BY <1>1 DEF MinChunk
<1> QED
  BY <1>1, <1>4, <1>10, <1>11, <1>12, <1>13, <1>14 DEF Handed, m2

(* The first part of the chunk is used; Keep is given the rest.            *)
CutRest(m1, p, s, nb) ==
    set_size_and_pinuse_of_free_chunk(set_size_and_pinuse_of_inuse_chunk(m1, p, nb), p + nb, s - nb)

(* x is m with a chunk in use at p and a free one from mid to hi.          *)
Cuts(m, x, p, mid, hi) ==
    /\ x \in State /\ SameButHead(m, x)
    /\ Retiled(m.head, x.head, p, mid, hi, TRUE, FALSE)
    /\ x.head[hi].prev_foot = hi - mid
    /\ p < mid /\ mid < hi /\ mid \in Addr /\ mid \in Int /\ hi - mid \in Size

LEMMA CutWritten ==
    ASSUME NEW m \in State, NEW p \in Addr, NEW s \in Nat, NEW hi \in Addr, hi = p + s,
           NEW nb \in Nat, nb > 0, nb < s, m.head[p].pinuse = TRUE, m.head[hi].pinuse = FALSE
    PROVE  Cuts(m, CutRest(m, p, s, nb), p, p + nb, hi)
<1> DEFINE y == set_size_and_pinuse_of_inuse_chunk(m, p, nb)
           t == s - nb
           mid == p + nb
           x == CutRest(m, p, s, nb)
<1>1. mid \in Addr /\ t \in Size /\ nb \in Size /\ t \in Nat /\ t > 0 /\ hi = mid + t /\ mid \in Int
      /\ p < mid /\ mid < hi /\ p \in Int /\ hi \in Int
  <2>1. p >= 1 /\ hi <= Space /\ p \in Int /\ hi \in Int
    BY Sizes0 DEF Addr
  <2> QED
    BY <2>1, Sizes0 DEF Addr, Size
<1>2. x = set_size_and_pinuse_of_free_chunk(y, mid, t)
  BY DEF CutRest
<1>3. TRUE \in BOOLEAN /\ FALSE \in BOOLEAN
  OBVIOUS
<1> HIDE DEF t, mid, x
<1>4. Written(m, y, p, nb, TRUE, TRUE) /\ y \in State
  <2>1. y = SetHead(m, p, nb, TRUE, TRUE)
    BY DEF set_size_and_pinuse_of_inuse_chunk
  <2>2. p + nb \in Addr
    BY <1>1 DEF mid
  <2>3. Written(m, y, p, nb, TRUE, TRUE)
    BY <1>1, <1>3, <2>1, <2>2, SetHeadWritten
  <2> QED
    BY <2>3 DEF Written
<1> HIDE DEF y
<1>5. /\ Written(y, x, mid, t, FALSE, TRUE)
      /\ x.head[hi].prev_foot = t /\ x.head[hi].pinuse = y.head[hi].pinuse
  <2>1. WritesFree(y, x, mid, t)
    BY <1>1, <1>2, <1>4, FreeWritten
  <2> QED
    BY <2>1, <1>1 DEF WritesFree
<1>6. y.head[hi] = m.head[hi]
  BY <1>1, <1>4 DEF Written, mid
<1>7. x \in State /\ SameButHead(m, x)
  BY <1>4, <1>5 DEF Written, SameButHead
<1>8. Retiled(m.head, x.head, p, mid, hi, TRUE, FALSE)
  <2>1. Written(m, y, p, nb, TRUE, m.head[p].pinuse) /\ x.head[hi].pinuse = FALSE /\ mid = p + nb
    BY <1>4, <1>5, <1>6 DEF mid
  <2> QED
    BY <1>1, <1>3, <1>5, <2>1, TwoRetiled
<1>9. hi - mid = t
  BY <1>1
<1>10. Cuts(m, x, p, mid, hi)
  BY <1>1, <1>5, <1>7, <1>8, <1>9 DEF Cuts
<1> QED
  BY <1>10 DEF mid, x

LEMMA UseRest ==
    ASSUME NEW m \in State, Sound(m), NEW p \in Cells(m), ~m.head[p].cinuse, p # m.top,
           NEW s, s = m.head[p].size, NEW nb \in Nat, nb >= MinChunk, s - nb >= MinChunk,
           NEW m1, Taken(m, m1, p)
    PROVE  /\ Handed(m, nb, insert_chunk(CutRest(m1, p, s, nb), p + nb, s - nb), p)
           /\ Handed(m, nb, replace_dv(CutRest(m1, p, s, nb), p + nb, s - nb), p)
<1> DEFINE x == CutRest(m1, p, s, nb)
           hi == After(m, p)
           mid == p + nb
           t == s - nb
<1>0. Layout(m) /\ Filed(m)
  BY DEF Sound
<1>20. LoneFree(m, p, hi)
  BY <1>0, FreeCell
<1>1. /\ p \in Addr /\ p \in Int /\ hi \in Addr /\ hi \in Int /\ p < hi /\ hi = p + s
      /\ s \in Size /\ s \in Nat
      /\ m.head[p].pinuse = TRUE /\ hi # FootOf(m) /\ m.head[hi].cinuse = TRUE
      /\ m.head[hi].pinuse = FALSE
      /\ Region(m, p, hi) /\ \A a \in Cells(m) : p <= a /\ a < hi => a = p
  BY <1>20 DEF LoneFree, MinChunk
<1>2. /\ m1 \in State /\ m1.head = m.head /\ m1.top = m.top /\ m1.topsize = m.topsize
      /\ m1.seg = m.seg /\ m1.footprint = m.footprint /\ m1.release_checks = m.release_checks
      /\ Cleared(m, m1, p, hi) /\ VictimApart(m, m1, p, hi)
  BY DEF Taken
<1> HIDE DEF hi
<1>3. /\ x \in State /\ SameButHead(m1, x)
      /\ Retiled(m.head, x.head, p, mid, hi, TRUE, FALSE)
      /\ x.head[hi].prev_foot = t /\ mid \in Addr /\ t \in Size
  <2>1. nb > 0 /\ nb < s
    BY <1>1 DEF MinChunk
  <2>2. Cuts(m1, x, p, mid, hi)
    BY <1>1, <1>2, <2>1, CutWritten
  <2>3. hi - mid = t
    BY <1>1
  <2> HIDE DEF x, mid, t
  <2> QED
    BY <1>2, <2>2, <2>3 DEF Cuts
<1> HIDE DEF x
<1>4. mid \in Int /\ p < mid /\ mid < hi /\ hi - mid = t /\ t >= MinChunk /\ mid - p = nb /\ LastAt(p, mid, hi) = mid
  BY <1>1 DEF LastAt, MinChunk
<1> HIDE DEF mid, t
<1>5. x.bin = m1.bin /\ Cleared(m, x, p, hi) /\ VictimApart(m, x, p, hi) /\ x.top = m.top
      /\ x.topsize = m.topsize /\ x.seg = m.seg /\ x.footprint = m.footprint
      /\ x.release_checks = m.release_checks
  BY <1>2, <1>3 DEF Cleared, NoRepeats, VictimApart, SameButHead
<1>6. mid # x.top
  <2>1. m.top \in Cells(m)
    BY <1>0 DEF Layout
  <2> QED
    BY <2>1, <1>1, <1>4, <1>5
<1>7. ASSUME NEW m2 \in State, m2.head = x.head, m2.top = x.top, m2.topsize = x.topsize,
             m2.seg = x.seg, m2.footprint = x.footprint, m2.release_checks = x.release_checks,
             Refiled(m, m2, p, mid, hi, FALSE)
      PROVE  Handed(m, nb, m2, p)
  <2>1. Fits(m, m2, p, mid, hi, TRUE, FALSE)
    <3>1. p < mid /\ mid <= hi /\ mid - p >= MinChunk /\ hi - mid >= MinChunk
      BY <1>1, <1>4 DEF MinChunk
    <3> QED
      BY <1>1, <1>3, <1>4, <1>5, <1>7, <3>1 DEF Fits
  <2>2. Reshaped(m, m2, p, mid, hi, TRUE, FALSE)
    BY <1>1, <1>3, <1>5, <1>7, <2>1 DEF Reshaped, Sound
  <2>3. Outcome(m, m2, p, mid, hi, TRUE, FALSE)
    BY <1>1, <1>4, <2>2, ReshapeSound
  <2>4. p \notin InUse(m) /\ \A a \in InUse(m) : a < p \/ hi <= a
    <3>1. p \notin InUse(m)
      BY DEF InUse
    <3>2. \A a \in InUse(m) : a \in Cells(m) /\ a \in Int
      BY CellInt
    <3> QED
      BY <1>1, <3>1, <3>2
  <2>5. InUse(m2) = InUse(m) \cup {p}
    <3>1. InUse(m2) = {a \in InUse(m) : a < p \/ hi <= a}
                         \cup {a \in {p} : TRUE} \cup {a \in {mid} : FALSE}
      BY <1>4, <2>3 DEF Outcome
    <3> QED
      BY <3>1, <2>4
  <2>6. nb <= m2.head[p].size /\ m2.head[p].size < nb + MinChunk
    BY <1>4, <2>3 DEF Outcome, MinChunk
  <2> QED
    BY <1>1, <2>3, <2>4, <2>5, <2>6 DEF Handed, Outcome
<1>8. Handed(m, nb, insert_chunk(x, mid, t), p)
  <2> DEFINE m2 == insert_chunk(x, mid, t)
  <2>1. Refiles(m, x, m2, p, mid, hi)
    <3>1. /\ x \in State /\ p \in Addr /\ mid \in Int /\ hi \in Addr /\ mid \in Addr /\ t \in Size
          /\ mid = LastAt(p, mid, hi) /\ p <= mid /\ mid < hi /\ mid # x.top /\ t = hi - mid
      BY <1>1, <1>3, <1>4, <1>6
    <3>2. Cleared(m, x, p, hi) /\ VictimApart(m, x, p, hi)
      BY <1>5
    <3> QED
      BY <3>1, <3>2, RefiledInserted
  <2> HIDE DEF m2
  <2>2. Handed(m, nb, m2, p)
    BY <2>1, <1>7 DEF Refiles
  <2> QED
    BY <2>2 DEF m2
<1>9. Handed(m, nb, replace_dv(x, mid, t), p)
  <2> DEFINE m2 == replace_dv(x, mid, t)
  <2>1. Refiles(m, x, m2, p, mid, hi)
    <3>1. /\ x \in State /\ p \in Addr /\ mid \in Int /\ hi \in Addr /\ mid \in Addr /\ t \in Size
          /\ mid = LastAt(p, mid, hi) /\ p <= mid /\ mid < hi /\ mid # x.top /\ t = hi - mid
      BY <1>1, <1>3, <1>4, <1>6
    <3>2. Cleared(m, x, p, hi) /\ VictimApart(m, x, p, hi) /\ Filed(m)
      BY <1>0, <1>5
    <3> QED
      BY <3>1, <3>2, RefiledReplaced
  <2> HIDE DEF m2
  <2>2. Handed(m, nb, m2, p)
    BY <2>1, <1>7 DEF Refiles
  <2> QED
    BY <2>2 DEF m2
<1> QED
  BY <1>8, <1>9 DEF x, mid, t

(* Top, whose region ends at its foot.                                     *)
TopFree(m, p, hi) ==
    /\ p = m.top /\ hi = FootOf(m) /\ hi = After(m, p)
    /\ p \in Addr /\ p \in Int /\ hi \in Addr /\ hi \in Int /\ p < hi /\ hi = p + m.topsize
    /\ p \in Cells(m) /\ p \notin RecordsOf(m)
    /\ m.topsize \in Nat /\ m.topsize > 0 /\ m.head[p].size = m.topsize
    /\ m.head[p].cinuse = FALSE /\ m.head[p].pinuse = TRUE /\ m.head[hi].pinuse = FALSE
    /\ Region(m, p, hi)
    /\ \A a \in Cells(m) : p <= a /\ a < hi => a = p

LEMMA TopCell ==
    ASSUME NEW m \in State, Layout(m), NEW p, p = m.top, NEW hi, hi = FootOf(m)
    PROVE  TopFree(m, p, hi)
<1>1. p \in Cells(m) /\ ~m.head[p].cinuse /\ m.topsize = m.head[p].size /\ hi \in Addr
  BY DEF Layout
<1>2. p \in Addr /\ p \in Int /\ m.head[p].size \in Nat /\ m.head[p].size > 0
      /\ m.head[p].cinuse = FALSE /\ m.head[p].pinuse \in BOOLEAN
  BY <1>1, CellFacts
<1>3. hi = p + m.topsize /\ hi = After(m, p)
  BY <1>1 DEF FootOf, After
<1>4. p \notin RecordsOf(m)
  BY <1>1 DEF Layout
<1>5. Tagged(m, p)
  BY <1>1 DEF Layout
<1>6. m.head[p].pinuse = TRUE /\ m.head[hi].pinuse = FALSE
  BY <1>2, <1>3, <1>5 DEF Tagged
<1>7. Region(m, p, hi)
  BY <1>1, <1>3, <1>4, RegionOne
<1>8. hi \in Int /\ p < hi
  BY <1>1, <1>2, <1>3
<1>9. ASSUME NEW a \in Cells(m), p <= a, a < hi PROVE a = p
  <2> SUFFICES ASSUME p < a PROVE FALSE
    BY <1>2, <1>9, CellInt
  <2>1. After(m, p) <= a
    BY <1>1, CellFacts DEF Layout
  <2> QED
    BY <2>1, <1>3, <1>8, <1>9, CellInt
<1> QED
  BY <1>1, <1>2, <1>3, <1>4, <1>6, <1>7, <1>8, <1>9 DEF TopFree

(* The bins of x are those of m, but for the chunks of S.                  *)
Out(m, x, S) ==
    /\ NoRepeats(x)
    /\ \A s \in Size, a \in Addr : a \in Range(x.bin[s]) <=> a \notin S /\ a \in Range(m.bin[s])

LEMMA UnlinkOut ==
    ASSUME NEW m \in State, NEW x \in State, NEW S, Out(m, x, S), NEW s \in Size, NEW p,
           \A t \in Size : p \in Range(m.bin[t]) => t = s
    PROVE  /\ Out(m, unlink_chunk(x, p, s), S \cup {p})
           /\ unlink_chunk(x, p, s) \in State /\ SameButBin(x, unlink_chunk(x, p, s))
<1> DEFINE y == unlink_chunk(x, p, s)
<1>1. NoRepeats(x)
  BY DEF Out
<1>2. Unlinks(x, y, p, s)
  BY <1>1, UnlinkFacts
<1> HIDE DEF y
<1>3. /\ y \in State /\ SameButBin(x, y) /\ NoRepeats(y)
      /\ \A t \in Size : Range(y.bin[t]) = IF t = s THEN Range(x.bin[t]) \ {p} ELSE Range(x.bin[t])
  BY <1>2 DEF Unlinks
<1>4. ASSUME NEW t \in Size, NEW a \in Addr
      PROVE  a \in Range(y.bin[t]) <=> a \notin S \cup {p} /\ a \in Range(m.bin[t])
  <2>1. a \in Range(x.bin[t]) <=> a \notin S /\ a \in Range(m.bin[t])
    BY DEF Out
  <2>2. a \in Range(y.bin[t]) <=> a \in Range(x.bin[t]) /\ (t = s => a # p)
    BY <1>3
  <2> QED
    BY <2>1, <2>2
<1>5. Out(m, y, S \cup {p})
  BY <1>3, <1>4 DEF Out
<1> QED
  BY <1>3, <1>5 DEF y

LEMMA OutCleared ==
    ASSUME NEW m \in State, Filed(m), NEW x, NEW S, Out(m, x, S), NEW lo \in Int, NEW hi \in Int,
           \A a \in S : a \in Int /\ lo <= a /\ a < hi,
           \A a \in Binnable(m) : lo <= a /\ a < hi => a \in S
    PROVE  Cleared(m, x, lo, hi)
<1>1. ASSUME NEW s \in Size, NEW a \in Addr
      PROVE  a \in Range(x.bin[s]) <=> (a < lo \/ hi <= a) /\ a \in Range(m.bin[s])
  <2>1. a \in Range(x.bin[s]) <=> a \notin S /\ a \in Range(m.bin[s])
    BY DEF Out
  <2>2. a \in Range(m.bin[s]) => a \in Binnable(m)
    BY DEF Filed
  <2>3. a \in Int
    BY DEF Addr
  <2>4. a < lo \/ hi <= a \/ (lo <= a /\ a < hi)
    BY <2>3
  <2>5. (a < lo \/ hi <= a) => ~(lo <= a /\ a < hi)
    BY <2>3
  <2> QED
    BY <2>1, <2>2, <2>4, <2>5
<1> QED
  BY <1>1 DEF Cleared, Out

LEMMA OutNone ==
    ASSUME NEW m \in State, Filed(m)
    PROVE  Out(m, m, {})
BY DEF Out, Filed

LEMMA VictimFar ==
    ASSUME NEW m \in State, Filed(m), NEW lo \in Addr, NEW hi \in Int,
           m.dv \in Cells(m) => m.dv < lo \/ hi <= m.dv
    PROVE  m.dv < lo \/ hi <= m.dv
<1>1. m.dv = Null \/ m.dv \in Cells(m)
  BY DEF Filed, Victim
<1>2. Null < lo
  BY DEF Null, Addr
<1> QED
  BY <1>1, <1>2

(* The state that UseTop leaves.                                           *)
TopUsed(m, nb) ==
    [set_size_and_pinuse_of_inuse_chunk(SetHead(m, m.top + nb, m.topsize - nb, FALSE, TRUE), m.top, nb)
        EXCEPT !.top = m.top + nb, !.topsize = m.topsize - nb]

(* x is m with its top at p, of size s.                                    *)
HasTop(m, x, p, s) ==
    /\ x \in State /\ x.head = m.head /\ x.bin = m.bin /\ x.dv = m.dv /\ x.dvsize = m.dvsize
    /\ x.top = p /\ x.topsize = s /\ x.seg = m.seg
    /\ x.footprint = m.footprint /\ x.release_checks = m.release_checks

LEMMA NewTop ==
    ASSUME NEW m \in State, NEW p \in Addr, NEW s \in Size
    PROVE  HasTop(m, [m EXCEPT !.top = p, !.topsize = s], p, s)
BY DEF State, HasTop

LEMMA UseTopHanded ==
    ASSUME NEW m \in State, Sound(m), NEW nb \in Nat, nb >= MinChunk, nb < m.topsize
    PROVE  Handed(m, nb, TopUsed(m, nb), m.top)
<1> DEFINE p == m.top
           hi == FootOf(m)
           mid == p + nb
           t == m.topsize - nb
           y == SetHead(m, mid, t, FALSE, TRUE)
           z == set_size_and_pinuse_of_inuse_chunk(y, p, nb)
           m2 == [z EXCEPT !.top = mid, !.topsize = t]
<1>0. Layout(m) /\ Filed(m)
  BY DEF Sound
<1>20. TopFree(m, p, hi)
  BY <1>0, TopCell
<1>1. /\ p \in Addr /\ p \in Int /\ hi \in Addr /\ hi \in Int /\ p < hi /\ hi = p + m.topsize
      /\ p \in Cells(m) /\ m.topsize \in Nat
      /\ m.head[p].cinuse = FALSE /\ m.head[p].pinuse = TRUE /\ m.head[hi].pinuse = FALSE
      /\ Region(m, p, hi) /\ \A a \in Cells(m) : p <= a /\ a < hi => a = p
  BY <1>20 DEF TopFree
<1>2. /\ mid \in Addr /\ mid \in Int /\ t \in Size /\ t \in Nat /\ t > 0 /\ nb \in Size /\ nb > 0
      /\ hi = mid + t /\ hi - mid = t /\ mid - p = nb /\ p < mid /\ mid < hi
  <2>1. p >= 1 /\ hi <= Space
    BY <1>1 DEF Addr
  <2> QED
    BY <2>1, <1>1, Sizes0 DEF Addr, Size, MinChunk
<1>3. TRUE \in BOOLEAN /\ FALSE \in BOOLEAN
  OBVIOUS
<1>13. TopUsed(m, nb) = m2
  BY DEF TopUsed
<1>14. hi = FootOf(m) /\ p = m.top
  OBVIOUS
<1> HIDE DEF t, mid, hi, m2, p
<1>4. Written(m, y, mid, t, FALSE, TRUE) /\ y.head[hi] = m.head[hi] /\ y \in State
  <2>1. mid + t \in Addr /\ mid + t = hi
    BY <1>1, <1>2
  <2>2. Written(m, y, mid, t, FALSE, TRUE) /\ y.head[mid + t] = m.head[mid + t]
    BY <1>2, <1>3, <2>1, SetHeadWritten
  <2> QED
    BY <2>1, <2>2 DEF Written
<1>5. Written(y, z, p, nb, TRUE, TRUE) /\ z.head[mid] = y.head[mid] /\ z \in State
  <2> HIDE DEF y
  <2>1. p + nb \in Addr /\ p + nb = mid
    BY <1>2 DEF mid
  <2>2. z = SetHead(y, p, nb, TRUE, TRUE)
    BY DEF set_size_and_pinuse_of_inuse_chunk
  <2> HIDE DEF z
  <2>5. y \in State /\ p \in Addr /\ nb \in Size /\ nb > 0
    BY <1>1, <1>2, <1>4
  <2>3. Written(y, SetHead(y, p, nb, TRUE, TRUE), p, nb, TRUE, TRUE)
        /\ SetHead(y, p, nb, TRUE, TRUE).head[p + nb] = y.head[p + nb]
    BY ONLY <1>3, <2>1, <2>5, SetHeadWritten
  <2>4. Written(y, z, p, nb, TRUE, TRUE) /\ z.head[p + nb] = y.head[p + nb]
    BY ONLY <2>2, <2>3
  <2> QED
    BY ONLY <2>1, <2>4 DEF Written
<1> HIDE DEF y, z
<1>6. z.head[mid].pinuse = TRUE /\ z.head[hi].pinuse = FALSE
  BY <1>1, <1>2, <1>4, <1>5 DEF Written
<1>7. Retiled(m.head, z.head, p, mid, hi, TRUE, FALSE)
  <2>1. mid = p + nb /\ nb \in Nat /\ nb > 0 /\ t \in Nat /\ t > 0 /\ hi = mid + t
    BY <1>2 DEF mid
  <2>2. Written(y, z, p, nb, TRUE, m.head[p].pinuse)
    BY <1>1, <1>5
  <2> QED
    BY ONLY <2>1, <2>2, m \in State, <1>1, <1>2, <1>3, <1>4, <1>6, TwoRetiledBack
<1>8. /\ m2 \in State /\ m2.head = z.head /\ m2.bin = m.bin /\ m2.dv = m.dv /\ m2.dvsize = m.dvsize
      /\ m2.top = mid /\ m2.topsize = t /\ m2.seg = m.seg
      /\ m2.footprint = m.footprint /\ m2.release_checks = m.release_checks
  <2>1. SameButHead(m, z)
    BY <1>4, <1>5 DEF Written, SameButHead
  <2>2. m2 = [z EXCEPT !.top = mid, !.topsize = t]
    BY DEF m2
  <2>3. HasTop(z, m2, mid, t)
    BY <1>2, <1>5, <2>2, NewTop
  <2> QED
    BY <2>1, <2>3 DEF SameButHead, HasTop
<1>9. LastAt(p, mid, hi) = mid
  BY <1>2 DEF LastAt
<1>10. Fits(m, m2, p, mid, hi, TRUE, FALSE)
  <2>1. p < mid /\ mid <= hi /\ mid - p >= MinChunk
    BY <1>2 DEF MinChunk
  <2> QED
    BY <2>1, <1>2, <1>1, <1>8, <1>9, <1>14 DEF Fits
<1>11. Refiled(m, m2, p, mid, hi, FALSE)
  <2>1. Cleared(m, m, p, hi)
    <3>1. \A a \in Binnable(m) : ~(p <= a /\ a < hi)
      BY <1>1, <1>14 DEF Binnable
    <3> QED
      BY <1>0, <1>1, <3>1, OutNone, OutCleared
  <2>2. m.dv < p \/ hi <= m.dv
    <3>1. m.dv # p
      BY <1>0, <1>1, <1>14 DEF Filed, Victim, Addr, Null
    <3>2. m.dv \in Cells(m) => m.dv < p \/ hi <= m.dv
      BY <1>1, <3>1, CellInt
    <3> QED
      BY <1>0, <1>1, <3>2, VictimFar
  <2>3. VictimApart(m, m2, p, hi)
    BY <1>8, <2>2 DEF VictimApart
  <2> QED
    BY <1>1, <1>2, <1>3, <1>8, <1>9, <2>1, <2>3, RefiledUnfiled
<1>12. Outcome(m, m2, p, mid, hi, TRUE, FALSE)
  <2>1. Reshaped(m, m2, p, mid, hi, TRUE, FALSE)
    BY <1>1, <1>7, <1>8, <1>10, <1>11 DEF Reshaped, Sound
  <2> QED
    BY <1>2, <1>3, <2>1, ReshapeSound
<1>15. p \notin InUse(m) /\ \A a \in InUse(m) : a < p \/ hi <= a
  <2>1. p \notin InUse(m)
    BY <1>1 DEF InUse
  <2> QED
    BY <1>1, <2>1, CellInt
<1>16. InUse(m2) = InUse(m) \cup {p}
  <2>1. InUse(m2) = {a \in InUse(m) : a < p \/ hi <= a}
                      \cup {a \in {p} : TRUE} \cup {a \in {mid} : FALSE}
    BY <1>9, <1>12 DEF Outcome
  <2> QED
    BY <2>1, <1>15
<1>17. nb <= m2.head[p].size /\ m2.head[p].size < nb + MinChunk
  BY <1>2, <1>12 DEF Outcome, MinChunk
<1>18. m2.head[p].pinuse
  BY <1>1, <1>12 DEF Outcome
<1>19. \A a \in InUse(m) : m2.head[a].size = m.head[a].size
  BY <1>12, <1>15 DEF Outcome
<1> QED
  BY <1>1, <1>8, <1>12, <1>13, <1>14, <1>15, <1>16, <1>17, <1>18, <1>19 DEF Handed, Outcome

(* What becomes of a request that the memory at hand may serve or not.     *)
Served(m, nb, r) ==
    IF r.mem = Null
    THEN /\ r.m = m
         /\ \A a \in Cells(m) : ~m.head[a].cinuse /\ m.head[a].size >= nb =>
               a = m.top /\ m.head[a].size = nb
    ELSE Handed(m, nb, r.m, r.mem)

LEMMA BinnedServed ==
    ASSUME NEW m \in State, Sound(m), NEW nb \in Nat, nb >= MinChunk, NEW s \in Binned(m, nb)
    PROVE  /\ Served(m, nb, UseBinned(m, s, nb, replace_dv))
           /\ Served(m, nb, UseBinned(m, s, nb, insert_chunk))
<1> DEFINE p == Head(m.bin[s])
           m1 == unlink_chunk(m, p, s)
<1>1. s \in Size /\ s \in Nat /\ nb <= s /\ m.bin[s] # <<>> /\ m.bin[s] \in Seq(Addr)
  BY Sizes0 DEF Binned, Size, State
<1>2. p \in Range(m.bin[s])
  BY <1>1, EmptySeq, LenProperties DEF Range
<1>3. p \in Binnable(m) /\ m.head[p].size = s
  BY <1>1, <1>2 DEF Sound, Filed
<1>4. p \in Cells(m) /\ ~m.head[p].cinuse /\ p # m.top
  BY <1>3 DEF Binnable
<1>5. p # Null
  BY <1>4, CellFacts DEF Null
<1>6. Taken(m, m1, p)
  BY <1>3, UnlinkTaken
<1>7. UseBinned(m, s, nb, replace_dv) =
         IF s - nb < MinChunk THEN [m |-> set_inuse_and_pinuse(m1, p, s), mem |-> p]
         ELSE [m |-> replace_dv(CutRest(m1, p, s, nb), p + nb, s - nb), mem |-> p]
  BY DEF UseBinned, Use, Found, CutRest
<1>8. UseBinned(m, s, nb, insert_chunk) =
         IF s - nb < MinChunk THEN [m |-> set_inuse_and_pinuse(m1, p, s), mem |-> p]
         ELSE [m |-> insert_chunk(CutRest(m1, p, s, nb), p + nb, s - nb), mem |-> p]
  BY DEF UseBinned, Use, Found, CutRest
<1> HIDE DEF p, m1
<1>9. CASE s - nb < MinChunk
  <2>1. Handed(m, nb, set_inuse_and_pinuse(m1, p, s), p)
    BY <1>1, <1>3, <1>4, <1>6, <1>9, UseWhole
  <2> QED
    BY <1>5, <1>7, <1>8, <1>9, <2>1 DEF Served
<1>10. CASE ~(s - nb < MinChunk)
  <2>1. s - nb >= MinChunk
    BY <1>1, <1>10 DEF MinChunk
  <2>2. /\ Handed(m, nb, insert_chunk(CutRest(m1, p, s, nb), p + nb, s - nb), p)
        /\ Handed(m, nb, replace_dv(CutRest(m1, p, s, nb), p + nb, s - nb), p)
    BY <1>1, <1>3, <1>4, <1>6, <2>1, UseRest
  <2> QED
    BY <1>5, <1>7, <1>8, <1>10, <2>2 DEF Served
<1> QED
  BY <1>9, <1>10

LEMMA VictimServed ==
    ASSUME NEW m \in State, Sound(m), NEW nb \in Nat, nb >= MinChunk, VictimServes(m, nb)
    PROVE  Served(m, nb, UseVictim(m, nb))
<1> DEFINE p == m.dv
           s == m.dvsize
           m1 == NoVictim(m)
<1>1. s \in Nat /\ nb <= s
  BY Sizes0 DEF State, Size, VictimServes
<1>2. p # Null
  BY <1>1 DEF Sound, Filed, Victim, MinChunk
<1>3. p \in Cells(m) /\ ~m.head[p].cinuse /\ p # m.top /\ m.head[p].size = s
  BY <1>2 DEF Sound, Filed, Victim
<1>4. Taken(m, m1, p)
  BY <1>2, VictimTaken
<1>5. UseVictim(m, nb) =
         IF s - nb < MinChunk THEN [m |-> set_inuse_and_pinuse(m1, p, s), mem |-> p]
         ELSE [m |-> replace_dv(CutRest(m1, p, s, nb), p + nb, s - nb), mem |-> p]
  BY DEF UseVictim, Use, Found, CutRest
<1> HIDE DEF p, m1, s
<1>6. CASE s - nb < MinChunk
  <2>1. Handed(m, nb, set_inuse_and_pinuse(m1, p, s), p)
    BY <1>1, <1>3, <1>4, <1>6, UseWhole
  <2> QED
    BY <1>2, <1>5, <1>6, <2>1 DEF Served
<1>7. CASE ~(s - nb < MinChunk)
  <2>1. s - nb >= MinChunk
    BY <1>1, <1>7 DEF MinChunk
  <2>2. Handed(m, nb, replace_dv(CutRest(m1, p, s, nb), p + nb, s - nb), p)
    BY <1>1, <1>3, <1>4, <2>1, UseRest
  <2> QED
    BY <1>2, <1>5, <1>7, <2>2 DEF Served
<1> QED
  BY <1>6, <1>7

LEMMA TopServed ==
    ASSUME NEW m \in State, Sound(m), NEW nb \in Nat, nb >= MinChunk, nb < m.topsize
    PROVE  Served(m, nb, UseTop(m, nb))
<1>1. UseTop(m, nb) = [m |-> TopUsed(m, nb), mem |-> m.top]
  BY DEF UseTop, TopUsed, Found
<1>2. m.top # Null
  BY DEF Sound
<1> QED
  BY <1>1, <1>2, UseTopHanded DEF Served

LEMMA BinnedSmallest ==
    ASSUME NEW m, NEW nb, Binned(m, nb) # {}
    PROVE  Min(Binned(m, nb)) \in Binned(m, nb)
<1>1. Binned(m, nb) \in SUBSET Nat
  BY Sizes0 DEF Binned, Size
<1> QED
  BY <1>1, MinFacts

(* Nothing that is free serves the request.                                *)
LEMMA NoneServes ==
    ASSUME NEW m \in State, Sound(m), NEW nb \in Nat, Binned(m, nb) = {}, ~VictimServes(m, nb),
           ~(nb < m.topsize)
    PROVE  Served(m, nb, Found(m, Null))
<1>1. ASSUME NEW a \in Cells(m), ~m.head[a].cinuse, m.head[a].size >= nb
      PROVE  a = m.top /\ m.head[a].size = nb
  <2>1. CASE a = m.top
    <3>1. m.head[a].size = m.topsize /\ m.topsize \in Nat
      BY <2>1, Sizes0 DEF Sound, Layout, State, Size
    <3> QED
      BY <1>1, <2>1, <3>1
  <2>2. CASE a = m.dv
    <3>1. m.dv # Null
      BY <2>2, CellFacts DEF Null
    <3>2. m.head[a].size = m.dvsize
      BY <2>2, <3>1 DEF Sound, Filed, Victim
    <3> QED
      BY <1>1, <3>2 DEF VictimServes
  <2>3. CASE a \in Binnable(m)
    <3>1. m.head[a].size \in Size
      BY CellFacts DEF Header
    <3>2. a \in Range(m.bin[m.head[a].size])
      BY <2>3, <3>1 DEF Sound, Filed
    <3>3. m.bin[m.head[a].size] # <<>>
      BY <3>2 DEF Range
    <3> QED
      BY <1>1, <3>1, <3>3 DEF Binned
  <2> QED
    BY <1>1, <2>1, <2>2, <2>3 DEF Binnable
<1> QED
  BY <1>1 DEF Served, Found

(* FindMemory serves the request from what is free, whenever that can be.  *)
THEOREM FindMemoryServes ==
    ASSUME NEW m \in State, Sound(m), NEW nb \in Nat, nb >= MinChunk
    PROVE  Served(m, nb, FindMemory(m, nb))
<1> DEFINE smallest == Min(Binned(m, nb))
<1>1. CASE is_small(nb) /\ m.bin[nb] # <<>>
  <2>1. nb \in Binned(m, nb)
    BY <1>1, ChunkAssumption DEF ChunkAssumption, is_small, Size, Binned
  <2>2. FindMemory(m, nb) = UseBinned(m, nb, nb, replace_dv)
    BY <1>1 DEF FindMemory
  <2> QED
    BY <2>1, <2>2, BinnedServed
<1>2. CASE is_small(nb) /\ m.bin[nb] = <<>> /\ ~VictimServes(m, nb) /\ Binned(m, nb) # {}
  <2>1. smallest \in Binned(m, nb)
    BY <1>2, BinnedSmallest
  <2>2. FindMemory(m, nb) = UseBinned(m, smallest, nb, replace_dv)
    BY <1>2 DEF FindMemory
  <2> QED
    BY <2>1, <2>2, BinnedServed
<1>3. CASE ~is_small(nb) /\ BetterBinned(m, nb)
  <2>1. smallest \in Binned(m, nb)
    BY <1>3, BinnedSmallest DEF BetterBinned
  <2>2. FindMemory(m, nb) = UseBinned(m, smallest, nb, insert_chunk)
    BY <1>3 DEF FindMemory
  <2> QED
    BY <2>1, <2>2, BinnedServed
<1>4. CASE /\ ~(is_small(nb) /\ m.bin[nb] # <<>>)
           /\ ~(is_small(nb) /\ m.bin[nb] = <<>> /\ ~VictimServes(m, nb) /\ Binned(m, nb) # {})
           /\ ~(~is_small(nb) /\ BetterBinned(m, nb))
  <2>1. FindMemory(m, nb) = IF VictimServes(m, nb) THEN UseVictim(m, nb)
                            ELSE IF nb < m.topsize THEN UseTop(m, nb) ELSE Found(m, Null)
    BY <1>4 DEF FindMemory
  <2>2. ~VictimServes(m, nb) => Binned(m, nb) = {}
    BY <1>4 DEF BetterBinned
  <2> QED
    BY <2>1, <2>2, VictimServed, TopServed, NoneServes
<1> QED
  BY <1>1, <1>2, <1>3, <1>4

-----------------------------------------------------------------------------
(* Giving a chunk back.                                                    *)

(* x is m with one free chunk from lo to hi, not filed yet.                *)
OneFree(m, x, lo, hi) ==
    /\ x \in State /\ x.seg = m.seg /\ x.footprint = m.footprint /\ x.release_checks = m.release_checks
    /\ lo \in Addr /\ lo \in Int /\ hi \in Addr /\ hi \in Int /\ lo < hi
    /\ m.head[lo].pinuse /\ Region(m, lo, hi)
    /\ Retiled(m.head, x.head, lo, hi, hi, FALSE, FALSE)
    /\ IF hi = FootOf(m) THEN x.top = lo /\ x.topsize = hi - lo
       ELSE /\ x.top = m.top /\ x.topsize = m.topsize
            /\ hi - lo >= MinChunk /\ m.head[hi].cinuse /\ x.head[hi].prev_foot = hi - lo

LEMMA OneFreeOutcome ==
    ASSUME NEW m \in State, Sound(m), NEW x, NEW lo, NEW hi, OneFree(m, x, lo, hi),
           NEW m2 \in State, m2.head = x.head, m2.top = x.top, m2.topsize = x.topsize, m2.seg = x.seg,
           m2.footprint = x.footprint, m2.release_checks = x.release_checks,
           Refiled(m, m2, lo, hi, hi, FALSE)
    PROVE  Outcome(m, m2, lo, hi, hi, FALSE, FALSE)
<1>1. hi \in Int /\ FALSE \in BOOLEAN /\ lo < hi
  BY DEF OneFree
<1>2. Fits(m, m2, lo, hi, hi, FALSE, FALSE)
  BY <1>1 DEF OneFree, Fits, LastAt
<1>3. Reshaped(m, m2, lo, hi, hi, FALSE, FALSE)
  BY <1>2 DEF OneFree, Reshaped
<1> QED
  BY <1>1, <1>3, ReshapeSound

LEMMA FreeInserted ==
    ASSUME NEW m \in State, Sound(m), NEW x, NEW lo, NEW hi, OneFree(m, x, lo, hi), hi # FootOf(m),
           Cleared(m, x, lo, hi), VictimApart(m, x, lo, hi), NEW s \in Size, s = hi - lo
    PROVE  Outcome(m, insert_chunk(x, lo, s), lo, hi, hi, FALSE, FALSE)
<1> DEFINE m2 == insert_chunk(x, lo, s)
<1>1. /\ x \in State /\ x.seg = m.seg /\ x.top = m.top /\ lo \in Addr /\ lo \in Int
      /\ hi \in Addr /\ hi \in Int /\ lo < hi /\ Region(m, lo, hi) /\ lo <= lo
  BY DEF OneFree
<1>2. lo = LastAt(lo, hi, hi)
  BY DEF LastAt
<1>3. lo # x.top
  BY <1>1 DEF Region
<1>4. Refiles(m, x, m2, lo, hi, hi)
  BY <1>1, <1>2, <1>3, RefiledInserted
<1> HIDE DEF m2
<1>5. /\ m2 \in State /\ Refiled(m, m2, lo, hi, hi, FALSE)
      /\ m2.head = x.head /\ m2.top = x.top /\ m2.topsize = x.topsize /\ m2.seg = x.seg
      /\ m2.footprint = x.footprint /\ m2.release_checks = x.release_checks
  BY <1>4 DEF Refiles
<1>6. Outcome(m, m2, lo, hi, hi, FALSE, FALSE)
  BY <1>5, OneFreeOutcome
<1> QED
  BY <1>6 DEF m2

(* x is m with another victim.                                             *)
HasVictim(m, x, p, s) ==
    /\ x \in State /\ x.head = m.head /\ x.bin = m.bin /\ x.dv = p /\ x.dvsize = s
    /\ x.top = m.top /\ x.topsize = m.topsize /\ x.seg = m.seg
    /\ x.footprint = m.footprint /\ x.release_checks = m.release_checks

LEMMA NewVictim ==
    ASSUME NEW m \in State, NEW p \in Addr, NEW s \in Size
    PROVE  HasVictim(m, [m EXCEPT !.dv = p, !.dvsize = s], p, s)
BY DEF State, HasVictim

LEMMA NewVictimSize ==
    ASSUME NEW m \in State, NEW s \in Size
    PROVE  HasVictim(m, [m EXCEPT !.dvsize = s], m.dv, s)
BY DEF State, HasVictim

LEMMA LostVictim ==
    ASSUME NEW m \in State
    PROVE  HasVictim(m, NoVictim(m), Null, 0)
<1>1. Null \in Addr \cup {Null} /\ 0 \in Size
  BY Sizes0 DEF Size
<1>2. HasVictim(m, [m EXCEPT !.dv = Null, !.dvsize = 0], Null, 0)
  BY <1>1 DEF State, HasVictim
<1> QED
  BY <1>2 DEF NoVictim

LEMMA FreeVictim ==
    ASSUME NEW m \in State, Sound(m), NEW x, NEW lo, NEW hi, OneFree(m, x, lo, hi), hi # FootOf(m),
           Cleared(m, x, lo, hi), lo <= m.dv, m.dv < hi, NEW m2, HasVictim(x, m2, lo, hi - lo)
    PROVE  Outcome(m, m2, lo, hi, hi, FALSE, FALSE)
<1>1. /\ x \in State /\ x.seg = m.seg /\ x.top = m.top /\ lo \in Addr
      /\ hi \in Addr /\ hi \in Int /\ lo < hi /\ Region(m, lo, hi)
  BY DEF OneFree
<1>2. lo = LastAt(lo, hi, hi)
  BY DEF LastAt
<1>3. /\ m2 \in State /\ m2.head = x.head /\ m2.bin = x.bin /\ m2.top = x.top /\ m2.topsize = x.topsize
      /\ m2.seg = x.seg /\ m2.footprint = x.footprint /\ m2.release_checks = x.release_checks
      /\ m2.dv = lo /\ m2.dvsize = hi - lo
  BY DEF HasVictim
<1>4. lo # m2.top
  BY <1>1, <1>3 DEF Region
<1>5. Refiled(m, m2, lo, hi, hi, FALSE)
  BY <1>1, <1>2, <1>3, <1>4, RefiledVictim
<1> QED
  BY <1>3, <1>5, OneFreeOutcome

LEMMA FreeTop ==
    ASSUME NEW m \in State, Sound(m), NEW x, NEW lo, NEW hi, OneFree(m, x, lo, hi), hi = FootOf(m),
           Cleared(m, x, lo, hi), VictimApart(m, x, lo, hi)
    PROVE  Outcome(m, x, lo, hi, hi, FALSE, FALSE)
<1>1. x \in State /\ lo \in Addr /\ hi \in Addr /\ hi \in Int /\ x.top = lo
  BY DEF OneFree
<1>2. lo = LastAt(lo, hi, hi) /\ FALSE \in BOOLEAN
  BY DEF LastAt
<1>3. Refiled(m, x, lo, hi, hi, FALSE)
  BY <1>1, <1>2, RefiledUnfiled
<1> QED
  BY <1>1, <1>3, OneFreeOutcome

LEMMA FreeBefore ==
    ASSUME NEW m \in State, Layout(m), NEW p \in Cells(m), ~m.head[p].pinuse,
           NEW q, q = p - m.head[p].prev_foot
    PROVE  q \in Cells(m) /\ ~m.head[q].cinuse /\ q # m.top /\ After(m, q) = p
<1>1. p \notin BasesOf(m)
  BY DEF Layout
<1>2. PICK b \in Cells(m) : After(m, b) = p
  BY <1>1 DEF Layout
<1>3. Tagged(m, b) /\ (b # m.top => m.head[b].size >= MinChunk)
  BY DEF Layout
<1>4. ~m.head[b].cinuse
  BY <1>2, <1>3 DEF Tagged
<1>5. b # m.top
  <2>1. b = m.top => p = FootOf(m)
    BY <1>2 DEF Layout, FootOf, After
  <2> QED
    BY <2>1 DEF Cells
<1>6. m.head[p].prev_foot = m.head[b].size
  BY <1>2, <1>3, <1>4, <1>5 DEF Tagged
<1>7. b = q
  BY <1>2, <1>6, CellFacts DEF After
<1> QED
  BY <1>2, <1>4, <1>5, <1>7

(* Chunk p, in use, up to next, and the free one at q before it, if any.   *)
Hole(m, p, q, next) ==
    /\ p \in Addr /\ p \in Int /\ q \in Addr /\ q \in Int /\ next \in Addr /\ next \in Int
    /\ p < next /\ m.head[p].size \in Size /\ next = p + m.head[p].size
    /\ p \in Cells(m) /\ m.head[p].cinuse = TRUE /\ p # m.top
    /\ q \in Cells(m) /\ m.head[q].pinuse = TRUE /\ q # m.top
    /\ next \in Cells(m) /\ next \notin BasesOf(m) /\ next # FootOf(m) /\ m.head[next].pinuse = TRUE
    /\ m.head[next].size \in Nat /\ m.head[next].size \in Size /\ m.head[next].size > 0
    /\ m.head[next].cinuse \in BOOLEAN
    /\ IF m.head[p].pinuse THEN q = p
       ELSE q < p /\ q + m.head[q].size = p /\ m.head[q].cinuse = FALSE /\ p - q = m.head[q].size
    /\ next - q >= MinChunk /\ m.head[p].size > 0
    /\ Region(m, q, next)
    /\ \A a \in Cells(m) : q <= a /\ a < next => a \in {q, p}

LEMMA HoleFacts ==
    ASSUME NEW m \in State, Layout(m), NEW p \in InUse(m), p \notin RecordsOf(m),
           NEW q, q = IF ~m.head[p].pinuse THEN p - m.head[p].prev_foot ELSE p,
           NEW next, next = p + m.head[p].size
    PROVE  Hole(m, p, q, next)
<1>1. /\ p \in Cells(m) /\ m.head[p].cinuse = TRUE /\ p \in Addr /\ p \in Int
      /\ m.head[p].size \in Nat /\ m.head[p].size > 0 /\ m.head[p].size \in Size
      /\ m.head[p].pinuse \in BOOLEAN /\ next = After(m, p)
  BY CellFacts DEF InUse, Header, After
<1>2. p # m.top
  BY <1>1 DEF Layout
<1>3. Followed(m, p) /\ Tagged(m, p) /\ m.head[p].size >= MinChunk /\ next \in Addr
  BY <1>1, <1>2 DEF Layout
<1>4. next \in Cells(m) /\ next \notin BasesOf(m) /\ m.head[next].pinuse = TRUE
  BY <1>1, <1>2, <1>3 DEF Followed, Tagged
<1>5. next # FootOf(m) /\ next \in Int /\ p < next
      /\ m.head[next].size \in Nat /\ m.head[next].size \in Size /\ m.head[next].size > 0
      /\ m.head[next].cinuse \in BOOLEAN
  <2>1. next \in Int /\ m.head[next] \in Header /\ m.head[next].size \in Nat /\ m.head[next].size > 0
    BY <1>4, CellFacts
  <2> QED
    BY <2>1, <1>1, <1>4 DEF Cells, Header
<1>6. ASSUME NEW a \in Cells(m), p <= a, a < next PROVE a = p
  <2> SUFFICES ASSUME p < a PROVE FALSE
    BY <1>1, <1>6, CellInt
  <2>1. next <= a
    BY <1>1, CellFacts DEF Layout
  <2> QED
    BY <2>1, <1>5, <1>6, CellInt
<1>7. CASE m.head[p].pinuse = TRUE
  <2>1. q = p
    BY <1>7
  <2>2. Region(m, p, next)
    BY <1>1, RegionOne
  <2>3. next - q >= MinChunk
    BY <1>1, <1>3, <2>1 DEF MinChunk
  <2> QED
    BY <1>1, <1>2, <1>3, <1>4, <1>5, <1>6, <1>7, <2>1, <2>2, <2>3 DEF Hole
<1>8. CASE m.head[p].pinuse = FALSE
  <2>1. q \in Cells(m) /\ ~m.head[q].cinuse /\ q # m.top /\ After(m, q) = p
    BY <1>1, <1>8, FreeBefore
  <2>2. LoneFree(m, q, p)
    BY <2>1, FreeCell
  <2>3. /\ q \in Addr /\ q \in Int /\ q < p /\ p = q + m.head[q].size /\ m.head[q].size \in Nat
        /\ m.head[q].pinuse = TRUE /\ Region(m, q, p)
        /\ \A a \in Cells(m) : q <= a /\ a < p => a = q
    BY <2>2 DEF LoneFree
  <2>4. m.head[q].cinuse = FALSE
    BY <2>1, CellFacts
  <2>5. Region(m, q, next)
    BY <1>1, <2>3, RegionMore
  <2>6. ASSUME NEW a \in Cells(m), q <= a, a < next PROVE a \in {q, p}
    <3>1. a \in Int
      BY CellInt
    <3>2. CASE a < p
      BY <2>3, <2>6, <3>2
    <3>3. CASE p <= a
      BY <1>6, <2>6, <3>3
    <3> QED
      BY <1>1, <3>1, <3>2, <3>3
  <2>7. p - q = m.head[q].size /\ next - q >= MinChunk
    <3> DEFINE sp == m.head[p].size
               sq == m.head[q].size
    <3>1. next = p + sp /\ p \in Int /\ q \in Int /\ sp \in Nat /\ sq \in Nat /\ p = q + sq /\ sp >= MinChunk
      BY <1>1, <1>3, <2>3
    <3> HIDE DEF sp, sq
    <3>2. p - q = sq /\ next - q >= MinChunk
      BY ONLY <3>1 DEF MinChunk
    <3> QED
      BY <3>2 DEF sq
  <2> QED
    BY <1>1, <1>2, <1>3, <1>4, <1>5, <1>8, <2>1, <2>3, <2>4, <2>5, <2>6, <2>7 DEF Hole
<1> QED
  BY <1>1, <1>7, <1>8

(* The free chunk at q leaves its bin, if it is in one.                    *)
PreviousOut(m, m1, p, q) ==
    /\ m1 \in State /\ SameButBin(m, m1)
    /\ Out(m, m1, IF m.head[p].pinuse \/ q = m.dv THEN {} ELSE {q})

LEMMA PreviousUnlinked ==
    ASSUME NEW m \in State, Sound(m), NEW p, NEW q, NEW next, Hole(m, p, q, next)
    PROVE  PreviousOut(m, IF ~m.head[p].pinuse THEN UnlinkPrevious(m, q, p - q) ELSE m, p, q)
<1>0. Filed(m)
  BY DEF Sound
<1>1. Out(m, m, {}) /\ SameButBin(m, m)
  BY <1>0, OutNone DEF SameButBin
<1>2. CASE m.head[p].pinuse \/ q = m.dv
  BY <1>1, <1>2 DEF PreviousOut, UnlinkPrevious
<1>3. CASE ~(m.head[p].pinuse \/ q = m.dv)
  <2> DEFINE s == p - q
  <2>1. /\ q \in Cells(m) /\ ~m.head[q].cinuse /\ q # m.top /\ q # m.dv /\ s = m.head[q].size
    BY <1>3 DEF Hole
  <2>2. s \in Size
    BY <2>1, CellFacts DEF Header
  <2> HIDE DEF s
  <2>3. \A t \in Size : q \in Range(m.bin[t]) => t = s
    BY <1>0, <2>1 DEF Filed
  <2>4. /\ Out(m, unlink_chunk(m, q, s), {} \cup {q})
        /\ unlink_chunk(m, q, s) \in State /\ SameButBin(m, unlink_chunk(m, q, s))
    BY <1>1, <2>2, <2>3, UnlinkOut
  <2>5. {} \cup {q} = {q}
    OBVIOUS
  <2>6. PreviousOut(m, unlink_chunk(m, q, s), p, q)
    BY <1>3, <2>4, <2>5 DEF PreviousOut
  <2> QED
    BY <1>3, <2>6 DEF UnlinkPrevious, s
<1> QED
  BY <1>2, <1>3

(* What myfree owes: the heap is sound without p, and all else is as it    *)
(* was.                                                                    *)
Freed(m, m2, p) ==
    /\ m2 \in State /\ Sound(m2) /\ m2.seg = m.seg /\ m2.footprint = m.footprint
    /\ m2.release_checks = m.release_checks
    /\ InUse(m2) = InUse(m) \ {p}
    /\ \A a \in InUse(m2) : m2.head[a].size = m.head[a].size

LEMMA OutcomeFreed ==
    ASSUME NEW m \in State, NEW p, NEW q, NEW next, Hole(m, p, q, next), NEW hi \in Int, next <= hi,
           \A a \in InUse(m) : next <= a => hi <= a,
           NEW m2, Outcome(m, m2, q, hi, hi, FALSE, FALSE)
    PROVE  Freed(m, m2, p)
<1>1. p \in Int /\ q \in Int /\ next \in Int /\ q <= p /\ p < next
      /\ \A a \in Cells(m) : q <= a /\ a < next => a \in {q, p}
  BY DEF Hole
<1>2. q # p => q \notin InUse(m)
  BY DEF Hole, InUse
<1>3. ASSUME NEW a \in InUse(m) PROVE a # p <=> a < q \/ hi <= a
  <2>1. a \in Cells(m) /\ a \in Int
    BY CellInt
  <2>2. CASE next <= a
    BY <1>1, <1>3, <2>1, <2>2
  <2>3. CASE a < next
    BY <1>1, <1>2, <1>3, <2>1, <2>3
  <2> QED
    BY <1>1, <2>1, <2>2, <2>3
<1>4. InUse(m2) = InUse(m) \ {p}
  <2>1. InUse(m2) = {a \in InUse(m) : a < q \/ hi <= a}
                     \cup {a \in {q} : FALSE} \cup {a \in {LastAt(q, hi, hi)} : FALSE}
    BY DEF Outcome
  <2> QED
    BY <1>3, <2>1
<1>5. \A a \in InUse(m2) : m2.head[a].size = m.head[a].size
  BY <1>3, <1>4 DEF Outcome
<1> QED
  BY <1>4, <1>5 DEF Outcome, Freed

LEMMA HoleCleared ==
    ASSUME NEW m \in State, Filed(m), NEW p, NEW q, NEW next, Hole(m, p, q, next),
           NEW hi \in Int, next <= hi, NEW T, NEW x,
           Out(m, x, (IF m.head[p].pinuse \/ q = m.dv THEN {} ELSE {q}) \cup T),
           \A a \in T : a \in Int /\ next <= a /\ a < hi,
           \A a \in Binnable(m) : next <= a /\ a < hi => a \in T
    PROVE  Cleared(m, x, q, hi)
<1> DEFINE S == IF m.head[p].pinuse \/ q = m.dv THEN {} ELSE {q}
<1>1. p \in Int /\ q \in Int /\ next \in Int /\ q <= p /\ p < next
      /\ \A a \in Cells(m) : q <= a /\ a < next => a \in {q, p}
  BY DEF Hole
<1>2. p \notin Binnable(m)
  BY DEF Hole, Binnable
<1>3. q \in Binnable(m) => q \in S
  BY <1>2 DEF Hole, Binnable
<1>4. ASSUME NEW a \in Binnable(m), q <= a, a < hi PROVE a \in S \cup T
  <2>1. a \in Cells(m) /\ a \in Int
    BY CellInt DEF Binnable
  <2>2. CASE next <= a
    BY <1>4, <2>2
  <2>3. CASE a < next
    BY <1>1, <1>2, <1>3, <1>4, <2>1, <2>3
  <2> QED
    BY <1>1, <2>1, <2>2, <2>3
<1>5. ASSUME NEW a \in S \cup T PROVE a \in Int /\ q <= a /\ a < hi
  BY <1>1, <1>5
<1> HIDE DEF S
<1>6. Out(m, x, S \cup T)
  BY DEF S
<1> QED
  BY <1>1, <1>4, <1>5, <1>6, OutCleared

LEMMA HoleVictim ==
    ASSUME NEW m \in State, Filed(m), NEW p, NEW q, NEW next, Hole(m, p, q, next), q # m.dv,
           NEW hi \in Int, next <= hi, m.dv \in Cells(m) => m.dv < next \/ hi <= m.dv
    PROVE  m.dv < q \/ hi <= m.dv
<1>1. p \in Int /\ q \in Addr /\ q \in Int /\ next \in Int /\ q <= p /\ p < next
      /\ \A a \in Cells(m) : q <= a /\ a < next => a \in {q, p}
  BY DEF Hole
<1>2. m.dv \in Cells(m) => m.dv # p
  <2>1. p # Null
    BY DEF Hole, Null, Addr
  <2> QED
    BY <2>1 DEF Filed, Victim, Hole
<1>3. m.dv \in Cells(m) => m.dv < q \/ hi <= m.dv
  BY <1>1, <1>2, CellInt
<1> QED
  BY <1>1, <1>3, VictimFar

(* One free chunk is written where the bins alone have changed.            *)
MadeFree(m, y, x, q, hi) ==
    OneFree(m, x, q, hi) /\ x.bin = y.bin /\ x.dv = m.dv /\ x.dvsize = m.dvsize

LEMMA FreeMade ==
    ASSUME NEW m \in State, NEW y \in State, SameButBin(m, y), NEW q \in Addr, NEW hi \in Addr,
           NEW s \in Size, s = hi - q, s >= MinChunk, m.head[q].pinuse = TRUE,
           Region(m, q, hi), hi # FootOf(m), m.head[hi].cinuse,
           NEW x, Written(y, x, q, s, FALSE, TRUE),
           x.head[hi].prev_foot = s, x.head[hi].pinuse = FALSE
    PROVE  MadeFree(m, y, x, q, hi)
<1>1. q \in Int /\ hi \in Int /\ s \in Nat /\ s > 0 /\ q + s = hi /\ q < hi /\ FALSE \in BOOLEAN
  BY Sizes0 DEF Addr, Size, MinChunk
<1>2. y.head = m.head
  BY DEF SameButBin
<1>3. Retiled(y.head, x.head, q, q + s, q + s, FALSE, FALSE)
  <2>1. y.head[q].pinuse = TRUE /\ q + s \in Addr /\ x.head[q + s].pinuse = FALSE
    BY <1>1, <1>2
  <2> QED
    BY <1>1, <2>1, OneRetiled
<1>4. Retiled(m.head, x.head, q, hi, hi, FALSE, FALSE)
  BY <1>1, <1>2, <1>3
<1>5. x \in State /\ SameButHead(y, x)
  BY DEF Written
<1> QED
  BY <1>1, <1>4, <1>5 DEF OneFree, MadeFree, SameButHead, SameButBin

(* The chunk behind p is in use.                                           *)
LEMMA FreedAlone ==
    ASSUME NEW m \in State, Sound(m), NEW p, NEW q, NEW next, Hole(m, p, q, next),
           m.head[next].cinuse, NEW m1, PreviousOut(m, m1, p, q),
           NEW s \in Size, s = next - q
    PROVE  IF ~m.head[p].pinuse /\ q = m.dv
           THEN Freed(m, [set_free_with_pinuse(m1, q, s, next) EXCEPT !.dvsize = s], p)
           ELSE Freed(m, insert_chunk(set_free_with_pinuse(m1, q, s, next), q, s), p)
<1> DEFINE x == set_free_with_pinuse(m1, q, s, next)
<1>0. Layout(m) /\ Filed(m)
  BY DEF Sound
<1>1. /\ q \in Addr /\ q \in Int /\ next \in Addr /\ next \in Int /\ q < next /\ next - q >= MinChunk
      /\ m.head[q].pinuse = TRUE /\ next # FootOf(m) /\ Region(m, q, next)
  BY DEF Hole
<1>2. m1 \in State /\ SameButBin(m, m1)
  BY DEF PreviousOut
<1>3. s > 0 /\ q + s = next /\ s >= MinChunk
  BY <1>1 DEF MinChunk
<1>4. TellsFree(m1, x, q, s)
  <2>1. q + s \in Addr /\ next = q + s
    BY <1>1, <1>3
  <2> QED
    BY <1>1, <1>2, <1>3, <2>1, FreeToldWritten
<1> HIDE DEF x
<1>5. Written(m1, x, q, s, FALSE, TRUE) /\ x.head[next].prev_foot = s /\ x.head[next].pinuse = FALSE
  BY <1>3, <1>4 DEF TellsFree
<1>6. OneFree(m, x, q, next) /\ x.bin = m1.bin /\ x.dv = m.dv /\ x.dvsize = m.dvsize
  <2>1. /\ m \in State /\ m1 \in State /\ SameButBin(m, m1) /\ q \in Addr /\ next \in Addr /\ s \in Size
        /\ s = next - q /\ s >= MinChunk /\ m.head[q].pinuse = TRUE /\ Region(m, q, next)
        /\ next # FootOf(m) /\ m.head[next].cinuse
    BY <1>1, <1>2, <1>3
  <2>2. MadeFree(m, m1, x, q, next)
    BY <2>1, <1>5, FreeMade
  <2> QED
    BY <2>2 DEF MadeFree
<1>7. Cleared(m, x, q, next)
  <2>1. Out(m, x, (IF m.head[p].pinuse \/ q = m.dv THEN {} ELSE {q}) \cup {})
    <3>1. Out(m, x, IF m.head[p].pinuse \/ q = m.dv THEN {} ELSE {q})
      BY <1>6 DEF PreviousOut, Out, NoRepeats
    <3>2. (IF m.head[p].pinuse \/ q = m.dv THEN {} ELSE {q}) \cup {}
             = IF m.head[p].pinuse \/ q = m.dv THEN {} ELSE {q}
      OBVIOUS
    <3> QED
      BY <3>1, <3>2
  <2>2. next <= next /\ \A a \in Binnable(m) : ~(next <= a /\ a < next)
    BY <1>1, CellInt DEF Binnable
  <2> QED
    BY <1>0, <1>1, <2>1, <2>2, HoleCleared
<1>8. next <= next /\ \A a \in InUse(m) : next <= a => next <= a
  BY <1>1
<1>9. CASE q = m.dv
  <2> DEFINE m2 == [x EXCEPT !.dvsize = s]
  <2>1. HasVictim(x, m2, q, next - q)
    <3>1. x \in State /\ x.dv = q
      BY <1>5, <1>6, <1>9 DEF Written
    <3>2. HasVictim(x, m2, x.dv, s)
      BY <3>1, NewVictimSize
    <3> QED
      BY <3>1, <3>2
  <2> HIDE DEF m2
  <2>2. q <= m.dv /\ m.dv < next
    BY <1>1, <1>9
  <2>3. Outcome(m, m2, q, next, next, FALSE, FALSE)
    BY <1>1, <1>6, <1>7, <2>1, <2>2, FreeVictim
  <2>4. Freed(m, m2, p)
    BY <1>1, <1>8, <2>3, OutcomeFreed
  <2>5. ~m.head[p].pinuse
    <3>1. q # Null
      BY <1>1 DEF Addr, Null
    <3> QED
      BY <1>0, <1>9, <3>1 DEF Hole, Filed, Victim
  <2> QED
    BY <1>9, <2>4, <2>5 DEF m2, x
<1>10. CASE q # m.dv
  <2> DEFINE m2 == insert_chunk(x, q, s)
  <2>1. m.dv < q \/ next <= m.dv
    <3>1. m.dv \in Cells(m) => m.dv < next \/ next <= m.dv
      BY <1>1, CellInt
    <3> QED
      BY <1>0, <1>1, <1>8, <1>10, <3>1, HoleVictim
  <2>2. VictimApart(m, x, q, next)
    BY <1>6, <2>1 DEF VictimApart
  <2>3. Outcome(m, m2, q, next, next, FALSE, FALSE)
    BY <1>1, <1>6, <1>7, <2>2, FreeInserted
  <2> HIDE DEF m2
  <2>4. Freed(m, m2, p)
    BY <1>1, <1>8, <2>3, OutcomeFreed
  <2> QED
    BY <1>10, <2>4 DEF m2, x
<1> QED
  BY <1>9, <1>10

(* The chunk behind p is top.                                              *)
LEMMA FreedIntoTop ==
    ASSUME NEW m \in State, Sound(m), NEW p, NEW q, NEW next, Hole(m, p, q, next),
           next = m.top, NEW m1, PreviousOut(m, m1, p, q), NEW s, s = next - q
    PROVE  Freed(m, [SetHead(IF q = m.dv THEN NoVictim(m1) ELSE m1, q, s + m.topsize, FALSE, TRUE)
                        EXCEPT !.top = q, !.topsize = s + @], p)
<1> DEFINE y == IF q = m.dv THEN NoVictim(m1) ELSE m1
           t == s + m.topsize
           hi == FootOf(m)
           z == SetHead(y, q, t, FALSE, TRUE)
           x == [z EXCEPT !.top = q, !.topsize = s + @]
<1>0. Layout(m) /\ Filed(m)
  BY DEF Sound
<1>1. /\ q \in Addr /\ q \in Int /\ next \in Addr /\ next \in Int /\ q < next
      /\ m.head[q].pinuse = TRUE /\ Region(m, q, next)
  BY DEF Hole
<1>20. TopFree(m, next, hi)
  BY <1>0, TopCell
<1>2. /\ hi \in Addr /\ hi \in Int /\ next < hi /\ hi = next + m.topsize /\ m.topsize \in Nat
      /\ m.head[hi].pinuse = FALSE /\ next \in Cells(m) /\ next \notin RecordsOf(m) /\ hi = After(m, next)
      /\ \A a \in Cells(m) : next <= a /\ a < hi => a = next
  BY <1>20 DEF TopFree
<1>21. hi = FootOf(m)
  OBVIOUS
<1>3. Region(m, q, hi)
  BY <1>0, <1>1, <1>2, RegionMore
<1> HIDE DEF hi
<1>4. t \in Size /\ t \in Nat /\ t > 0 /\ q + t = hi /\ hi - q = t /\ q < hi
  BY <1>1, <1>2, Sizes0 DEF Addr, Size
<1>5. m1 \in State /\ SameButBin(m, m1)
  BY DEF PreviousOut
<1>6. /\ y \in State /\ y.head = m.head /\ y.bin = m1.bin /\ y.top = m.top /\ y.topsize = m.topsize
      /\ y.seg = m.seg /\ y.footprint = m.footprint /\ y.release_checks = m.release_checks
      /\ IF q = m.dv THEN y.dv = Null /\ y.dvsize = 0 ELSE y.dv = m.dv /\ y.dvsize = m.dvsize
  <2>1. CASE q = m.dv
    <3>1. HasVictim(m1, y, Null, 0)
      BY <1>5, <2>1, LostVictim
    <3> HIDE DEF y
    <3> QED
      BY <1>5, <2>1, <3>1 DEF HasVictim, SameButBin
  <2>2. CASE q # m.dv
    BY <1>5, <2>2 DEF SameButBin
  <2> QED
    BY <2>1, <2>2
<1>7. FALSE \in BOOLEAN /\ TRUE \in BOOLEAN
  OBVIOUS
<1> HIDE DEF y
<1>30. z = SetHead(y, q, t, FALSE, TRUE)
  OBVIOUS
<1>31. x = [z EXCEPT !.top = q, !.topsize = s + z.topsize]
  OBVIOUS
<1> HIDE DEF t, z, x
<1>8. Written(y, z, q, t, FALSE, TRUE) /\ z.head[hi] = m.head[hi] /\ z \in State
  <2>1. q + t \in Addr
    BY <1>2, <1>4
  <2>2. Written(y, SetHead(y, q, t, FALSE, TRUE), q, t, FALSE, TRUE)
        /\ SetHead(y, q, t, FALSE, TRUE).head[q + t] = y.head[q + t]
    BY <1>1, <1>4, <1>6, <1>7, <2>1, SetHeadWritten
  <2> QED
    BY <1>4, <1>6, <1>30, <2>2 DEF Written
<1>9. Retiled(m.head, z.head, q, hi, hi, FALSE, FALSE)
  <2>1. y.head[q].pinuse = TRUE /\ q + t \in Addr /\ z.head[q + t].pinuse = FALSE
    BY <1>1, <1>2, <1>4, <1>6, <1>8
  <2>2. Retiled(y.head, z.head, q, q + t, q + t, FALSE, FALSE)
    BY <1>1, <1>4, <1>6, <1>7, <1>8, <2>1, OneRetiled
  <2> QED
    BY <1>4, <1>6, <2>2
<1>10. SameButHead(y, z)
  BY <1>8 DEF Written
<1>11. HasTop(z, x, q, t)
  <2>1. s + z.topsize = t
    BY <1>6, <1>10 DEF SameButHead, t
  <2> QED
    BY <1>1, <1>4, <1>8, <1>31, <2>1, NewTop
<1>12. /\ x \in State /\ x.head = z.head /\ x.bin = m1.bin /\ x.top = q /\ x.topsize = t
       /\ x.seg = m.seg /\ x.footprint = m.footprint /\ x.release_checks = m.release_checks
       /\ IF q = m.dv THEN x.dv = Null /\ x.dvsize = 0 ELSE x.dv = m.dv /\ x.dvsize = m.dvsize
  BY <1>6, <1>10, <1>11 DEF HasTop, SameButHead
<1>13. OneFree(m, x, q, hi)
  BY <1>1, <1>2, <1>3, <1>4, <1>9, <1>12, <1>21 DEF OneFree
<1>14. Cleared(m, x, q, hi)
  <2>1. Out(m, x, (IF m.head[p].pinuse \/ q = m.dv THEN {} ELSE {q}) \cup {})
    <3>1. Out(m, x, IF m.head[p].pinuse \/ q = m.dv THEN {} ELSE {q})
      BY <1>12 DEF PreviousOut, Out, NoRepeats
    <3>2. (IF m.head[p].pinuse \/ q = m.dv THEN {} ELSE {q}) \cup {}
             = IF m.head[p].pinuse \/ q = m.dv THEN {} ELSE {q}
      OBVIOUS
    <3> QED
      BY <3>1, <3>2
  <2>2. /\ \A a \in {} : a \in Int /\ next <= a /\ a < hi
        /\ \A a \in Binnable(m) : next <= a /\ a < hi => a \in {}
    BY <1>1, <1>2 DEF Binnable
  <2>3. hi \in Int /\ next <= hi /\ Filed(m)
    BY <1>0, <1>1, <1>2
  <2> QED
    BY <2>1, <2>2, <2>3, HoleCleared
<1>15. VictimApart(m, x, q, hi)
  <2>1. CASE q = m.dv
    BY <1>1, <1>4, <1>12, <2>1 DEF VictimApart
  <2>2. CASE q # m.dv
    <3>1. m.dv \in Cells(m) => m.dv < next \/ hi <= m.dv
      <4>1. m.dv # next
        BY <1>0, <1>1 DEF Filed, Victim, Addr, Null
      <4> QED
        BY <1>1, <1>2, <4>1, CellInt
    <3>2. next <= hi
      BY <1>1, <1>2
    <3>3. m.dv < q \/ hi <= m.dv
      BY <1>0, <1>2, <2>2, <3>1, <3>2, HoleVictim
    <3> QED
      BY <1>12, <2>2, <3>3 DEF VictimApart
  <2> QED
    BY <2>1, <2>2
<1>16. Outcome(m, x, q, hi, hi, FALSE, FALSE)
  BY <1>13, <1>14, <1>15, <1>21, FreeTop
<1>17. next <= hi /\ \A a \in InUse(m) : next <= a => hi <= a
  <2>1. next \notin InUse(m)
    BY <1>0 DEF Layout, InUse
  <2> QED
    BY <1>1, <1>2, <2>1, CellInt
<1>18. Freed(m, x, p)
  BY <1>2, <1>16, <1>17, OutcomeFreed
<1> QED
  BY <1>18 DEF x, z, y, t

(* The chunk behind p is free, up to hi, and is not top.                   *)
NextFree(m, q, next, hi) ==
    /\ hi \in Addr /\ hi \in Int /\ next < hi /\ hi = next + m.head[next].size
    /\ hi # FootOf(m) /\ m.head[hi].cinuse = TRUE /\ m.head[hi].pinuse = FALSE
    /\ Region(m, q, hi) /\ hi - q >= MinChunk /\ hi - q \in Size /\ q < hi
    /\ \A a \in Cells(m) : next <= a /\ a < hi => a = next

LEMMA FreeNext ==
    ASSUME NEW m \in State, Layout(m), NEW q \in Addr, NEW next \in Cells(m), Region(m, q, next),
           next \in Addr, next - q >= MinChunk,
           ~m.head[next].cinuse, next # m.top, NEW hi, hi = next + m.head[next].size
    PROVE  NextFree(m, q, next, hi) /\ \A a \in InUse(m) : next <= a => hi <= a
<1>1. q \in Int /\ next \in Int
  BY DEF Addr
<1>2. LoneFree(m, next, hi)
  BY FreeCell DEF After
<1>3. /\ hi \in Addr /\ hi \in Int /\ next < hi /\ hi = After(m, next) /\ next \notin RecordsOf(m)
      /\ hi # FootOf(m) /\ m.head[hi].cinuse = TRUE /\ m.head[hi].pinuse = FALSE
      /\ \A a \in Cells(m) : next <= a /\ a < hi => a = next
  BY <1>2 DEF LoneFree, After
<1>4. Region(m, q, hi)
  BY <1>1, <1>3, RegionMore
<1>5. hi - q >= MinChunk /\ hi - q \in Size /\ q < hi
  BY <1>1, <1>3, Sizes0 DEF MinChunk, Addr, Size
<1>6. next \notin InUse(m)
  BY DEF InUse
<1>7. \A a \in InUse(m) : next <= a => hi <= a
  BY <1>1, <1>3, <1>6, CellInt
<1> QED
  BY <1>3, <1>4, <1>5, <1>7 DEF NextFree

LEMMA NextIsFree ==
    ASSUME NEW m \in State, Layout(m), NEW p, NEW q, NEW next, Hole(m, p, q, next),
           ~m.head[next].cinuse, next # m.top, NEW hi, hi = next + m.head[next].size
    PROVE  NextFree(m, q, next, hi) /\ \A a \in InUse(m) : next <= a => hi <= a
<1>1. /\ q \in Addr /\ next \in Addr /\ next - q >= MinChunk /\ next \in Cells(m) /\ Region(m, q, next)
  BY DEF Hole
<1> QED
  BY <1>1, FreeNext

LEMMA FreedIntoVictim ==
    ASSUME NEW m \in State, Sound(m), NEW p, NEW q, NEW next, Hole(m, p, q, next),
           ~m.head[next].cinuse, next # m.top, next = m.dv,
           NEW m1, PreviousOut(m, m1, p, q), NEW s, s = next - q
    PROVE  Freed(m, [set_size_and_pinuse_of_free_chunk(m1, q, s + m.dvsize) EXCEPT
                        !.dv = q, !.dvsize = s + @], p)
<1> DEFINE hi == next + m.head[next].size
           t == s + m.dvsize
           x == set_size_and_pinuse_of_free_chunk(m1, q, t)
           m2 == [x EXCEPT !.dv = q, !.dvsize = s + @]
<1>0. Layout(m) /\ Filed(m)
  BY DEF Sound
<1>1. /\ q \in Addr /\ q \in Int /\ next \in Addr /\ next \in Int /\ q < next
      /\ m.head[q].pinuse = TRUE /\ next \in Cells(m)
  BY DEF Hole
<1>20. NextFree(m, q, next, hi) /\ \A a \in InUse(m) : next <= a => hi <= a
  BY <1>0, NextIsFree
<1>2. /\ hi \in Addr /\ hi \in Int /\ next < hi /\ hi = next + m.head[next].size
      /\ hi # FootOf(m) /\ m.head[hi].cinuse = TRUE /\ m.head[hi].pinuse = FALSE
      /\ Region(m, q, hi) /\ hi - q >= MinChunk /\ hi - q \in Size /\ q < hi
      /\ \A a \in Cells(m) : next <= a /\ a < hi => a = next
  BY <1>20 DEF NextFree
<1>3. m.dvsize = m.head[next].size
  <2>1. m.dv # Null
    BY <1>1 DEF Addr, Null
  <2> QED
    BY <1>0, <2>1 DEF Filed, Victim
<1> HIDE DEF hi
<1>4. m.dvsize \in Nat
  BY Sizes0 DEF State, Size
<1>5. t = hi - q /\ t \in Size /\ t > 0 /\ q + t = hi /\ t >= MinChunk
  BY <1>1, <1>2, <1>3, <1>4 DEF MinChunk
<1>6. m1 \in State /\ SameButBin(m, m1)
  BY DEF PreviousOut
<1>7. m1.head[hi].pinuse = FALSE
  BY <1>2, <1>6 DEF SameButBin
<1> HIDE DEF t
<1>8. WritesFree(m1, x, q, t)
  <2>1. q + t \in Addr
    BY <1>2, <1>5
  <2> QED
    BY <1>1, <1>5, <1>6, <2>1, FreeWritten
<1> HIDE DEF x
<1>9. Written(m1, x, q, t, FALSE, TRUE) /\ x.head[hi].prev_foot = t /\ x.head[hi].pinuse = FALSE
  BY <1>5, <1>7, <1>8 DEF WritesFree
<1>10. MadeFree(m, m1, x, q, hi)
  BY <1>1, <1>2, <1>5, <1>6, <1>9, FreeMade
<1>11. OneFree(m, x, q, hi) /\ x.bin = m1.bin /\ x.dv = m.dv /\ x.dvsize = m.dvsize /\ x \in State
  BY <1>9, <1>10 DEF MadeFree, Written
<1>12. Cleared(m, x, q, hi)
  <2>1. Out(m, x, (IF m.head[p].pinuse \/ q = m.dv THEN {} ELSE {q}) \cup {})
    <3>1. Out(m, x, IF m.head[p].pinuse \/ q = m.dv THEN {} ELSE {q})
      BY <1>11 DEF PreviousOut, Out, NoRepeats
    <3>2. (IF m.head[p].pinuse \/ q = m.dv THEN {} ELSE {q}) \cup {}
             = IF m.head[p].pinuse \/ q = m.dv THEN {} ELSE {q}
      OBVIOUS
    <3> QED
      BY <3>1, <3>2
  <2>2. /\ \A a \in {} : a \in Int /\ next <= a /\ a < hi
        /\ \A a \in Binnable(m) : next <= a /\ a < hi => a \in {}
    BY <1>1, <1>2 DEF Binnable
  <2>3. hi \in Int /\ next <= hi /\ Filed(m)
    BY <1>0, <1>1, <1>2
  <2> QED
    BY <2>1, <2>2, <2>3, HoleCleared
<1>13. HasVictim(x, m2, q, hi - q)
  <2>1. m2 = [x EXCEPT !.dv = q, !.dvsize = t]
    BY <1>11 DEF t
  <2> HIDE DEF m2
  <2> QED
    BY <1>1, <1>5, <1>11, <2>1, NewVictim
<1> HIDE DEF m2
<1>14. Outcome(m, m2, q, hi, hi, FALSE, FALSE)
  <2>1. q <= m.dv /\ m.dv < hi
    BY <1>1, <1>2
  <2> QED
    BY <1>2, <1>11, <1>12, <1>13, <2>1, FreeVictim
<1>15. Freed(m, m2, p)
  <2>1. hi \in Int /\ next <= hi
    BY <1>1, <1>2
  <2> QED
    BY <1>14, <1>20, <2>1, OutcomeFreed
<1> QED
  BY <1>15 DEF m2, x, t

LEMMA FreedWithNext ==
    ASSUME NEW m \in State, Sound(m), NEW p, NEW q, NEW next, Hole(m, p, q, next),
           ~m.head[next].cinuse, next # m.top, next # m.dv,
           NEW m1, PreviousOut(m, m1, p, q), NEW s, s = next - q,
           NEW n, n = m.head[next].size
    PROVE  LET x == set_size_and_pinuse_of_free_chunk(unlink_chunk(m1, next, n), q, s + n)
           IN  IF q = m.dv THEN Freed(m, [x EXCEPT !.dvsize = s + n], p)
                           ELSE Freed(m, insert_chunk(x, q, s + n), p)
<1> DEFINE hi == next + m.head[next].size
           t == s + n
           y == unlink_chunk(m1, next, n)
           x == set_size_and_pinuse_of_free_chunk(y, q, t)
<1>0. Layout(m) /\ Filed(m)
  BY DEF Sound
<1>1. /\ q \in Addr /\ q \in Int /\ next \in Addr /\ next \in Int /\ q < next
      /\ m.head[q].pinuse = TRUE /\ next \in Cells(m) /\ n \in Size /\ n \in Nat
  BY DEF Hole
<1>20. NextFree(m, q, next, hi) /\ \A a \in InUse(m) : next <= a => hi <= a
  BY <1>0, NextIsFree
<1>2. /\ hi \in Addr /\ hi \in Int /\ next < hi /\ hi = next + n
      /\ hi # FootOf(m) /\ m.head[hi].cinuse = TRUE /\ m.head[hi].pinuse = FALSE
      /\ Region(m, q, hi) /\ hi - q >= MinChunk /\ hi - q \in Size /\ q < hi
      /\ \A a \in Cells(m) : next <= a /\ a < hi => a = next
  BY <1>20 DEF NextFree
<1> HIDE DEF hi
<1>5. t = hi - q /\ t \in Size /\ t > 0 /\ q + t = hi /\ t >= MinChunk
  BY <1>1, <1>2 DEF MinChunk
<1>6. m1 \in State /\ SameButBin(m, m1)
  BY DEF PreviousOut
<1>7. /\ Out(m, y, (IF m.head[p].pinuse \/ q = m.dv THEN {} ELSE {q}) \cup {next})
      /\ y \in State /\ SameButBin(m, y)
  <2> DEFINE S == IF m.head[p].pinuse \/ q = m.dv THEN {} ELSE {q}
  <2>1. \A u \in Size : next \in Range(m.bin[u]) => u = n
    BY <1>0 DEF Filed
  <2>2. Out(m, m1, S)
    BY DEF PreviousOut
  <2> HIDE DEF S, y
  <2>3. /\ Out(m, unlink_chunk(m1, next, n), S \cup {next})
        /\ unlink_chunk(m1, next, n) \in State /\ SameButBin(m1, unlink_chunk(m1, next, n))
    BY <1>1, <1>6, <2>1, <2>2, UnlinkOut
  <2>4. Out(m, y, S \cup {next}) /\ y \in State /\ SameButBin(m1, y)
    BY <2>3 DEF y
  <2> QED
    BY <1>6, <2>4 DEF SameButBin, S
<1> HIDE DEF t, y
<1>8. WritesFree(y, x, q, t)
  <2>1. q + t \in Addr
    BY <1>2, <1>5
  <2> QED
    BY <1>1, <1>5, <1>7, <2>1, FreeWritten
<1> HIDE DEF x
<1>9. Written(y, x, q, t, FALSE, TRUE) /\ x.head[hi].prev_foot = t /\ x.head[hi].pinuse = FALSE
  BY <1>2, <1>5, <1>7, <1>8 DEF WritesFree, SameButBin
<1>10. MadeFree(m, y, x, q, hi)
  BY <1>1, <1>2, <1>5, <1>7, <1>9, FreeMade
<1>11. OneFree(m, x, q, hi) /\ x.bin = y.bin /\ x.dv = m.dv /\ x.dvsize = m.dvsize /\ x \in State
  BY <1>9, <1>10 DEF MadeFree, Written
<1>12. Cleared(m, x, q, hi)
  <2>1. Out(m, x, (IF m.head[p].pinuse \/ q = m.dv THEN {} ELSE {q}) \cup {next})
    BY <1>7, <1>11 DEF Out, NoRepeats
  <2>2. /\ \A a \in {next} : a \in Int /\ next <= a /\ a < hi
        /\ \A a \in Binnable(m) : next <= a /\ a < hi => a \in {next}
    BY <1>1, <1>2 DEF Binnable
  <2>3. hi \in Int /\ next <= hi /\ Filed(m)
    BY <1>0, <1>1, <1>2
  <2> QED
    BY <2>1, <2>2, <2>3, HoleCleared
<1>13. hi \in Int /\ next <= hi
  BY <1>1, <1>2
<1>14. CASE q = m.dv
  <2> DEFINE m2 == [x EXCEPT !.dvsize = t]
  <2>1. HasVictim(x, m2, q, hi - q)
    <3>1. HasVictim(x, m2, x.dv, t)
      BY <1>5, <1>11, NewVictimSize
    <3> QED
      BY <1>5, <1>11, <1>14, <3>1
  <2> HIDE DEF m2
  <2>2. q <= m.dv /\ m.dv < hi
    BY <1>1, <1>2, <1>14
  <2>3. Outcome(m, m2, q, hi, hi, FALSE, FALSE)
    BY <1>2, <1>11, <1>12, <2>1, <2>2, FreeVictim
  <2>4. Freed(m, m2, p)
    BY <1>13, <1>20, <2>3, OutcomeFreed
  <2> QED
    BY <1>14, <2>4 DEF m2, x, y, t
<1>15. CASE q # m.dv
  <2> DEFINE m2 == insert_chunk(x, q, t)
  <2>1. m.dv < q \/ hi <= m.dv
    <3>1. m.dv \in Cells(m) => m.dv < next \/ hi <= m.dv
      BY <1>1, <1>2, CellInt
    <3> QED
      BY <1>0, <1>13, <1>15, <3>1, HoleVictim
  <2>2. VictimApart(m, x, q, hi)
    BY <1>11, <2>1 DEF VictimApart
  <2>3. Outcome(m, m2, q, hi, hi, FALSE, FALSE)
    BY <1>2, <1>5, <1>11, <1>12, <2>2, FreeInserted
  <2> HIDE DEF m2
  <2>4. Freed(m, m2, p)
    BY <1>13, <1>20, <2>3, OutcomeFreed
  <2> QED
    BY <1>15, <2>4 DEF m2, x, y, t
<1> QED
  BY <1>14, <1>15

(* Whatever lies around it, a chunk of the program is given back whole.    *)
THEOREM DisposeFrees ==
    ASSUME NEW m \in State, Sound(m), NEW p \in InUse(m), p \notin RecordsOf(m),
           NEW s, s = m.head[p].size
    PROVE  Freed(m, dispose_chunk(m, p, s), p)
<1> DEFINE back  == ~m.head[p].pinuse
           q     == IF back THEN p - m.head[p].prev_foot ELSE p
           next  == p + s
           qsize == p + s - q
           nsize == m.head[next].size
           m1    == IF back THEN UnlinkPrevious(m, q, p - q) ELSE m
           whole == set_size_and_pinuse_of_free_chunk(unlink_chunk(m1, next, nsize), q, qsize + nsize)
           c     == Consolidate(m, p, s)
<1>1. Layout(m) /\ Filed(m)
  BY DEF Sound
<1>2. next = p + m.head[p].size
  OBVIOUS
<1>3. Hole(m, p, q, next)
  BY <1>1, <1>2, HoleFacts
<1>4. PreviousOut(m, m1, p, q)
  BY <1>3, PreviousUnlinked
<1>5. /\ p \in Int /\ q \in Int /\ next \in Int /\ q < next /\ s \in Nat /\ nsize \in Nat /\ nsize > 0
      /\ m.head[next].cinuse \in BOOLEAN
  BY <1>3, Sizes0 DEF Hole, Size
<1>6. qsize = next - q /\ qsize \in Nat /\ qsize > 0
  BY <1>5
<1>7. c = IF m.head[next].cinuse
          THEN IF back /\ q = m.dv
               THEN [m |-> [set_free_with_pinuse(m1, q, qsize, next) EXCEPT !.dvsize = qsize],
                     mem |-> Null, size |-> 0]
               ELSE [m |-> set_free_with_pinuse(m1, q, qsize, next), mem |-> q, size |-> qsize]
          ELSE IF next = m.top
          THEN [m |-> [SetHead(IF q = m.dv THEN NoVictim(m1) ELSE m1, q, qsize + m.topsize, FALSE, TRUE)
                          EXCEPT !.top = q, !.topsize = qsize + @],
                mem |-> Null, size |-> 0]
          ELSE IF next = m.dv
          THEN [m |-> [set_size_and_pinuse_of_free_chunk(m1, q, qsize + m.dvsize) EXCEPT
                          !.dv = q, !.dvsize = qsize + @],
                mem |-> Null, size |-> 0]
          ELSE IF q = m.dv
          THEN [m |-> [whole EXCEPT !.dvsize = qsize + nsize], mem |-> Null, size |-> 0]
          ELSE [m |-> whole, mem |-> q, size |-> qsize + nsize]
  BY DEF Consolidate, Joined
<1>8. dispose_chunk(m, p, s) = IF c.size = 0 THEN c.m ELSE insert_chunk(c.m, c.mem, c.size)
  BY DEF dispose_chunk
<1> HIDE DEF q, next, qsize, nsize, m1, whole, c
<1>9. CASE m.head[next].cinuse
  <2>1. qsize \in Size
    BY <1>3, <1>6, Sizes0 DEF Hole, Addr, Size
  <2>2. IF back /\ q = m.dv
        THEN Freed(m, [set_free_with_pinuse(m1, q, qsize, next) EXCEPT !.dvsize = qsize], p)
        ELSE Freed(m, insert_chunk(set_free_with_pinuse(m1, q, qsize, next), q, qsize), p)
    BY <1>3, <1>4, <1>6, <1>9, <2>1, FreedAlone
  <2> QED
    BY <1>6, <1>7, <1>8, <1>9, <2>2
<1>10. CASE ~m.head[next].cinuse /\ next = m.top
  <2>1. Freed(m, [SetHead(IF q = m.dv THEN NoVictim(m1) ELSE m1, q, qsize + m.topsize, FALSE, TRUE)
                     EXCEPT !.top = q, !.topsize = qsize + @], p)
    BY <1>3, <1>4, <1>6, <1>10, FreedIntoTop
  <2> QED
    BY <1>7, <1>8, <1>10, <2>1
<1>11. CASE ~m.head[next].cinuse /\ next # m.top /\ next = m.dv
  <2>1. Freed(m, [set_size_and_pinuse_of_free_chunk(m1, q, qsize + m.dvsize) EXCEPT
                     !.dv = q, !.dvsize = qsize + @], p)
    BY <1>3, <1>4, <1>6, <1>11, FreedIntoVictim
  <2> QED
    BY <1>7, <1>8, <1>11, <2>1
<1>12. CASE ~m.head[next].cinuse /\ next # m.top /\ next # m.dv
  <2>1. IF q = m.dv THEN Freed(m, [whole EXCEPT !.dvsize = qsize + nsize], p)
                    ELSE Freed(m, insert_chunk(whole, q, qsize + nsize), p)
    BY <1>3, <1>4, <1>6, <1>12, FreedWithNext DEF whole, nsize
  <2>2. qsize + nsize # 0
    BY <1>5, <1>6
  <2> QED
    BY <1>7, <1>8, <1>12, <2>1, <2>2
<1> QED
  BY <1>9, <1>10, <1>11, <1>12

-----------------------------------------------------------------------------
(* Chunks that stay in use.                                                *)

(* In x, nothing from lo to hi is filed; else x is m, but for headers.     *)
Vacant(m, x, lo, hi) ==
    /\ x \in State /\ x.top = m.top /\ x.topsize = m.topsize
    /\ x.seg = m.seg /\ x.footprint = m.footprint /\ x.release_checks = m.release_checks
    /\ Cleared(m, x, lo, hi) /\ VictimApart(m, x, lo, hi)
    /\ Region(m, lo, hi) /\ hi # FootOf(m)
    /\ lo \in Addr /\ lo \in Int /\ hi \in Addr /\ hi \in Int /\ lo < hi

LEMMA VacantHeads ==
    ASSUME NEW m, NEW y, NEW lo, NEW hi, Vacant(m, y, lo, hi), NEW x \in State, SameButHead(y, x)
    PROVE  Vacant(m, x, lo, hi)
BY DEF Vacant, SameButHead, Cleared, NoRepeats, VictimApart

LEMMA VacantOutcome ==
    ASSUME NEW m \in State, Sound(m), NEW m2, NEW p, NEW hi, Vacant(m, m2, p, hi), NEW mid \in Int,
           p < mid, mid <= hi, mid - p >= MinChunk, mid # hi => hi - mid >= MinChunk,
           Retiled(m.head, m2.head, p, mid, hi, TRUE, TRUE)
    PROVE  Outcome(m, m2, p, mid, hi, TRUE, TRUE)
<1>1. /\ m2 \in State /\ m2.top = m.top /\ m2.topsize = m.topsize
      /\ m2.seg = m.seg /\ m2.footprint = m.footprint /\ m2.release_checks = m.release_checks
      /\ Cleared(m, m2, p, hi) /\ VictimApart(m, m2, p, hi)
      /\ Region(m, p, hi) /\ hi # FootOf(m)
      /\ p \in Addr /\ p \in Int /\ hi \in Addr /\ hi \in Int /\ p < hi
  BY DEF Vacant
<1>2. TRUE \in BOOLEAN
  OBVIOUS
<1>3. hi - LastAt(p, mid, hi) >= MinChunk
  BY <1>1 DEF LastAt
<1>4. Fits(m, m2, p, mid, hi, TRUE, TRUE)
  BY <1>1, <1>3 DEF Fits
<1>5. Refiled(m, m2, p, mid, hi, TRUE)
  BY <1>1, <1>2, RefiledUnfiled
<1>6. Reshaped(m, m2, p, mid, hi, TRUE, TRUE)
  BY <1>1, <1>4, <1>5 DEF Reshaped
<1> QED
  BY <1>1, <1>2, <1>6, ReshapeSound

LEMMA WholeHeld ==
    ASSUME NEW m \in State, Sound(m), NEW y \in State, y.head = m.head,
           NEW m2, NEW p, NEW hi, Vacant(m, m2, p, hi), NEW s \in Size, s = hi - p, s >= MinChunk,
           m2.head = set_inuse(y, p, s).head
    PROVE  Outcome(m, m2, p, hi, hi, TRUE, TRUE)
<1> DEFINE x == set_inuse(y, p, s)
<1>1. p \in Addr /\ p \in Int /\ hi \in Addr /\ hi \in Int /\ p < hi /\ s > 0 /\ p + s = hi /\ s \in Nat
  BY Sizes0 DEF Vacant, MinChunk, Size
<1>2. WritesInuse(y, x, p, s, y.head[p].pinuse)
  <2>1. p + s \in Addr
    BY <1>1
  <2> QED
    BY <1>1, <2>1, InuseWritten
<1>9. m2.head = x.head
  OBVIOUS
<1> HIDE DEF x
<1>3. Written(y, x, p, s, TRUE, y.head[p].pinuse) /\ x.head[p + s].pinuse = TRUE
  BY <1>2 DEF WritesInuse
<1>4. Retiled(y.head, x.head, p, p + s, p + s, TRUE, TRUE)
  <2>1. p + s \in Addr /\ TRUE \in BOOLEAN
    BY <1>1
  <2> QED
    BY <1>1, <1>3, <2>1, OneRetiled
<1>5. Retiled(m.head, m2.head, p, hi, hi, TRUE, TRUE)
  BY <1>1, <1>4, <1>9
<1>6. hi \in Int /\ p < hi /\ hi <= hi /\ hi - p >= MinChunk /\ (hi # hi => hi - hi >= MinChunk)
  BY <1>1
<1> QED
  BY ONLY m \in State, Sound(m), Vacant(m, m2, p, hi), <1>5, <1>6, VacantOutcome

LEMMA CutHeld ==
    ASSUME NEW m \in State, Sound(m), NEW y \in State, y.head = m.head, NEW p, NEW hi,
           Vacant(m, y, p, hi), NEW s, s = hi - p, NEW nb \in Nat, nb >= MinChunk, s - nb >= MinChunk
    PROVE  Outcome(m, set_inuse(set_inuse(y, p, nb), p + nb, s - nb), p, p + nb, hi, TRUE, TRUE)
<1> DEFINE mid == p + nb
           t == s - nb
           x == set_inuse(y, p, nb)
           m2 == set_inuse(x, mid, t)
<1>1. p \in Addr /\ p \in Int /\ hi \in Addr /\ hi \in Int /\ p < hi
  BY DEF Vacant
<1>2. /\ mid \in Addr /\ mid \in Int /\ nb \in Size /\ nb > 0 /\ t \in Size /\ t \in Nat /\ t > 0
      /\ mid + t = hi /\ hi - mid = t /\ mid - p = nb /\ p < mid /\ mid < hi
      /\ t >= MinChunk /\ mid = p + nb
  BY <1>1, Sizes0 DEF Addr, Size, MinChunk
<1> HIDE DEF mid, t
<1>3. WritesInuse(y, x, p, nb, y.head[p].pinuse)
  <2>1. p + nb \in Addr
    BY <1>2
  <2> QED
    BY <1>1, <1>2, <2>1, InuseWritten
<1> HIDE DEF x
<1>4. Written(y, x, p, nb, TRUE, m.head[p].pinuse) /\ x.head[mid].pinuse = TRUE
      /\ x \in State /\ SameButHead(y, x)
  BY <1>2, <1>3 DEF WritesInuse, Written
<1>5. WritesInuse(x, m2, mid, t, x.head[mid].pinuse)
  <2>1. mid + t \in Addr
    BY <1>1, <1>2
  <2> QED
    BY <1>2, <1>4, <2>1, InuseWritten
<1> HIDE DEF m2
<1>6. Written(x, m2, mid, t, TRUE, TRUE) /\ m2.head[hi].pinuse = TRUE
      /\ m2 \in State /\ SameButHead(x, m2)
  BY <1>2, <1>4, <1>5 DEF WritesInuse, Written
<1>7. Retiled(y.head, m2.head, p, mid, hi, TRUE, TRUE)
  <2>1. Written(y, x, p, nb, TRUE, y.head[p].pinuse) /\ hi = mid + t
    BY <1>2, <1>4
  <2>2. TRUE \in BOOLEAN
    OBVIOUS
  <2> QED
    BY <1>1, <1>2, <1>6, <2>1, <2>2, TwoRetiled
<1>8. Vacant(m, m2, p, hi)
  <2>1. Vacant(m, x, p, hi)
    BY <1>4, VacantHeads
  <2> QED
    BY <1>6, <2>1, VacantHeads
<1>9. Retiled(m.head, m2.head, p, mid, hi, TRUE, TRUE)
  BY <1>7
<1>10. Outcome(m, m2, p, mid, hi, TRUE, TRUE)
  <2>1. mid \in Int /\ p < mid /\ mid <= hi /\ mid - p >= MinChunk /\ (mid # hi => hi - mid >= MinChunk)
    BY <1>1, <1>2
  <2> QED
    BY ONLY m \in State, Sound(m), <1>8, <1>9, <2>1, VacantOutcome
<1> QED
  BY <1>10 DEF m2, x, mid, t

(* What a call owes that keeps chunk p and makes it nb large, or one more. *)
Resized(m, nb, m2, p) ==
    /\ m2 \in State /\ Sound(m2) /\ m2.seg = m.seg /\ m2.footprint = m.footprint
    /\ m2.release_checks = m.release_checks
    /\ InUse(m2) = InUse(m)
    /\ \A a \in InUse(m) : a # p => m2.head[a].size = m.head[a].size
    /\ nb <= m2.head[p].size /\ m2.head[p].size < nb + MinChunk

(* Chunk p takes all that is vacant up to hi.                              *)
LEMMA WholeResized ==
    ASSUME NEW m \in State, Sound(m), NEW p \in InUse(m), NEW hi,
           \A a \in InUse(m) : p <= a /\ a < hi => a = p,
           NEW m2, Outcome(m, m2, p, hi, hi, TRUE, TRUE), p \in Int, hi \in Int, p < hi,
           NEW nb \in Nat, nb <= hi - p, (hi - p) - nb < MinChunk
    PROVE  Resized(m, nb, m2, p)
<1>1. LastAt(p, hi, hi) = p
  BY DEF LastAt
<1>2. \A a \in InUse(m) : a = p \/ a < p \/ hi <= a
  BY CellInt
<1>3. InUse(m2) = InUse(m)
  <2>1. InUse(m2) = {a \in InUse(m) : a < p \/ hi <= a} \cup {a \in {p} : TRUE} \cup {a \in {p} : TRUE}
    BY <1>1 DEF Outcome
  <2> QED
    BY <1>2, <2>1
<1>4. m2.head[p].size = hi - p
  BY DEF Outcome
<1>5. nb <= m2.head[p].size /\ m2.head[p].size < nb + MinChunk
  BY <1>4 DEF MinChunk
<1>6. \A a \in InUse(m) : a # p => m2.head[a].size = m.head[a].size
  BY <1>2 DEF Outcome
<1> QED
  BY <1>3, <1>5, <1>6 DEF Outcome, Resized

(* Chunk p keeps nb; what is left is disposed of.                          *)
LEMMA CutResized ==
    ASSUME NEW m \in State, Sound(m), NEW p \in InUse(m), p \notin RecordsOf(m), NEW hi, NEW y \in State,
           y.head = m.head, Vacant(m, y, p, hi),
           \A a \in InUse(m) : p <= a /\ a < hi => a = p,
           NEW s, s = hi - p, NEW nb \in Nat, nb >= MinChunk, s - nb >= MinChunk
    PROVE  Resized(m, nb, dispose_chunk(set_inuse(set_inuse(y, p, nb), p + nb, s - nb), p + nb, s - nb), p)
<1> DEFINE mid == p + nb
           t == s - nb
           x == set_inuse(set_inuse(y, p, nb), p + nb, s - nb)
           m2 == dispose_chunk(x, mid, t)
<1>1. p \in Addr /\ p \in Int /\ hi \in Addr /\ hi \in Int /\ p < hi /\ Region(m, p, hi)
  BY DEF Vacant
<1>2. /\ mid \in Int /\ t \in Int /\ hi - mid = t /\ mid - p = nb /\ p < mid /\ mid < hi
      /\ LastAt(p, mid, hi) = mid
  BY <1>1 DEF MinChunk, LastAt
<1>3. Outcome(m, x, p, mid, hi, TRUE, TRUE)
  BY CutHeld
<1> HIDE DEF x, mid, t
<1>4. \A a \in InUse(m) : a = p \/ a < p \/ hi <= a
  BY <1>1, CellInt
<1>5. InUse(x) = InUse(m) \cup {mid}
  <2>1. InUse(x) = {a \in InUse(m) : a < p \/ hi <= a} \cup {a \in {p} : TRUE} \cup {a \in {mid} : TRUE}
    BY <1>2, <1>3 DEF Outcome
  <2> QED
    BY <1>4, <2>1
<1>6. mid \notin InUse(m)
  BY <1>1, <1>2
<1>7. mid \notin RecordsOf(x)
  <2>1. RecordsOf(x) = RecordsOf(m)
    BY <1>3 DEF Outcome, RecordsOf
  <2>2. RecordsOf(m) \subseteq InUse(m)
    BY DEF Sound, Layout, InUse
  <2> QED
    BY <1>6, <2>1, <2>2
<1>8. x \in State /\ Sound(x) /\ mid \in InUse(x) /\ t = x.head[mid].size /\ x.head[p].size = nb
  BY <1>2, <1>3, <1>5 DEF Outcome
<1>9. Freed(x, m2, mid)
  BY <1>7, <1>8, DisposeFrees
<1> HIDE DEF m2
<1>10. InUse(m2) = InUse(m)
  BY <1>5, <1>6, <1>9 DEF Freed
<1>11. m2.head[p].size = nb
  BY <1>8, <1>9, <1>10 DEF Freed
<1>12. nb <= m2.head[p].size /\ m2.head[p].size < nb + MinChunk
  BY <1>11 DEF MinChunk
<1>13. \A a \in InUse(m) : a # p => m2.head[a].size = m.head[a].size
  BY <1>3, <1>4, <1>9, <1>10 DEF Outcome, Freed
<1>14. Resized(m, nb, m2, p)
  BY <1>3, <1>9, <1>10, <1>12, <1>13 DEF Outcome, Freed, Resized
<1> QED
  BY <1>14 DEF m2, x, mid, t

-----------------------------------------------------------------------------
(* Resizing in place.                                                      *)

(* Chunk p is in use, up to next.                                          *)
Held(m, p, next) ==
    /\ p \in Addr /\ p \in Int /\ next \in Addr /\ next \in Int /\ p < next /\ next = p + m.head[p].size
    /\ m.head[p].size \in Nat /\ next - p >= MinChunk
    /\ p \in Cells(m) /\ m.head[p].cinuse = TRUE /\ p # m.top
    /\ next \in Cells(m) /\ next # FootOf(m) /\ next \notin BasesOf(m)
    /\ m.head[next].cinuse \in BOOLEAN /\ m.head[next].size \in Size /\ m.head[next].size \in Nat
    /\ Region(m, p, next)
    /\ \A a \in Cells(m) : p <= a /\ a < next => a = p

LEMMA HeldFacts ==
    ASSUME NEW m \in State, Layout(m), NEW p \in InUse(m), p \notin RecordsOf(m),
           NEW next, next = p + m.head[p].size
    PROVE  Held(m, p, next)
<1> DEFINE q == IF ~m.head[p].pinuse THEN p - m.head[p].prev_foot ELSE p
<1>1. Hole(m, p, q, next)
  BY HoleFacts
<1>2. /\ p \in Addr /\ p \in Int /\ next \in Addr /\ next \in Int /\ p < next /\ m.head[p].size \in Size
      /\ p \in Cells(m) /\ m.head[p].cinuse = TRUE /\ p # m.top
      /\ next \in Cells(m) /\ next # FootOf(m) /\ next \notin BasesOf(m)
      /\ m.head[next].cinuse \in BOOLEAN /\ m.head[next].size \in Size /\ m.head[next].size \in Nat
  BY <1>1 DEF Hole
<1>3. m.head[p].size \in Nat /\ m.head[p].size >= MinChunk
  BY <1>2, Sizes0 DEF Layout, Size
<1>4. next - p >= MinChunk
  BY <1>2, <1>3 DEF MinChunk
<1>5. Region(m, p, next)
  BY <1>2, RegionOne DEF After
<1>6. ASSUME NEW a \in Cells(m), p <= a, a < next PROVE a = p
  <2>5. a \in Int /\ p \in Int
    BY <1>2, CellInt
  <2>1. m.head[a] # NoHeader /\ a \in Addr
    BY CellFacts
  <2>2. p < a => After(m, p) <= a
    BY <1>2, <2>1 DEF Layout
  <2>3. After(m, p) = next /\ next \in Int
    BY <1>2 DEF After
  <2> HIDE DEF q
  <2> QED
    BY <1>6, <2>2, <2>3, <2>5
<1> QED
  BY <1>2, <1>3, <1>4, <1>5, <1>6 DEF Held

(* Nothing is filed of a chunk in use, nor of the free one behind it once  *)
(* that is out of its bin or is the victim no more.                        *)
LEMMA VacantAlone ==
    ASSUME NEW m \in State, Sound(m), NEW p, NEW next, Held(m, p, next)
    PROVE  Vacant(m, m, p, next)
<1>0. Filed(m)
  BY DEF Sound
<1>1. /\ p \in Addr /\ p \in Int /\ next \in Addr /\ next \in Int /\ p < next
      /\ Region(m, p, next) /\ next # FootOf(m) /\ m.head[p].cinuse = TRUE
      /\ \A a \in Cells(m) : p <= a /\ a < next => a = p
  BY DEF Held
<1>2. Cleared(m, m, p, next)
  <2>1. /\ \A a \in {} : a \in Int /\ p <= a /\ a < next
        /\ \A a \in Binnable(m) : p <= a /\ a < next => a \in {}
    BY <1>1 DEF Binnable
  <2> QED
    BY <1>0, <1>1, <2>1, OutNone, OutCleared
<1>3. m.dv < p \/ next <= m.dv
  <2>1. m.dv # p
    BY <1>0, <1>1 DEF Filed, Victim, Addr, Null
  <2>2. m.dv \in Cells(m) => m.dv < p \/ next <= m.dv
    BY <1>1, <2>1, CellInt
  <2> QED
    BY <1>0, <1>1, <2>2, VictimFar
<1> QED
  BY <1>1, <1>2, <1>3 DEF Vacant, VictimApart

LEMMA VacantBinned ==
    ASSUME NEW m \in State, Sound(m), NEW p, NEW next, Held(m, p, next), ~m.head[next].cinuse,
           next # m.top, next # m.dv, NEW n, n = m.head[next].size
    PROVE  /\ Vacant(m, unlink_chunk(m, next, n), p, next + n)
           /\ unlink_chunk(m, next, n) \in State /\ unlink_chunk(m, next, n).head = m.head
<1> DEFINE hi == next + n
           x == unlink_chunk(m, next, n)
<1>0. Filed(m) /\ Layout(m)
  BY DEF Sound
<1>1. /\ p \in Addr /\ p \in Int /\ next \in Addr /\ next \in Int /\ p < next /\ next - p >= MinChunk
      /\ Region(m, p, next) /\ m.head[p].cinuse = TRUE /\ next \in Cells(m) /\ n \in Size
      /\ \A a \in Cells(m) : p <= a /\ a < next => a = p
  BY DEF Held
<1>20. NextFree(m, p, next, hi)
  BY <1>0, <1>1, FreeNext
<1>2. /\ hi \in Addr /\ hi \in Int /\ next < hi /\ hi # FootOf(m) /\ Region(m, p, hi) /\ p < hi
      /\ \A a \in Cells(m) : next <= a /\ a < hi => a = next
  BY <1>20 DEF NextFree
<1>3. \A a \in Cells(m) : p <= a /\ a < hi => a = p \/ a = next
  BY <1>1, <1>2, CellInt
<1>4. Out(m, x, {} \cup {next}) /\ x \in State /\ SameButBin(m, x)
  <2>1. \A u \in Size : next \in Range(m.bin[u]) => u = n
    BY <1>0 DEF Filed
  <2>2. Out(m, m, {})
    BY <1>0, OutNone
  <2> QED
    BY <1>1, <2>1, <2>2, UnlinkOut
<1> HIDE DEF x, hi
<1>5. Cleared(m, x, p, hi)
  <2>1. /\ \A a \in {} \cup {next} : a \in Int /\ p <= a /\ a < hi
        /\ \A a \in Binnable(m) : p <= a /\ a < hi => a \in {} \cup {next}
    BY <1>1, <1>2, <1>3 DEF Binnable
  <2> QED
    BY <1>0, <1>1, <1>2, <1>4, <2>1, OutCleared
<1>6. m.dv < p \/ hi <= m.dv
  <2>1. m.dv # p
    BY <1>0, <1>1 DEF Filed, Victim, Addr, Null
  <2>2. m.dv \in Cells(m) => m.dv < p \/ hi <= m.dv
    <3> SUFFICES ASSUME m.dv \in Cells(m) PROVE m.dv < p \/ hi <= m.dv
      OBVIOUS
    <3>1. m.dv \in Int
      BY CellInt
    <3>2. ~(p <= m.dv /\ m.dv < hi)
      BY <1>3, <2>1
    <3> QED
      BY <1>1, <1>2, <3>1, <3>2
  <2> QED
    BY <1>0, <1>1, <1>2, <2>2, VictimFar
<1>7. Vacant(m, x, p, hi)
  BY <1>1, <1>2, <1>4, <1>5, <1>6 DEF Vacant, VictimApart, SameButBin
<1> QED
  BY <1>4, <1>7 DEF SameButBin, x, hi

LEMMA VacantVictim ==
    ASSUME NEW m \in State, Sound(m), NEW p, NEW next, Held(m, p, next), ~m.head[next].cinuse,
           next = m.dv, NEW n, n = m.head[next].size
    PROVE  Vacant(m, NoVictim(m), p, next + n)
<1> DEFINE hi == next + n
           x == NoVictim(m)
<1>0. Filed(m) /\ Layout(m)
  BY DEF Sound
<1>1. /\ p \in Addr /\ p \in Int /\ next \in Addr /\ next \in Int /\ p < next /\ next - p >= MinChunk
      /\ Region(m, p, next) /\ m.head[p].cinuse = TRUE /\ next \in Cells(m) /\ n \in Size
      /\ \A a \in Cells(m) : p <= a /\ a < next => a = p
  BY DEF Held
<1>10. next # m.top
  BY <1>0, <1>1 DEF Filed, Victim, Addr, Null
<1>20. NextFree(m, p, next, hi)
  BY <1>0, <1>1, <1>10, FreeNext
<1>2. /\ hi \in Addr /\ hi \in Int /\ next < hi /\ hi # FootOf(m) /\ Region(m, p, hi) /\ p < hi
      /\ \A a \in Cells(m) : next <= a /\ a < hi => a = next
  BY <1>20 DEF NextFree
<1>3. \A a \in Cells(m) : p <= a /\ a < hi => a = p \/ a = next
  BY <1>1, <1>2, CellInt
<1>4. HasVictim(m, x, Null, 0)
  BY LostVictim
<1> HIDE DEF x, hi
<1>5. Cleared(m, x, p, hi)
  <2>1. /\ \A a \in {} : a \in Int /\ p <= a /\ a < hi
        /\ \A a \in Binnable(m) : p <= a /\ a < hi => a \in {}
    BY <1>1, <1>2, <1>3 DEF Binnable
  <2>2. Out(m, x, {})
    BY <1>0, <1>4, OutNone DEF HasVictim, Out, NoRepeats
  <2> QED
    BY <1>0, <1>1, <1>2, <2>1, <2>2, OutCleared
<1>6. VictimApart(m, x, p, hi)
  BY <1>1, <1>2, <1>4 DEF VictimApart, HasVictim
<1>7. Vacant(m, x, p, hi)
  BY <1>1, <1>2, <1>4, <1>5, <1>6 DEF Vacant, HasVictim
<1> QED
  BY <1>7 DEF x, hi

(* p keeps nb of the region up to hi, which it shares with what was free.  *)
LEMMA KeptResized ==
    ASSUME NEW m \in State, NEW p \in InUse(m), NEW mid \in Int, NEW hi \in Int, p \in Int, p < mid, mid < hi,
           \A a \in InUse(m) : p <= a /\ a < hi => a = p,
           NEW nb \in Nat, nb = mid - p, NEW m2, Outcome(m, m2, p, mid, hi, TRUE, FALSE)
    PROVE  Resized(m, nb, m2, p)
<1>1. LastAt(p, mid, hi) = mid
  BY DEF LastAt
<1>2. \A a \in InUse(m) : a = p \/ a < p \/ hi <= a
  BY CellInt
<1>3. InUse(m2) = InUse(m)
  <2>1. InUse(m2) = {a \in InUse(m) : a < p \/ hi <= a} \cup {a \in {p} : TRUE} \cup {a \in {mid} : FALSE}
    BY <1>1 DEF Outcome
  <2> QED
    BY <1>2, <2>1
<1>4. nb <= m2.head[p].size /\ m2.head[p].size < nb + MinChunk
  BY DEF Outcome, MinChunk
<1>5. \A a \in InUse(m) : a # p => m2.head[a].size = m.head[a].size
  BY <1>2 DEF Outcome
<1> QED
  BY <1>3, <1>4, <1>5 DEF Outcome, Resized

LEMMA GrowsIntoTop ==
    ASSUME NEW m \in State, Sound(m), NEW p \in InUse(m), NEW next, Held(m, p, next),
           next = m.top, NEW s, s = m.head[p].size, NEW nb \in Nat, nb > s, s + m.topsize > nb
    PROVE  Resized(m, nb, [SetHead(set_inuse(m, p, nb), p + nb, s + m.topsize - nb, FALSE, TRUE) EXCEPT
                             !.top = p + nb, !.topsize = s + @ - nb], p)
<1> DEFINE hi == FootOf(m)
           mid == p + nb
           t == s + m.topsize - nb
           y == set_inuse(m, p, nb)
           x == SetHead(y, mid, t, FALSE, TRUE)
           m2 == [x EXCEPT !.top = mid, !.topsize = s + @ - nb]
<1>0. Layout(m) /\ Filed(m)
  BY DEF Sound
<1>1. /\ p \in Addr /\ p \in Int /\ next \in Addr /\ next \in Int /\ p < next /\ next = p + s
      /\ s \in Nat /\ next - p >= MinChunk /\ next \in Cells(m) /\ m.head[p].cinuse = TRUE
      /\ Region(m, p, next) /\ \A a \in Cells(m) : p <= a /\ a < next => a = p
  BY DEF Held
<1>20. TopFree(m, next, hi)
  BY <1>0, TopCell
<1>2. /\ hi \in Addr /\ hi \in Int /\ next < hi /\ hi = next + m.topsize /\ m.topsize \in Nat
      /\ m.head[hi].pinuse = FALSE /\ next \notin RecordsOf(m) /\ hi = After(m, next)
      /\ m.head[next].cinuse = FALSE
      /\ \A a \in Cells(m) : next <= a /\ a < hi => a = next
  BY <1>20 DEF TopFree
<1>21. hi = FootOf(m)
  OBVIOUS
<1>3. Region(m, p, hi)
  BY <1>0, <1>1, <1>2, RegionMore
<1> HIDE DEF hi
<1>4. /\ mid \in Addr /\ mid \in Int /\ nb \in Size /\ nb > 0 /\ t \in Size /\ t \in Nat /\ t > 0
      /\ mid + t = hi /\ hi - mid = t /\ mid - p = nb /\ p < mid /\ mid < hi /\ p < hi
      /\ nb >= MinChunk /\ p + nb = mid
  <2> DEFINE d == m.topsize
  <2>1. /\ p >= 1 /\ hi <= Space /\ p \in Int /\ hi \in Int /\ s \in Nat /\ d \in Nat /\ nb \in Nat
        /\ hi = p + s + d /\ s >= MinChunk /\ nb > s /\ s + d > nb /\ mid = p + nb /\ t = s + d - nb
        /\ Space \in Nat
    BY <1>1, <1>2, Sizes0 DEF Addr, MinChunk
  <2> HIDE DEF d, mid, t
  <2> QED
    BY ONLY <2>1 DEF Addr, Size, MinChunk
<1>5. TRUE \in BOOLEAN /\ FALSE \in BOOLEAN
  OBVIOUS
<1>22. m2 = [x EXCEPT !.top = mid, !.topsize = s + x.topsize - nb]
  OBVIOUS
<1>23. x = SetHead(y, mid, t, FALSE, TRUE) /\ y = set_inuse(m, p, nb) /\ t = s + m.topsize - nb
  OBVIOUS
<1> HIDE DEF mid, t, m2, x, y
<1>6. WritesInuse(m, y, p, nb, m.head[p].pinuse)
  <2>1. p + nb \in Addr
    BY <1>4
  <2> QED
    BY <1>1, <1>4, <1>23, <2>1, InuseWritten
<1>7. Written(m, y, p, nb, TRUE, m.head[p].pinuse) /\ y \in State /\ SameButHead(m, y) /\ y.head[hi] = m.head[hi]
  <2>1. Written(m, y, p, nb, TRUE, m.head[p].pinuse)
    BY <1>6 DEF WritesInuse
  <2>2. p + nb < hi
    BY <1>4
  <2> QED
    BY <1>2, <2>1, <2>2 DEF Written
<1>8. Written(y, x, mid, t, FALSE, TRUE) /\ x.head[hi] = m.head[hi]
  <2>1. mid + t \in Addr
    BY <1>2, <1>4
  <2>2. Written(y, SetHead(y, mid, t, FALSE, TRUE), mid, t, FALSE, TRUE)
        /\ SetHead(y, mid, t, FALSE, TRUE).head[mid + t] = y.head[mid + t]
    BY <1>4, <1>5, <1>7, <2>1, SetHeadWritten
  <2> QED
    BY <1>4, <1>7, <1>23, <2>2
<1>9. Retiled(m.head, x.head, p, mid, hi, TRUE, FALSE)
  <2>1. x.head[hi].pinuse = FALSE /\ mid = p + nb /\ hi = mid + t
    BY <1>2, <1>4, <1>8
  <2> QED
    BY <1>1, <1>2, <1>4, <1>5, <1>7, <1>8, <2>1, TwoRetiled
<1>10. x \in State /\ SameButHead(m, x)
  BY <1>7, <1>8 DEF Written, SameButHead
<1>11. HasTop(x, m2, mid, t)
  <2>1. s + x.topsize - nb = t
    BY <1>10, <1>23 DEF SameButHead
  <2> QED
    BY <1>4, <1>10, <1>22, <2>1, NewTop
<1>12. /\ m2 \in State /\ m2.head = x.head /\ m2.bin = m.bin /\ m2.top = mid /\ m2.topsize = t
       /\ m2.seg = m.seg /\ m2.footprint = m.footprint /\ m2.release_checks = m.release_checks
       /\ m2.dv = m.dv /\ m2.dvsize = m.dvsize
  BY <1>10, <1>11 DEF HasTop, SameButHead
<1>13. LastAt(p, mid, hi) = mid
  BY <1>4 DEF LastAt
<1>14. Fits(m, m2, p, mid, hi, TRUE, FALSE)
  <2>1. p < mid /\ mid <= hi /\ mid - p >= MinChunk
    BY <1>4
  <2> QED
    BY <2>1, <1>4, <1>12, <1>13, <1>21 DEF Fits
<1>15. \A a \in Cells(m) : p <= a /\ a < hi => a = p \/ a = next
  BY <1>1, <1>2, CellInt
<1>16. Refiled(m, m2, p, mid, hi, FALSE)
  <2>1. Cleared(m, m, p, hi)
    <3>1. /\ \A a \in {} : a \in Int /\ p <= a /\ a < hi
          /\ \A a \in Binnable(m) : p <= a /\ a < hi => a \in {}
      BY <1>1, <1>15 DEF Binnable
    <3> QED
      BY <1>0, <1>1, <1>2, <3>1, OutNone, OutCleared
  <2>2. m.dv # p /\ m.dv # next
    BY <1>0, <1>1, <1>2 DEF Filed, Victim, Addr, Null
  <2>3. m.dv \in Cells(m) => m.dv < p \/ hi <= m.dv
    <3> SUFFICES ASSUME m.dv \in Cells(m) PROVE m.dv < p \/ hi <= m.dv
      OBVIOUS
    <3>1. m.dv \in Int
      BY CellInt
    <3>2. ~(p <= m.dv /\ m.dv < hi)
      BY <1>15, <2>2
    <3> QED
      BY <1>1, <1>2, <3>1, <3>2
  <2>4. m.dv < p \/ hi <= m.dv
    BY <1>0, <1>1, <1>2, <2>3, VictimFar
  <2>5. VictimApart(m, m2, p, hi)
    BY <1>12, <2>4 DEF VictimApart
  <2> QED
    BY <1>1, <1>2, <1>4, <1>5, <1>12, <1>13, <2>1, <2>5, RefiledUnfiled
<1>17. Outcome(m, m2, p, mid, hi, TRUE, FALSE)
  <2>1. Reshaped(m, m2, p, mid, hi, TRUE, FALSE)
    BY <1>3, <1>9, <1>12, <1>14, <1>16 DEF Reshaped
  <2> QED
    BY <1>4, <1>5, <2>1, ReshapeSound
<1>18. \A a \in InUse(m) : p <= a /\ a < hi => a = p
  BY <1>2, <1>15 DEF InUse
<1>19. Resized(m, nb, m2, p)
  <2>1. nb = mid - p
    BY <1>4
  <2> QED
    BY <1>1, <1>2, <1>4, <1>17, <1>18, <2>1, KeptResized
<1> QED
  BY <1>19 DEF m2, x, y, mid, t

LEMMA GrowsIntoVictim ==
    ASSUME NEW m \in State, Sound(m), NEW p \in InUse(m), NEW next, Held(m, p, next),
           next = m.dv, ~m.head[next].cinuse,
           NEW s, s = m.head[p].size, NEW nb \in Nat, nb > s, NEW t, t = s + m.dvsize - nb, t >= MinChunk
    PROVE  Resized(m, nb, [clear_pinuse(set_size_and_pinuse_of_free_chunk(
                                            set_inuse(m, p, nb), p + nb, t), p + nb + t) EXCEPT
                             !.dv = p + nb, !.dvsize = t], p)
<1> DEFINE hi == next + m.head[next].size
           mid == p + nb
           y == set_inuse(m, p, nb)
           z == set_size_and_pinuse_of_free_chunk(y, mid, t)
           x == clear_pinuse(z, mid + t)
           m2 == [x EXCEPT !.dv = mid, !.dvsize = t]
<1>0. Layout(m) /\ Filed(m)
  BY DEF Sound
<1>1. /\ p \in Addr /\ p \in Int /\ next \in Addr /\ next \in Int /\ p < next /\ next = p + s
      /\ s \in Nat /\ next - p >= MinChunk /\ next \in Cells(m) /\ m.head[p].cinuse = TRUE
      /\ Region(m, p, next) /\ \A a \in Cells(m) : p <= a /\ a < next => a = p
      /\ m.head[next].size \in Nat
  BY DEF Held
<1>2. m.dvsize = m.head[next].size /\ next # m.top
  <2>1. m.dv # Null
    BY <1>1 DEF Addr, Null
  <2> QED
    BY <1>0, <2>1 DEF Filed, Victim
<1>20. NextFree(m, p, next, hi)
  BY <1>0, <1>1, <1>2, FreeNext
<1>3. /\ hi \in Addr /\ hi \in Int /\ next < hi /\ hi = next + m.dvsize /\ hi # FootOf(m)
      /\ m.head[hi].cinuse = TRUE /\ Region(m, p, hi)
      /\ \A a \in Cells(m) : next <= a /\ a < hi => a = next
  BY <1>2, <1>20 DEF NextFree
<1> HIDE DEF hi
<1>4. /\ mid \in Addr /\ mid \in Int /\ nb \in Size /\ nb > 0 /\ t \in Size /\ t \in Nat /\ t > 0
      /\ mid + t = hi /\ hi - mid = t /\ mid - p = nb /\ p < mid /\ mid < hi /\ p < hi
      /\ nb >= MinChunk /\ p + nb = mid
  <2> DEFINE d == m.dvsize
  <2>1. /\ p >= 1 /\ hi <= Space /\ p \in Int /\ hi \in Int /\ s \in Nat /\ d \in Nat /\ nb \in Nat
        /\ hi = p + s + d /\ s >= MinChunk /\ nb > s /\ mid = p + nb /\ t = s + d - nb /\ t >= MinChunk
        /\ Space \in Nat
    <3>1. d \in Nat /\ t = s + d - nb /\ t >= MinChunk
      BY <1>1, <1>2
    <3>2. mid = p + nb
      OBVIOUS
    <3>3. p >= 1 /\ hi <= Space /\ p \in Int /\ hi \in Int
      BY ONLY <1>1, <1>3 DEF Addr
    <3>4. hi = next + d /\ next = p + s
      BY <1>1, <1>3
    <3> HIDE DEF d, mid
    <3>5. s \in Nat /\ s >= MinChunk
      BY ONLY <1>1, <3>4 DEF MinChunk
    <3>6. Space \in Nat
      BY Sizes0
    <3> QED
      BY ONLY <3>1, <3>2, <3>3, <3>4, <3>5, <3>6, nb \in Nat, nb > s
  <2> HIDE DEF d, mid
  <2> QED
    BY ONLY <2>1 DEF Addr, Size, MinChunk
<1>5. TRUE \in BOOLEAN /\ FALSE \in BOOLEAN
  OBVIOUS
<1>23. y = set_inuse(m, p, nb)
  OBVIOUS
<1> HIDE DEF mid, m2, x, y, z
<1>6. Written(m, y, p, nb, TRUE, m.head[p].pinuse) /\ y \in State /\ SameButHead(m, y)
  <2>1. p + nb \in Addr
    BY <1>4
  <2>2. WritesInuse(m, y, p, nb, m.head[p].pinuse)
    BY <1>1, <1>4, <1>23, <2>1, InuseWritten
  <2> QED
    BY <2>2 DEF WritesInuse, Written
<1>7. WritesFree(y, z, mid, t)
  <2>1. mid + t \in Addr
    BY <1>3, <1>4
  <2> QED
    BY <1>4, <1>6, <2>1, FreeWritten DEF z
<1>8. Written(y, z, mid, t, FALSE, TRUE) /\ z.head[hi].prev_foot = t /\ z \in State
  BY <1>4, <1>7 DEF WritesFree, Written
<1>9. /\ x \in State /\ SameButHead(z, x)
      /\ \A b \in Addr : b # hi => x.head[b] = z.head[b]
      /\ x.head[hi].size = z.head[hi].size /\ x.head[hi].cinuse = z.head[hi].cinuse
      /\ x.head[hi].pinuse = FALSE /\ x.head[hi].prev_foot = z.head[hi].prev_foot
  <2>1. x = clear_pinuse(z, hi)
    BY <1>4 DEF x
  <2>2. z \in State /\ hi \in Addr
    BY <1>3, <1>8
  <2> QED
    BY ONLY <2>1, <2>2, ClearPinuseFacts
<1>10. Written(y, x, mid, t, FALSE, TRUE)
  <2>1. mid \in Addr /\ t \in Size /\ t > 0 /\ mid + t = hi
    BY <1>4
  <2>2. \A b \in Addr : b # mid + t => x.head[b] = z.head[b]
    BY <1>9, <2>1
  <2>3. x.head[mid + t].size = z.head[mid + t].size /\ x.head[mid + t].cinuse = z.head[mid + t].cinuse
    BY <1>9, <2>1
  <2> QED
    BY <1>6, <1>8, <1>9, <2>1, <2>2, <2>3, WrittenThen
<1>11. Retiled(m.head, x.head, p, mid, hi, TRUE, FALSE)
  <2>1. mid = p + nb /\ hi = mid + t
    BY <1>4
  <2> QED
    BY <1>1, <1>3, <1>4, <1>5, <1>6, <1>9, <1>10, <2>1, TwoRetiled
<1>12. x \in State /\ SameButHead(m, x) /\ x.head[hi].prev_foot = t
  BY <1>6, <1>8, <1>9, <1>10 DEF Written, SameButHead
<1>13. HasVictim(x, m2, mid, t)
  <2>1. m2 = [x EXCEPT !.dv = mid, !.dvsize = t]
    BY DEF m2
  <2>2. x \in State /\ mid \in Addr /\ t \in Size
    BY <1>4, <1>12
  <2> QED
    BY ONLY <2>1, <2>2, NewVictim
<1>14. /\ m2 \in State /\ m2.head = x.head /\ m2.bin = m.bin /\ m2.top = m.top /\ m2.topsize = m.topsize
       /\ m2.seg = m.seg /\ m2.footprint = m.footprint /\ m2.release_checks = m.release_checks
       /\ m2.dv = mid /\ m2.dvsize = t
  BY <1>12, <1>13 DEF HasVictim, SameButHead
<1>15. LastAt(p, mid, hi) = mid
  BY <1>4 DEF LastAt
<1>16. Fits(m, m2, p, mid, hi, TRUE, FALSE)
  <2>1. p < mid /\ mid <= hi /\ mid - p >= MinChunk /\ hi - mid >= MinChunk
    BY <1>4
  <2> QED
    BY <2>1, <1>3, <1>4, <1>12, <1>14, <1>15 DEF Fits
<1>17. Refiled(m, m2, p, mid, hi, FALSE)
  <2>1. Vacant(m, NoVictim(m), p, next + m.head[next].size)
    BY VacantVictim
  <2>2. Cleared(m, m, p, hi)
    <3>1. NoVictim(m).bin = m.bin
      BY LostVictim DEF HasVictim
    <3>2. Cleared(m, NoVictim(m), p, hi)
      BY <2>1 DEF Vacant, hi
    <3> QED
      BY <3>1, <3>2 DEF Cleared, NoRepeats
  <2>3. p <= m.dv /\ m.dv < hi
    BY <1>1, <1>3
  <2>4. m2.dv # m2.top
    <3>1. m.top \in Cells(m) /\ m.top \in Int
      BY <1>0, CellInt DEF Layout
    <3>2. \A a \in Cells(m) : p <= a /\ a < hi => a = p \/ a = next
      BY <1>1, <1>3, CellInt
    <3>3. mid # p /\ mid # next
      BY <1>1, <1>4
    <3> QED
      BY <1>1, <1>3, <1>4, <1>14, <3>1, <3>2, <3>3
  <2> QED
    BY <1>1, <1>3, <1>4, <1>14, <1>15, <2>2, <2>3, <2>4, RefiledVictim
<1>18. Outcome(m, m2, p, mid, hi, TRUE, FALSE)
  <2>1. Reshaped(m, m2, p, mid, hi, TRUE, FALSE)
    BY <1>3, <1>11, <1>14, <1>16, <1>17 DEF Reshaped
  <2> QED
    BY <1>4, <1>5, <2>1, ReshapeSound
<1>19. \A a \in InUse(m) : p <= a /\ a < hi => a = p
  <2> SUFFICES ASSUME NEW a \in InUse(m), p <= a, a < hi PROVE a = p
    OBVIOUS
  <2>1. a \in Cells(m) /\ a \in Int /\ a # next
    BY CellInt DEF InUse
  <2>2. ~(next <= a)
    BY <1>3, <2>1
  <2> QED
    BY <1>1, <2>1, <2>2
<1>21. Resized(m, nb, m2, p)
  <2>1. nb = mid - p
    BY <1>4
  <2> QED
    BY <1>1, <1>3, <1>4, <1>18, <1>19, <2>1, KeptResized
<1> QED
  BY <1>21 DEF m2, x, y, z, mid

(* try_realloc_chunk leaves the heap as it was, or makes p as large as was *)
(* asked for and nothing else different.                                   *)
THEOREM ReallocResizes ==
    ASSUME NEW m \in State, Sound(m), NEW p \in InUse(m), p \notin RecordsOf(m),
           NEW nb \in Nat, nb >= MinChunk, try_realloc_chunk(m, p, nb).mem # Null
    PROVE  Resized(m, nb, try_realloc_chunk(m, p, nb).m, p)
<1> DEFINE s == m.head[p].size
           next == p + s
           n == m.head[next].size
           d == s + m.dvsize - nb
           Split(mm, k) ==
               IF k - nb < MinChunk THEN set_inuse(mm, p, k)
               ELSE dispose_chunk(set_inuse(set_inuse(mm, p, nb), p + nb, k - nb), p + nb, k - nb)
           r == try_realloc_chunk(m, p, nb)
<1>0. Layout(m) /\ Filed(m)
  BY DEF Sound
<1>1. Held(m, p, next)
  BY <1>0, HeldFacts
<1>2. /\ p \in Addr /\ p \in Int /\ next \in Addr /\ next \in Int /\ p < next /\ next = p + s
      /\ s \in Nat /\ next - p >= MinChunk /\ m.head[p].cinuse = TRUE
      /\ next \in Cells(m) /\ m.head[next].cinuse \in BOOLEAN /\ n \in Size /\ n \in Nat
      /\ \A a \in Cells(m) : p <= a /\ a < next => a = p
  BY <1>1 DEF Held
<1>3. r = IF s >= nb
          THEN IF s - nb < MinChunk THEN [m |-> m, mem |-> p] ELSE [m |-> Split(m, s), mem |-> p]
          ELSE IF next = m.top
          THEN IF s + m.topsize <= nb THEN [m |-> m, mem |-> Null]
               ELSE [m |-> [SetHead(set_inuse(m, p, nb), p + nb, s + m.topsize - nb, FALSE, TRUE) EXCEPT
                               !.top = p + nb, !.topsize = s + @ - nb],
                     mem |-> p]
          ELSE IF next = m.dv
          THEN IF d < 0 THEN [m |-> m, mem |-> Null]
               ELSE IF d < MinChunk
               THEN [m |-> NoVictim(set_inuse(m, p, s + m.dvsize)), mem |-> p]
               ELSE [m |-> [clear_pinuse(set_size_and_pinuse_of_free_chunk(
                                            set_inuse(m, p, nb), p + nb, d), p + nb + d) EXCEPT
                               !.dv = p + nb, !.dvsize = d],
                     mem |-> p]
          ELSE IF ~m.head[next].cinuse /\ s + n >= nb
          THEN [m |-> Split(unlink_chunk(m, next, n), s + n), mem |-> p]
          ELSE [m |-> m, mem |-> Null]
  BY DEF try_realloc_chunk, Found
<1>4. next - p = s /\ s >= MinChunk
  BY <1>2
<1>5. r.mem # Null
  OBVIOUS
<1> SUFFICES Resized(m, nb, r.m, p)
  OBVIOUS
<1> HIDE DEF r, d, n, s, next
<1>6. CASE s >= nb /\ s - nb < MinChunk
  <2>1. Resized(m, nb, m, p)
    <3>1. nb <= m.head[p].size /\ m.head[p].size < nb + MinChunk
      BY <1>2, <1>6 DEF s, MinChunk
    <3> QED
      BY <3>1 DEF Resized
  <2> QED
    BY <1>3, <1>6, <2>1
<1>7. CASE s >= nb /\ ~(s - nb < MinChunk)
  <2> DEFINE m2 == dispose_chunk(set_inuse(set_inuse(m, p, nb), p + nb, s - nb), p + nb, s - nb)
  <2>1. Vacant(m, m, p, next)
    BY <1>1, VacantAlone
  <2>2. \A a \in InUse(m) : p <= a /\ a < next => a = p
    BY <1>2 DEF InUse
  <2>3. s - nb >= MinChunk /\ s = next - p
    BY <1>2, <1>4, <1>7 DEF MinChunk
  <2>4. Resized(m, nb, m2, p)
    BY <2>1, <2>2, <2>3, CutResized
  <2>5. r.m = m2
    BY <1>3, <1>7
  <2> QED
    BY <2>4, <2>5
<1>8. CASE s < nb /\ next = m.top
  <2>1. ~(s + m.topsize <= nb)
    BY <1>2, <1>3, <1>5, <1>8
  <2>2. m.topsize \in Nat
    BY FootFacts
  <2>3. nb > s /\ s + m.topsize > nb
    BY <1>2, <1>8, <2>1, <2>2
  <2>4. Resized(m, nb, [SetHead(set_inuse(m, p, nb), p + nb, s + m.topsize - nb, FALSE, TRUE) EXCEPT
                             !.top = p + nb, !.topsize = s + @ - nb], p)
    BY <1>1, <1>8, <2>3, GrowsIntoTop DEF s
  <2>5. ~(s >= nb)
    BY <1>2, <1>8
  <2> QED
    BY <1>3, <1>8, <2>1, <2>4, <2>5
<1>9. CASE s < nb /\ next # m.top /\ next = m.dv
  <2>0. ~(s >= nb)
    BY <1>2, <1>9
  <2>1. m.dv # Null /\ ~m.head[next].cinuse /\ m.dvsize = n
    <3>1. m.dv # Null
      BY <1>2, <1>9 DEF Addr, Null
    <3> QED
      BY <1>0, <1>9, <3>1 DEF Filed, Victim, n
  <2>2. Vacant(m, NoVictim(m), p, next + n)
    BY <1>1, <1>9, <2>1, VacantVictim DEF n
  <2>3. ~(d < 0)
    BY <1>3, <1>5, <1>9, <2>0
  <2>4. CASE d < MinChunk
    <3> DEFINE k == s + m.dvsize
               m2 == NoVictim(set_inuse(m, p, k))
               hi == next + n
    <3>1. /\ hi \in Int /\ hi \in Addr /\ p < hi /\ k = hi - p /\ k \in Nat /\ k \in Size /\ k >= MinChunk /\ p + k = hi
          /\ k > 0 /\ nb <= hi - p /\ (hi - p) - nb < MinChunk
      <4>1. hi \in Int /\ hi \in Addr
        BY <2>2 DEF Vacant
      <4>2. p >= 1 /\ hi <= Space
        BY <1>2, <4>1 DEF Addr
      <4>3. d = k - nb
        BY <1>2, <2>1 DEF d
      <4>4. k = s + n /\ n \in Nat /\ s \in Nat /\ p \in Int /\ next = p + s /\ s >= MinChunk /\ Space \in Nat
            /\ hi = next + n
        BY <1>2, <1>4, <2>1, Sizes0
      <4> HIDE DEF k, hi
      <4> QED
        BY <4>1, <4>2, <4>3, <4>4, <2>3, <2>4 DEF MinChunk, Size
    <3> HIDE DEF k, hi
    <3>2. WritesInuse(m, set_inuse(m, p, k), p, k, m.head[p].pinuse)
      <4>1. p + k \in Addr
        BY <3>1
      <4> QED
        BY <1>2, <3>1, <4>1, InuseWritten
    <3>3. set_inuse(m, p, k) \in State /\ SameButHead(m, set_inuse(m, p, k))
      BY <3>2 DEF WritesInuse, Written
    <3>4. HasVictim(set_inuse(m, p, k), m2, Null, 0) /\ HasVictim(m, NoVictim(m), Null, 0)
      BY <3>3, LostVictim
    <3> HIDE DEF m2
    <3>5. Vacant(m, m2, p, hi)
      <4>1. Vacant(m, NoVictim(m), p, hi)
        BY <2>2 DEF hi
      <4> QED
        BY <3>3, <3>4, <4>1 DEF Vacant, HasVictim, SameButHead, Cleared, NoRepeats, VictimApart
    <3>6. Outcome(m, m2, p, hi, hi, TRUE, TRUE)
      <4>1. m2.head = set_inuse(m, p, k).head
        BY <3>4 DEF HasVictim
      <4> QED
        BY <3>1, <3>5, <4>1, WholeHeld
    <3>7. \A a \in InUse(m) : p <= a /\ a < hi => a = p
      <4>1. \A a \in InUse(m) : next <= a => hi <= a
        <5>1. p \in Addr /\ next \in Cells(m) /\ Region(m, p, next) /\ next \in Addr /\ next - p >= MinChunk
              /\ ~m.head[next].cinuse /\ next # m.top
          BY <1>1, <1>9, <2>1 DEF Held
        <5> QED
          BY <1>0, <5>1, FreeNext DEF hi, n
      <4> SUFFICES ASSUME NEW a \in InUse(m), p <= a, a < hi PROVE a = p
        OBVIOUS
      <4>2. a \in Int /\ a \in Cells(m)
        BY CellInt
      <4>3. ~(next <= a)
        BY <3>1, <4>1, <4>2
      <4> QED
        BY <1>2, <4>2, <4>3
    <3>8. Resized(m, nb, m2, p)
      BY <1>2, <3>1, <3>6, <3>7, WholeResized
    <3>9. r.m = m2
      BY <1>3, <1>9, <2>0, <2>3, <2>4 DEF m2, k
    <3> QED
      BY <3>8, <3>9
  <2>5. CASE ~(d < MinChunk)
    <3>1. d >= MinChunk
      <4>1. d \in Int
        BY <1>2, <2>1 DEF d
      <4> QED
        BY <2>5, <4>1 DEF MinChunk
    <3>2. nb > s
      BY <1>2, <1>9
    <3>3. Resized(m, nb, [clear_pinuse(set_size_and_pinuse_of_free_chunk(
                                            set_inuse(m, p, nb), p + nb, d), p + nb + d) EXCEPT
                               !.dv = p + nb, !.dvsize = d], p)
      BY <1>1, <1>9, <2>1, <3>1, <3>2, GrowsIntoVictim DEF s, d
    <3> QED
      BY <1>3, <1>9, <2>0, <2>3, <2>5, <3>3
  <2> QED
    BY <2>4, <2>5
<1>10. CASE s < nb /\ next # m.top /\ next # m.dv
  <2>0. ~(s >= nb)
    BY <1>2, <1>10
  <2>1. ~m.head[next].cinuse /\ s + n >= nb
    BY <1>3, <1>5, <1>10, <2>0
  <2> DEFINE y == unlink_chunk(m, next, n)
             k == s + n
             hi == next + n
  <2>2. Vacant(m, y, p, hi) /\ y \in State /\ y.head = m.head
    BY <1>1, <1>10, <2>1, VacantBinned DEF n
  <2>3. r.m = Split(y, k)
    BY <1>3, <1>10, <2>0, <2>1
  <2>4. /\ hi \in Int /\ hi \in Addr /\ p < hi /\ k = hi - p /\ k \in Nat /\ k \in Size /\ k >= MinChunk
        /\ nb <= hi - p
    <3>1. hi \in Int /\ hi \in Addr
      BY <2>2 DEF Vacant
    <3>2. p >= 1 /\ hi <= Space
      BY <1>2, <3>1 DEF Addr
    <3>3. k = s + n /\ n \in Nat /\ s \in Nat /\ p \in Int /\ next = p + s /\ s >= MinChunk /\ Space \in Nat
          /\ hi = next + n /\ k >= nb
      BY <1>2, <1>4, <2>1, Sizes0
    <3> HIDE DEF k, hi
    <3> QED
      BY <3>1, <3>2, <3>3 DEF MinChunk, Size
  <2>5. \A a \in InUse(m) : p <= a /\ a < hi => a = p
    <3>1. \A a \in InUse(m) : next <= a => hi <= a
      <4>1. p \in Addr /\ next \in Cells(m) /\ Region(m, p, next) /\ next \in Addr /\ next - p >= MinChunk
            /\ ~m.head[next].cinuse /\ next # m.top
        BY <1>1, <1>10, <2>1 DEF Held
      <4> QED
        BY <1>0, <4>1, FreeNext DEF hi, n
    <3> HIDE DEF hi
    <3> SUFFICES ASSUME NEW a \in InUse(m), p <= a, a < hi PROVE a = p
      OBVIOUS
    <3>2. a \in Int /\ a \in Cells(m)
      BY CellInt
    <3>3. ~(next <= a)
      BY <2>4, <3>1, <3>2
    <3> QED
      BY <1>2, <3>2, <3>3
  <2> HIDE DEF y, k, hi
  <2>6. CASE k - nb < MinChunk
    <3> DEFINE m2 == set_inuse(y, p, k)
    <3>1. Vacant(m, m2, p, hi)
      <4>1. p + k = hi /\ p + k \in Addr /\ k > 0
        BY <1>2, <2>4 DEF MinChunk
      <4>2. WritesInuse(y, m2, p, k, y.head[p].pinuse)
        BY <1>2, <2>2, <2>4, <4>1, InuseWritten
      <4> HIDE DEF m2
      <4>3. m2 \in State /\ SameButHead(y, m2)
        BY <4>2 DEF WritesInuse, Written
      <4> QED
        BY <2>2, <4>3, VacantHeads
    <3>2. m2.head = set_inuse(y, p, k).head
      OBVIOUS
    <3> HIDE DEF m2
    <3>3. Outcome(m, m2, p, hi, hi, TRUE, TRUE)
      BY <2>2, <2>4, <3>1, <3>2, WholeHeld
    <3>4. (hi - p) - nb < MinChunk
      BY <2>4, <2>6
    <3>5. Resized(m, nb, m2, p)
      BY <1>2, <2>4, <2>5, <3>3, <3>4, WholeResized
    <3> QED
      BY <2>3, <2>6, <3>5 DEF m2
  <2>7. CASE ~(k - nb < MinChunk)
    <3>1. k - nb >= MinChunk
      BY <2>4, <2>7 DEF MinChunk
    <3>2. Resized(m, nb, dispose_chunk(set_inuse(set_inuse(y, p, nb), p + nb, k - nb), p + nb, k - nb), p)
      BY <2>2, <2>4, <2>5, <3>1, CutResized
    <3> QED
      BY <2>3, <2>7, <3>2
  <2> QED
    BY <2>6, <2>7
<1>11. s >= nb \/ s < nb
  BY <1>2
<1> QED
  BY <1>6, <1>7, <1>8, <1>9, <1>10, <1>11

LEMMA ReallocFails ==
    ASSUME NEW m, NEW p, NEW nb, p # Null, try_realloc_chunk(m, p, nb).mem = Null
    PROVE  try_realloc_chunk(m, p, nb).m = m
BY DEF try_realloc_chunk, Found

-----------------------------------------------------------------------------
(* A chunk becomes several.                                                *)

(* One header is written, the neighbours are not told.                     *)
HeadSet(x, y, r, s, c, pin) ==
    /\ y \in State /\ SameButHead(x, y)
    /\ y.head[r].size = s /\ y.head[r].cinuse = c /\ y.head[r].pinuse = pin
    /\ \A a \in Addr : r < a /\ a < r + s => y.head[a] = NoHeader
    /\ \A a \in Addr : a < r \/ r + s <= a => y.head[a] = x.head[a]

LEMMA HeadIsSet ==
    ASSUME NEW x \in State, NEW r \in Addr, NEW s \in Size, s > 0, NEW c \in BOOLEAN, NEW pin \in BOOLEAN
    PROVE  HeadSet(x, SetHead(x, r, s, c, pin), r, s, c, pin)
<1> DEFINE y == SetHead(x, r, s, c, pin)
<1>1. /\ y \in State /\ SameButHead(x, y)
      /\ \A a \in Addr : y.head[a] =
            IF a = r THEN [size |-> s, cinuse |-> c, pinuse |-> pin,
                           prev_foot |-> IF pin THEN 0 ELSE x.head[r].prev_foot]
            ELSE IF r < a /\ a < r + s THEN NoHeader ELSE x.head[a]
  BY SetHeadFacts
<1>2. r \in Int /\ s \in Int
  BY DEF Addr, Size
<1> HIDE DEF y
<1>3. y.head[r].size = s /\ y.head[r].cinuse = c /\ y.head[r].pinuse = pin
  BY <1>1
<1>4. \A a \in Addr : r < a /\ a < r + s => y.head[a] = NoHeader
  BY <1>1, <1>2 DEF Addr
<1>5. \A a \in Addr : a < r \/ r + s <= a => y.head[a] = x.head[a]
  BY <1>1, <1>2 DEF Addr
<1>6. HeadSet(x, y, r, s, c, pin)
  BY <1>1, <1>3, <1>4, <1>5 DEF HeadSet
<1> QED
  BY <1>6 DEF y

(* Of a chunk in use, s large, whose header is written last, the first k   *)
(* are made a chunk, and the rest is one.                                  *)
LEMMA OnePartMore ==
    ASSUME NEW x \in State, NEW r \in Addr, NEW s \in Size, NEW k \in Nat, k >= MinChunk, s - k >= MinChunk,
           NEW y, y = SetHead(x, r, s, TRUE, TRUE),
           NEW z, z = SetHead(SetHead(x, r, k, TRUE, TRUE), r + k, s - k, TRUE, TRUE),
           Sound(y), r \in InUse(y), r \notin RecordsOf(y)
    PROVE  Outcome(y, z, r, r + k, r + s, TRUE, TRUE)
<1> DEFINE w == SetHead(x, r, k, TRUE, TRUE)
           hi == r + s
           mid == r + k
<1>0. s > 0 /\ k > 0 /\ s - k > 0 /\ TRUE \in BOOLEAN
  BY Sizes0 DEF MinChunk, Size
<1>1. HeadSet(x, y, r, s, TRUE, TRUE)
  BY <1>0, HeadIsSet
<1>2. y \in State /\ SameButHead(x, y) /\ y.head[r].size = s /\ y.head[r].pinuse = TRUE /\ y.head[r].cinuse = TRUE
  BY <1>1 DEF HeadSet
<1>3. Held(y, r, hi)
  <2>1. Layout(y)
    BY DEF Sound
  <2> QED
    BY <1>2, <2>1, HeldFacts
<1>4. Vacant(y, y, r, hi)
  BY <1>2, <1>3, VacantAlone
<1>5. hi \in Addr /\ hi \in Int /\ r \in Int /\ r < hi /\ s \in Nat /\ k \in Size /\ s - k \in Size /\ s - k \in Nat
      /\ mid \in Addr /\ mid \in Int /\ mid + (s - k) = hi /\ r < mid /\ mid < hi
      /\ mid - r = k /\ hi - mid = s - k /\ s - k >= MinChunk
  <2>1. hi \in Addr /\ hi \in Int /\ r \in Int
    BY <1>3 DEF Held
  <2> QED
    BY <2>1, Sizes0 DEF Addr, Size, MinChunk
<1>6. HeadSet(x, w, r, k, TRUE, TRUE)
  BY <1>0, <1>5, HeadIsSet
<1>7. z = SetHead(w, mid, s - k, TRUE, TRUE)
  OBVIOUS
<1> HIDE DEF w, mid, hi
<1>13. w \in State /\ SameButHead(x, w)
  BY <1>6 DEF HeadSet
<1>8. HeadSet(w, z, mid, s - k, TRUE, TRUE)
  BY <1>0, <1>5, <1>7, <1>13, HeadIsSet
<1>9. y.head[hi].pinuse = TRUE
  <2>1. r \in Cells(y) /\ After(y, r) = hi /\ y.head[r].cinuse
    BY <1>2 DEF InUse, After, hi
  <2>2. y.head[r].cinuse = TRUE
    BY <1>2
  <2> QED
    BY <2>1, <2>2 DEF Sound, Layout, Tagged
<1>14. hi = r + s /\ mid = r + k
  BY DEF hi, mid
<1>10. Retiled(y.head, z.head, r, mid, hi, TRUE, TRUE)
  <2>1. \A a \in Addr : a < r \/ hi <= a => z.head[a] = y.head[a]
    <3> SUFFICES ASSUME NEW a \in Addr, a < r \/ hi <= a PROVE z.head[a] = y.head[a]
      OBVIOUS
    <3>1. a \in Int /\ (a < mid \/ mid + (s - k) <= a) /\ (a < r \/ r + k <= a) /\ (a < r \/ r + s <= a)
      <4>1. a \in Int
        BY DEF Addr
      <4> QED
        BY <1>5, <1>14, <4>1
    <3>2. z.head[a] = w.head[a]
      BY <1>8, <3>1 DEF HeadSet
    <3>3. w.head[a] = x.head[a] /\ y.head[a] = x.head[a]
      BY <1>1, <1>6, <3>1 DEF HeadSet
    <3> QED
      BY <3>2, <3>3
  <2>2. \A a \in Addr : r < a /\ a < hi /\ a # mid => z.head[a] = NoHeader
    <3> SUFFICES ASSUME NEW a \in Addr, r < a, a < hi, a # mid PROVE z.head[a] = NoHeader
      OBVIOUS
    <3>1. a \in Int
      BY DEF Addr
    <3>2. CASE a < mid
      <4>1. z.head[a] = w.head[a]
        BY <1>8, <3>2 DEF HeadSet
      <4> QED
        BY <1>6, <1>14, <3>2, <4>1 DEF HeadSet
    <3>3. CASE mid < a
      BY <1>5, <1>8, <3>1, <3>3 DEF HeadSet
    <3>4. a < mid \/ mid < a
      BY <1>5, <3>1
    <3> QED
      BY <3>2, <3>3, <3>4
  <2>3. z.head[r].size = mid - r /\ z.head[r].cinuse = TRUE /\ z.head[r].pinuse = y.head[r].pinuse
    <3>1. z.head[r] = w.head[r]
      BY <1>5, <1>8 DEF HeadSet
    <3> QED
      BY <1>2, <1>5, <1>6, <3>1 DEF HeadSet
  <2>4. z.head[mid].size = hi - mid /\ z.head[mid].cinuse = TRUE /\ z.head[mid].pinuse = TRUE
    BY <1>5, <1>8 DEF HeadSet
  <2>5. z.head[hi] = y.head[hi]
    <3>1. hi <= hi
      BY <1>5
    <3> QED
      BY <1>5, <2>1, <3>1
  <2>6. /\ z.head[hi].size = y.head[hi].size /\ z.head[hi].cinuse = y.head[hi].cinuse
        /\ z.head[hi].pinuse = TRUE
    BY <1>9, <2>5
  <2>7. \A a \in Addr : a < r \/ hi < a => z.head[a] = y.head[a]
    <3>1. \A a \in Addr : hi < a => hi <= a
      BY <1>5 DEF Addr
    <3> QED
      BY <2>1, <3>1
  <2> QED
    BY <1>2, <2>2, <2>3, <2>4, <2>6, <2>7 DEF Retiled
<1>11. Vacant(y, z, r, hi)
  <2>1. SameButHead(y, z)
    BY <1>2, <1>8, <1>13 DEF SameButHead, HeadSet
  <2>2. z \in State
    BY <1>8 DEF HeadSet
  <2> QED
    BY <1>4, <2>1, <2>2, VacantHeads
<1>12. Outcome(y, z, r, mid, hi, TRUE, TRUE)
  <2>1. mid \in Int /\ r < mid /\ mid <= hi /\ mid - r >= MinChunk /\ (mid # hi => hi - mid >= MinChunk)
    BY <1>5
  <2> QED
    BY ONLY Sound(y), <1>2, <1>11, <1>10, <2>1, VacantOutcome
<1> QED
  BY <1>12 DEF mid, hi

Totals == INSTANCE StructureLemmas WITH
    Dom <- LAMBDA sizes : 0 .. Len(sizes),
    Def <- LAMBDA sizes, f, i : IF i = 0 THEN 0 ELSE f[i - 1] + sizes[i],
    Rank <- LAMBDA sizes, i : i, ListHead <- 0

LEMMA TotalFacts ==
    ASSUME NEW sizes \in Seq(Nat)
    PROVE  /\ Total(sizes)[0] = 0
           /\ \A i \in 1 .. Len(sizes) : Total(sizes)[i] = Total(sizes)[i - 1] + sizes[i]
           /\ \A i \in 0 .. Len(sizes) : Total(sizes)[i] \in Nat
<1> DEFINE T == Total(sizes)
           n == Len(sizes)
<1>1. n \in Nat /\ 0 .. n \subseteq Nat /\ \A i \in 1 .. n : sizes[i] \in Nat
  OBVIOUS
<1>2. T = [i \in 0 .. n |-> IF i = 0 THEN 0 ELSE T[i - 1] + sizes[i]]
  <2>1. T = CHOOSE g : g = [i \in 0 .. n |-> IF i = 0 THEN 0 ELSE g[i - 1] + sizes[i]]
    BY DEF Total
  <2>2. Totals!Ranked(sizes) /\ Totals!Local(sizes)
    BY <1>1 DEF Totals!Local, Totals!Ranked
  <2> HIDE DEF T
  <2> QED
    BY ONLY <2>1, <2>2, Totals!RecursiveFunction
<1> HIDE DEF T
<1>3. T[0] = 0 /\ \A i \in 1 .. n : T[i] = T[i - 1] + sizes[i]
  <2>1. \A i \in 0 .. n : T[i] = IF i = 0 THEN 0 ELSE T[i - 1] + sizes[i]
    BY ONLY <1>2
  <2>2. T[0] = 0
    BY ONLY <1>1, <2>1
  <2>3. ASSUME NEW i \in 1 .. n PROVE T[i] = T[i - 1] + sizes[i]
    <3>1. i \in 0 .. n /\ i # 0
      BY ONLY <1>1
    <3> QED
      BY ONLY <2>1, <3>1
  <2> QED
    BY ONLY <2>2, <2>3
<1> DEFINE D == {i \in 0 .. n : T[i] \notin Nat}
<1>4. D = {}
  <2> SUFFICES ASSUME D # {} PROVE FALSE
    OBVIOUS
  <2>1. D \in SUBSET Nat
    BY <1>1
  <2> HIDE DEF D
  <2>2. PICK i \in D : \A j \in D : i <= j
    BY <2>1, MinFacts
  <2>3. i \in 0 .. n /\ T[i] \notin Nat
    BY DEF D
  <2>4. i # 0
    BY <1>3, <2>3
  <2>5. i - 1 \in 0 .. n /\ i - 1 < i /\ i \in 1 .. n
    BY <1>1, <2>3, <2>4
  <2>6. T[i - 1] \in Nat
    BY <2>2, <2>3, <2>5 DEF D
  <2> QED
    BY <1>1, <1>3, <2>3, <2>5, <2>6
<1> QED
  BY <1>3, <1>4 DEF T

(* The state before part i + 1 of parts is cut off chunk p of m, at at[i]. *)
PartsOf(c, f, i) ==
    LET n == Len(c.parts) IN
    IF i = 0 THEN c.m
    ELSE set_size_and_pinuse_of_inuse_chunk(f[i - 1], c.at[i],
            IF i < n THEN c.parts[i] ELSE c.p + c.m.head[c.p].size - c.at[n])

Partings == INSTANCE StructureLemmas WITH
    Dom <- LAMBDA c : 0 .. Len(c.parts), Def <- LAMBDA c, f, i : PartsOf(c, f, i),
    Rank <- LAMBDA c, i : i, ListHead <- 0

(* How Parted comes to its result.                                         *)
PartedBy(m, p, parts, f, at) ==
    /\ Parted(m, p, parts) = [m |-> f[Len(parts)], at |-> at]
    /\ f[0] = m
    /\ \A i \in 1 .. Len(parts) :
          /\ at[i] = p + Total(parts)[i - 1]
          /\ i < Len(parts) => f[i] = SetHead(f[i - 1], at[i], parts[i], TRUE, TRUE)
          /\ i = Len(parts) =>
                f[i] = SetHead(f[i - 1], at[i], p + m.head[p].size - at[i], TRUE, TRUE)

LEMMA PartedFacts ==
    ASSUME NEW m, NEW p, NEW parts \in Seq(Nat)
    PROVE  \E f, at : at = [i \in 1 .. Len(parts) |-> p + Total(parts)[i - 1]] /\ PartedBy(m, p, parts, f, at)
<1> DEFINE n == Len(parts)
           at == [i \in 1 .. n |-> p + Total(parts)[i - 1]]
           c == [m |-> m, p |-> p, parts |-> parts, at |-> at]
           B(g) == [i \in 0 .. n |-> IF i = 0 THEN m
                                     ELSE set_size_and_pinuse_of_inuse_chunk(g[i - 1], at[i],
                                             IF i < n THEN parts[i] ELSE p + m.head[p].size - at[n])]
           f == CHOOSE g : g = B(g)
<1>1. n \in Nat
  OBVIOUS
<1>2. c.m = m /\ c.p = p /\ c.parts = parts /\ c.at = at
  OBVIOUS
<1>3. Parted(m, p, parts) = [m |-> f[n], at |-> at]
  BY DEF Parted
<1>5. at = [i \in 1 .. n |-> p + Total(parts)[i - 1]]
  OBVIOUS
<1>4. f = [i \in 0 .. n |-> PartsOf(c, f, i)]
  <2> HIDE DEF c, at
  <2>1. Partings!Local(c)
    BY <1>1, <1>2 DEF Partings!Local, PartsOf
  <2>2. Partings!Ranked(c)
    BY <1>1, <1>2 DEF Partings!Ranked
  <2>3. PICK g : g = [i \in 0 .. Len(c.parts) |-> PartsOf(c, g, i)]
    BY <2>1, <2>2, Partings!SomeFunction
  <2>4. ASSUME NEW h PROVE [i \in 0 .. n |-> PartsOf(c, h, i)] = B(h)
    BY <1>2 DEF PartsOf
  <2>5. g = B(g)
    <3>1. g = [i \in 0 .. n |-> PartsOf(c, g, i)]
      BY <1>2, <2>3
    <3> HIDE DEF B
    <3> QED
      BY <2>4, <3>1
  <2>6. f = B(f)
    <3> HIDE DEF B
    <3> QED
      BY <2>5
  <2> HIDE DEF f, B
  <2> QED
    BY <2>4, <2>6
<1> HIDE DEF B, f, c, at
<1>6. f[0] = m
  BY <1>1, <1>2, <1>4 DEF PartsOf
<1>7. ASSUME NEW i \in 1 .. n
      PROVE  /\ at[i] = p + Total(parts)[i - 1]
             /\ i < n => f[i] = SetHead(f[i - 1], at[i], parts[i], TRUE, TRUE)
             /\ i = n => f[i] = SetHead(f[i - 1], at[i], p + m.head[p].size - at[i], TRUE, TRUE)
  <2>1. i \in 0 .. n /\ i # 0
    BY <1>1
  <2>2. f[i] = PartsOf(c, f, i)
    BY <1>4, <2>1
  <2>3. at[i] = p + Total(parts)[i - 1]
    BY <1>5
  <2>4. PartsOf(c, f, i) = SetHead(f[i - 1], at[i],
                              IF i < n THEN parts[i] ELSE p + m.head[p].size - at[n], TRUE, TRUE)
    BY <1>2, <2>1 DEF PartsOf, set_size_and_pinuse_of_inuse_chunk
  <2>5. CASE i < n
    <3>1. i # n
      BY <1>1, <2>5
    <3> QED
      BY <2>2, <2>3, <2>4, <2>5, <3>1
  <2>6. CASE i = n
    <3>1. ~(i < n)
      BY <1>1, <2>6
    <3> QED
      BY <2>2, <2>3, <2>4, <2>6, <3>1
  <2> QED
    BY <2>3, <2>5, <2>6
<1>8. PartedBy(m, p, parts, f, at)
  BY <1>3, <1>6, <1>7 DEF PartedBy
<1> QED
  BY <1>5, <1>8

(* Behind the first k of chunk r there is a chunk now.                     *)
Splits(y, z, r, k, s) ==
    /\ z \in State /\ Sound(z) /\ z.seg = y.seg /\ z.footprint = y.footprint
    /\ z.release_checks = y.release_checks
    /\ InUse(z) = InUse(y) \cup {r + k} /\ r + k \notin InUse(y)
    /\ \A a \in InUse(y) : a # r => z.head[a].size = y.head[a].size
    /\ y.head[r].size = s /\ z.head[r].size = k /\ z.head[r + k].size = s - k

LEMMA OnePartSplit ==
    ASSUME NEW x \in State, NEW r \in Addr, NEW s \in Size, NEW k \in Nat, k >= MinChunk, s - k >= MinChunk,
           NEW y, y = SetHead(x, r, s, TRUE, TRUE),
           NEW z, z = SetHead(SetHead(x, r, k, TRUE, TRUE), r + k, s - k, TRUE, TRUE),
           Sound(y), r \in InUse(y), r \notin RecordsOf(y)
    PROVE  Splits(y, z, r, k, s)
<1>1. Outcome(y, z, r, r + k, r + s, TRUE, TRUE)
  BY OnePartMore
<1>2. y \in State /\ y.head[r].size = s
  <2>1. s > 0 /\ TRUE \in BOOLEAN
    BY Sizes0 DEF MinChunk, Size
  <2>2. HeadSet(x, y, r, s, TRUE, TRUE)
    BY <2>1, HeadIsSet
  <2> QED
    BY <2>2 DEF HeadSet
<1>3. Held(y, r, r + s)
  <2>1. Layout(y)
    BY DEF Sound
  <2> QED
    BY <1>2, <2>1, HeldFacts
<1>12. \A a \in InUse(y) : a = r \/ a < r \/ r + s <= a
  <2>1. /\ r \in Int /\ r + s \in Int
        /\ \A a \in Cells(y) : r <= a /\ a < r + s => a = r
    BY <1>3 DEF Held
  <2>2. \A a \in InUse(y) : a \in Int /\ a \in Cells(y)
    BY <1>2, CellInt
  <2> SUFFICES ASSUME NEW a \in InUse(y) PROVE a = r \/ a < r \/ r + s <= a
    OBVIOUS
  <2>3. a \in Int /\ (r <= a /\ a < r + s => a = r)
    BY <2>1, <2>2
  <2> QED
    BY <2>1, <2>3
<1>4. r \in Int /\ s \in Int /\ r < r + k /\ r + k < r + s /\ LastAt(r, r + k, r + s) = r + k
      /\ (r + k) - r = k /\ (r + s) - (r + k) = s - k /\ r + k \in Int
  <2>1. r \in Int /\ s \in Int
    BY DEF Addr, Size
  <2> QED
    BY <2>1 DEF LastAt, MinChunk
<1>6. r + k \notin InUse(y)
  <2>1. r + k # r /\ ~(r + k < r) /\ ~(r + s <= r + k)
    <3>1. r + s \in Int
      BY <1>3 DEF Held
    <3> QED
      BY <1>4, <3>1
  <2> QED
    BY <1>12, <2>1
<1>7. InUse(z) = InUse(y) \cup {r + k}
  <2>1. InUse(z) = {a \in InUse(y) : a < r \/ r + s <= a} \cup {a \in {r} : TRUE} \cup {a \in {r + k} : TRUE}
    BY <1>1, <1>4 DEF Outcome
  <2> QED
    BY <1>12, <2>1
<1>8. \A a \in InUse(y) : a # r => z.head[a].size = y.head[a].size
  BY <1>1, <1>12 DEF Outcome
<1>9. z.head[r].size = k /\ z.head[r + k].size = s - k
  BY <1>1, <1>4 DEF Outcome
<1>10. /\ z \in State /\ Sound(z) /\ z.seg = y.seg /\ z.footprint = y.footprint
       /\ z.release_checks = y.release_checks
  BY <1>1 DEF Outcome
<1> QED
  BY <1>2, <1>6, <1>7, <1>8, <1>9, <1>10 DEF Splits

(* Writing a chunk's header anew changes nothing that matters.             *)
LEMMA SameAgain ==
    ASSUME NEW m \in State, Sound(m), NEW p \in InUse(m), p \notin RecordsOf(m), m.head[p].pinuse,
           NEW s, s = m.head[p].size
    PROVE  Resized(m, s, SetHead(m, p, s, TRUE, TRUE), p)
<1> DEFINE x == SetHead(m, p, s, TRUE, TRUE)
           hi == p + s
<1>1. Held(m, p, hi)
  <2>1. Layout(m)
    BY DEF Sound
  <2> QED
    BY <2>1, HeldFacts
<1>2. Vacant(m, m, p, hi)
  BY <1>1, VacantAlone
<1>3. /\ p \in Addr /\ p \in Int /\ hi \in Addr /\ hi \in Int /\ p < hi /\ hi = p + s /\ hi - p = s
      /\ s \in Nat /\ s >= MinChunk /\ s > 0 /\ s \in Size /\ m.head[p].cinuse = TRUE
      /\ \A a \in Cells(m) : p <= a /\ a < hi => a = p
  <2>1. /\ p \in Addr /\ p \in Int /\ hi \in Addr /\ hi \in Int /\ p < hi /\ hi = p + s
        /\ s \in Nat /\ hi - p >= MinChunk /\ m.head[p].cinuse = TRUE
        /\ \A a \in Cells(m) : p <= a /\ a < hi => a = p
    BY <1>1 DEF Held
  <2>2. p >= 1 /\ hi <= Space
    BY <2>1 DEF Addr
  <2>3. hi - p = s
    BY <2>1
  <2>4. s > 0 /\ s <= Space
    BY <2>1, <2>2, Sizes0
  <2> QED
    BY <2>1, <2>3, <2>4, Sizes0 DEF Size
<1>4. m.head[p].pinuse = TRUE /\ m.head[hi].pinuse = TRUE
  <2>1. p \in Cells(m) /\ After(m, p) = hi
    BY DEF InUse, After
  <2>2. m.head[p].pinuse \in BOOLEAN
    BY <2>1, CellFacts
  <2> QED
    BY <1>3, <2>1, <2>2 DEF Sound, Layout, Tagged
<1>5. HeadSet(m, x, p, s, TRUE, TRUE)
  <2>1. TRUE \in BOOLEAN
    OBVIOUS
  <2> QED
    BY <1>3, <2>1, HeadIsSet
<1> HIDE DEF x, hi
<1>6. Retiled(m.head, x.head, p, hi, hi, TRUE, TRUE)
  <2>1. x.head[hi] = m.head[hi]
    BY <1>3, <1>5 DEF HeadSet
  <2>2. \A a \in Addr : a < p \/ hi < a => x.head[a] = m.head[a]
    <3>1. \A a \in Addr : hi < a => hi <= a
      BY <1>3 DEF Addr
    <3> QED
      BY <1>3, <1>5, <3>1 DEF HeadSet
  <2>3. \A a \in Addr : p < a /\ a < hi /\ a # hi => x.head[a] = NoHeader
    BY <1>3, <1>5 DEF HeadSet
  <2>4. x.head[p].size = hi - p /\ x.head[p].cinuse = TRUE /\ x.head[p].pinuse = TRUE
    BY <1>3, <1>5 DEF HeadSet
  <2>5. x.head[hi].size = m.head[hi].size /\ x.head[hi].cinuse = m.head[hi].cinuse /\ x.head[hi].pinuse = TRUE
    BY <1>4, <2>1
  <2> QED
    BY <1>4, <2>2, <2>3, <2>4, <2>5 DEF Retiled
<1>7. Vacant(m, x, p, hi)
  <2>1. x \in State /\ SameButHead(m, x)
    BY <1>5 DEF HeadSet
  <2> QED
    BY <1>2, <2>1, VacantHeads
<1>8. Outcome(m, x, p, hi, hi, TRUE, TRUE)
  <2>1. hi \in Int /\ p < hi /\ hi <= hi /\ hi - p >= MinChunk /\ (hi # hi => hi - hi >= MinChunk)
    BY <1>3
  <2> QED
    BY ONLY m \in State, Sound(m), <1>6, <1>7, <2>1, VacantOutcome
<1>9. \A a \in InUse(m) : p <= a /\ a < hi => a = p
  BY <1>3 DEF InUse
<1>10. s <= hi - p /\ (hi - p) - s < MinChunk
  BY <1>3 DEF MinChunk
<1>11. Resized(m, s, x, p)
  BY <1>3, <1>8, <1>9, <1>10, WholeResized
<1> QED
  BY <1>11 DEF x

(* Each part takes its place before the next.                              *)
LEMMA TotalGrows ==
    ASSUME NEW sizes \in Seq(Nat), \A i \in 1 .. Len(sizes) : sizes[i] >= MinChunk
    PROVE  \A i \in 1 .. Len(sizes) : \A j \in 0 .. i - 1 : Total(sizes)[j] + sizes[j + 1] <= Total(sizes)[i]
<1> DEFINE T == Total(sizes)
           n == Len(sizes)
           D == {i \in 1 .. n : ~ \A j \in 0 .. i - 1 : T[j] + sizes[j + 1] <= T[i]}
<1>1. n \in Nat /\ T[0] = 0 /\ (\A i \in 1 .. n : T[i] = T[i - 1] + sizes[i]) /\ \A i \in 0 .. n : T[i] \in Nat
  BY TotalFacts
<1>2. \A i \in 1 .. n : sizes[i] \in Nat
  OBVIOUS
<1> HIDE DEF T
<1>3. D = {}
  <2> SUFFICES ASSUME D # {} PROVE FALSE
    OBVIOUS
  <2>1. D \in SUBSET Nat
    BY <1>1
  <2> HIDE DEF D
  <2>2. PICK i \in D : \A j \in D : i <= j
    BY <2>1, MinFacts
  <2>3. i \in 1 .. n /\ ~ \A j \in 0 .. i - 1 : T[j] + sizes[j + 1] <= T[i]
    BY DEF D
  <2>4. PICK j \in 0 .. i - 1 : ~(T[j] + sizes[j + 1] <= T[i])
    BY <2>3
  <2>5. i \in Nat /\ j \in Nat /\ i - 1 \in 0 .. n /\ j \in 0 .. n /\ j + 1 \in 1 .. n
        /\ T[i] = T[i - 1] + sizes[i] /\ T[i - 1] \in Nat /\ sizes[i] \in Nat /\ j <= i - 1
        /\ T[j] \in Nat /\ sizes[j + 1] \in Nat
    <3>1. i \in Nat /\ j \in Nat /\ i - 1 \in 0 .. n /\ j \in 0 .. n /\ j + 1 \in 1 .. n /\ j <= i - 1
      BY <1>1, <2>3
    <3> QED
      BY <1>1, <1>2, <2>3, <3>1
  <2>6. j # i - 1
    <3>1. (i - 1) + 1 = i
      BY <2>5
    <3>2. T[i - 1] + sizes[i] <= T[i]
      BY <2>5
    <3> SUFFICES ASSUME j = i - 1 PROVE FALSE
      OBVIOUS
    <3> QED
      BY <2>4, <3>1, <3>2
  <2>7. i - 1 \in 1 .. n /\ i - 1 < i /\ j \in 0 .. (i - 1) - 1
    BY <1>1, <2>3, <2>5, <2>6
  <2>8. i - 1 \notin D
    BY <2>2, <2>5, <2>7
  <2>9. T[j] + sizes[j + 1] <= T[i - 1]
    BY <2>7, <2>8 DEF D
  <2> QED
    BY <2>4, <2>5, <2>9
<1> QED
  BY <1>3 DEF T

(* Chunk p of m has become the chunks at[1], .. at[k], which lie one       *)
(* behind the other; the last one is what is left.                         *)
Divided(m, p, parts, at, x, k) ==
    /\ x \in State /\ Sound(x) /\ x.seg = m.seg /\ x.footprint = m.footprint
    /\ x.release_checks = m.release_checks
    /\ InUse(x) = InUse(m) \cup {at[j] : j \in 1 .. k}
    /\ \A a \in InUse(m) : a # p => x.head[a].size = m.head[a].size
    /\ \A j \in 1 .. k : x.head[at[j]].size = IF j < k THEN parts[j] ELSE p + m.head[p].size - at[k]

(* What Parted is given.                                                   *)
Partable(m, p, parts) ==
    /\ m \in State /\ Sound(m) /\ p \in InUse(m) /\ p \notin RecordsOf(m) /\ m.head[p].pinuse
    /\ parts \in Seq(Nat) /\ Len(parts) > 0 /\ \A i \in 1 .. Len(parts) : parts[i] >= MinChunk
    /\ Total(parts)[Len(parts)] <= m.head[p].size

LEMMA PartPlaces ==
    ASSUME NEW m, NEW p, NEW parts, Partable(m, p, parts), NEW f, NEW at, PartedBy(m, p, parts, f, at)
    PROVE  /\ p \in Int /\ p \in Addr /\ m.head[p].size \in Nat /\ p + m.head[p].size \in Addr
           /\ Len(parts) \in Nat /\ at[1] = p
           /\ \A i \in 1 .. Len(parts) :
                 /\ at[i] \in Int /\ at[i] \in Addr /\ p <= at[i]
                 /\ p + m.head[p].size - at[i] >= parts[i]
                 /\ parts[i] \in Nat /\ parts[i] >= MinChunk
                 /\ i < Len(parts) => /\ at[i + 1] = at[i] + parts[i]
                                      /\ p + m.head[p].size - at[i + 1] >= MinChunk
           /\ \A i \in 1 .. Len(parts) : \A j \in 1 .. i - 1 : at[j] < at[i]
<1> DEFINE n == Len(parts)
           T == Total(parts)
           s == m.head[p].size
           hi == p + s
<1>1. /\ m \in State /\ Sound(m) /\ p \in InUse(m) /\ p \notin RecordsOf(m)
      /\ parts \in Seq(Nat) /\ n > 0 /\ (\A i \in 1 .. n : parts[i] >= MinChunk) /\ T[n] <= s
  BY DEF Partable
<1>2. Held(m, p, hi)
  <2>1. Layout(m)
    BY <1>1 DEF Sound
  <2> QED
    BY <1>1, <2>1, HeldFacts
<1>3. p \in Int /\ p \in Addr /\ s \in Nat /\ hi \in Addr /\ hi \in Int /\ n \in Nat
  BY <1>1, <1>2 DEF Held
<1>4. T[0] = 0 /\ (\A i \in 1 .. n : T[i] = T[i - 1] + parts[i]) /\ \A i \in 0 .. n : T[i] \in Nat
  BY <1>1, TotalFacts
<1>5. \A i \in 1 .. n : \A j \in 0 .. i - 1 : T[j] + parts[j + 1] <= T[i]
  BY <1>1, TotalGrows
<1>6. \A i \in 1 .. n : parts[i] \in Nat /\ at[i] = p + T[i - 1]
  <2>1. \A i \in 1 .. n : parts[i] \in Nat
    BY <1>1
  <2>2. \A i \in 1 .. n : at[i] = p + T[i - 1]
    BY DEF PartedBy
  <2> QED
    BY <2>1, <2>2
<1>10. T[n] <= s
  BY <1>1
<1> HIDE DEF T, s
<1>7. at[1] = p
  BY <1>1, <1>3, <1>4, <1>6
<1>8. ASSUME NEW i \in 1 .. n
      PROVE  /\ at[i] \in Int /\ at[i] \in Addr /\ p <= at[i]
             /\ p + s - at[i] >= parts[i]
             /\ parts[i] \in Nat /\ parts[i] >= MinChunk
             /\ i < n => at[i + 1] = at[i] + parts[i] /\ p + s - at[i + 1] >= MinChunk
  <2>1. i - 1 \in 0 .. n - 1 /\ i - 1 \in 0 .. n /\ n \in 1 .. n /\ (i - 1) + 1 = i /\ i \in Nat
    BY <1>3
  <2>2. T[i - 1] \in Nat /\ T[n] \in Nat /\ T[i - 1] + parts[i] <= T[n] /\ at[i] = p + T[i - 1]
        /\ parts[i] \in Nat /\ parts[i] >= MinChunk
    BY <1>1, <1>4, <1>5, <1>6, <2>1
  <2>6. ASSUME NEW u \in Nat, NEW v \in Nat, NEW w \in Nat, u + v <= w, w <= s
        PROVE  p + u \in Int /\ p <= p + u /\ p + s - (p + u) >= v
    BY ONLY <1>3, <2>6
  <2>3. at[i] \in Int /\ p <= at[i] /\ p + s - at[i] >= parts[i]
    <3>1. /\ p + T[i - 1] \in Int /\ p <= p + T[i - 1]
          /\ p + s - (p + T[i - 1]) >= parts[i]
      BY ONLY <1>10, <2>2, <2>6
    <3> QED
      BY ONLY <2>2, <3>1
  <2>4. at[i] \in Addr
    <3>1. at[i] <= p + s
      <4>1. at[i] \in Int /\ p + s - at[i] >= parts[i]
        BY ONLY <2>3
      <4>2. parts[i] \in Nat /\ p \in Int /\ s \in Nat
        BY ONLY <1>3, <2>2
      <4> QED
        BY ONLY <4>1, <4>2
    <3> QED
      BY ONLY <1>3, <2>3, <3>1, Sizes0 DEF Addr
  <2>5. CASE i < n
    <3>1. i + 1 \in 1 .. n /\ (i + 1) - 1 = i /\ i \in 0 .. n - 1 /\ i \in 0 .. n
      BY <1>3, <2>1, <2>5
    <3>2. T[i] = T[i - 1] + parts[i] /\ T[i] \in Nat /\ at[i + 1] = p + T[i] /\ T[i] + parts[i + 1] <= T[n]
          /\ parts[i + 1] \in Nat /\ parts[i + 1] >= MinChunk
      BY <1>1, <1>4, <1>5, <1>6, <2>1, <3>1
    <3>4. p \in Int /\ s \in Nat /\ T[n] <= s
      BY <1>3, <1>10
    <3>5. at[i + 1] = at[i] + parts[i]
      BY ONLY <2>2, <3>2, <3>4
    <3>6. p + s - at[i + 1] >= MinChunk
      <4> DEFINE u == T[i]
                 v == parts[i + 1]
                 w == T[n]
      <4>1. u \in Nat /\ v \in Nat /\ w \in Nat /\ u + v <= w /\ w <= s /\ v >= MinChunk /\ p \in Int /\ s \in Nat
        BY <2>2, <3>2, <3>4
      <4>2. at[i + 1] = p + u
        BY <3>2
      <4> HIDE DEF u, v, w
      <4>3. p + s - (p + u) >= MinChunk
        BY ONLY <4>1 DEF MinChunk
      <4> QED
        BY <4>2, <4>3
    <3>3. at[i + 1] = at[i] + parts[i] /\ p + s - at[i + 1] >= MinChunk
      BY <3>5, <3>6
    <3> QED
      BY <2>2, <2>3, <2>4, <3>3
  <2> QED
    BY <2>2, <2>3, <2>4, <2>5
<1>9. ASSUME NEW i \in 1 .. n, NEW j \in 1 .. i - 1 PROVE at[j] < at[i]
  <2>1. j \in 1 .. n /\ i - 1 \in 1 .. n /\ j - 1 \in 0 .. (i - 1) - 1 /\ (j - 1) + 1 = j
        /\ i - 1 \in 0 .. n /\ j - 1 \in 0 .. n
    BY <1>3
  <2>2. T[j - 1] + parts[j] <= T[i - 1] /\ T[j - 1] \in Nat /\ T[i - 1] \in Nat /\ parts[j] \in Nat
        /\ parts[j] >= MinChunk /\ at[j] = p + T[j - 1] /\ at[i] = p + T[i - 1]
    BY <1>1, <1>4, <1>5, <1>6, <2>1
  <2> QED
    BY <1>3, <2>2 DEF MinChunk
<1> QED
  BY <1>3, <1>7, <1>8, <1>9 DEF s

(* Before part i + 1 is cut off, with the rest made a chunk.               *)
PartedSoFar(m, p, parts, f, at, i) ==
    /\ f[i] \in State
    /\ Divided(m, p, parts, at,
               SetHead(f[i], at[i + 1], p + m.head[p].size - at[i + 1], TRUE, TRUE), i + 1)
    /\ \A j \in 2 .. i + 1 : at[j] \notin InUse(m)

LEMMA PartedFirst ==
    ASSUME NEW m, NEW p, NEW parts, Partable(m, p, parts), NEW f, NEW at, PartedBy(m, p, parts, f, at)
    PROVE  PartedSoFar(m, p, parts, f, at, 0)
<1> DEFINE s == m.head[p].size
           x == SetHead(m, p, s, TRUE, TRUE)
<1>1. m \in State /\ Sound(m) /\ p \in InUse(m) /\ p \notin RecordsOf(m) /\ m.head[p].pinuse
  BY DEF Partable
<1>2. p \in Int /\ s \in Nat /\ at[1] = p /\ f[0] = m
  <2>1. p \in Int /\ s \in Nat /\ at[1] = p
    BY PartPlaces
  <2>2. f[0] = m
    BY DEF PartedBy
  <2> QED
    BY <2>1, <2>2
<1>3. Resized(m, s, x, p)
  BY <1>1, SameAgain
<1>4. x.head[p].size = s
  <2>1. Held(m, p, p + s)
    <3>1. Layout(m)
      BY <1>1 DEF Sound
    <3> QED
      BY <1>1, <3>1, HeldFacts
  <2>2. p \in Addr /\ p + s \in Addr /\ s >= MinChunk
    BY <2>1 DEF Held
  <2>3. s \in Size /\ s > 0 /\ TRUE \in BOOLEAN
    BY <1>2, <2>2, Sizes0 DEF Size, Addr, MinChunk
  <2>4. HeadSet(m, x, p, s, TRUE, TRUE)
    BY <1>1, <2>2, <2>3, HeadIsSet
  <2> QED
    BY <2>4 DEF HeadSet
<1> HIDE DEF x
<1>5. Divided(m, p, parts, at, x, 1)
  <2>1. {at[j] : j \in 1 .. 1} = {p}
    BY <1>2
  <2>2. InUse(x) = InUse(m) \cup {at[j] : j \in 1 .. 1}
    BY <1>1, <1>3, <2>1 DEF Resized
  <2>3. p + s - at[1] = s
    BY <1>2
  <2>4. \A j \in 1 .. 1 : x.head[at[j]].size = IF j < 1 THEN parts[j] ELSE p + s - at[1]
    <3> SUFFICES ASSUME NEW j \in 1 .. 1 PROVE x.head[at[j]].size = IF j < 1 THEN parts[j] ELSE p + s - at[1]
      OBVIOUS
    <3>1. j = 1
      OBVIOUS
    <3> QED
      BY <1>2, <1>4, <2>3, <3>1
  <2> QED
    BY <1>3, <2>2, <2>4 DEF Divided, Resized
<1>6. x = SetHead(f[0], at[0 + 1], p + s - at[0 + 1], TRUE, TRUE)
  <2>1. p + s - at[1] = s /\ at[0 + 1] = at[1]
    BY <1>2
  <2> QED
    BY <1>2, <2>1 DEF x
<1>7. 2 .. 0 + 1 = {} /\ 0 + 1 = 1
  OBVIOUS
<1> QED
  BY <1>1, <1>2, <1>5, <1>6, <1>7 DEF PartedSoFar

LEMMA PartedNext ==
    ASSUME NEW m, NEW p, NEW parts, Partable(m, p, parts), NEW f, NEW at, PartedBy(m, p, parts, f, at),
           NEW i \in Nat, i + 2 <= Len(parts), PartedSoFar(m, p, parts, f, at, i)
    PROVE  PartedSoFar(m, p, parts, f, at, i + 1)
<1> DEFINE n  == Len(parts)
           hi == p + m.head[p].size
           h  == i + 1
           r  == at[i + 1]
           s  == p + m.head[p].size - r
           k  == parts[i + 1]
           y  == SetHead(f[i], r, s, TRUE, TRUE)
           q  == at[i + 2]
           z  == SetHead(f[i + 1], q, p + m.head[p].size - q, TRUE, TRUE)
<1>1. m \in State /\ Sound(m) /\ p \in InUse(m) /\ p \notin RecordsOf(m)
  BY DEF Partable
<1>2. n \in Nat /\ h \in 1 .. n /\ i + 2 \in 1 .. n /\ h < n /\ h + 1 = i + 2 /\ h - 1 = i
  BY PartPlaces
<1>3. /\ p \in Int /\ p \in Addr /\ m.head[p].size \in Nat /\ hi \in Addr /\ at[1] = p
      /\ r \in Int /\ r \in Addr /\ p <= r /\ k \in Nat /\ k >= MinChunk
      /\ q = r + k /\ p + m.head[p].size - q >= MinChunk
      /\ s >= k
      /\ \A j \in 1 .. h : at[j] < q
  <2>1. /\ at[h] \in Int /\ at[h] \in Addr /\ p <= at[h] /\ p + m.head[p].size - at[h] >= parts[h]
        /\ parts[h] \in Nat /\ parts[h] >= MinChunk
        /\ at[h + 1] = at[h] + parts[h] /\ p + m.head[p].size - at[h + 1] >= MinChunk
    BY <1>2, PartPlaces
  <2>2. \A j \in 1 .. (i + 2) - 1 : at[j] < at[i + 2]
    BY <1>2, PartPlaces
  <2>3. (i + 2) - 1 = h
    OBVIOUS
  <2>4. p \in Int /\ p \in Addr /\ m.head[p].size \in Nat /\ hi \in Addr /\ at[1] = p
    BY PartPlaces
  <2> QED
    BY <1>2, <2>1, <2>2, <2>3, <2>4
<1>4. s \in Size /\ s - k = p + m.head[p].size - q /\ s - k >= MinChunk /\ s = hi - r
  <2> DEFINE t == m.head[p].size
  <2>1. p >= 1 /\ hi <= Space /\ p \in Int /\ t \in Nat /\ r \in Int /\ p <= r /\ k \in Nat /\ k >= MinChunk
        /\ q = r + k /\ p + t - q >= MinChunk /\ s = p + t - r /\ hi = p + t /\ Space \in Nat
    BY <1>3, Sizes0 DEF Addr
  <2> HIDE DEF t, hi, s, q, k, r
  <2> QED
    BY ONLY <2>1 DEF t, Size, MinChunk
<1>5. f[i] \in State /\ Divided(m, p, parts, at, y, h) /\ \A j \in 2 .. h : at[j] \notin InUse(m)
  BY DEF PartedSoFar
<1>6. f[i + 1] = SetHead(f[i], r, k, TRUE, TRUE)
  <2>1. f[h] = SetHead(f[h - 1], at[h], parts[h], TRUE, TRUE)
    BY <1>2 DEF PartedBy
  <2> QED
    BY <1>2, <2>1
<1>7. r \in InUse(y) /\ r \notin RecordsOf(y) /\ Sound(y) /\ y.seg = m.seg
  <2>1. Sound(y) /\ y.seg = m.seg /\ InUse(y) = InUse(m) \cup {at[j] : j \in 1 .. h}
    BY <1>5 DEF Divided
  <2>2. RecordsOf(y) = RecordsOf(m)
    BY <2>1 DEF RecordsOf
  <2>3. RecordsOf(m) \subseteq InUse(m)
    BY <1>1 DEF Sound, Layout, InUse
  <2>4. r \notin RecordsOf(m)
    <3>1. CASE h = 1
      BY <1>1, <1>3, <3>1
    <3>2. CASE h # 1
      <4>1. h \in 2 .. h
        BY <1>2, <3>2
      <4> QED
        BY <1>5, <2>3, <4>1
    <3> QED
      BY <3>1, <3>2
  <2>5. h \in 1 .. h
    BY <1>2
  <2>6. r \in InUse(y)
    BY <2>1, <2>5
  <2> QED
    BY <2>1, <2>2, <2>4, <2>6
<1>8. z = SetHead(SetHead(f[i], r, k, TRUE, TRUE), r + k, s - k, TRUE, TRUE)
  BY <1>3, <1>4, <1>6
<1>9. y = SetHead(f[i], r, s, TRUE, TRUE)
  OBVIOUS
<1>10. f[i + 1] \in State
  <2>1. k \in Size /\ k > 0 /\ TRUE \in BOOLEAN
    <3>1. k <= s /\ s <= Space /\ k \in Nat /\ k > 0
      <4>1. s <= Space
        BY <1>4 DEF Size
      <4> QED
        BY <1>3, <4>1 DEF MinChunk
    <3> QED
      BY <1>4, <3>1, Sizes0 DEF Size
  <2>2. HeadSet(f[i], f[i + 1], r, k, TRUE, TRUE)
    <3>1. f[i] \in State /\ r \in Addr
      BY <1>3, <1>5
    <3> HIDE DEF r, k
    <3>2. HeadSet(f[i], SetHead(f[i], r, k, TRUE, TRUE), r, k, TRUE, TRUE)
      BY ONLY <2>1, <3>1, HeadIsSet
    <3> QED
      BY <1>6, <3>2
  <2> QED
    BY <2>2 DEF HeadSet
<1> HIDE DEF y, z, s, k, r, q
<1>11. Splits(y, z, r, k, s)
  <2>1. f[i] \in State /\ r \in Addr /\ s \in Size /\ k \in Nat /\ k >= MinChunk /\ s - k >= MinChunk
    BY <1>3, <1>4, <1>5
  <2>2. Sound(y) /\ r \in InUse(y) /\ r \notin RecordsOf(y)
    BY <1>7
  <2> QED
    BY ONLY <1>8, <1>9, <2>1, <2>2, OnePartSplit
<1>12. q \notin InUse(m) /\ InUse(z) = InUse(m) \cup {at[j] : j \in 1 .. h + 1}
  <2>1. InUse(z) = InUse(y) \cup {q} /\ q \notin InUse(y)
    BY <1>3, <1>11 DEF Splits
  <2>2. InUse(y) = InUse(m) \cup {at[j] : j \in 1 .. h}
    BY <1>5 DEF Divided
  <2>3. 1 .. h + 1 = (1 .. h) \cup {h + 1}
    BY <1>2
  <2>4. q = at[h + 1]
    BY <1>2 DEF q
  <2> HIDE DEF h
  <2> QED
    BY <2>1, <2>2, <2>3, <2>4
<1>13. /\ z \in State /\ Sound(z) /\ z.seg = m.seg /\ z.footprint = m.footprint
       /\ z.release_checks = m.release_checks
  BY <1>5, <1>11 DEF Splits, Divided
<1>14. \A a \in InUse(m) : a # p => z.head[a].size = m.head[a].size
  <2>1. \A a \in InUse(m) : a # p => a # r
    <3>1. CASE h = 1
      BY <1>3, <3>1 DEF r
    <3>2. CASE h # 1
      <4>1. h \in 2 .. h
        BY <1>2, <3>2
      <4> QED
        BY <1>5, <4>1 DEF r
    <3> QED
      BY <3>1, <3>2
  <2>2. \A a \in InUse(m) : a \in InUse(y) /\ (a # p => y.head[a].size = m.head[a].size)
    BY <1>5 DEF Divided
  <2>3. \A a \in InUse(y) : a # r => z.head[a].size = y.head[a].size
    BY <1>11 DEF Splits
  <2> QED
    BY <2>1, <2>2, <2>3
<1>15. ASSUME NEW j \in 1 .. h + 1
       PROVE  z.head[at[j]].size = IF j < h + 1 THEN parts[j] ELSE p + m.head[p].size - at[h + 1]
  <2>1. CASE j = h + 1
    <3>1. at[j] = r + k /\ at[h + 1] = q /\ q = r + k
      BY <1>2, <1>3, <2>1 DEF q
    <3>2. z.head[r + k].size = s - k
      BY <1>11 DEF Splits
    <3>3. ~(j < h + 1)
      BY <1>2, <2>1
    <3> QED
      BY <1>4, <3>1, <3>2, <3>3
  <2>2. CASE j = h
    <3>1. z.head[r].size = k
      BY <1>11 DEF Splits
    <3>2. j < h + 1
      BY <1>2, <2>2
    <3>3. at[j] = r /\ parts[j] = k
      BY <2>2 DEF r, k
    <3> QED
      BY <3>1, <3>2, <3>3
  <2>3. CASE j < h
    <3>1. j \in 1 .. h /\ j < h + 1 /\ j \in 1 .. h - 1
      BY <1>2, <2>3
    <3>2. y.head[at[j]].size = parts[j]
      BY <1>5, <2>3, <3>1 DEF Divided
    <3>3. at[j] # r
      <4>1. at[j] < at[h]
        BY <1>2, <3>1, PartPlaces
      <4>2. at[h] = r
        BY DEF r
      <4>3. at[j] \in Int
        <5>1. j \in 1 .. n
          BY <1>2, <3>1
        <5> QED
          BY <5>1, PartPlaces
      <4> QED
        BY <1>3, <4>1, <4>2, <4>3
    <3>4. at[j] \in InUse(y)
      BY <1>5, <3>1 DEF Divided
    <3>5. z.head[at[j]].size = y.head[at[j]].size
      BY <1>11, <3>3, <3>4 DEF Splits
    <3> QED
      BY <3>1, <3>2, <3>5
  <2> QED
    BY <1>2, <2>1, <2>2, <2>3
<1>16. Divided(m, p, parts, at, z, h + 1)
  BY <1>12, <1>13, <1>14, <1>15 DEF Divided
<1>17. \A j \in 2 .. h + 1 : at[j] \notin InUse(m)
  <2> SUFFICES ASSUME NEW j \in 2 .. h + 1 PROVE at[j] \notin InUse(m)
    OBVIOUS
  <2>1. CASE j = h + 1
    BY <1>2, <1>12, <2>1 DEF q
  <2>2. CASE j # h + 1
    <3>1. j \in 2 .. h
      BY <1>2, <2>2
    <3> QED
      BY <1>5, <3>1
  <2> QED
    BY <2>1, <2>2
<1>18. z = SetHead(f[h], at[h + 1], p + m.head[p].size - at[h + 1], TRUE, TRUE)
  BY <1>2 DEF z, q
<1> QED
  BY <1>10, <1>16, <1>17, <1>18 DEF PartedSoFar

LEMMA PartedSo ==
    ASSUME NEW m, NEW p, NEW parts, Partable(m, p, parts), NEW f, NEW at, PartedBy(m, p, parts, f, at),
           NEW i \in 0 .. Len(parts) - 1
    PROVE  PartedSoFar(m, p, parts, f, at, i)
<1> DEFINE n == Len(parts)
           D == {j \in 0 .. n - 1 : ~PartedSoFar(m, p, parts, f, at, j)}
<1>1. n \in Nat
  BY PartPlaces
<1> SUFFICES D = {}
  OBVIOUS
<1> SUFFICES ASSUME D # {} PROVE FALSE
  OBVIOUS
<1>2. D \in SUBSET Nat
  BY <1>1
<1> HIDE DEF D
<1>3. PICK j \in D : \A k \in D : j <= k
  BY <1>2, MinFacts
<1>4. j \in 0 .. n - 1 /\ ~PartedSoFar(m, p, parts, f, at, j)
  BY DEF D
<1>5. j # 0
  BY <1>4, PartedFirst
<1>6. j - 1 \in Nat /\ j - 1 \in 0 .. n - 1 /\ (j - 1) + 2 <= n /\ (j - 1) + 1 = j /\ ~(j <= j - 1)
  BY <1>1, <1>4, <1>5
<1>7. PartedSoFar(m, p, parts, f, at, j - 1)
  BY <1>3, <1>6 DEF D
<1>8. PartedSoFar(m, p, parts, f, at, (j - 1) + 1)
  BY <1>6, <1>7, PartedNext
<1> QED
  BY <1>4, <1>6, <1>8

(* What ialloc owes: p has become chunks that hold the parts, and all else *)
(* is as it was.                                                           *)
Parts(m, p, parts, d) ==
    LET n == Len(parts) IN
    /\ Divided(m, p, parts, d.at, d.m, n)
    /\ DOMAIN d.at = 1 .. n /\ d.at[1] = p
    /\ \A i \in 1 .. n : d.at[i] \in Addr
    /\ \A i \in 2 .. n : d.at[i] \notin InUse(m)
    /\ \A i, j \in 1 .. n : i # j => d.at[i] # d.at[j]
    /\ \A i \in 1 .. n :
          /\ parts[i] <= d.m.head[d.at[i]].size
          /\ m.head[p].size < Total(parts)[n] + MinChunk => d.m.head[d.at[i]].size < parts[i] + MinChunk

(* ialloc, dlmalloc.c:3606: the aggregate chunk is divided into chunks in  *)
(* use, one for each element, and nothing else changes.                    *)
THEOREM PartedDivides ==
    ASSUME NEW m, NEW p, NEW parts, Partable(m, p, parts)
    PROVE  Parts(m, p, parts, Parted(m, p, parts))
<1> DEFINE n == Len(parts)
           d == Parted(m, p, parts)
           T == Total(parts)
           s == m.head[p].size
<1>1. parts \in Seq(Nat)
  BY DEF Partable
<1>2. PICK f, at : at = [i \in 1 .. n |-> p + T[i - 1]] /\ PartedBy(m, p, parts, f, at)
  BY <1>1, PartedFacts
<1>3. d.m = f[n] /\ d.at = at
  BY <1>2 DEF PartedBy
<1>4. n \in Nat /\ n > 0 /\ p \in Int /\ s \in Nat /\ at[1] = p
  <2>1. n > 0
    BY DEF Partable
  <2> QED
    BY <1>2, <2>1, PartPlaces
<1>5. n - 1 \in 0 .. n - 1 /\ (n - 1) + 1 = n /\ n \in 1 .. n
  BY <1>4
<1>6. PartedSoFar(m, p, parts, f, at, n - 1)
  BY <1>2, <1>5, PartedSo
<1>7. f[n] = SetHead(f[n - 1], at[n], p + s - at[n], TRUE, TRUE)
  BY <1>2, <1>5 DEF PartedBy
<1>8. Divided(m, p, parts, at, f[n], n) /\ \A j \in 2 .. n : at[j] \notin InUse(m)
  BY <1>5, <1>6, <1>7 DEF PartedSoFar
<1>9. \A i \in 1 .. n : at[i] \in Addr /\ at[i] \in Int /\ parts[i] \in Nat
  BY <1>2, PartPlaces
<1>10. \A i, j \in 1 .. n : i # j => at[i] # at[j]
  <2> SUFFICES ASSUME NEW i \in 1 .. n, NEW j \in 1 .. n, i # j PROVE at[i] # at[j]
    OBVIOUS
  <2>1. at[i] \in Int /\ at[j] \in Int
    BY <1>9
  <2>2. CASE j < i
    <3>1. j \in 1 .. i - 1
      BY <1>4, <2>2
    <3>2. at[j] < at[i]
      BY <1>2, <3>1, PartPlaces
    <3> QED
      BY <2>1, <3>2
  <2>3. CASE i < j
    <3>1. i \in 1 .. j - 1
      BY <1>4, <2>3
    <3>2. at[i] < at[j]
      BY <1>2, <3>1, PartPlaces
    <3> QED
      BY <2>1, <3>2
  <2>4. j < i \/ i < j
    BY <1>4
  <2> QED
    BY <2>2, <2>3, <2>4
<1>11. ASSUME NEW i \in 1 .. n
       PROVE  /\ parts[i] <= f[n].head[at[i]].size
              /\ s < T[n] + MinChunk => f[n].head[at[i]].size < parts[i] + MinChunk
  <2>1. parts[i] \in Nat
    BY <1>9
  <2>2. f[n].head[at[i]].size = IF i < n THEN parts[i] ELSE p + s - at[n]
    BY <1>8 DEF Divided
  <2>3. CASE i < n
    BY <2>1, <2>2, <2>3 DEF MinChunk
  <2>4. CASE i = n
    <3> DEFINE u == T[n - 1]
               v == parts[n]
    <3>1. at[n] = p + u /\ T[n] = u + v
      <4>1. T[n] = T[n - 1] + parts[n]
        BY <1>1, <1>5, TotalFacts
      <4> HIDE DEF T
      <4> QED
        BY <1>2, <1>5, <4>1
    <3>2. u \in Nat /\ v \in Nat /\ T[n] <= s
      <4>1. T[n - 1] \in Nat
        <5>1. n - 1 \in 0 .. n
          BY <1>4
        <5> QED
          BY <1>1, <5>1, TotalFacts
      <4> QED
        BY <1>9, <1>5, <4>1 DEF Partable
    <3>3. f[n].head[at[i]].size = p + s - (p + u) /\ parts[i] = v
      <4>1. ~(i < n)
        BY <1>4, <2>4
      <4> QED
        BY <2>2, <2>4, <3>1, <4>1
    <3> HIDE DEF u, v, T, s
    <3>4. p + s - (p + u) = s - u
      BY ONLY <1>4, <3>2
    <3>5. v <= s - u /\ (s < (u + v) + MinChunk => s - u < v + MinChunk)
      <4>1. s \in Nat /\ u \in Nat /\ v \in Nat /\ u + v <= s
        BY <1>4, <3>1, <3>2
      <4> QED
        BY ONLY <4>1 DEF MinChunk
    <3> QED
      BY <3>1, <3>3, <3>4, <3>5
  <2> QED
    BY <1>4, <2>3, <2>4
<1>12. DOMAIN at = 1 .. n
  BY <1>2
<1> HIDE DEF d, T, s
<1> QED
  BY <1>3, <1>4, <1>8, <1>9, <1>10, <1>11, <1>12 DEF Parts, d, T, s

-----------------------------------------------------------------------------
(* Alignment.                                                              *)

LEMMA RoundUpFacts ==
    ASSUME NEW n \in Nat, NEW u \in Nat, u > 0
    PROVE  /\ RoundUp(n, u) \in Nat /\ n <= RoundUp(n, u) /\ RoundUp(n, u) < n + u
           /\ \E k \in Nat : RoundUp(n, u) = k * u
<1> DEFINE k == (n + u - 1) \div u
<1>1. n + u - 1 \in Nat
  OBVIOUS
<1>2. k \in Nat
  BY <1>1
<1>3. k * u <= n + u - 1 /\ n + u - 1 < k * u + u /\ k * u \in Nat
  BY <1>1
<1>4. RoundUp(n, u) = k * u
  BY DEF RoundUp
<1> HIDE DEF k
<1> QED
  BY <1>2, <1>3, <1>4

(* In a chunk in use, the part before q has become a chunk of its own.     *)
LEMMA LeadHeld ==
    ASSUME NEW m \in State, Sound(m), NEW p \in InUse(m), p \notin RecordsOf(m),
           NEW hi, hi = p + m.head[p].size, NEW q \in Int, q - p >= MinChunk, hi - q >= MinChunk,
           NEW s, s = hi - q, NEW t, t = q - p
    PROVE  Outcome(m, set_inuse(set_inuse(m, q, s), p, t), p, q, hi, TRUE, TRUE)
<1> DEFINE y == set_inuse(m, q, s)
           x == set_inuse(y, p, t)
<1>1. Held(m, p, hi)
  <2>1. Layout(m)
    BY DEF Sound
  <2> QED
    BY <2>1, HeldFacts
<1>2. Vacant(m, m, p, hi)
  BY <1>1, VacantAlone
<1>3. p \in Addr /\ p \in Int /\ hi \in Addr /\ hi \in Int /\ p < hi
  BY <1>1 DEF Held
<1>4. /\ q \in Addr /\ p < q /\ q < hi /\ s \in Nat /\ s > 0 /\ s \in Size /\ t \in Nat /\ t > 0 /\ t \in Size
      /\ q + s = hi /\ q = p + t /\ p + t = q
  BY <1>3, Sizes0 DEF Addr, Size, MinChunk
<1>5. WritesInuse(m, y, q, s, m.head[q].pinuse)
  <2>1. q + s \in Addr
    BY <1>3, <1>4
  <2> QED
    BY <1>4, <2>1, InuseWritten
<1> HIDE DEF y
<1>6. /\ Written(m, y, q, s, TRUE, m.head[q].pinuse) /\ y.head[hi].pinuse = TRUE
      /\ y \in State /\ SameButHead(m, y) /\ y.head[p] = m.head[p]
  BY <1>3, <1>4, <1>5 DEF WritesInuse, Written
<1>7. WritesInuse(y, x, p, t, y.head[p].pinuse)
  <2>1. p + t \in Addr
    BY <1>4
  <2> QED
    BY <1>3, <1>4, <1>6, <2>1, InuseWritten
<1> HIDE DEF x
<1>8. /\ Written(y, x, p, t, TRUE, m.head[p].pinuse) /\ x.head[q].pinuse = TRUE
      /\ x \in State /\ SameButHead(y, x)
  BY <1>4, <1>6, <1>7 DEF WritesInuse, Written
<1>9. x.head[hi].pinuse = TRUE
  <2>1. p + t < hi
    BY <1>4
  <2> QED
    BY <1>3, <1>6, <1>8, <2>1 DEF Written
<1>10. Retiled(m.head, x.head, p, q, hi, TRUE, TRUE)
  <2>1. TRUE \in BOOLEAN /\ hi = q + s
    BY <1>4
  <2> QED
    BY <1>3, <1>4, <1>6, <1>8, <1>9, <2>1, TwoRetiledBack
<1>11. Vacant(m, x, p, hi)
  <2>1. Vacant(m, y, p, hi)
    BY <1>2, <1>6, VacantHeads
  <2> QED
    BY <1>8, <2>1, VacantHeads
<1>12. Outcome(m, x, p, q, hi, TRUE, TRUE)
  <2>1. q \in Int /\ p < q /\ q <= hi /\ q - p >= MinChunk /\ (q # hi => hi - q >= MinChunk)
    BY <1>3, <1>4
  <2> QED
    BY ONLY m \in State, Sound(m), <1>10, <1>11, <2>1, VacantOutcome
<1> QED
  BY <1>12 DEF x, y

(* What a call owes that gives back the space before q in chunk p.         *)
Moved(m, m2, p, q) ==
    /\ m2 \in State /\ Sound(m2) /\ m2.seg = m.seg /\ m2.footprint = m.footprint
    /\ m2.release_checks = m.release_checks
    /\ q \notin InUse(m) /\ InUse(m2) = (InUse(m) \ {p}) \cup {q}
    /\ \A a \in InUse(m) : a # p => m2.head[a].size = m.head[a].size
    /\ m2.head[q].size = p + m.head[p].size - q

LEMMA LeadFreed ==
    ASSUME NEW m \in State, Sound(m), NEW p \in InUse(m), p \notin RecordsOf(m),
           NEW q \in Int, q - p >= MinChunk, NEW s, s = m.head[p].size - (q - p), s >= MinChunk
    PROVE  Moved(m, dispose_chunk(set_inuse(set_inuse(m, q, s), p, q - p), p, q - p), p, q)
<1> DEFINE hi == p + m.head[p].size
           t == q - p
           x == set_inuse(set_inuse(m, q, s), p, t)
           m2 == dispose_chunk(x, p, t)
<1>1. Held(m, p, hi)
  <2>1. Layout(m)
    BY DEF Sound
  <2> QED
    BY <2>1, HeldFacts
<1>2. p \in Addr /\ p \in Int /\ hi \in Addr /\ hi \in Int /\ p < hi /\ m.head[p].size \in Nat
      /\ \A a \in Cells(m) : p <= a /\ a < hi => a = p
  BY <1>1 DEF Held
<1>3. /\ p < q /\ q < hi /\ s = hi - q /\ hi - q >= MinChunk /\ p + m.head[p].size - q = s
      /\ LastAt(p, q, hi) = q /\ q \in Addr
  <2>1. m.head[p].size \in Int /\ s = hi - q /\ p + m.head[p].size - q = s
    <3> DEFINE z == m.head[p].size
    <3>1. z \in Nat /\ p \in Int /\ q \in Int /\ s = z - (q - p) /\ hi = p + z
      BY <1>2
    <3> HIDE DEF z, hi
    <3>2. z \in Int /\ s = hi - q /\ p + z - q = s
      BY ONLY <3>1
    <3> QED
      BY <3>2 DEF z
  <2>2. p < q /\ q < hi
    <3>1. q - p >= MinChunk /\ s >= MinChunk /\ s = hi - q /\ p \in Int /\ q \in Int /\ hi \in Int
      BY <1>2, <2>1
    <3> HIDE DEF hi
    <3> QED
      BY ONLY <3>1 DEF MinChunk
  <2>3. hi - q >= MinChunk
    BY <2>1
  <2>4. LastAt(p, q, hi) = q
    BY <1>2, <2>2 DEF LastAt
  <2>5. q \in Addr
    <3>1. p \in Addr /\ hi \in Addr
      BY <1>2
    <3> HIDE DEF hi
    <3> QED
      BY <2>2, <3>1, Sizes0 DEF Addr
  <2> QED
    BY <2>1, <2>2, <2>3, <2>4, <2>5
<1> HIDE DEF t
<1>4. Outcome(m, x, p, q, hi, TRUE, TRUE)
  <2>1. hi = p + m.head[p].size /\ t = q - p
    BY DEF t
  <2> HIDE DEF hi
  <2> QED
    BY <1>3, <2>1, LeadHeld
<1> HIDE DEF x, hi
<1>5. \A a \in InUse(m) : a = p \/ a < p \/ hi <= a
  <2> SUFFICES ASSUME NEW a \in InUse(m) PROVE a = p \/ a < p \/ hi <= a
    OBVIOUS
  <2>1. a \in Int /\ a \in Cells(m)
    BY CellInt
  <2> QED
    BY <1>2, <2>1
<1>6. q \notin InUse(m)
  BY <1>2, <1>3, <1>5
<1>7. InUse(x) = InUse(m) \cup {q}
  <2>1. InUse(x) = {a \in InUse(m) : a < p \/ hi <= a} \cup {a \in {p} : TRUE} \cup {a \in {q} : TRUE}
    BY <1>3, <1>4 DEF Outcome
  <2> QED
    BY <1>5, <2>1
<1>8. x \in State /\ Sound(x) /\ x.head[p].size = t /\ x.head[q].size = s /\ x.seg = m.seg
      /\ x.footprint = m.footprint /\ x.release_checks = m.release_checks
  BY <1>3, <1>4 DEF Outcome, t
<1>9. p \in InUse(x) /\ p \notin RecordsOf(x)
  <2>1. RecordsOf(x) = RecordsOf(m)
    BY <1>8 DEF RecordsOf
  <2> QED
    BY <1>7, <2>1
<1>10. Freed(x, m2, p)
  BY <1>8, <1>9, DisposeFrees
<1> HIDE DEF m2
<1>11. p # q
  BY <1>2, <1>3
<1>12. InUse(m2) = (InUse(m) \ {p}) \cup {q}
  BY <1>7, <1>10, <1>11 DEF Freed
<1>13. \A a \in InUse(m) : a # p => m2.head[a].size = m.head[a].size
  <2>1. \A a \in InUse(m) : a # p => x.head[a].size = m.head[a].size
    BY <1>4, <1>5 DEF Outcome
  <2> QED
    BY <1>10, <1>12, <2>1 DEF Freed
<1>14. m2.head[q].size = s
  BY <1>8, <1>10, <1>12 DEF Freed
<1>15. Moved(m, m2, p, q)
  BY <1>3, <1>6, <1>8, <1>10, <1>12, <1>13, <1>14 DEF Moved, Freed
<1> QED
  BY <1>15 DEF m2, x, t

(* Where the block of a call with an alignment starts.                     *)
AlignedAt(p, alignment) ==
    LET br == RoundUp(p + 1, alignment) - 1
    IN  IF br = p \/ br - p >= MinChunk THEN br ELSE br + alignment

LEMMA AlignedAtFacts ==
    ASSUME NEW p \in Addr, NEW al \in Nat, al >= MinChunk
    PROVE  /\ AlignedAt(p, al) \in Int
           /\ AlignedAt(p, al) = p \/ AlignedAt(p, al) - p >= MinChunk
           /\ AlignedAt(p, al) - p < al + MinChunk
           /\ \E k \in Nat : AlignedAt(p, al) + 1 = k * al
<1> DEFINE u == RoundUp(p + 1, al)
           q == AlignedAt(p, al)
<1>1. p \in Int /\ p + 1 \in Nat /\ al > 0
  BY DEF Addr, MinChunk
<1>2. u \in Nat /\ p + 1 <= u /\ u < p + 1 + al /\ \E k \in Nat : u = k * al
  BY <1>1, RoundUpFacts
<1>3. q = IF u - 1 = p \/ u - 1 - p >= MinChunk THEN u - 1 ELSE u - 1 + al
  BY <1>1, <1>2 DEF AlignedAt
<1> HIDE DEF u, q
<1>4. q \in Int /\ (q = p \/ q - p >= MinChunk) /\ q - p < al + MinChunk
  BY <1>1, <1>2, <1>3 DEF MinChunk
<1>5. \E k \in Nat : q + 1 = k * al
  <2>1. PICK k \in Nat : u = k * al
    BY <1>2
  <2>2. q + 1 = u \/ q + 1 = u + al
    BY <1>1, <1>2, <1>3
  <2>3. (k + 1) * al = k * al + al /\ k + 1 \in Nat
    OBVIOUS
  <2> QED
    BY <2>1, <2>2, <2>3
<1> QED
  BY <1>4, <1>5 DEF q

(* What memalign owes once it has chunk p: the heap is sound, the block is *)
(* aligned and of the size asked for, or two units more, and all else is   *)
(* as it was.                                                              *)
Placed(m, alignment, nb, m2, p, q) ==
    /\ m2 \in State /\ Sound(m2) /\ m2.seg = m.seg /\ m2.footprint = m.footprint
    /\ m2.release_checks = m.release_checks
    /\ q \in Addr /\ (q = p \/ q \notin InUse(m)) /\ InUse(m2) = (InUse(m) \ {p}) \cup {q}
    /\ \A a \in InUse(m) : a # p => m2.head[a].size = m.head[a].size
    /\ nb <= m2.head[q].size /\ m2.head[q].size <= nb + MinChunk
    /\ \E k \in Nat : q + 1 = k * alignment

(* internal_memalign, dlmalloc.c:3525: of the larger chunk that was taken  *)
(* one is left that is aligned and of the size asked for; the rest is free.*)
THEOREM AlignedPlaces ==
    ASSUME NEW m \in State, Sound(m), NEW p \in InUse(m), p \notin RecordsOf(m),
           NEW al \in Nat, al >= MinChunk, NEW nb \in Nat, nb >= MinChunk,
           nb + al + MinChunk <= m.head[p].size
    PROVE  Placed(m, al, nb, Aligned(m, p, al, nb).m, p, Aligned(m, p, al, nb).mem)
<1> DEFINE q == AlignedAt(p, al)
           s == m.head[p].size - (q - p)
           trimmed == IF q = p THEN m
                      ELSE dispose_chunk(set_inuse(set_inuse(m, q, s), p, q - p), p, q - p)
           cut(x) == dispose_chunk(set_inuse(set_inuse(x, q, nb), q + nb, s - nb), q + nb, s - nb)
           r == Aligned(m, p, al, nb)
<1>1. r = IF s <= nb + MinChunk THEN [m |-> trimmed, mem |-> q] ELSE [m |-> cut(trimmed), mem |-> q]
  BY DEF Aligned, AlignedAt, Found
<1>2. Held(m, p, p + m.head[p].size)
  <2>1. Layout(m)
    BY DEF Sound
  <2> QED
    BY <2>1, HeldFacts
<1>3. p \in Addr /\ p \in Int /\ m.head[p].size \in Nat
  BY <1>2 DEF Held
<1>4. /\ q \in Int /\ (q = p \/ q - p >= MinChunk) /\ q - p < al + MinChunk
      /\ \E k \in Nat : q + 1 = k * al
  BY <1>3, AlignedAtFacts
<1>5. s \in Int /\ nb < s /\ s >= MinChunk
  <2> DEFINE z == m.head[p].size
  <2>1. z \in Nat /\ nb + al + MinChunk <= z /\ s = z - (q - p)
    BY <1>3
  <2> HIDE DEF z, s, q
  <2> QED
    BY <1>3, <1>4, <2>1 DEF MinChunk
<1>13. p # q => s = m.head[p].size - (q - p)
  OBVIOUS
<1> HIDE DEF q, s, r
<1>6. /\ trimmed \in State /\ Sound(trimmed) /\ trimmed.seg = m.seg /\ trimmed.footprint = m.footprint
      /\ trimmed.release_checks = m.release_checks
      /\ (q = p \/ q \notin InUse(m)) /\ InUse(trimmed) = (InUse(m) \ {p}) \cup {q}
      /\ \A a \in InUse(m) : a # p => trimmed.head[a].size = m.head[a].size
      /\ trimmed.head[q].size = s
  <2>1. CASE q = p
    <3>1. s = m.head[p].size
      BY <1>3, <2>1 DEF s
    <3> QED
      BY <2>1, <3>1
  <2>2. CASE q # p
    <3>1. q - p >= MinChunk /\ s = m.head[p].size - (q - p)
      BY <1>4, <1>13, <2>2
    <3>2. Moved(m, dispose_chunk(set_inuse(set_inuse(m, q, s), p, q - p), p, q - p), p, q)
      BY <1>4, <1>5, <3>1, LeadFreed
    <3>3. Moved(m, trimmed, p, q)
      BY <2>2, <3>2
    <3>4. p + m.head[p].size - q = s
      BY <1>3, <1>4, <3>1
    <3> HIDE DEF trimmed
    <3> QED
      BY <3>3, <3>4 DEF Moved
  <2> QED
    BY <2>1, <2>2
<1>7. q \in InUse(trimmed) /\ q \notin RecordsOf(trimmed)
  <2>1. RecordsOf(trimmed) = RecordsOf(m)
    BY <1>6 DEF RecordsOf
  <2>2. RecordsOf(m) \subseteq InUse(m)
    BY DEF Sound, Layout, InUse
  <2> HIDE DEF trimmed
  <2>3. q \notin RecordsOf(m)
    BY <1>6, <2>2
  <2> QED
    BY <1>6, <2>1, <2>3
<1> HIDE DEF trimmed
<1>8. q \in Addr
  BY <1>6, <1>7, CellInt
<1>9. CASE s <= nb + MinChunk
  <2>1. r.m = trimmed /\ r.mem = q
    BY <1>1, <1>9
  <2>2. nb <= s
    BY <1>5
  <2> QED
    BY <1>4, <1>6, <1>8, <1>9, <2>1, <2>2 DEF Placed, r
<1>10. CASE ~(s <= nb + MinChunk)
  <2>1. r.m = cut(trimmed) /\ r.mem = q
    BY <1>1, <1>10
  <2>2. Held(trimmed, q, q + s)
    <3>1. Layout(trimmed)
      BY <1>6 DEF Sound
    <3> QED
      BY <1>6, <1>7, <3>1, HeldFacts
  <2>3. Vacant(trimmed, trimmed, q, q + s)
    BY <1>6, <2>2, VacantAlone
  <2>4. s - nb >= MinChunk /\ s = (q + s) - q
    BY <1>4, <1>5, <1>10 DEF MinChunk
  <2>5. \A a \in InUse(trimmed) : q <= a /\ a < q + s => a = q
    BY <2>2 DEF Held, InUse
  <2>6. Resized(trimmed, nb, cut(trimmed), q)
    BY <1>6, <1>7, <2>3, <2>4, <2>5, CutResized
  <2> HIDE DEF cut
  <2>7. \A a \in InUse(m) : a # p => cut(trimmed).head[a].size = m.head[a].size
    <3>1. \A a \in InUse(m) : a # p => a # q /\ a \in InUse(trimmed)
      BY <1>6
    <3> QED
      BY <1>6, <2>6, <3>1 DEF Resized
  <2>8. cut(trimmed).head[q].size <= nb + MinChunk
    <3>1. cut(trimmed).head[q].size < nb + MinChunk /\ cut(trimmed).head[q].size \in Int
      <4>1. cut(trimmed) \in State
        BY <2>6 DEF Resized
      <4>2. q \in Cells(cut(trimmed))
        BY <1>7, <2>6 DEF Resized, InUse
      <4> QED
        BY <2>6, <4>1, <4>2, CellFacts DEF Resized
    <3> QED
      BY <3>1 DEF MinChunk
  <2> QED
    BY <1>4, <1>6, <1>8, <2>1, <2>6, <2>7, <2>8 DEF Placed, Resized, r
<1> QED
  BY <1>9, <1>10

-----------------------------------------------------------------------------
(* Several blocks at once.                                                 *)

(* Chunk b has become part of chunk p.                                     *)
Merged(m, m2, p, b) ==
    /\ m2 \in State /\ Sound(m2) /\ m2.seg = m.seg /\ m2.footprint = m.footprint
    /\ m2.release_checks = m.release_checks
    /\ InUse(m2) = InUse(m) \ {b}
    /\ \A a \in InUse(m) : a # p => m2.head[a].size = m.head[a].size \/ a = b

LEMMA FollowingMerged ==
    ASSUME NEW m \in State, Sound(m), NEW p \in InUse(m), p \notin RecordsOf(m),
           NEW b \in InUse(m), b \notin RecordsOf(m), b = p + m.head[p].size
    PROVE  Merged(m, set_inuse(m, p, m.head[p].size + m.head[b].size), p, b)
<1> DEFINE hi == b + m.head[b].size
           s  == m.head[p].size + m.head[b].size
           m2 == set_inuse(m, p, s)
<1>0. Layout(m) /\ Filed(m)
  BY DEF Sound
<1>1. Held(m, p, b)
  BY <1>0, HeldFacts
<1>2. Held(m, b, hi)
  BY <1>0, HeldFacts
<1>3. /\ p \in Addr /\ p \in Int /\ b \in Addr /\ b \in Int /\ p < b /\ b - p >= MinChunk
      /\ Region(m, p, b) /\ \A a \in Cells(m) : p <= a /\ a < b => a = p
      /\ m.head[p].cinuse = TRUE /\ m.head[p].size \in Nat
  BY <1>1 DEF Held
<1>4. /\ hi \in Addr /\ hi \in Int /\ b < hi /\ hi - b >= MinChunk /\ hi # FootOf(m)
      /\ \A a \in Cells(m) : b <= a /\ a < hi => a = b
      /\ m.head[b].cinuse = TRUE /\ m.head[b].size \in Nat /\ b \in Cells(m) /\ hi = b + m.head[b].size
  BY <1>2 DEF Held
<1>5. Region(m, p, hi)
  <2>1. Region(m, p, After(m, b))
    BY <1>0, <1>3, <1>4, RegionMore
  <2> QED
    BY <2>1 DEF After
<1> HIDE DEF hi
<1>6. p < hi /\ s = hi - p /\ s \in Size /\ s >= MinChunk
  <2>1. p < hi /\ s = hi - p /\ s >= MinChunk
    BY <1>3, <1>4 DEF MinChunk
  <2> QED
    BY <1>3, <1>4, <2>1, Sizes0 DEF Addr, Size, MinChunk
<1>7. ASSUME NEW a \in Cells(m), p <= a, a < hi PROVE a = p \/ a = b
  <2>1. a \in Int
    BY CellInt
  <2>2. a < b \/ b <= a
    BY <1>3, <2>1
  <2> QED
    BY <1>3, <1>4, <1>7, <2>2
<1>8. Cleared(m, m, p, hi)
  <2>1. \A a \in {} : a \in Int /\ p <= a /\ a < hi
    OBVIOUS
  <2>2. \A a \in Binnable(m) : p <= a /\ a < hi => a \in {}
    <3> SUFFICES ASSUME NEW a \in Binnable(m), p <= a, a < hi PROVE FALSE
      OBVIOUS
    <3>1. a \in Cells(m) /\ ~m.head[a].cinuse
      BY DEF Binnable
    <3>2. a = p \/ a = b
      BY <1>7, <3>1
    <3> QED
      BY <1>3, <1>4, <3>1, <3>2
  <2> QED
    BY <1>0, <1>3, <1>4, <2>1, <2>2, OutNone, OutCleared
<1>9. m.dv < p \/ hi <= m.dv
  <2>1. m.dv # p /\ m.dv # b
    BY <1>0, <1>3, <1>4 DEF Filed, Victim, Addr, Null
  <2>2. m.dv \in Cells(m) => m.dv < p \/ hi <= m.dv
    <3> SUFFICES ASSUME m.dv \in Cells(m) PROVE m.dv < p \/ hi <= m.dv
      OBVIOUS
    <3>1. m.dv \in Int
      BY CellInt
    <3>2. ~(p <= m.dv /\ m.dv < hi)
      BY <1>7, <2>1
    <3> QED
      BY <1>3, <1>4, <3>1, <3>2
  <2> QED
    BY <1>0, <1>3, <1>4, <2>2, VictimFar
<1>10. Vacant(m, m, p, hi)
  BY <1>3, <1>4, <1>5, <1>6, <1>8, <1>9 DEF Vacant, VictimApart
<1>11. m2 \in State /\ Vacant(m, m2, p, hi)
  <2>1. p + s \in Addr /\ s > 0
    BY <1>3, <1>4, <1>6
  <2>2. WritesInuse(m, m2, p, s, m.head[p].pinuse)
    BY <1>3, <1>6, <2>1, InuseWritten
  <2> HIDE DEF m2
  <2>3. m2 \in State /\ SameButHead(m, m2)
    BY <2>2 DEF WritesInuse, Written
  <2> QED
    BY <1>10, <2>3, VacantHeads
<1>12. Outcome(m, m2, p, hi, hi, TRUE, TRUE)
  <2>1. m2.head = set_inuse(m, p, s).head
    OBVIOUS
  <2> HIDE DEF m2, s
  <2> QED
    BY <1>6, <1>11, <2>1, WholeHeld
<1> HIDE DEF m2
<1>13. LastAt(p, hi, hi) = p
  BY DEF LastAt
<1>14. ASSUME NEW a \in InUse(m) PROVE a = p \/ a = b \/ a < p \/ hi <= a
  <2>1. a \in Cells(m) /\ a \in Int
    BY CellInt DEF InUse
  <2>2. p <= a /\ a < hi => a = p \/ a = b
    BY <1>7, <2>1
  <2> QED
    BY <1>3, <1>4, <2>1, <2>2
<1>15. InUse(m2) = InUse(m) \ {b}
  <2>1. InUse(m2) = {a \in InUse(m) : a < p \/ hi <= a} \cup {a \in {p} : TRUE} \cup {a \in {p} : TRUE}
    BY <1>12, <1>13 DEF Outcome
  <2>2. ~(b < p \/ hi <= b) /\ p # b
    BY <1>3, <1>4
  <2> QED
    BY <1>14, <2>1, <2>2
<1>16. \A a \in InUse(m) : a # p => m2.head[a].size = m.head[a].size \/ a = b
  BY <1>12, <1>14 DEF Outcome
<1> QED
  BY <1>12, <1>15, <1>16 DEF Outcome, Merged, m2

(* The state before entry i of the array, and the entry.                   *)
BulkOf(c, f, i) ==
    LET n == Len(c.array) IN
    IF i = 1 THEN Found(c.m, c.array[1])
    ELSE LET h    == f[i - 1].m
             p    == f[i - 1].mem
             size == h.head[p].size
             b    == IF i > n THEN Null ELSE c.array[i]
         IN  IF FollowsIn(h, p, b)
             THEN Found(set_inuse(h, p, size + h.head[p + size].size), p)
             ELSE Found(dispose_chunk(h, p, size), b)

Bulks == INSTANCE StructureLemmas WITH
    Dom <- LAMBDA c : 1 .. Len(c.array) + 1, Def <- LAMBDA c, f, i : BulkOf(c, f, i),
    Rank <- LAMBDA c, i : i, ListHead <- 0

(* How internal_bulk_free comes to its result.                             *)
BulkBy(m, array, f) ==
    /\ internal_bulk_free(m, array) = f[Len(array) + 1].m
    /\ f[1] = Found(m, array[1])
    /\ \A i \in 2 .. Len(array) + 1 : f[i] = BulkOf([m |-> m, array |-> array], f, i)

LEMMA BulkFacts ==
    ASSUME NEW m, NEW A, NEW array \in Seq(A)
    PROVE  \E f : BulkBy(m, array, f)
<1> DEFINE n == Len(array)
           c == [m |-> m, array |-> array]
           B(g) == [i \in 1 .. n + 1 |->
                       IF i = 1 THEN Found(m, array[1])
                       ELSE LET h    == g[i - 1].m
                                p    == g[i - 1].mem
                                size == h.head[p].size
                                b    == IF i > n THEN Null ELSE array[i]
                            IN  IF FollowsIn(h, p, b)
                                THEN Found(set_inuse(h, p, size + h.head[p + size].size), p)
                                ELSE Found(dispose_chunk(h, p, size), b)]
           f == CHOOSE g : g = B(g)
<1>1. n \in Nat
  OBVIOUS
<1>2. c.m = m /\ c.array = array
  OBVIOUS
<1>3. internal_bulk_free(m, array) = f[n + 1].m
  BY DEF internal_bulk_free
<1>4. f = [i \in 1 .. n + 1 |-> BulkOf(c, f, i)]
  <2> HIDE DEF c
  <2>1. Bulks!Local(c)
    <3>1. ASSUME NEW g, NEW h, NEW i \in 1 .. n + 1,
                 \A j \in 1 .. n + 1 : j < i => g[j] = h[j]
          PROVE  BulkOf(c, g, i) = BulkOf(c, h, i)
      <4>1. CASE i = 1
        BY <1>2, <4>1 DEF BulkOf
      <4>2. CASE i # 1
        <5>1. i - 1 \in 1 .. n + 1 /\ i - 1 < i
          BY <1>1, <4>2
        <5>2. g[i - 1] = h[i - 1]
          BY <3>1, <5>1
        <5> QED
          BY <4>2, <5>2 DEF BulkOf
      <4> QED
        BY <4>1, <4>2
    <3>2. Len(c.array) = n
      BY <1>2
    <3> HIDE DEF n
    <3> QED
      BY <3>1, <3>2 DEF Bulks!Local
  <2>2. Bulks!Ranked(c)
    BY <1>1, <1>2 DEF Bulks!Ranked
  <2>3. PICK g : g = [i \in 1 .. Len(c.array) + 1 |-> BulkOf(c, g, i)]
    BY <2>1, <2>2, Bulks!SomeFunction
  <2>4. ASSUME NEW h PROVE [i \in 1 .. n + 1 |-> BulkOf(c, h, i)] = B(h)
    BY <1>2 DEF BulkOf
  <2>5. g = B(g)
    <3>1. g = [i \in 1 .. n + 1 |-> BulkOf(c, g, i)]
      BY <1>2, <2>3
    <3> HIDE DEF B
    <3> QED
      BY <2>4, <3>1
  <2>6. f = B(f)
    <3> HIDE DEF B
    <3> QED
      BY <2>5
  <2> HIDE DEF f, B
  <2> QED
    BY <2>4, <2>6
<1> HIDE DEF B, f
<1>5. f[1] = Found(m, array[1])
  <2>1. 1 \in 1 .. n + 1
    BY <1>1
  <2>2. f[1] = BulkOf(c, f, 1)
    BY <1>4, <2>1
  <2> QED
    BY <1>2, <2>2 DEF BulkOf
<1>6. \A i \in 2 .. n + 1 : f[i] = BulkOf(c, f, i)
  <2>1. \A i \in 2 .. n + 1 : i \in 1 .. n + 1
    BY <1>1
  <2> HIDE DEF c
  <2> QED
    BY <1>4, <2>1
<1> QED
  BY <1>3, <1>5, <1>6 DEF BulkBy

(* The entries can be freed: each is one of the program's blocks, and none *)
(* comes twice.                                                            *)
Freeable(m, array) ==
    /\ m \in State /\ Sound(m)
    /\ array \in Seq(InUse(m)) /\ Len(array) > 0 /\ IsInjective(array)
    /\ \A i \in 1 .. Len(array) : array[i] \notin RecordsOf(m)

(* Before entry i + 1 is looked at, those up to i are free, except for one *)
(* that holds what is to be freed next.                                    *)
BulkSoFar(m, array, r, i) ==
    LET past == {array[j] : j \in 1 .. i} IN
    /\ r.m \in State /\ Sound(r.m) /\ r.m.seg = m.seg /\ r.m.footprint = m.footprint
    /\ r.m.release_checks = m.release_checks
    /\ r.mem \in past
    /\ InUse(r.m) = (InUse(m) \ past) \cup {r.mem}
    /\ \A a \in InUse(m) \ past : r.m.head[a].size = m.head[a].size

LEMMA BulkEntry ==
    ASSUME NEW m, NEW array, Freeable(m, array), NEW i \in 1 .. Len(array), NEW r,
           BulkSoFar(m, array, r, i)
    PROVE  r.mem \in InUse(r.m) /\ r.mem \notin RecordsOf(r.m) /\ r.mem \in Int
           /\ r.m \in State /\ Sound(r.m) /\ RecordsOf(r.m) = RecordsOf(m)
<1>1. PICK j \in 1 .. i : r.mem = array[j]
  BY DEF BulkSoFar
<1>2. j \in 1 .. Len(array)
  BY DEF Freeable
<1>3. RecordsOf(r.m) = RecordsOf(m)
  BY DEF BulkSoFar, RecordsOf
<1>4. r.mem \in InUse(r.m) /\ r.m \in State /\ Sound(r.m)
  BY DEF BulkSoFar
<1>5. r.mem \in Int
  BY <1>4, CellInt DEF InUse
<1> QED
  BY <1>1, <1>2, <1>3, <1>4, <1>5 DEF Freeable

LEMMA BulkNext ==
    ASSUME NEW m, NEW array, Freeable(m, array), NEW f, BulkBy(m, array, f),
           NEW i \in 1 .. Len(array) - 1, BulkSoFar(m, array, f[i], i)
    PROVE  BulkSoFar(m, array, f[i + 1], i + 1)
<1> DEFINE n == Len(array)
           h == f[i].m
           p == f[i].mem
           b == array[i + 1]
           size == h.head[p].size
           past == {array[j] : j \in 1 .. i}
           next == {array[j] : j \in 1 .. i + 1}
           r == f[i + 1]
<1>1. n \in Nat /\ n > 0 /\ i \in 1 .. n /\ i + 1 \in 2 .. n + 1 /\ i + 1 # 1 /\ ~(i + 1 > n)
      /\ (i + 1) - 1 = i /\ i + 1 \in 1 .. n
  BY DEF Freeable
<1>2. r = IF FollowsIn(h, p, b) THEN Found(set_inuse(h, p, size + h.head[p + size].size), p)
                                ELSE Found(dispose_chunk(h, p, size), b)
  <2>1. r = BulkOf([m |-> m, array |-> array], f, i + 1)
    BY <1>1 DEF BulkBy
  <2> QED
    BY <1>1, <2>1 DEF BulkOf
<1> HIDE DEF r
<1>3. /\ h \in State /\ Sound(h) /\ h.seg = m.seg /\ h.footprint = m.footprint
      /\ h.release_checks = m.release_checks /\ p \in past
      /\ InUse(h) = (InUse(m) \ past) \cup {p}
      /\ \A a \in InUse(m) \ past : h.head[a].size = m.head[a].size
  BY DEF BulkSoFar
<1>4. p \in InUse(h) /\ p \notin RecordsOf(h) /\ p \in Int /\ RecordsOf(h) = RecordsOf(m)
  BY <1>1, BulkEntry
<1>5. b \in InUse(m) /\ b \notin RecordsOf(m) /\ b \notin past /\ next = past \cup {b}
  <2>1. b \in InUse(m) /\ b \notin RecordsOf(m)
    <3>1. array \in Seq(InUse(m))
      BY DEF Freeable
    <3>2. array[i + 1] \in InUse(m)
      BY <1>1, <3>1
    <3> QED
      BY <1>1, <3>2 DEF Freeable
  <2>2. \A j \in 1 .. i : array[j] # array[i + 1]
    <3>1. \A j \in 1 .. i : j \in 1 .. n /\ j # i + 1
      BY <1>1
    <3>2. DOMAIN array = 1 .. n /\ IsInjective(array)
      BY DEF Freeable
    <3> QED
      BY <1>1, <3>1, <3>2 DEF IsInjective
  <2>3. 1 .. i + 1 = (1 .. i) \cup {i + 1}
    BY <1>1
  <2> QED
    BY <2>1, <2>2, <2>3
<1>6. b \in InUse(h) /\ b # p /\ b \notin RecordsOf(h)
  BY <1>3, <1>4, <1>5
<1> HIDE DEF h, p, b, past, next
<1>7. CASE FollowsIn(h, p, b)
  <2> DEFINE x == set_inuse(h, p, size + h.head[b].size)
  <2>1. b = p + size
    BY <1>7 DEF FollowsIn
  <2>2. r = Found(x, p)
    BY <1>2, <1>7, <2>1
  <2>3. Merged(h, x, p, b)
    BY <1>3, <1>4, <1>6, <2>1, FollowingMerged
  <2> HIDE DEF x
  <2>4. r.m = x /\ r.mem = p
    BY <2>2 DEF Found
  <2>5. InUse(x) = (InUse(m) \ next) \cup {p}
    BY <1>3, <1>5, <1>6, <2>3 DEF Merged
  <2>6. \A a \in InUse(m) \ next : x.head[a].size = m.head[a].size
    BY <1>3, <1>5, <2>3 DEF Merged
  <2>7. p \in next
    BY <1>3, <1>5
  <2>8. BulkSoFar(m, array, r, i + 1)
    BY <1>3, <2>3, <2>4, <2>5, <2>6, <2>7 DEF Merged, BulkSoFar, next
  <2> QED
    BY <2>8 DEF r
<1>8. CASE ~FollowsIn(h, p, b)
  <2> DEFINE x == dispose_chunk(h, p, size)
  <2>2. r = Found(x, b)
    BY <1>2, <1>8
  <2>3. Freed(h, x, p)
    BY <1>3, <1>4, DisposeFrees
  <2> HIDE DEF x
  <2>4. r.m = x /\ r.mem = b
    BY <2>2 DEF Found
  <2>9. p \notin InUse(m) \ past
    BY <1>3
  <2>5. InUse(x) = (InUse(m) \ next) \cup {b}
    BY <1>3, <1>5, <2>9, <2>3 DEF Freed
  <2>6. \A a \in InUse(m) \ next : x.head[a].size = m.head[a].size
    BY <1>3, <1>5, <2>3, <2>5 DEF Freed
  <2>7. b \in next
    BY <1>5
  <2>8. BulkSoFar(m, array, r, i + 1)
    BY <1>3, <2>3, <2>4, <2>5, <2>6, <2>7 DEF Freed, BulkSoFar, next
  <2> QED
    BY <2>8 DEF r
<1> QED
  BY <1>7, <1>8

LEMMA BulkSo ==
    ASSUME NEW m, NEW array, Freeable(m, array), NEW f, BulkBy(m, array, f),
           NEW i \in 1 .. Len(array)
    PROVE  BulkSoFar(m, array, f[i], i)
<1> DEFINE n == Len(array)
           D == {j \in 1 .. n : ~BulkSoFar(m, array, f[j], j)}
<1>1. n \in Nat
  BY DEF Freeable
<1> SUFFICES D = {}
  OBVIOUS
<1> SUFFICES ASSUME D # {} PROVE FALSE
  OBVIOUS
<1>2. D \in SUBSET Nat
  BY <1>1
<1> HIDE DEF D
<1>3. PICK j \in D : \A k \in D : j <= k
  BY <1>2, MinFacts
<1>4. j \in 1 .. n /\ ~BulkSoFar(m, array, f[j], j)
  BY DEF D
<1>5. BulkSoFar(m, array, f[1], 1)
  <2>1. f[1].m = m /\ f[1].mem = array[1]
    BY DEF BulkBy, Found
  <2>2. {array[k] : k \in 1 .. 1} = {array[1]}
    OBVIOUS
  <2>3. array[1] \in InUse(m)
    BY <1>1 DEF Freeable
  <2>4. m \in State /\ Sound(m)
    BY DEF Freeable
  <2> QED
    BY <2>1, <2>2, <2>3, <2>4 DEF BulkSoFar
<1>6. j # 1
  BY <1>4, <1>5
<1>7. j - 1 \in Nat /\ j - 1 \in 1 .. n /\ j - 1 \in 1 .. n - 1 /\ (j - 1) + 1 = j /\ ~(j <= j - 1)
  BY <1>1, <1>4, <1>6
<1>8. BulkSoFar(m, array, f[j - 1], j - 1)
  BY <1>3, <1>7 DEF D
<1>9. BulkSoFar(m, array, f[(j - 1) + 1], (j - 1) + 1)
  BY <1>7, <1>8, BulkNext
<1> QED
  BY <1>4, <1>7, <1>9

(* What bulk_free owes: the heap is sound without the entries of array.    *)
FreedAll(m, m2, S) ==
    /\ m2 \in State /\ Sound(m2) /\ m2.seg = m.seg /\ m2.footprint = m.footprint
    /\ m2.release_checks = m.release_checks
    /\ InUse(m2) = InUse(m) \ S
    /\ \A a \in InUse(m2) : m2.head[a].size = m.head[a].size

(* internal_bulk_free, dlmalloc.c:3732: all of the array is given back, in *)
(* whatever order it names the chunks, and nothing else is.                *)
THEOREM BulkFrees ==
    ASSUME NEW m, NEW array, Freeable(m, array)
    PROVE  FreedAll(m, internal_bulk_free(m, array), Range(array))
<1> DEFINE n == Len(array)
<1>1. n \in Nat /\ n > 0 /\ array \in Seq(InUse(m))
  BY DEF Freeable
<1>2. PICK f : BulkBy(m, array, f)
  BY <1>1, BulkFacts
<1> DEFINE h == f[n].m
           p == f[n].mem
           past == {array[j] : j \in 1 .. n}
<1>3. n \in 1 .. n
  BY <1>1
<1>4. BulkSoFar(m, array, f[n], n)
  BY <1>2, <1>3, BulkSo
<1>5. /\ h \in State /\ Sound(h) /\ h.seg = m.seg /\ h.footprint = m.footprint
      /\ h.release_checks = m.release_checks /\ p \in past
      /\ InUse(h) = (InUse(m) \ past) \cup {p}
      /\ \A a \in InUse(m) \ past : h.head[a].size = m.head[a].size
  BY <1>4 DEF BulkSoFar
<1>6. p \in InUse(h) /\ p \notin RecordsOf(h) /\ p \in Int
  BY <1>3, <1>4, BulkEntry
<1>7. f[n + 1] = BulkOf([m |-> m, array |-> array], f, n + 1)
  <2>1. n + 1 \in 2 .. n + 1
    BY <1>1
  <2> QED
    BY <1>2, <2>1 DEF BulkBy
<1>8. n + 1 # 1 /\ (n + 1) - 1 = n /\ n + 1 > n
  BY <1>1
<1>9. ~FollowsIn(h, p, Null)
  <2>1. p > 0 /\ h.head[p].size \in Nat
    BY <1>5, <1>6, CellFacts DEF InUse
  <2> QED
    BY <1>6, <2>1 DEF FollowsIn, Null
<1>10. f[n + 1] = Found(dispose_chunk(h, p, h.head[p].size), Null)
  BY <1>7, <1>8, <1>9 DEF BulkOf
<1>11. Freed(h, dispose_chunk(h, p, h.head[p].size), p)
  BY <1>5, <1>6, DisposeFrees
<1>12. internal_bulk_free(m, array) = dispose_chunk(h, p, h.head[p].size)
  BY <1>2, <1>10 DEF BulkBy, Found
<1>13. past = Range(array)
  BY <1>1 DEF Range
<1> DEFINE x == dispose_chunk(h, p, h.head[p].size)
<1> HIDE DEF x, h, p, past
<1>14. InUse(x) = InUse(m) \ past
  BY <1>5, <1>11 DEF Freed, x
<1>15. \A a \in InUse(x) : x.head[a].size = m.head[a].size
  BY <1>5, <1>11, <1>14 DEF Freed, x
<1>16. FreedAll(m, x, past)
  BY <1>5, <1>11, <1>14, <1>15 DEF Freed, FreedAll, x
<1> QED
  BY <1>12, <1>13, <1>16 DEF x

-----------------------------------------------------------------------------
(* Segments that change.                                                   *)

(* The chunks of the program: those in use that hold no segment's entry.   *)
Blocks(m) == InUse(m) \ RecordsOf(m)

(* The heap is sound still, and the program's chunks are as they were.     *)
Kept(m, m2) ==
    /\ m2 \in State /\ Sound(m2)
    /\ Blocks(m2) = Blocks(m)
    /\ \A a \in Blocks(m) : m2.head[a].size = m.head[a].size

LEMMA SegmentOne ==
    ASSUME NEW m \in State, Sound(m)
    PROVE  /\ 1 \in DOMAIN m.seg /\ segment_holds(m.seg[1], m.top) /\ FootOf(m) + TopFoot = End(m.seg[1])
           /\ m.top \in Cells(m) /\ m.top \in Addr /\ m.top \in Int /\ m.topsize \in Nat /\ m.topsize > 0
           /\ m.head[m.top].pinuse = TRUE /\ m.head[m.top].cinuse = FALSE /\ After(m, m.top) = FootOf(m)
           /\ m.topsize = m.head[m.top].size
           /\ m.seg[1].base \in Int /\ End(m.seg[1]) \in Int /\ m.seg[1].base <= m.top
           /\ End(m.seg[1]) = m.top + m.topsize + TopFoot
<1>1. Layout(m) /\ SegmentLayout(m)
  BY DEF Sound
<1>2. m.top \in Cells(m) /\ ~m.head[m.top].cinuse /\ m.topsize = m.head[m.top].size
  BY <1>1 DEF Layout
<1>3. /\ m.top \in Addr /\ m.top \in Int /\ m.topsize \in Nat /\ m.topsize > 0
      /\ m.head[m.top].cinuse \in BOOLEAN /\ m.head[m.top].pinuse \in BOOLEAN
  BY <1>2, CellFacts
<1>4. Tagged(m, m.top) /\ Followed(m, m.top)
  BY <1>1, <1>2 DEF Layout
<1>5. 1 \in DOMAIN m.seg
  <2>1. m.seg \in Seq(Segment) /\ m.seg # <<>>
    BY <1>1 DEF State, SegmentLayout
  <2> HIDE DEF Segment
  <2> QED
    BY <2>1
<1>6. segment_holds(m.seg[1], m.top) /\ FootOf(m) + TopFoot = End(m.seg[1])
  BY <1>1 DEF SegmentLayout
<1>7. m.seg[1].base \in Int /\ End(m.seg[1]) \in Int
  BY <1>5, SegFacts
<1>8. m.seg[1].base <= m.top
  BY <1>6 DEF segment_holds
<1>9. End(m.seg[1]) = m.top + m.topsize + TopFoot
  BY <1>6 DEF FootOf
<1>10. m.head[m.top].pinuse = TRUE /\ m.head[m.top].cinuse = FALSE
  BY <1>2, <1>3, <1>4 DEF Tagged
<1>11. After(m, m.top) = FootOf(m)
  BY <1>4 DEF Followed
<1> QED
  BY <1>2, <1>3, <1>5, <1>6, <1>7, <1>8, <1>9, <1>10, <1>11

(* The chunks of other segments lie outside of this one.                   *)
LEMMA SegmentApart ==
    ASSUME NEW m \in State, SegmentLayout(m), NEW j \in DOMAIN m.seg, NEW k \in DOMAIN m.seg,
           NEW a \in Int, segment_holds(m.seg[j], a), segment_holds(m.seg[k], a)
    PROVE  j = k
<1>1. /\ m.seg[j].base \in Int /\ End(m.seg[j]) \in Int /\ m.seg[k].base \in Int /\ End(m.seg[k]) \in Int
      /\ m.seg[j].base <= a /\ a < End(m.seg[j]) /\ m.seg[k].base <= a /\ a < End(m.seg[k])
  BY SegFacts DEF segment_holds, End
<1> QED
  BY <1>1 DEF SegmentLayout

(* Top becomes larger by d, or smaller, and with it the first segment.     *)
TopMoves(m, m2, d) ==
    /\ m2 \in State
    /\ m2.bin = m.bin /\ m2.dv = m.dv /\ m2.dvsize = m.dvsize /\ m2.top = m.top
    /\ m2.topsize = m.topsize + d /\ m2.topsize > 0
    /\ m2.seg = [m.seg EXCEPT ![1].size = @ + d]
    /\ m2.footprint = m.footprint + d
    /\ End(m.seg[1]) + d <= Space
    /\ \A k \in DOMAIN m.seg \ {1} :
          End(m.seg[1]) + d <= m.seg[k].base \/ End(m.seg[k]) <= m.seg[1].base
    /\ m2.head[m.top].size = m2.topsize /\ m2.head[m.top].cinuse = FALSE
    /\ m2.head[m.top].pinuse = TRUE
    /\ m2.head[FootOf(m2)].size = TopFoot /\ m2.head[FootOf(m2)].pinuse = FALSE
    /\ \A a \in Addr : m.top < a /\ (a < End(m.seg[1]) \/ a < End(m.seg[1]) + d) /\ a # FootOf(m2)
                          => m2.head[a] = NoHeader
    /\ \A a \in Addr : a < m.top \/ (End(m.seg[1]) <= a /\ End(m.seg[1]) + d <= a)
                          => m2.head[a] = m.head[a]

LEMMA MovedFoot ==
    ASSUME NEW m \in State, Sound(m), NEW d \in Int, NEW m2, TopMoves(m, m2, d)
    PROVE  /\ FootOf(m2) = FootOf(m) + d /\ FootOf(m2) \in Addr /\ FootOf(m2) \in Int
           /\ m.top < FootOf(m2) /\ FootOf(m2) + TopFoot = End(m.seg[1]) + d
<1>1. /\ m.top \in Addr /\ m.top \in Int /\ m.topsize \in Nat /\ End(m.seg[1]) \in Int
      /\ End(m.seg[1]) = m.top + m.topsize + TopFoot
  BY SegmentOne
<1>2. m2.top = m.top /\ m2.topsize = m.topsize + d /\ m2.topsize > 0 /\ End(m.seg[1]) + d <= Space
  BY DEF TopMoves
<1> DEFINE t == m.top
           s == m.topsize
           s2 == m2.topsize
<1>3. FootOf(m) = t + s /\ FootOf(m2) = t + s2
  BY <1>2 DEF FootOf
<1>4. t \in Int /\ s \in Int /\ TopFoot \in Int /\ TopFoot >= 0 /\ s2 = s + d /\ s2 > 0 /\ t > 0
  BY <1>1, <1>2 DEF TopFoot, RecordSize, MinChunk, Addr
<1>5. End(m.seg[1]) = t + s + TopFoot /\ t + s + TopFoot + d <= Space /\ Space \in Nat
  BY <1>1, <1>2, Sizes0
<1> HIDE DEF t, s, s2
<1>6. t < t + s2 /\ (t + s2) + TopFoot = t + s + TopFoot + d /\ t + s2 = (t + s) + d
      /\ t + s2 \in Int /\ t + s2 >= 1
  BY ONLY <1>4, d \in Int
<1>7. t + s2 <= Space
  BY ONLY <1>4, <1>5, <1>6, d \in Int
<1>8. t + s2 \in Addr
  BY <1>5, <1>6, <1>7 DEF Addr
<1> QED
  BY <1>3, <1>5, <1>6, <1>8 DEF t

(* What the lemmas about TopMoves share.                                   *)
LEMMA MovedFacts ==
    ASSUME NEW m \in State, Sound(m), NEW d \in Int, NEW m2, TopMoves(m, m2, d)
    PROVE  BasesOf(m2) = BasesOf(m) /\ RecordsOf(m2) = RecordsOf(m)
<1>1. 1 \in DOMAIN m.seg
  BY SegmentOne
<1>2. m2.seg = [m.seg EXCEPT ![1].size = @ + d]
  BY DEF TopMoves
<1>3. DOMAIN m2.seg = DOMAIN m.seg
  BY <1>2
<1>4. ASSUME NEW k \in DOMAIN m.seg
      PROVE  m2.seg[k].base = m.seg[k].base /\ m2.seg[k].record = m.seg[k].record
  <2>1. CASE k = 1
    <3>1. m.seg[1] \in Segment
      BY <1>1, SegFacts
    <3>2. m2.seg[1] = [m.seg[1] EXCEPT !.size = @ + d]
      BY <1>1, <1>2
    <3> QED
      BY <2>1, <3>1, <3>2 DEF Segment
  <2>2. CASE k # 1
    BY <1>2, <2>2
  <2> QED
    BY <2>1, <2>2
<1> QED
  BY <1>3, <1>4 DEF BasesOf, RecordsOf

(* The chunks are where they were.                                         *)
LEMMA MovedCells ==
    ASSUME NEW m \in State, Sound(m), NEW d \in Int, NEW m2, TopMoves(m, m2, d)
    PROVE  /\ Cells(m2) = Cells(m)
           /\ \A a \in Cells(m) \ {m.top} : m2.head[a] = m.head[a] /\ After(m2, a) = After(m, a)
           /\ \A a \in Addr : a # FootOf(m2) /\ a # m.top /\ m2.head[a] # NoHeader =>
                 m2.head[a] = m.head[a] /\ (a < m.top \/ (End(m.seg[1]) <= a /\ End(m.seg[1]) + d <= a))
           /\ \A a \in Addr : a \in Cells(m) \ {m.top} \/ a \in BasesOf(m) =>
                 a <= m.top \/ (End(m.seg[1]) <= a /\ End(m.seg[1]) + d <= a)
<1> DEFINE e == End(m.seg[1])
           t == m.top
<1>0. Layout(m) /\ SegmentLayout(m) /\ m2 \in State
  BY DEF Sound, TopMoves
<1>1. /\ 1 \in DOMAIN m.seg /\ t \in Addr /\ t \in Int /\ m.topsize \in Nat /\ e \in Int /\ t \in Cells(m)
      /\ e = t + m.topsize + TopFoot /\ m.seg[1].base <= t /\ m.topsize > 0 /\ m.seg[1].base \in Int
      /\ FootOf(m) = t + m.topsize
  BY SegmentOne DEF FootOf
<1>2. /\ FootOf(m2) \in Addr /\ FootOf(m2) \in Int /\ FootOf(m2) + TopFoot = e + d /\ t < FootOf(m2)
  BY MovedFoot
<1>3. /\ m2.top = t /\ m2.topsize > 0 /\ m2.head[t].size = m2.topsize
      /\ \A a \in Addr : t < a /\ (a < e \/ a < e + d) /\ a # FootOf(m2) => m2.head[a] = NoHeader
      /\ \A a \in Addr : a < t \/ (e <= a /\ e + d <= a) => m2.head[a] = m.head[a]
      /\ \A k \in DOMAIN m.seg \ {1} : e + d <= m.seg[k].base \/ End(m.seg[k]) <= m.seg[1].base
  BY DEF TopMoves
<1> HIDE DEF e, t
<1>4. ASSUME NEW a \in Addr, a # FootOf(m2), a # t, m2.head[a] # NoHeader
      PROVE  m2.head[a] = m.head[a] /\ (a < t \/ (e <= a /\ e + d <= a))
  <2>1. a \in Int
    BY DEF Addr
  <2>2. a < t \/ (e <= a /\ e + d <= a)
    BY <1>1, <1>3, <1>4, <2>1
  <2> QED
    BY <1>3, <2>2
<1>5. ASSUME NEW a \in Addr, NEW k \in DOMAIN m.seg, k # 1, segment_holds(m.seg[k], a), a > t
      PROVE  e <= a /\ e + d <= a
  <2>1. a \in Int /\ m.seg[k].base \in Int /\ End(m.seg[k]) \in Int /\ m.seg[k].base <= a /\ a < End(m.seg[k])
    BY <1>5, SegFacts DEF segment_holds, End, Addr
  <2>2. ~(End(m.seg[k]) <= m.seg[1].base)
    BY <1>1, <1>5, <2>1
  <2>3. e + d <= m.seg[k].base
    BY <1>3, <1>5, <2>2
  <2>4. e <= m.seg[k].base
    BY <1>0, <1>1, <1>5, <2>2 DEF SegmentLayout, e
  <2> QED
    BY <1>1, <2>1, <2>3, <2>4
<1>6. ASSUME NEW a \in Cells(m), a # t
      PROVE  a < t \/ (e <= a /\ e + d <= a)
  <2>1. a \in Addr /\ a \in Int /\ m.head[a] # NoHeader
    BY CellFacts
  <2>2. PICK k \in DOMAIN m.seg : segment_holds(m.seg[k], a)
    BY <1>0, <2>1 DEF SegmentLayout
  <2>3. CASE k = 1
    <3>1. a <= t
      BY <1>0, <2>2, <2>3 DEF SegmentLayout, t
    <3> QED
      BY <1>1, <1>6, <2>1, <3>1
  <2>4. CASE k # 1
    BY <1>1, <1>5, <1>6, <2>1, <2>2, <2>4
  <2> QED
    BY <2>3, <2>4
<1>7. ASSUME NEW a \in BasesOf(m) PROVE a <= t \/ (e <= a /\ e + d <= a)
  <2>1. a \in Cells(m)
    BY <1>0 DEF Layout
  <2>2. a \in Int
    BY <2>1, CellInt
  <2> QED
    BY <1>1, <1>6, <2>1, <2>2
<1>8. \A a \in Cells(m) : a # t => m2.head[a] = m.head[a] /\ After(m2, a) = After(m, a) /\ a # FootOf(m2)
  <2> SUFFICES ASSUME NEW a \in Cells(m), a # t
               PROVE  m2.head[a] = m.head[a] /\ After(m2, a) = After(m, a) /\ a # FootOf(m2)
    OBVIOUS
  <2>1. a \in Addr /\ a \in Int
    BY CellFacts
  <2>2. m2.head[a] = m.head[a]
    BY <1>3, <1>6, <2>1
  <2>3. a # FootOf(m2)
    BY <1>1, <1>2, <1>6, <2>1 DEF TopFoot, RecordSize, MinChunk
  <2> QED
    BY <2>2, <2>3 DEF After
<1>9. Cells(m2) \subseteq Cells(m)
  <2> SUFFICES ASSUME NEW a \in Cells(m2) PROVE a \in Cells(m)
    OBVIOUS
  <2>1. a \in Addr /\ m2.head[a].size > 0 /\ a # FootOf(m2) /\ m2.head[a] # NoHeader /\ a \in Int
    BY <1>0, CellFacts DEF Cells
  <2>2. CASE a = t
    BY <1>1, <2>2
  <2>3. CASE a # t
    <3>1. m2.head[a] = m.head[a] /\ (a < t \/ (e <= a /\ e + d <= a))
      BY <1>4, <2>1, <2>3
    <3>2. a # FootOf(m)
      BY <1>1, <2>1, <3>1 DEF TopFoot, RecordSize, MinChunk
    <3> QED
      BY <2>1, <3>1, <3>2 DEF Cells
  <2> QED
    BY <2>2, <2>3
<1>10. Cells(m) \subseteq Cells(m2)
  <2> SUFFICES ASSUME NEW a \in Cells(m) PROVE a \in Cells(m2)
    OBVIOUS
  <2>1. a \in Addr /\ m.head[a].size > 0
    BY DEF Cells
  <2>2. CASE a = t
    <3>1. t # FootOf(m2)
      BY <1>1, <1>2
    <3> QED
      BY <1>1, <1>3, <2>1, <2>2, <3>1 DEF Cells
  <2>3. CASE a # t
    BY <1>8, <2>1, <2>3 DEF Cells
  <2> QED
    BY <2>2, <2>3
<1>11. \A a \in Addr : a \in Cells(m) \ {t} \/ a \in BasesOf(m) => a <= t \/ (e <= a /\ e + d <= a)
  BY <1>1, <1>6, <1>7, CellInt
<1> QED
  BY <1>4, <1>8, <1>9, <1>10, <1>11 DEF t, e

LEMMA MovedLayout ==
    ASSUME NEW m \in State, Sound(m), NEW d \in Int, NEW m2, TopMoves(m, m2, d)
    PROVE  Layout(m2)
<1> DEFINE t == m.top
           f == FootOf(m2)
<1>0. Layout(m) /\ SegmentLayout(m) /\ Filed(m) /\ m2 \in State
  BY DEF Sound, TopMoves
<1>1. /\ t \in Addr /\ t \in Int /\ t \in Cells(m) /\ m.head[t].pinuse = TRUE /\ m.head[t].cinuse = FALSE
  BY SegmentOne
<1>2. /\ f \in Addr /\ f \in Int /\ t < f /\ BasesOf(m2) = BasesOf(m) /\ RecordsOf(m2) = RecordsOf(m)
      /\ f + TopFoot = End(m.seg[1]) + d
  BY MovedFacts, MovedFoot
<1>3. /\ m2.top = t /\ m2.head[t].size = m2.topsize /\ m2.topsize > 0 /\ m2.head[t].cinuse = FALSE
      /\ m2.head[t].pinuse = TRUE /\ m2.head[f].size = TopFoot /\ m2.head[f].pinuse = FALSE
      /\ f = t + m2.topsize
  BY DEF TopMoves, FootOf
<1>4. /\ Cells(m2) = Cells(m)
      /\ \A a \in Cells(m) \ {t} : m2.head[a] = m.head[a] /\ After(m2, a) = After(m, a)
  BY MovedCells
<1>5. \A a \in Addr : a # f /\ a # t /\ m2.head[a] # NoHeader => m2.head[a] = m.head[a] /\ (a < t \/ f < a)
  <2> SUFFICES ASSUME NEW a \in Addr, a # f, a # t, m2.head[a] # NoHeader
               PROVE  m2.head[a] = m.head[a] /\ (a < t \/ f < a)
    OBVIOUS
  <2>1. m2.head[a] = m.head[a] /\ (a < t \/ (End(m.seg[1]) <= a /\ End(m.seg[1]) + d <= a))
    BY MovedCells
  <2>3. a \in Int
    BY DEF Addr
  <2> HIDE DEF f, t
  <2> QED
    BY <1>2, <2>1, <2>3 DEF TopFoot, RecordSize, MinChunk
<1>6. After(m2, t) = f
  BY <1>3 DEF After
<1> HIDE DEF t, f
<1>7. \A a \in Cells(m) : a \in Addr /\ a \in Int
  BY CellFacts
<1>8. ASSUME NEW a \in Cells(m2), NEW b \in Addr, a < b, m2.head[b] # NoHeader PROVE After(m2, a) <= b
  <2>1. b \in Int /\ a \in Cells(m) /\ a \in Int
    BY <1>4, <1>7 DEF Addr
  <2>2. m.head[t] # NoHeader
    BY <1>0, <1>1, CellFacts
  <2>3. CASE a = t
    BY <1>2, <1>5, <1>6, <1>8, <2>1, <2>3
  <2>4. CASE a # t /\ b # f
    <3>1. m.head[b] # NoHeader
      <4>1. CASE b = t
        BY <2>2, <4>1
      <4>2. CASE b # t
        BY <1>5, <1>8, <2>4, <4>2
      <4> QED
        BY <4>1, <4>2
    <3>2. After(m, a) <= b
      BY <1>0, <1>8, <2>1, <3>1 DEF Layout
    <3> QED
      BY <1>4, <2>1, <2>4, <3>2
  <2>5. CASE a # t /\ b = f
    <3>1. m2.head[a] # NoHeader /\ a # f /\ a \in Addr
      <4>1. a # f /\ a \in Addr
        BY <1>8 DEF Cells, f
      <4> QED
        BY <1>0, <4>1, CellFacts
    <3>2. a < t
      BY <1>2, <1>5, <1>8, <2>1, <2>5, <3>1
    <3>3. After(m, a) <= t
      BY <1>0, <1>1, <2>1, <2>2, <3>2 DEF Layout
    <3>4. After(m2, a) = After(m, a) /\ After(m, a) \in Int
      BY <1>0, <1>4, <2>1, <2>5, CellFacts
    <3> QED
      BY <1>1, <1>2, <2>5, <3>3, <3>4
  <2> QED
    BY <2>3, <2>4, <2>5
<1>9. ASSUME NEW a \in RecordsOf(m)
      PROVE  /\ After(m, a) # f /\ After(m, a) # t /\ m2.head[After(m, a)] = m.head[After(m, a)]
             /\ m.head[After(m, a)] = Fencepost /\ a # t
  <2> DEFINE b == After(m, a)
             e == End(m.seg[1])
  <2>1. PICK k \in DOMAIN m.seg \ {1} : a = m.seg[k].record
    BY DEF RecordsOf
  <2>2. k \in DOMAIN m.seg /\ 1 \in DOMAIN m.seg /\ m.seg[k].base \in Int /\ End(m.seg[k]) \in Int
        /\ m.seg[1].base <= t /\ m.seg[1].base \in Int /\ e \in Int
    <3>1. k \in DOMAIN m.seg
      OBVIOUS
    <3>2. 1 \in DOMAIN m.seg /\ m.seg[1].base <= t /\ m.seg[1].base \in Int /\ e \in Int
      BY SegmentOne DEF t
    <3> QED
      BY <3>1, <3>2, SegFacts
  <2>3. a \in Cells(m) /\ m.head[a].cinuse
    BY <1>0 DEF Layout
  <2>4. a # t
    BY <1>1, <2>3
  <2>5. b \in Addr /\ Followed(m, a)
    BY <1>0, <2>3 DEF Layout
  <2>6. a \in Int /\ b \in Int /\ a < b
    <3>1. a \in Int /\ m.head[a].size > 0 /\ m.head[a].size \in Nat
      BY <2>3, CellFacts
    <3> QED
      BY <3>1 DEF After
  <2>7. m.seg[k].base <= a /\ b < End(m.seg[k])
    <3>1. segment_holds(m.seg[k], a)
      BY <1>0, <2>1 DEF SegmentLayout
    <3> QED
      BY <1>0, <2>1, <2>2, <2>3, <3>1 DEF SegmentLayout, segment_holds
  <2>8. (e + d <= m.seg[k].base /\ e <= m.seg[k].base) \/ End(m.seg[k]) <= m.seg[1].base
    <3>1. e + d <= m.seg[k].base \/ End(m.seg[k]) <= m.seg[1].base
      BY <2>1 DEF TopMoves
    <3>2. e <= m.seg[k].base \/ End(m.seg[k]) <= m.seg[1].base
      BY <1>0, <2>1, <2>2 DEF SegmentLayout
    <3> QED
      BY <3>1, <3>2
  <2>9. f + TopFoot = e + d /\ TopFoot \in Int /\ TopFoot > 0
    BY <1>2 DEF TopFoot, RecordSize, MinChunk
  <2> HIDE DEF b, e
  <2>10. b < t \/ (e <= b /\ e + d <= b)
    BY <1>1, <2>2, <2>6, <2>7, <2>8
  <2>11. b # f
    BY <1>1, <1>2, <2>2, <2>6, <2>9, <2>10
  <2>12. m2.head[b] = m.head[b]
    BY <2>5, <2>10 DEF TopMoves, e, t
  <2>13. m.head[b] = Fencepost
    BY <2>4, <2>5 DEF Followed, t, b
  <2>14. b # t
    BY <1>0, <1>1, <2>13, CellFacts DEF Fencepost
  <2> QED
    BY <2>4, <2>11, <2>12, <2>13, <2>14 DEF b
<1>10. ASSUME NEW a \in Cells(m2), a # t
       PROVE  After(m2, a) \in Addr /\ Followed(m2, a) /\ Tagged(m2, a) /\ m2.head[a].size >= MinChunk
  <2> DEFINE b == After(m, a)
  <2>1. a \in Cells(m) /\ a # m.top /\ m2.head[a] = m.head[a] /\ After(m2, a) = b
    BY <1>4, <1>10 DEF t
  <2>2. b \in Addr /\ Followed(m, a) /\ Tagged(m, a) /\ m.head[a].size >= MinChunk
    BY <1>0, <2>1 DEF Layout
  <2>3. m.head[b].pinuse = m.head[a].cinuse
    BY <2>2 DEF Tagged
  <2>4. m.head[a].cinuse \/ m.head[a].pinuse
    BY <2>2 DEF Tagged
  <2>5. m.head[a].cinuse \/ m.head[b].prev_foot = m.head[a].size
    BY <2>1, <2>2 DEF Tagged
  <2>6. CASE a \in RecordsOf(m)
    <3>1. m2.head[b] = m.head[b] /\ m.head[b] = Fencepost
      BY <1>9, <2>6
    <3> QED
      BY <1>2, <1>3, <1>10, <2>1, <2>2, <2>3, <2>4, <2>5, <2>6, <3>1 DEF Followed, Tagged
  <2>7. CASE a \notin RecordsOf(m)
    <3>1. b \in Cells(m) \ BasesOf(m)
      BY <2>1, <2>2, <2>7 DEF Followed
    <3>2. Followed(m2, a)
      BY <1>2, <1>3, <1>4, <1>10, <2>1, <2>7, <3>1 DEF Followed
    <3>3. CASE b = t
      <4>1. m.head[a].cinuse
        BY <1>1, <2>3, <3>3
      <4>2. m.head[a].cinuse = TRUE
        BY <1>1, <2>3, <3>3
      <4> QED
        BY <1>3, <2>1, <2>2, <3>2, <3>3, <4>1, <4>2 DEF Tagged
    <3>4. CASE b # t
      <4>1. m2.head[b] = m.head[b]
        BY <1>4, <3>1, <3>4
      <4> QED
        BY <2>1, <2>2, <2>3, <2>4, <2>5, <3>2, <4>1 DEF Tagged
    <3> QED
      BY <3>3, <3>4
  <2> QED
    BY <2>6, <2>7
<1>11. After(m2, t) \in Addr /\ Followed(m2, t) /\ Tagged(m2, t)
  BY <1>2, <1>3, <1>6 DEF Followed, Tagged, f
<1>12. \A a \in Cells(m2) : a \in BasesOf(m2) \/ \E b \in Cells(m2) : After(m2, b) = a
  <2> SUFFICES ASSUME NEW a \in Cells(m2), a \notin BasesOf(m2) PROVE \E b \in Cells(m2) : After(m2, b) = a
    OBVIOUS
  <2>1. PICK b \in Cells(m) : After(m, b) = a
    BY <1>0, <1>2, <1>4 DEF Layout
  <2>2. b # t
    <3>1. FootOf(m) \notin Cells(m) /\ After(m, m.top) = FootOf(m)
      BY SegmentOne DEF Cells
    <3> QED
      BY <1>4, <2>1, <3>1 DEF t
  <2> QED
    BY <1>4, <2>1, <2>2
<1>13. \A a \in BasesOf(m2) : a \in Cells(m2) /\ m2.head[a].pinuse
  <2> SUFFICES ASSUME NEW a \in BasesOf(m) PROVE a \in Cells(m2) /\ m2.head[a].pinuse
    BY <1>2
  <2>1. a \in Cells(m) /\ m.head[a].pinuse
    BY <1>0 DEF Layout
  <2> QED
    BY <1>3, <1>4, <2>1
<1>14. \A r \in RecordsOf(m2) : r \in Cells(m2) /\ m2.head[r].cinuse
  <2> SUFFICES ASSUME NEW r \in RecordsOf(m) PROVE r \in Cells(m2) /\ m2.head[r].cinuse
    BY <1>2
  <2>1. r \in Cells(m) /\ m.head[r].cinuse /\ r # t
    BY <1>0, <1>1 DEF Layout
  <2> QED
    BY <1>4, <2>1
<1>15. \A a \in Cells(m2) : /\ After(m2, a) \in Addr /\ Followed(m2, a) /\ Tagged(m2, a)
                            /\ a # m2.top => m2.head[a].size >= MinChunk
  BY <1>3, <1>10, <1>11
<1>16. m2.top \in Cells(m2) /\ ~m2.head[m2.top].cinuse /\ m2.topsize = m2.head[m2.top].size
       /\ FootOf(m2) \in Addr /\ m2.head[FootOf(m2)].size = TopFoot
  BY <1>1, <1>2, <1>3, <1>4 DEF f
<1> QED
  BY <1>8, <1>12, <1>13, <1>14, <1>15, <1>16 DEF Layout

(* The memory of all segments but j, and how it adds up.                   *)
MappedBut(m, j) == UNION {m.seg[k].base .. End(m.seg[k]) - 1 : k \in DOMAIN m.seg \ {j}}

Apart(m) ==
    /\ \A k \in DOMAIN m.seg : End(m.seg[k]) <= Space
    /\ \A j, k \in DOMAIN m.seg :
          j # k => End(m.seg[j]) <= m.seg[k].base \/ End(m.seg[k]) <= m.seg[j].base

LEMMA MappedAdds ==
    ASSUME NEW m \in State, Apart(m), NEW j \in DOMAIN m.seg
    PROVE  /\ Cardinality(MappedBut(m, j)) \in Nat
           /\ Cardinality(Mapped(m)) = Cardinality(MappedBut(m, j)) + m.seg[j].size
           /\ Mapped(m) = (m.seg[j].base .. End(m.seg[j]) - 1) \cup MappedBut(m, j)
<1> DEFINE I(k) == m.seg[k].base .. End(m.seg[k]) - 1
<1>1. \A k \in DOMAIN m.seg : m.seg[k].base \in Nat /\ m.seg[k].base > 0 /\ End(m.seg[k]) \in Nat
                              /\ m.seg[k].size \in Nat /\ End(m.seg[k]) = m.seg[k].base + m.seg[k].size
                              /\ End(m.seg[k]) <= Space
  BY SegFacts DEF Apart, End
<1>2. Space \in Nat /\ IsFiniteSet(1 .. Space)
  BY Sizes0, UpToSpace
<1>3. Mapped(m) = I(j) \cup MappedBut(m, j)
  BY DEF Mapped, MappedBut
<1>4. MappedBut(m, j) \subseteq 1 .. Space /\ I(j) \subseteq 1 .. Space
  BY <1>1, <1>2 DEF MappedBut
<1>5. IsFiniteSet(MappedBut(m, j)) /\ IsFiniteSet(I(j))
  BY <1>2, <1>4, FS_Subset
<1>6. I(j) \cap MappedBut(m, j) = {}
  <2> SUFFICES ASSUME NEW x \in I(j), NEW k \in DOMAIN m.seg \ {j}, x \in I(k) PROVE FALSE
    BY DEF MappedBut
  <2>1. End(m.seg[j]) <= m.seg[k].base \/ End(m.seg[k]) <= m.seg[j].base
    BY DEF Apart
  <2>2. /\ m.seg[j].base <= x /\ x <= End(m.seg[j]) - 1 /\ m.seg[k].base <= x /\ x <= End(m.seg[k]) - 1
        /\ x \in Int
    BY <1>1
  <2>3. /\ m.seg[j].base \in Int /\ End(m.seg[j]) \in Int /\ m.seg[k].base \in Int /\ End(m.seg[k]) \in Int
    BY <1>1
  <2> HIDE DEF I
  <2> QED
    BY ONLY <2>1, <2>2, <2>3
<1>7. Cardinality(I(j)) = m.seg[j].size
  <2> DEFINE b == m.seg[j].base
             s == m.seg[j].size
  <2>1. b \in Int /\ s \in Nat /\ End(m.seg[j]) = b + s
    BY <1>1
  <2> HIDE DEF b, s
  <2>2. Cardinality(b .. (b + s) - 1) = IF b > (b + s) - 1 THEN 0 ELSE ((b + s) - 1) - b + 1
    BY <2>1, FS_Interval
  <2> QED
    BY <2>1, <2>2 DEF b, s
<1>8. Cardinality(MappedBut(m, j)) \in Nat /\ Cardinality(I(j)) \in Nat
  BY <1>5, FS_CardinalityType
<1>9. Cardinality({}) = 0
  BY FS_EmptySet
<1> HIDE DEF I
<1>10. Cardinality(I(j) \cup MappedBut(m, j)) =
          Cardinality(I(j)) + Cardinality(MappedBut(m, j)) - Cardinality(I(j) \cap MappedBut(m, j))
  BY <1>5, FS_Union
<1>11. Cardinality(Mapped(m)) = Cardinality(MappedBut(m, j)) + m.seg[j].size
  <2> DEFINE x == Cardinality(I(j))
             y == Cardinality(MappedBut(m, j))
  <2>1. Cardinality(I(j) \cap MappedBut(m, j)) = 0
    BY <1>6, <1>9, Zenon
  <2>2. Cardinality(Mapped(m)) = x + y - 0
    BY <1>3, <1>10, <2>1, Zenon
  <2>3. x \in Nat /\ y \in Nat /\ x = m.seg[j].size
    BY <1>7, <1>8
  <2> HIDE DEF x, y
  <2>4. x + y - 0 = y + x
    BY <2>3
  <2>5. Cardinality(Mapped(m)) = y + m.seg[j].size
    BY <2>2, <2>3, <2>4
  <2> QED
    BY <2>5 DEF y
<1> QED
  BY <1>3, <1>8, <1>11 DEF I

LEMMA MovedSegments ==
    ASSUME NEW m \in State, Sound(m), NEW d \in Int, NEW m2, TopMoves(m, m2, d)
    PROVE  SegmentLayout(m2)
<1> DEFINE e == End(m.seg[1])
           t == m.top
           f == FootOf(m2)
<1>0. Layout(m) /\ SegmentLayout(m) /\ m2 \in State
  BY DEF Sound, TopMoves
<1>1. /\ 1 \in DOMAIN m.seg /\ t \in Addr /\ t \in Int /\ t \in Cells(m) /\ e \in Int
      /\ m.seg[1].base <= t /\ m.seg[1].base \in Int /\ t < e
      /\ segment_holds(m.seg[1], t)
  <2>1. /\ 1 \in DOMAIN m.seg /\ t \in Addr /\ t \in Int /\ t \in Cells(m) /\ e \in Int
        /\ m.seg[1].base <= t /\ m.seg[1].base \in Int /\ segment_holds(m.seg[1], t)
    BY SegmentOne
  <2> QED
    BY <2>1 DEF segment_holds, End
<1>2. /\ f \in Addr /\ f \in Int /\ t < f /\ f + TopFoot = e + d
  BY MovedFoot
<1>3. /\ m2.top = t /\ m2.seg = [m.seg EXCEPT ![1].size = @ + d] /\ m2.footprint = m.footprint + d
      /\ e + d <= Space
      /\ \A k \in DOMAIN m.seg \ {1} : e + d <= m.seg[k].base \/ End(m.seg[k]) <= m.seg[1].base
  BY DEF TopMoves
<1>4. /\ Cells(m2) = Cells(m)
      /\ \A a \in Cells(m) \ {t} : m2.head[a] = m.head[a] /\ After(m2, a) = After(m, a)
  BY MovedCells
<1>5. DOMAIN m2.seg = DOMAIN m.seg
  BY <1>3
<1>6. \A k \in DOMAIN m.seg \ {1} : m2.seg[k] = m.seg[k]
  BY <1>3
<1>7. m2.seg[1].base = m.seg[1].base /\ m2.seg[1].record = m.seg[1].record
      /\ m2.seg[1].size = m.seg[1].size + d /\ End(m2.seg[1]) = e + d
  <2>1. m.seg[1] \in Segment
    BY <1>1, SegFacts
  <2>2. m2.seg[1] = [m.seg[1] EXCEPT !.size = @ + d]
    BY <1>1, <1>3
  <2>3. m2.seg[1].base = m.seg[1].base /\ m2.seg[1].record = m.seg[1].record /\ m2.seg[1].size = m.seg[1].size + d
    BY <2>1, <2>2 DEF Segment
  <2>4. m.seg[1].base \in Nat /\ m.seg[1].size \in Nat
    BY <1>1, SegFacts
  <2> DEFINE b == m.seg[1].base
             z == m.seg[1].size
  <2>5. End(m2.seg[1]) = b + (z + d) /\ e = b + z
    BY <2>3 DEF End
  <2> HIDE DEF b, z, e
  <2>6. b + (z + d) = (b + z) + d
    BY <2>4 DEF b, z
  <2> QED
    BY <2>3, <2>5, <2>6 DEF e
<1> HIDE DEF e, f
<1>8. ASSUME NEW k \in DOMAIN m.seg, k # 1
      PROVE  m2.seg[k] = m.seg[k] /\ m.seg[k].base \in Int /\ End(m.seg[k]) \in Int
  BY <1>6, <1>8, SegFacts
<1>9. m2.seg # <<>>
  <2>1. 1 \in DOMAIN m2.seg
    BY <1>1, <1>5
  <2> QED
    BY <2>1
<1>10. \A k \in DOMAIN m2.seg : End(m2.seg[k]) <= Space
  <2> SUFFICES ASSUME NEW k \in DOMAIN m.seg PROVE End(m2.seg[k]) <= Space
    BY <1>5
  <2>1. CASE k = 1
    BY <1>3, <1>7, <2>1
  <2>2. CASE k # 1
    BY <1>0, <1>8, <2>2 DEF SegmentLayout
  <2> QED
    BY <2>1, <2>2
<1>11. \A j, k \in DOMAIN m2.seg :
          j # k => End(m2.seg[j]) <= m2.seg[k].base \/ End(m2.seg[k]) <= m2.seg[j].base
  <2> SUFFICES ASSUME NEW j \in DOMAIN m.seg, NEW k \in DOMAIN m.seg, j # k
               PROVE  End(m2.seg[j]) <= m2.seg[k].base \/ End(m2.seg[k]) <= m2.seg[j].base
    BY <1>5
  <2>1. CASE j = 1
    BY <1>3, <1>7, <1>8, <2>1
  <2>2. CASE k = 1
    BY <1>3, <1>7, <1>8, <2>2
  <2>3. CASE j # 1 /\ k # 1
    BY <1>0, <1>8, <2>3 DEF SegmentLayout
  <2> QED
    BY <2>1, <2>2, <2>3
<1>12. ASSUME NEW a \in Addr, m2.head[a] # NoHeader PROVE \E k \in DOMAIN m2.seg : segment_holds(m2.seg[k], a)
  <2>1. a \in Int
    BY DEF Addr
  <2>2. CASE a = t \/ a = f
    <3>1. m.seg[1].base <= a /\ a < e + d
      BY <1>1, <1>2, <2>1, <2>2 DEF TopFoot, RecordSize, MinChunk
    <3>2. segment_holds(m2.seg[1], a)
      BY <1>7, <3>1 DEF segment_holds, End
    <3> QED
      BY <1>1, <1>5, <3>2
  <2>3. CASE a # t /\ a # f
    <3>1. m2.head[a] = m.head[a] /\ (a < t \/ (e <= a /\ e + d <= a))
      BY <1>12, <2>3, MovedCells DEF e, f
    <3>2. PICK k \in DOMAIN m.seg : segment_holds(m.seg[k], a)
      BY <1>0, <1>12, <3>1 DEF SegmentLayout
    <3>3. CASE k # 1
      BY <1>5, <1>8, <3>2, <3>3
    <3>4. CASE k = 1
      <4>1. m.seg[1].base <= a /\ a < e
        BY <3>2, <3>4 DEF segment_holds, End, e
      <4>2. a < e + d
        BY <1>1, <1>2, <2>1, <3>1, <4>1 DEF TopFoot, RecordSize, MinChunk
      <4>3. segment_holds(m2.seg[1], a)
        BY <1>7, <4>1, <4>2 DEF segment_holds, End
      <4> QED
        BY <1>1, <1>5, <4>3
    <3> QED
      BY <3>3, <3>4
  <2> QED
    BY <2>2, <2>3
<1>13. ASSUME NEW k \in DOMAIN m2.seg, NEW a \in Cells(m2), segment_holds(m2.seg[k], a)
       PROVE  After(m2, a) < End(m2.seg[k]) /\ a <= IF k = 1 THEN m2.top ELSE m2.seg[k].record
  <2>1. a \in Cells(m) /\ a \in Int /\ k \in DOMAIN m.seg /\ After(m, a) \in Int
    BY <1>0, <1>4, <1>5, CellFacts
  <2>2. CASE k # 1
    <3>1. segment_holds(m.seg[k], a)
      BY <1>8, <1>13, <2>1, <2>2
    <3>2. After(m, a) < End(m.seg[k]) /\ a <= m.seg[k].record
      BY <1>0, <2>1, <2>2, <3>1 DEF SegmentLayout
    <3>3. a # t
      BY <1>0, <1>1, <2>1, <2>2, <3>1, SegmentApart
    <3> QED
      BY <1>4, <1>8, <2>1, <2>2, <3>2, <3>3
  <2>3. CASE k = 1 /\ a = t
    <3>1. After(m2, a) = f
      BY <1>3, <2>3 DEF After, TopMoves, f, FootOf, t
    <3>2. f < e + d
      BY <1>1, <1>2 DEF TopFoot, RecordSize, MinChunk
    <3> QED
      BY <1>1, <1>3, <1>7, <2>3, <3>1, <3>2
  <2>4. CASE k = 1 /\ a # t
    <3>1. a <= t \/ (e <= a /\ e + d <= a)
      BY <2>1, <2>4, MovedCells, CellFacts DEF e
    <3>2. m.seg[1].base <= a /\ a < e + d
      BY <1>7, <1>13, <2>4 DEF segment_holds, End
    <3>3. a < t
      BY <1>1, <2>1, <2>4, <3>1, <3>2
    <3>4. After(m, a) <= t
      <4>1. m.head[t] # NoHeader
        BY <1>1, CellFacts
      <4> QED
        BY <1>0, <1>1, <2>1, <3>3, <4>1 DEF Layout
    <3>5. After(m2, a) < e + d
      BY <1>1, <1>2, <1>4, <2>1, <2>4, <3>4 DEF TopFoot, RecordSize, MinChunk
    <3> QED
      BY <1>1, <1>3, <1>7, <2>1, <2>4, <3>3, <3>5
  <2> QED
    BY <2>2, <2>3, <2>4
<1>14. \A k \in DOMAIN m2.seg \ {1} :
          segment_holds(m2.seg[k], m2.seg[k].record) /\ m2.seg[k].record + TopFoot <= End(m2.seg[k])
  BY <1>0, <1>5, <1>8 DEF SegmentLayout
<1>15. segment_holds(m2.seg[1], m2.top) /\ f + TopFoot = End(m2.seg[1])
  <2>1. m.seg[1].base <= t /\ t < e + d
    BY <1>1, <1>2 DEF TopFoot, RecordSize, MinChunk
  <2> QED
    BY <1>2, <1>3, <1>7, <2>1 DEF segment_holds, End
<1>16. m2.footprint = Cardinality(Mapped(m2))
  <2>1. Apart(m) /\ m.footprint = Cardinality(Mapped(m))
    BY <1>0 DEF SegmentLayout, Apart
  <2>2. Apart(m2)
    BY <1>10, <1>11 DEF Apart
  <2>3. MappedBut(m2, 1) = MappedBut(m, 1)
    BY <1>5, <1>6 DEF MappedBut
  <2>4. /\ Cardinality(MappedBut(m, 1)) \in Nat
        /\ Cardinality(Mapped(m)) = Cardinality(MappedBut(m, 1)) + m.seg[1].size
    BY <1>1, <2>1, MappedAdds
  <2>5. Cardinality(Mapped(m2)) = Cardinality(MappedBut(m2, 1)) + m2.seg[1].size
    BY <1>0, <1>1, <1>5, <2>2, MappedAdds
  <2>6. m.seg[1].size \in Nat
    BY <1>1, SegFacts
  <2> QED
    BY <1>3, <1>7, <2>1, <2>3, <2>4, <2>5, <2>6
<1> QED
  BY <1>9, <1>10, <1>11, <1>12, <1>13, <1>14, <1>15, <1>16 DEF SegmentLayout, f

(* The memory behind top grows or shrinks, and the heap is sound still.    *)
LEMMA MovedKept ==
    ASSUME NEW m \in State, Sound(m), NEW d \in Int, NEW m2, TopMoves(m, m2, d)
    PROVE  Kept(m, m2) /\ InUse(m2) = InUse(m) /\ RecordsOf(m2) = RecordsOf(m)
<1>1. Layout(m) /\ SegmentLayout(m) /\ Filed(m) /\ m.top # Null
  BY DEF Sound
<1>2. /\ m2 \in State /\ m2.bin = m.bin /\ m2.dv = m.dv /\ m2.dvsize = m.dvsize /\ m2.top = m.top
      /\ m2.head[m.top].cinuse = FALSE
  BY DEF TopMoves
<1>3. /\ Cells(m2) = Cells(m)
      /\ \A a \in Cells(m) \ {m.top} : m2.head[a] = m.head[a] /\ After(m2, a) = After(m, a)
  BY MovedCells
<1>4. RecordsOf(m2) = RecordsOf(m)
  BY MovedFacts
<1>5. m.head[m.top].cinuse = FALSE
  BY SegmentOne
<1>6. \A a \in Cells(m) : m2.head[a].cinuse = m.head[a].cinuse /\ (a # m.top => m2.head[a] = m.head[a])
  BY <1>2, <1>3, <1>5
<1>7. Binnable(m2) = Binnable(m)
  BY <1>2, <1>3, <1>6 DEF Binnable
<1>8. \A a \in Binnable(m) : m2.head[a] = m.head[a]
  BY <1>6 DEF Binnable
<1>9. Victim(m2)
  BY <1>1, <1>2, <1>3, <1>6 DEF Victim, Filed
<1>10. Filed(m2)
  BY <1>1, <1>2, <1>7, <1>8, <1>9 DEF Filed, NoRepeats
<1>11. Sound(m2)
  <2>1. Layout(m2)
    BY MovedLayout
  <2>2. SegmentLayout(m2)
    BY MovedSegments
  <2> QED
    BY <1>1, <1>2, <1>10, <2>1, <2>2 DEF Sound
<1>12. InUse(m2) = InUse(m)
  BY <1>3, <1>6 DEF InUse
<1>13. \A a \in Blocks(m) : m2.head[a].size = m.head[a].size
  BY <1>5, <1>6 DEF Blocks, InUse
<1> QED
  BY <1>2, <1>4, <1>11, <1>12, <1>13 DEF Kept, Blocks

(* x is m with the header of the new top and the foot behind it.           *)
TopMade(m, x, p, s) ==
    /\ x \in State
    /\ x.bin = m.bin /\ x.dv = m.dv /\ x.dvsize = m.dvsize /\ x.seg = m.seg
    /\ x.footprint = m.footprint /\ x.release_checks = m.release_checks
    /\ x.top = p /\ x.topsize = s
    /\ x.head[p].size = s /\ x.head[p].cinuse = FALSE /\ x.head[p].pinuse = TRUE
    /\ x.head[p + s].size = TopFoot /\ x.head[p + s].pinuse = FALSE
    /\ \A a \in Addr : p < a /\ a < p + s => x.head[a] = NoHeader
    /\ \A a \in Addr : a < p \/ p + s < a => x.head[a] = m.head[a]

LEMMA InitTopMakes ==
    ASSUME NEW m \in State, NEW p \in Addr, NEW s \in Size, s > 0, p + s \in Addr, TopFoot \in Size
    PROVE  TopMade(m, init_top(m, p, s), p, s)
<1> DEFINE y == SetHead(m, p, s, FALSE, TRUE)
           f == [NoHeader EXCEPT !.size = TopFoot]
           h == [y.head EXCEPT ![p + s] = f]
           x == init_top(m, p, s)
<1>1. Written(m, y, p, s, FALSE, TRUE)
  <2>1. FALSE \in BOOLEAN /\ TRUE \in BOOLEAN
    OBVIOUS
  <2> QED
    BY <2>1, SetHeadWritten
<1>2. y \in State /\ SameButHead(m, y) /\ y.head[p].size = s /\ y.head[p].cinuse = FALSE /\ y.head[p].pinuse = TRUE
  BY <1>1 DEF Written
<1>3. /\ \A a \in Addr : p < a /\ a < p + s => y.head[a] = NoHeader
      /\ \A a \in Addr : a < p \/ p + s < a => y.head[a] = m.head[a]
  BY <1>1 DEF Written
<1>4. f \in Header /\ f.size = TopFoot /\ f.pinuse = FALSE
  BY Sizes0 DEF Header, NoHeader
<1>5. x = [y EXCEPT !.head = h, !.top = p, !.topsize = s]
  BY DEF init_top
<1>6. p \in Int /\ s \in Int
  BY DEF Addr, Size
<1> HIDE DEF y, f, x
<1>7. h \in [Addr -> Header]
  BY <1>2, <1>4 DEF State
<1>8. \A a \in Addr : h[a] = IF a = p + s THEN f ELSE y.head[a]
  BY <1>2 DEF State
<1> HIDE DEF h
<1>9. /\ x \in State /\ x.head = h /\ x.top = p /\ x.topsize = s
      /\ x.bin = y.bin /\ x.dv = y.dv /\ x.dvsize = y.dvsize /\ x.seg = y.seg
      /\ x.footprint = y.footprint /\ x.release_checks = y.release_checks
  BY <1>2, <1>5, <1>7 DEF State
<1>10. p # p + s
  BY <1>6
<1>11. /\ x.head[p].size = s /\ x.head[p].cinuse = FALSE /\ x.head[p].pinuse = TRUE
       /\ x.head[p + s].size = TopFoot /\ x.head[p + s].pinuse = FALSE
  BY <1>2, <1>4, <1>8, <1>9, <1>10
<1>12. \A a \in Addr : p < a /\ a < p + s => x.head[a] = NoHeader
  BY <1>3, <1>6, <1>8, <1>9 DEF Addr
<1>13. \A a \in Addr : a < p \/ p + s < a => x.head[a] = m.head[a]
  BY <1>3, <1>6, <1>8, <1>9 DEF Addr
<1> QED
  BY <1>2, <1>9, <1>11, <1>12, <1>13 DEF TopMade, SameButHead, x

(* No header lies within top, and SegmentOf finds the segment of top.      *)
LEMMA TopAlone ==
    ASSUME NEW m \in State, Sound(m)
    PROVE  /\ \A a \in Addr : m.top < a /\ a < FootOf(m) => m.head[a] = NoHeader
           /\ SegmentOf(m, m.top) = 1
           /\ \A a \in Addr : (\A k \in DOMAIN m.seg : ~segment_holds(m.seg[k], a)) => m.head[a] = NoHeader
<1>1. Layout(m) /\ SegmentLayout(m)
  BY DEF Sound
<1>2. /\ 1 \in DOMAIN m.seg /\ segment_holds(m.seg[1], m.top) /\ m.top \in Cells(m) /\ m.top \in Int
      /\ After(m, m.top) = FootOf(m)
  BY SegmentOne
<1>3. ASSUME NEW a \in Addr, m.top < a, a < FootOf(m), m.head[a] # NoHeader PROVE FALSE
  <2>1. FootOf(m) <= a
    BY <1>1, <1>2, <1>3 DEF Layout
  <2>2. a \in Int /\ FootOf(m) \in Int
    BY FootFacts DEF Addr
  <2> QED
    BY <1>3, <2>1, <2>2
<1>4. \A k \in DOMAIN m.seg : segment_holds(m.seg[k], m.top) => k = 1
  BY <1>1, <1>2, SegmentApart
<1>5. SegmentOf(m, m.top) = 1
  BY <1>2, <1>4 DEF SegmentOf
<1> QED
  BY <1>1, <1>3, <1>5 DEF SegmentLayout

(* The first segment is d larger.                                          *)
FirstIs(m, d) ==
    [m EXCEPT !.seg = [m.seg EXCEPT ![1].size = @ + d], !.footprint = m.footprint + d]

LEMMA FirstIsState ==
    ASSUME NEW m \in State, 1 \in DOMAIN m.seg, NEW d \in Int,
           m.seg[1].size + d \in Size, m.footprint + d \in Size
    PROVE  LET x == FirstIs(m, d) IN
           /\ x \in State /\ x.head = m.head /\ x.bin = m.bin /\ x.dv = m.dv /\ x.dvsize = m.dvsize
           /\ x.top = m.top /\ x.topsize = m.topsize /\ x.release_checks = m.release_checks
           /\ x.seg = [m.seg EXCEPT ![1].size = @ + d] /\ x.footprint = m.footprint + d
<1> DEFINE r == [m.seg[1] EXCEPT !.size = @ + d]
           t == [m.seg EXCEPT ![1].size = @ + d]
<1>1. m.seg \in Seq(Segment) /\ m.seg[1] \in Segment
  BY SegFacts DEF State
<1>2. r \in Segment
  BY <1>1 DEF Segment
<1>3. t = [m.seg EXCEPT ![1] = r]
  OBVIOUS
<1>4. t \in Seq(Segment)
  <2> HIDE DEF r, t, Segment
  <2> QED
    BY <1>1, <1>2, <1>3
<1> HIDE DEF t
<1>5. FirstIs(m, d) = [m EXCEPT !.seg = t, !.footprint = m.footprint + d]
  BY DEF FirstIs, t
<1> QED
  BY <1>4, <1>5 DEF State, t

(* Memory from 1 to Space that is apart from the segments has room for no  *)
(* more than what they leave.                                              *)
LEMMA FootprintRoom ==
    ASSUME NEW m \in State, Apart(m), m.footprint = Cardinality(Mapped(m)),
           NEW b \in Addr, NEW s \in Nat, b + s <= Space,
           \A k \in DOMAIN m.seg : b + s <= m.seg[k].base \/ End(m.seg[k]) <= b
    PROVE  m.footprint + s \in Size
<1> DEFINE I == b .. (b + s) - 1
<1>1. Space \in Nat /\ IsFiniteSet(1 .. Space) /\ Cardinality(1 .. Space) = Space
  BY Sizes0, UpToSpace
<1>2. b \in Nat /\ b > 0
  BY DEF Addr
<1>3. I \subseteq 1 .. Space
  BY <1>1, <1>2
<1>4. Mapped(m) \subseteq 1 .. Space
  <2> SUFFICES ASSUME NEW k \in DOMAIN m.seg
               PROVE  m.seg[k].base .. End(m.seg[k]) - 1 \subseteq 1 .. Space
    BY DEF Mapped
  <2>1. m.seg[k].base \in Nat /\ m.seg[k].base > 0 /\ End(m.seg[k]) \in Nat /\ End(m.seg[k]) <= Space
    BY SegFacts DEF Apart
  <2> QED
    BY <1>1, <2>1
<1>5. I \cap Mapped(m) = {}
  <2> SUFFICES ASSUME NEW x \in I, NEW k \in DOMAIN m.seg, x \in m.seg[k].base .. End(m.seg[k]) - 1
               PROVE  FALSE
    BY DEF Mapped
  <2>1. m.seg[k].base \in Int /\ End(m.seg[k]) \in Int
    BY SegFacts
  <2>2. b + s <= m.seg[k].base \/ End(m.seg[k]) <= b
    OBVIOUS
  <2> QED
    BY <1>2, <2>1, <2>2
<1>6. Cardinality(I) = s
  <2>1. Cardinality(I) = IF b > (b + s) - 1 THEN 0 ELSE ((b + s) - 1) - b + 1
    BY <1>2, FS_Interval
  <2> QED
    BY <1>2, <2>1
<1> HIDE DEF I
<1>7. IsFiniteSet(I) /\ IsFiniteSet(Mapped(m)) /\ Cardinality(Mapped(m)) \in Nat
  BY <1>1, <1>3, <1>4, FS_Subset, FS_CardinalityType
<1>8. Cardinality(I \cup Mapped(m)) <= Cardinality(1 .. Space)
  <2>1. I \cup Mapped(m) \in SUBSET (1 .. Space)
    BY <1>3, <1>4
  <2> QED
    BY <1>1, <2>1, FS_Subset
<1>9. Cardinality(I \cup Mapped(m)) = Cardinality(I) + Cardinality(Mapped(m)) - Cardinality(I \cap Mapped(m))
  BY <1>7, FS_Union
<1>10. Cardinality(I \cap Mapped(m)) = 0
  BY <1>5, FS_EmptySet, Zenon
<1>11. s + m.footprint - 0 <= Space
  BY <1>1, <1>6, <1>8, <1>9, <1>10
<1>12. m.footprint \in Nat
  BY <1>7
<1> QED
  BY <1>1, <1>11, <1>12 DEF Size

(* Memory that follows the first segment becomes a part of top.            *)
THEOREM TopGrows ==
    ASSUME NEW m \in State, Sound(m), NEW d \in Nat, d >= TopFoot, End(m.seg[1]) + d <= Space,
           \A k \in DOMAIN m.seg \ {1} :
              End(m.seg[1]) + d <= m.seg[k].base \/ End(m.seg[k]) <= m.seg[1].base
    PROVE  /\ TopMoves(m, init_top(FirstIs(m, d), m.top, m.topsize + d), d)
           /\ init_top(FirstIs(m, d), m.top, m.topsize + d).release_checks = m.release_checks
<1> DEFINE t == m.top
           e == End(m.seg[1])
           s2 == m.topsize + d
           y == FirstIs(m, d)
           x == init_top(y, t, s2)
           b == m.seg[1].base
<1>0. SegmentLayout(m) /\ Apart(m) /\ m.footprint = Cardinality(Mapped(m))
  BY DEF Sound, SegmentLayout, Apart
<1>1. /\ 1 \in DOMAIN m.seg /\ t \in Addr /\ t \in Int /\ m.topsize \in Nat /\ m.topsize > 0 /\ e \in Int
      /\ b <= t /\ b \in Int /\ e = t + m.topsize + TopFoot
  BY SegmentOne
<1>2. m.seg[1].size \in Nat /\ m.seg[1].size + d \in Size /\ m.footprint + d \in Size
  <2>1. m.seg[1].size \in Nat /\ e = b + m.seg[1].size /\ b > 0 /\ Space \in Nat
    BY <1>1, SegFacts, Sizes0 DEF End
  <2>2. e \in Addr /\ e + d <= Space
    BY <1>1, <2>1 DEF Addr, TopFoot, RecordSize, MinChunk
  <2>3. \A k \in DOMAIN m.seg : e + d <= m.seg[k].base \/ End(m.seg[k]) <= e
    <3> SUFFICES ASSUME NEW k \in DOMAIN m.seg PROVE e + d <= m.seg[k].base \/ End(m.seg[k]) <= e
      OBVIOUS
    <3>1. CASE k = 1
      BY <1>1, <3>1
    <3>2. CASE k # 1
      <4>1. e + d <= m.seg[k].base \/ End(m.seg[k]) <= b
        BY <3>2
      <4>2. End(m.seg[k]) \in Int /\ b <= e
        BY <1>1, SegFacts DEF TopFoot, RecordSize, MinChunk
      <4> HIDE DEF b, e
      <4> QED
        BY <1>1, <4>1, <4>2
    <3> QED
      BY <3>1, <3>2
  <2> HIDE DEF e
  <2>4. m.footprint + d \in Size
    BY <1>0, <2>2, <2>3, FootprintRoom
  <2> HIDE DEF b
  <2>5. m.seg[1].size + d \in Size
    BY <1>1, <2>1, <2>2 DEF Size
  <2> QED
    BY <2>1, <2>4, <2>5
<1> HIDE DEF e, t, b
<1>3. /\ y \in State /\ y.head = m.head /\ y.bin = m.bin /\ y.dv = m.dv /\ y.dvsize = m.dvsize
      /\ y.release_checks = m.release_checks
      /\ y.seg = [m.seg EXCEPT ![1].size = @ + d] /\ y.footprint = m.footprint + d
  BY <1>1, <1>2, FirstIsState
<1>4. /\ s2 \in Size /\ s2 > 0 /\ t + s2 \in Addr /\ TopFoot \in Size /\ s2 \in Int
      /\ (t + s2) + TopFoot = e + d /\ t + s2 >= e
  <2>1. e + d <= Space /\ Space \in Nat
    BY Sizes0 DEF e
  <2> QED
    BY <1>1, <2>1 DEF TopFoot, RecordSize, MinChunk, Addr, Size
<1> HIDE DEF y, s2
<1>5. TopMade(y, x, t, s2)
  BY <1>1, <1>3, <1>4, InitTopMakes
<1> HIDE DEF x
<1>6. /\ x \in State
      /\ x.bin = m.bin /\ x.dv = m.dv /\ x.dvsize = m.dvsize /\ x.seg = [m.seg EXCEPT ![1].size = @ + d]
      /\ x.footprint = m.footprint + d /\ x.release_checks = m.release_checks
      /\ x.top = t /\ x.topsize = s2
      /\ x.head[t].size = s2 /\ x.head[t].cinuse = FALSE /\ x.head[t].pinuse = TRUE
      /\ x.head[t + s2].size = TopFoot /\ x.head[t + s2].pinuse = FALSE
      /\ \A a \in Addr : t < a /\ a < t + s2 => x.head[a] = NoHeader
      /\ \A a \in Addr : a < t \/ t + s2 < a => x.head[a] = m.head[a]
  BY <1>3, <1>5 DEF TopMade
<1>7. FootOf(x) = t + s2
  BY <1>6 DEF FootOf
<1>8. ASSUME NEW a \in Addr, t < a, a < e \/ a < e + d, a # t + s2 PROVE x.head[a] = NoHeader
  <2>1. a \in Int
    BY DEF Addr
  <2>2. CASE a < t + s2
    BY <1>6, <1>8, <2>2
  <2>3. CASE t + s2 < a
    <3>1. x.head[a] = m.head[a] /\ e <= a /\ a < e + d
      BY <1>1, <1>4, <1>6, <1>8, <2>1, <2>3
    <3>2. ASSUME NEW k \in DOMAIN m.seg, segment_holds(m.seg[k], a) PROVE FALSE
      <4>1. m.seg[k].base \in Int /\ End(m.seg[k]) \in Int /\ m.seg[k].base <= a /\ a < End(m.seg[k])
        BY <3>2, SegFacts DEF segment_holds, End
      <4>2. CASE k = 1
        BY <1>1, <2>1, <3>1, <4>1, <4>2 DEF e
      <4>3. CASE k # 1
        <5>1. e + d <= m.seg[k].base \/ End(m.seg[k]) <= b
          BY <4>3 DEF e, b
        <5> QED
          BY <1>1, <1>8, <2>1, <3>1, <4>1, <5>1
      <4> QED
        BY <4>2, <4>3
    <3> QED
      BY <3>1, <3>2, TopAlone
  <2> QED
    BY <1>1, <1>4, <1>8, <2>1, <2>2, <2>3
<1>9. ASSUME NEW a \in Addr, a < t \/ (e <= a /\ e + d <= a) PROVE x.head[a] = m.head[a]
  <2>1. a \in Int
    BY DEF Addr
  <2>2. a < t \/ t + s2 < a
    BY <1>1, <1>4, <1>9, <2>1 DEF TopFoot, RecordSize, MinChunk
  <2> QED
    BY <1>6, <2>2
<1>10. x.topsize = m.topsize + d
  BY <1>6 DEF s2
<1> QED
  <2>1. TopMoves(m, x, d)
    BY <1>4, <1>6, <1>7, <1>8, <1>9, <1>10 DEF TopMoves, t, e
  <2> QED
    BY <1>6, <2>1 DEF x, y, s2, t

(* The end of the first segment, a part of top, is given back.             *)
THEOREM TopShrinks ==
    ASSUME NEW m \in State, Sound(m), NEW d \in Nat, d >= TopFoot, d < m.topsize,
           NEW n \in Int, n = 0 - d, NEW s2, s2 = m.topsize - d, NEW y, y = FirstIs(m, n),
           NEW x, x = Forget(init_top(y, m.top, s2), End(m.seg[1]) - d, End(m.seg[1]))
    PROVE  TopMoves(m, x, n) /\ x.release_checks = m.release_checks
<1> DEFINE t == m.top
           e == End(m.seg[1])
           b == m.seg[1].base
           w == init_top(y, t, s2)
<1>0. SegmentLayout(m) /\ Apart(m) /\ m.footprint = Cardinality(Mapped(m)) /\ Space \in Nat
  BY Sizes0 DEF Sound, SegmentLayout, Apart
<1>1. /\ 1 \in DOMAIN m.seg /\ t \in Addr /\ t \in Int /\ m.topsize \in Nat /\ e \in Int
      /\ b <= t /\ b \in Int /\ e = t + m.topsize + TopFoot
  BY SegmentOne
<1>2. m.seg[1].size \in Nat /\ m.seg[1].size - d \in Nat /\ m.seg[1].size + n \in Size
  <2>1. m.seg[1].size \in Nat /\ m.seg[1].size \in Size /\ e = b + m.seg[1].size
    BY <1>1, SegFacts DEF End, Segment
  <2> QED
    BY <1>0, <1>1, <2>1 DEF Size, TopFoot, RecordSize, MinChunk
<1>3. m.footprint + n \in Size
  <2>1. /\ Cardinality(MappedBut(m, 1)) \in Nat
        /\ Cardinality(Mapped(m)) = Cardinality(MappedBut(m, 1)) + m.seg[1].size
    BY <1>0, <1>1, MappedAdds
  <2>2. m.footprint \in Size
    BY DEF State
  <2> QED
    BY <1>0, <1>2, <2>1, <2>2 DEF Size
<1> HIDE DEF e, t, b
<1>4. /\ y \in State /\ y.head = m.head /\ y.bin = m.bin /\ y.dv = m.dv /\ y.dvsize = m.dvsize
      /\ y.release_checks = m.release_checks
      /\ y.seg = [m.seg EXCEPT ![1].size = @ + n] /\ y.footprint = m.footprint + n
  BY <1>1, <1>2, <1>3, FirstIsState
<1>5. /\ s2 \in Size /\ s2 > 0 /\ t + s2 \in Addr /\ TopFoot \in Size /\ s2 \in Int
      /\ (t + s2) + TopFoot = e - d /\ e - d \in Int /\ e <= Space /\ e - d <= t + m.topsize
  <2>1. e <= Space /\ Space \in Nat
    BY <1>0, <1>1 DEF e, Apart
  <2> QED
    BY <1>1, <2>1 DEF TopFoot, RecordSize, MinChunk, Addr, Size
<1>6. TopMade(y, w, t, s2)
  BY <1>1, <1>4, <1>5, InitTopMakes
<1> HIDE DEF w
<1>7. /\ w \in State
      /\ w.bin = m.bin /\ w.dv = m.dv /\ w.dvsize = m.dvsize /\ w.seg = [m.seg EXCEPT ![1].size = @ + n]
      /\ w.footprint = m.footprint + n /\ w.release_checks = m.release_checks
      /\ w.top = t /\ w.topsize = s2
      /\ w.head[t].size = s2 /\ w.head[t].cinuse = FALSE /\ w.head[t].pinuse = TRUE
      /\ w.head[t + s2].size = TopFoot /\ w.head[t + s2].pinuse = FALSE
      /\ \A a \in Addr : t < a /\ a < t + s2 => w.head[a] = NoHeader
      /\ \A a \in Addr : a < t \/ t + s2 < a => w.head[a] = m.head[a]
  BY <1>4, <1>6 DEF TopMade
<1>8. x = Forget(w, e - d, e)
  BY DEF w, e, t
<1>9. /\ x \in State /\ SameButHead(w, x)
      /\ \A a \in Addr : x.head[a] = IF e - d <= a /\ a < e THEN NoHeader ELSE w.head[a]
  <2> DEFINE lo == e - d
  <2>1. lo \in Int /\ x = Forget(w, lo, e)
    BY <1>5, <1>8
  <2> HIDE DEF lo
  <2>2. w \in State /\ e \in Int
    BY <1>1, <1>7
  <2>3. /\ Forget(w, lo, e) \in State /\ SameButHead(w, Forget(w, lo, e))
        /\ \A a \in Addr : Forget(w, lo, e).head[a] = IF lo <= a /\ a < e THEN NoHeader ELSE w.head[a]
    BY <2>1, <2>2, ForgetFacts
  <2>4. /\ x \in State /\ SameButHead(w, x)
        /\ \A a \in Addr : x.head[a] = IF lo <= a /\ a < e THEN NoHeader ELSE w.head[a]
    BY <2>1, <2>3
  <2> QED
    BY <2>4 DEF lo
<1>10. /\ \A a \in Addr : e - d <= a /\ a < e => x.head[a] = NoHeader
       /\ \A a \in Addr : a < e - d \/ e <= a => x.head[a] = w.head[a]
  BY <1>1, <1>5, <1>9 DEF Addr
<1>11. /\ x.bin = m.bin /\ x.dv = m.dv /\ x.dvsize = m.dvsize /\ x.seg = [m.seg EXCEPT ![1].size = @ + n]
       /\ x.footprint = m.footprint + n /\ x.release_checks = m.release_checks
       /\ x.top = t /\ x.topsize = s2
  BY <1>7, <1>9 DEF SameButHead
<1>12. x.head[t] = w.head[t] /\ x.head[t + s2] = w.head[t + s2]
  <2>1. t < e - d /\ t + s2 < e - d
    BY <1>1, <1>5 DEF TopFoot, RecordSize, MinChunk
  <2> QED
    BY <1>1, <1>5, <1>10, <2>1
<1>13. FootOf(x) = t + s2
  BY <1>11 DEF FootOf
<1>14. ASSUME NEW a \in Addr, t < a, a < e, a # t + s2 PROVE x.head[a] = NoHeader
  <2>1. a \in Int
    BY DEF Addr
  <2>2. CASE e - d <= a
    BY <1>10, <1>14, <2>2
  <2>3. CASE a < e - d /\ a < t + s2
    BY <1>7, <1>10, <1>14, <2>3
  <2>4. CASE a < e - d /\ t + s2 < a
    <3>1. x.head[a] = m.head[a]
      BY <1>7, <1>10, <2>4
    <3>2. a < FootOf(m)
      BY <1>1, <1>5, <2>1, <2>4 DEF FootOf, t
    <3> QED
      BY <1>14, <3>1, <3>2, TopAlone DEF t
  <2> QED
    BY <1>5, <1>1, <1>14, <2>1, <2>2, <2>3, <2>4
<1>15. ASSUME NEW a \in Addr, a < t \/ e <= a PROVE x.head[a] = m.head[a]
  <2>1. a \in Int
    BY DEF Addr
  <2>2. a < t \/ t + s2 < a
    BY <1>1, <1>5, <1>15, <2>1 DEF TopFoot, RecordSize, MinChunk
  <2>3. a < e - d \/ e <= a
    BY <1>1, <1>5, <1>15, <2>1 DEF TopFoot, RecordSize, MinChunk
  <2> QED
    BY <1>7, <1>10, <2>2, <2>3
<1>16. x.topsize = m.topsize + n
  BY <1>1, <1>11
<1>17. e + n = e - d /\ e - d <= e /\ e + n <= Space
  BY <1>0, <1>1, <1>5
<1>18. \A k \in DOMAIN m.seg \ {1} : e + n <= m.seg[k].base \/ End(m.seg[k]) <= b
  <2> SUFFICES ASSUME NEW k \in DOMAIN m.seg \ {1}
               PROVE  e + n <= m.seg[k].base \/ End(m.seg[k]) <= b
    OBVIOUS
  <2>1. e <= m.seg[k].base \/ End(m.seg[k]) <= b
    BY <1>0, <1>1 DEF Apart, e, b
  <2>2. m.seg[k].base \in Int
    BY SegFacts
  <2> QED
    BY <1>1, <1>17, <2>1, <2>2
<1>19. \A a \in Addr : t < a /\ (a < e \/ a < e + n) /\ a # FootOf(x) => x.head[a] = NoHeader
  BY <1>1, <1>5, <1>13, <1>14, <1>17 DEF Addr
<1>20. \A a \in Addr : a < t \/ (e <= a /\ e + n <= a) => x.head[a] = m.head[a]
  BY <1>15
<1>21. /\ x.topsize > 0 /\ x.head[t].size = x.topsize /\ x.head[t].cinuse = FALSE /\ x.head[t].pinuse = TRUE
       /\ x.head[FootOf(x)].size = TopFoot /\ x.head[FootOf(x)].pinuse = FALSE
  BY <1>5, <1>7, <1>11, <1>12, <1>13
<1> HIDE DEF t, e, b
<1>22. x.release_checks = m.release_checks
  BY <1>7, <1>9 DEF SameButHead
<1>23. TopMoves(m, x, n)
  BY <1>9, <1>11, <1>16, <1>17, <1>18, <1>19, <1>20, <1>21 DEF TopMoves, t, e, b
<1> QED
  BY <1>22, <1>23

(* Where the segments were, once segment j is gone.                        *)
Formerly(j, i) == IF i < j THEN i ELSE i + 1

(* Segment j is gone, and its headers with it; so is the free chunk with   *)
(* which it began.                                                         *)
SegmentGone(m, m2, j) ==
    /\ m2 \in State
    /\ j \in DOMAIN m.seg /\ j # 1 /\ m2.seg = RemoveAt(m.seg, j)
    /\ m2.footprint = m.footprint - m.seg[j].size
    /\ m2.top = m.top /\ m2.topsize = m.topsize
    /\ \A a \in Addr : m2.head[a] = IF segment_holds(m.seg[j], a) THEN NoHeader ELSE m.head[a]
    /\ NoRepeats(m2)
    /\ \A s \in Size, a \in Addr :
          a \in Range(m2.bin[s]) <=> a # m.seg[j].base /\ a \in Range(m.bin[s])
    /\ IF m.dv = m.seg[j].base THEN m2.dv = Null /\ m2.dvsize = 0
                               ELSE m2.dv = m.dv /\ m2.dvsize = m.dvsize
    \* this chunk, and the segment's record, were all that it held
    /\ m.head[m.seg[j].base].cinuse = FALSE
    /\ \A a \in Cells(m) : segment_holds(m.seg[j], a) => a \in {m.seg[j].base, m.seg[j].record}

(* The segment list without its entry j.                                   *)
SegsBut(m, m2, j) ==
    /\ 1 \in DOMAIN m2.seg /\ m2.seg[1] = m.seg[1] /\ m2.seg # <<>>
    /\ \A i \in DOMAIN m2.seg : /\ Formerly(j, i) \in DOMAIN m.seg \ {j}
                                /\ m2.seg[i] = m.seg[Formerly(j, i)]
                                /\ Formerly(j, i) = 1 <=> i = 1
    /\ \A i, k \in DOMAIN m2.seg : Formerly(j, i) = Formerly(j, k) => i = k
    /\ \A k \in DOMAIN m.seg \ {j} : \E i \in DOMAIN m2.seg : Formerly(j, i) = k

LEMMA SegsWithout ==
    ASSUME NEW m \in State, NEW m2, NEW j \in DOMAIN m.seg, j # 1,
           m2.seg = RemoveAt(m.seg, j)
    PROVE  SegsBut(m, m2, j)
<1>1. m.seg \in Seq(Segment) /\ j \in DOMAIN m.seg /\ j # 1 /\ m2.seg = RemoveAt(m.seg, j)
  BY DEF State
<1> HIDE DEF Segment
<1> DEFINE n == Len(m.seg)
           r == RemoveAt(m.seg, j)
<1>2. n \in Nat /\ DOMAIN m.seg = 1 .. n /\ j \in 1 .. n
  BY <1>1
<1>3. /\ r \in Seq(Segment) /\ Len(r) = n - 1
      /\ \A i \in 1 .. n - 1 : r[i] = IF i < j THEN m.seg[i] ELSE m.seg[i + 1]
  BY <1>1, <1>2, RemoveAtFacts
<1>4. DOMAIN r = 1 .. n - 1
  BY <1>3
<1> HIDE DEF r, n
<1>5. ASSUME NEW i \in DOMAIN r
      PROVE  /\ Formerly(j, i) \in 1 .. n /\ Formerly(j, i) # j /\ r[i] = m.seg[Formerly(j, i)]
             /\ Formerly(j, i) = 1 <=> i = 1
  BY <1>1, <1>2, <1>3, <1>4 DEF Formerly
<1>6. \A i, k \in DOMAIN r : Formerly(j, i) = Formerly(j, k) => i = k
  BY <1>2, <1>4 DEF Formerly
<1>7. ASSUME NEW k \in 1 .. n, k # j PROVE \E i \in DOMAIN r : Formerly(j, i) = k
  <2>1. CASE k < j
    <3>1. k \in DOMAIN r /\ Formerly(j, k) = k
      BY <1>2, <1>4, <2>1 DEF Formerly
    <3> QED
      BY <3>1
  <2>2. CASE j < k
    <3>1. k - 1 \in DOMAIN r /\ Formerly(j, k - 1) = k
      BY <1>2, <1>4, <2>2 DEF Formerly
    <3> QED
      BY <3>1
  <2> QED
    BY <1>2, <1>7, <2>1, <2>2
<1>8. 1 \in DOMAIN r /\ r[1] = m.seg[1] /\ r # <<>>
  <2>1. 1 \in 1 .. n - 1 /\ 1 < j
    BY <1>1, <1>2
  <2>2. r # <<>>
    BY <1>3, <2>1
  <2> QED
    BY <1>3, <1>4, <2>1, <2>2
<1> QED
  <2>1. m2.seg = r /\ m.seg \in Seq(Segment) /\ DOMAIN m.seg = 1 .. n
    BY <1>1, <1>2 DEF r
  <2>2. \A i \in DOMAIN r : /\ Formerly(j, i) \in DOMAIN m.seg \ {j}
                            /\ r[i] = m.seg[Formerly(j, i)]
                            /\ Formerly(j, i) = 1 <=> i = 1
    BY ONLY <1>5, <2>1
  <2>3. \A k \in DOMAIN m.seg \ {j} : \E i \in DOMAIN r : Formerly(j, i) = k
    BY ONLY <1>7, <2>1
  <2> QED
    BY ONLY <1>6, <1>8, <2>1, <2>2, <2>3 DEF SegsBut

LEMMA GoneSegs ==
    ASSUME NEW m \in State, NEW m2, NEW j, SegmentGone(m, m2, j)
    PROVE  SegsBut(m, m2, j)
<1>1. j \in DOMAIN m.seg /\ j # 1 /\ m2.seg = RemoveAt(m.seg, j)
  BY DEF SegmentGone
<1> QED
  BY <1>1, SegsWithout

LEMMA GoneSets ==
    ASSUME NEW m \in State, NEW m2, NEW j, SegmentGone(m, m2, j)
    PROVE  /\ BasesOf(m2) = {m.seg[k].base : k \in DOMAIN m.seg \ {j}}
           /\ RecordsOf(m2) = {m.seg[k].record : k \in DOMAIN m.seg \ {1, j}}
           /\ Mapped(m2) = MappedBut(m, j)
<1>1. \A i \in DOMAIN m2.seg :
         /\ Formerly(j, i) \in DOMAIN m.seg \ {j} /\ m2.seg[i] = m.seg[Formerly(j, i)]
         /\ Formerly(j, i) = 1 <=> i = 1
  BY GoneSegs DEF SegsBut
<1>2. \A k \in DOMAIN m.seg \ {j} : \E i \in DOMAIN m2.seg : Formerly(j, i) = k
  BY GoneSegs DEF SegsBut
<1>3. \A k \in DOMAIN m.seg \ {j} : \E i \in DOMAIN m2.seg : m2.seg[i] = m.seg[k] /\ (i = 1 <=> k = 1)
  BY <1>1, <1>2
<1>4. \A i \in DOMAIN m2.seg : \E k \in DOMAIN m.seg \ {j} : m2.seg[i] = m.seg[k] /\ (i = 1 <=> k = 1)
  BY <1>1
<1>5. BasesOf(m2) = {m.seg[k].base : k \in DOMAIN m.seg \ {j}}
  BY <1>3, <1>4 DEF BasesOf
<1>6. RecordsOf(m2) = {m.seg[k].record : k \in DOMAIN m.seg \ {1, j}}
  <2>1. ASSUME NEW k \in DOMAIN m.seg \ {1, j} PROVE \E i \in DOMAIN m2.seg \ {1} : m2.seg[i].record = m.seg[k].record
    BY <1>3
  <2>2. ASSUME NEW i \in DOMAIN m2.seg \ {1} PROVE \E k \in DOMAIN m.seg \ {1, j} : m2.seg[i].record = m.seg[k].record
    BY <1>4
  <2> QED
    BY <2>1, <2>2 DEF RecordsOf
<1>7. Mapped(m2) = MappedBut(m, j)
  BY <1>3, <1>4 DEF Mapped, MappedBut
<1> QED
  BY <1>5, <1>6, <1>7

(* The chunks of the other segments are as they were.                      *)
LEMMA GoneCells ==
    ASSUME NEW m \in State, Sound(m), NEW m2, NEW j, SegmentGone(m, m2, j)
    PROVE  /\ Cells(m2) = {a \in Cells(m) : ~segment_holds(m.seg[j], a)}
           /\ \A a \in Cells(m2) : /\ m2.head[a] = m.head[a] /\ After(m2, a) = After(m, a)
                                   /\ m2.head[After(m, a)] = m.head[After(m, a)]
                                   /\ ~segment_holds(m.seg[j], After(m, a))
           /\ FootOf(m2) = FootOf(m) /\ m2.head[FootOf(m)] = m.head[FootOf(m)]
           /\ m.top \in Cells(m2)
           /\ m.seg[j].base \in Cells(m) /\ segment_holds(m.seg[j], m.seg[j].base)
<1>0. Layout(m) /\ SegmentLayout(m)
  BY DEF Sound
<1>1. /\ m2 \in State /\ j \in DOMAIN m.seg /\ j # 1 /\ m2.top = m.top /\ m2.topsize = m.topsize
      /\ \A a \in Addr : m2.head[a] = IF segment_holds(m.seg[j], a) THEN NoHeader ELSE m.head[a]
  BY DEF SegmentGone
<1>2. NoHeader.size = 0
  BY DEF NoHeader
<1>3. FootOf(m2) = FootOf(m)
  BY <1>1 DEF FootOf
<1>4. Cells(m2) = {a \in Cells(m) : ~segment_holds(m.seg[j], a)}
  BY <1>1, <1>2, <1>3 DEF Cells
<1>5. ASSUME NEW k \in DOMAIN m.seg, k # j, NEW a \in Int, segment_holds(m.seg[k], a)
      PROVE  ~segment_holds(m.seg[j], a)
  BY <1>0, <1>1, <1>5, SegmentApart
<1>6. ASSUME NEW a \in Cells(m), ~segment_holds(m.seg[j], a)
      PROVE  After(m, a) \in Addr /\ ~segment_holds(m.seg[j], After(m, a))
  <2>1. a \in Addr /\ a \in Int /\ m.head[a] # NoHeader /\ After(m, a) \in Int /\ m.head[a].size \in Nat
    BY CellFacts
  <2>2. PICK k \in DOMAIN m.seg : segment_holds(m.seg[k], a)
    BY <1>0, <2>1 DEF SegmentLayout
  <2>3. k # j
    BY <1>6, <2>2
  <2>4. After(m, a) < End(m.seg[k]) /\ m.seg[k].base <= a /\ a <= After(m, a)
    BY <1>0, <2>1, <2>2 DEF SegmentLayout, After, segment_holds
  <2>5. segment_holds(m.seg[k], After(m, a))
    <3>1. m.seg[k].base \in Int /\ End(m.seg[k]) \in Int
      BY SegFacts
    <3> QED
      BY <2>1, <2>4, <3>1 DEF segment_holds, End
  <2>6. After(m, a) \in Addr
    BY <1>0 DEF Layout
  <2> QED
    BY <1>5, <2>1, <2>3, <2>5, <2>6
<1>7. \A a \in Cells(m2) : /\ m2.head[a] = m.head[a] /\ After(m2, a) = After(m, a)
                           /\ m2.head[After(m, a)] = m.head[After(m, a)]
                           /\ ~segment_holds(m.seg[j], After(m, a))
  <2> SUFFICES ASSUME NEW a \in Cells(m2)
               PROVE  /\ m2.head[a] = m.head[a] /\ After(m2, a) = After(m, a)
                      /\ m2.head[After(m, a)] = m.head[After(m, a)]
                      /\ ~segment_holds(m.seg[j], After(m, a))
    OBVIOUS
  <2>1. a \in Cells(m) /\ ~segment_holds(m.seg[j], a) /\ a \in Addr
    BY <1>4 DEF Cells
  <2>2. After(m, a) \in Addr /\ ~segment_holds(m.seg[j], After(m, a))
    BY <1>6, <2>1
  <2>3. m2.head[a] = m.head[a] /\ m2.head[After(m, a)] = m.head[After(m, a)]
    BY <1>1, <2>1, <2>2
  <2> QED
    BY <2>2, <2>3 DEF After
<1>8. m.top \in Cells(m2)
  <2>1. 1 \in DOMAIN m.seg /\ segment_holds(m.seg[1], m.top) /\ m.top \in Cells(m) /\ m.top \in Int
    BY SegmentOne
  <2> QED
    BY <1>1, <1>4, <1>5, <2>1
<1>9. m2.head[FootOf(m)] = m.head[FootOf(m)]
  <2>1. After(m, m.top) = FootOf(m)
    BY SegmentOne
  <2> QED
    BY <1>7, <1>8, <2>1
<1>10. m.seg[j].base \in Cells(m)
  BY <1>0, <1>1 DEF Layout, BasesOf
<1>11. segment_holds(m.seg[j], m.seg[j].base)
  <2>1. segment_holds(m.seg[j], m.seg[j].record) /\ m.seg[j].base \in Int /\ m.seg[j].size \in Nat
        /\ m.seg[j].record \in Int
    BY <1>0, <1>1, SegFacts DEF SegmentLayout
  <2> QED
    BY <2>1 DEF segment_holds
<1> QED
  BY <1>3, <1>4, <1>7, <1>8, <1>9, <1>10, <1>11

LEMMA GoneLayout ==
    ASSUME NEW m \in State, Sound(m), NEW m2, NEW j, SegmentGone(m, m2, j)
    PROVE  Layout(m2)
<1> DEFINE in(a) == segment_holds(m.seg[j], a)
<1>0. Layout(m) /\ SegmentLayout(m)
  BY DEF Sound
<1>1. /\ m2 \in State /\ j \in DOMAIN m.seg /\ j # 1 /\ m2.top = m.top /\ m2.topsize = m.topsize
      /\ \A a \in Addr : m2.head[a] = IF in(a) THEN NoHeader ELSE m.head[a]
  BY DEF SegmentGone
<1>2. Cells(m2) = {a \in Cells(m) : ~in(a)} /\ FootOf(m2) = FootOf(m)
      /\ m2.head[FootOf(m)] = m.head[FootOf(m)] /\ m.top \in Cells(m2)
  BY GoneCells
<1>3. \A a \in Cells(m2) : /\ m2.head[a] = m.head[a] /\ After(m2, a) = After(m, a)
                           /\ m2.head[After(m, a)] = m.head[After(m, a)] /\ ~in(After(m, a))
  BY GoneCells
<1>4. /\ BasesOf(m2) = {m.seg[k].base : k \in DOMAIN m.seg \ {j}}
      /\ RecordsOf(m2) = {m.seg[k].record : k \in DOMAIN m.seg \ {1, j}}
  BY GoneSets
<1>5. ASSUME NEW k \in DOMAIN m.seg, k # j, NEW a \in Int, segment_holds(m.seg[k], a)
      PROVE  ~in(a)
  BY <1>0, <1>1, <1>5, SegmentApart
<1>6. in(m.seg[j].base)
  BY GoneCells
<1>7. BasesOf(m2) \subseteq BasesOf(m) /\ RecordsOf(m2) \subseteq RecordsOf(m)
  BY <1>4 DEF BasesOf, RecordsOf
<1>8. ASSUME NEW a \in BasesOf(m), ~in(a) PROVE a \in BasesOf(m2)
  BY <1>4, <1>6, <1>8 DEF BasesOf
<1>9. ASSUME NEW a \in RecordsOf(m), ~in(a) PROVE a \in RecordsOf(m2)
  <2>1. in(m.seg[j].record)
    BY <1>0, <1>1 DEF SegmentLayout
  <2> QED
    BY <1>4, <1>9, <2>1 DEF RecordsOf
<1>10. ASSUME NEW a \in BasesOf(m2) PROVE a \in Cells(m2) /\ m2.head[a].pinuse
  <2>1. a \in Cells(m) /\ m.head[a].pinuse /\ a \in Int
    BY <1>0, <1>7, CellInt DEF Layout
  <2>2. PICK k \in DOMAIN m.seg \ {j} : a = m.seg[k].base
    BY <1>4
  <2>3. segment_holds(m.seg[k], a)
    <3>1. PICK i \in DOMAIN m.seg : segment_holds(m.seg[i], a)
      BY <1>0, <2>1, CellFacts DEF SegmentLayout
    <3>2. m.seg[k].base \in Int /\ m.seg[k].size \in Nat /\ End(m.seg[k]) \in Int
      BY SegFacts
    <3>3. \E c \in Int : segment_holds(m.seg[k], c)
      <4>1. CASE k = 1
        BY SegmentOne, <4>1
      <4>2. CASE k # 1
        <5>1. segment_holds(m.seg[k], m.seg[k].record) /\ m.seg[k].record \in Int
          BY <1>0, <4>2, SegFacts DEF SegmentLayout
        <5> QED
          BY <5>1
      <4> QED
        BY <4>1, <4>2
    <3> QED
      BY <2>1, <2>2, <3>2, <3>3 DEF segment_holds
  <2>4. ~in(a)
    BY <1>5, <2>1, <2>3
  <2> QED
    BY <1>2, <1>3, <2>1, <2>4
<1>11. ASSUME NEW r \in RecordsOf(m2) PROVE r \in Cells(m2) /\ m2.head[r].cinuse
  <2>1. r \in Cells(m) /\ m.head[r].cinuse /\ r \in Int
    BY <1>0, <1>7, CellInt DEF Layout
  <2>2. PICK k \in DOMAIN m.seg \ {1, j} : r = m.seg[k].record
    BY <1>4
  <2>3. segment_holds(m.seg[k], r)
    BY <1>0, <2>2 DEF SegmentLayout
  <2>4. ~in(r)
    BY <1>5, <2>1, <2>3
  <2> QED
    BY <1>2, <1>3, <2>1, <2>4
<1> HIDE DEF in
<1>12. ASSUME NEW a \in Cells(m2), NEW b \in Addr, a < b, m2.head[b] # NoHeader PROVE After(m2, a) <= b
  <2>1. a \in Cells(m) /\ m.head[b] # NoHeader
    BY <1>1, <1>2, <1>12
  <2>2. After(m, a) <= b
    BY <1>0, <1>12, <2>1 DEF Layout
  <2> QED
    BY <1>3, <2>2
<1>13. ASSUME NEW a \in Cells(m2)
       PROVE  After(m2, a) \in Addr /\ Followed(m2, a) /\ Tagged(m2, a)
              /\ (a # m2.top => m2.head[a].size >= MinChunk)
  <2>1. a \in Cells(m) /\ ~in(a)
    BY <1>2
  <2>2. After(m, a) \in Addr /\ Followed(m, a) /\ Tagged(m, a) /\ (a # m.top => m.head[a].size >= MinChunk)
    BY <1>0, <2>1 DEF Layout
  <2>3. m2.head[a] = m.head[a] /\ After(m2, a) = After(m, a) /\ m2.head[After(m, a)] = m.head[After(m, a)]
        /\ ~in(After(m, a))
    BY <1>3
  <2>4. Followed(m2, a)
    <3>1. CASE a = m.top
      BY <1>1, <1>2, <2>2, <2>3, <3>1 DEF Followed
    <3>2. CASE a # m.top /\ a \in RecordsOf(m)
      <4>1. a \in RecordsOf(m2)
        BY <1>9, <2>1, <3>2
      <4> QED
        BY <1>1, <2>2, <2>3, <3>2, <4>1 DEF Followed
    <3>3. CASE a # m.top /\ a \notin RecordsOf(m)
      <4>1. After(m, a) \in Cells(m) /\ After(m, a) \notin BasesOf(m)
        BY <2>2, <3>3 DEF Followed
      <4>2. After(m, a) \in Cells(m2) /\ After(m, a) \notin BasesOf(m2)
        BY <1>2, <1>7, <2>3, <4>1
      <4>3. a \notin RecordsOf(m2)
        BY <1>7, <3>3
      <4> QED
        BY <1>1, <2>3, <3>3, <4>2, <4>3 DEF Followed
    <3> QED
      BY <3>1, <3>2, <3>3
  <2>5. Tagged(m2, a)
    BY <1>1, <2>2, <2>3 DEF Tagged
  <2> QED
    BY <1>1, <2>2, <2>3, <2>4, <2>5
<1>14. ASSUME NEW a \in Cells(m2), a \notin BasesOf(m2) PROVE \E b \in Cells(m2) : After(m2, b) = a
  <2>1. a \in Cells(m) /\ ~in(a) /\ a \notin BasesOf(m)
    BY <1>2, <1>8, <1>14
  <2>2. PICK b \in Cells(m) : After(m, b) = a
    BY <1>0, <2>1 DEF Layout
  <2>3. ~in(b)
    <3> SUFFICES ASSUME in(b) PROVE FALSE
      OBVIOUS
    <3>1. b \in Int /\ m.head[b].size \in Nat /\ a \in Int /\ a = b + m.head[b].size
      BY <2>1, <2>2, CellFacts DEF After
    <3>2. After(m, b) < End(m.seg[j])
      BY <1>0, <1>1, <2>2 DEF SegmentLayout, in
    <3>3. m.seg[j].base <= b /\ m.seg[j].base \in Int
      BY <1>1, SegFacts DEF in, segment_holds
    <3>4. in(a)
      BY <2>2, <3>1, <3>2, <3>3 DEF in, segment_holds, End
    <3> QED
      BY <2>1, <3>4
  <2>4. b \in Cells(m2)
    BY <1>2, <2>3
  <2> QED
    BY <1>3, <2>2, <2>4
<1>15. m2.top \in Cells(m2) /\ ~m2.head[m2.top].cinuse /\ m2.topsize = m2.head[m2.top].size
       /\ FootOf(m2) \in Addr /\ m2.head[FootOf(m2)].size = TopFoot
  BY <1>0, <1>1, <1>2, <1>3 DEF Layout
<1> QED
  BY <1>10, <1>11, <1>12, <1>13, <1>14, <1>15 DEF Layout

LEMMA GoneSegments ==
    ASSUME NEW m \in State, Sound(m), NEW m2, NEW j, SegmentGone(m, m2, j)
    PROVE  SegmentLayout(m2)
<1> DEFINE in(a) == segment_holds(m.seg[j], a)
           o(i) == Formerly(j, i)
<1>0. SegmentLayout(m) /\ Apart(m) /\ m.footprint = Cardinality(Mapped(m))
  BY DEF Sound, SegmentLayout, Apart
<1>1. /\ m2 \in State /\ j \in DOMAIN m.seg /\ j # 1 /\ m2.top = m.top /\ m2.topsize = m.topsize
      /\ m2.footprint = m.footprint - m.seg[j].size
      /\ \A a \in Addr : m2.head[a] = IF in(a) THEN NoHeader ELSE m.head[a]
  BY DEF SegmentGone
<1>2. Cells(m2) = {a \in Cells(m) : ~in(a)} /\ FootOf(m2) = FootOf(m)
  BY GoneCells
<1>3. \A a \in Cells(m2) : After(m2, a) = After(m, a)
  BY GoneCells
<1>4. 1 \in DOMAIN m2.seg /\ m2.seg[1] = m.seg[1] /\ m2.seg # <<>>
  BY GoneSegs DEF SegsBut
<1>5. \A i \in DOMAIN m2.seg : /\ o(i) \in DOMAIN m.seg \ {j} /\ m2.seg[i] = m.seg[o(i)]
                               /\ o(i) = 1 <=> i = 1
  BY GoneSegs DEF SegsBut
<1>6. \A i, k \in DOMAIN m2.seg : o(i) = o(k) => i = k
  BY GoneSegs DEF SegsBut
<1>7. \A k \in DOMAIN m.seg \ {j} : \E i \in DOMAIN m2.seg : o(i) = k
  BY GoneSegs DEF SegsBut
<1> HIDE DEF in, o
<1>8. \A k \in DOMAIN m2.seg : End(m2.seg[k]) <= Space
  BY <1>0, <1>5 DEF SegmentLayout
<1>9. \A i, k \in DOMAIN m2.seg :
         i # k => End(m2.seg[i]) <= m2.seg[k].base \/ End(m2.seg[k]) <= m2.seg[i].base
  BY <1>0, <1>5, <1>6 DEF SegmentLayout
<1>10. ASSUME NEW a \in Addr, m2.head[a] # NoHeader PROVE \E k \in DOMAIN m2.seg : segment_holds(m2.seg[k], a)
  <2>1. m.head[a] # NoHeader /\ ~in(a)
    BY <1>1, <1>10
  <2>2. PICK k \in DOMAIN m.seg : segment_holds(m.seg[k], a)
    BY <1>0, <2>1 DEF SegmentLayout
  <2>3. k # j
    BY <2>1, <2>2 DEF in
  <2> QED
    BY <1>5, <1>7, <2>2, <2>3
<1>11. ASSUME NEW k \in DOMAIN m2.seg, NEW a \in Cells(m2), segment_holds(m2.seg[k], a)
       PROVE  After(m2, a) < End(m2.seg[k]) /\ a <= IF k = 1 THEN m2.top ELSE m2.seg[k].record
  <2>1. a \in Cells(m) /\ o(k) \in DOMAIN m.seg /\ m2.seg[k] = m.seg[o(k)] /\ (o(k) = 1 <=> k = 1)
    BY <1>2, <1>5
  <2>2. After(m, a) < End(m.seg[o(k)]) /\ a <= IF o(k) = 1 THEN m.top ELSE m.seg[o(k)].record
    BY <1>0, <1>11, <2>1 DEF SegmentLayout
  <2> QED
    BY <1>1, <1>3, <2>1, <2>2
<1>12. \A k \in DOMAIN m2.seg \ {1} :
          segment_holds(m2.seg[k], m2.seg[k].record) /\ m2.seg[k].record + TopFoot <= End(m2.seg[k])
  <2> SUFFICES ASSUME NEW k \in DOMAIN m2.seg, k # 1
               PROVE  segment_holds(m2.seg[k], m2.seg[k].record) /\ m2.seg[k].record + TopFoot <= End(m2.seg[k])
    OBVIOUS
  <2>1. o(k) \in DOMAIN m.seg \ {1} /\ m2.seg[k] = m.seg[o(k)]
    BY <1>5
  <2> QED
    BY <1>0, <2>1 DEF SegmentLayout
<1>13. segment_holds(m2.seg[1], m2.top) /\ FootOf(m2) + TopFoot = End(m2.seg[1])
  BY <1>0, <1>1, <1>2, <1>4 DEF SegmentLayout
<1>14. m2.footprint = Cardinality(Mapped(m2))
  <2>1. /\ Cardinality(MappedBut(m, j)) \in Nat
        /\ Cardinality(Mapped(m)) = Cardinality(MappedBut(m, j)) + m.seg[j].size
    BY <1>0, <1>1, MappedAdds
  <2>2. Mapped(m2) = MappedBut(m, j)
    BY GoneSets
  <2>3. m.seg[j].size \in Nat
    BY <1>1, SegFacts
  <2>4. m2.footprint = Cardinality(MappedBut(m, j))
    BY <1>0, <1>1, <2>1, <2>3
  <2> QED
    BY <2>2, <2>4
<1> QED
  BY <1>4, <1>8, <1>9, <1>10, <1>11, <1>12, <1>13, <1>14 DEF SegmentLayout

(* Without the segment the heap is sound, and the program's chunks are as  *)
(* they were.                                                              *)
LEMMA GoneKept ==
    ASSUME NEW m \in State, Sound(m), NEW m2, NEW j, SegmentGone(m, m2, j)
    PROVE  Kept(m, m2)
<1> DEFINE p == m.seg[j].base
           r == m.seg[j].record
<1>0. Layout(m) /\ SegmentLayout(m) /\ Filed(m) /\ m.top # Null
  BY DEF Sound
<1>1. /\ m2 \in State /\ j \in DOMAIN m.seg /\ j # 1 /\ m2.top = m.top /\ NoRepeats(m2)
      /\ \A s \in Size, a \in Addr : a \in Range(m2.bin[s]) <=> a # p /\ a \in Range(m.bin[s])
      /\ IF m.dv = p THEN m2.dv = Null /\ m2.dvsize = 0 ELSE m2.dv = m.dv /\ m2.dvsize = m.dvsize
      /\ m.head[p].cinuse = FALSE
      /\ \A a \in Cells(m) : segment_holds(m.seg[j], a) => a \in {p, r}
  BY DEF SegmentGone
<1>2. Cells(m2) = {a \in Cells(m) : ~segment_holds(m.seg[j], a)}
  BY GoneCells
<1>3. \A a \in Cells(m2) : m2.head[a] = m.head[a]
  BY GoneCells
<1>4. p \in Cells(m) /\ segment_holds(m.seg[j], p)
  BY GoneCells
<1>5. r \in RecordsOf(m) /\ segment_holds(m.seg[j], r)
  BY <1>0, <1>1 DEF SegmentLayout, RecordsOf
<1>6. r \in Cells(m) /\ m.head[r].cinuse
  BY <1>0, <1>5 DEF Layout
<1> HIDE DEF p, r
<1>7. Cells(m2) = Cells(m) \ {p, r}
  <2>1. \A a \in Cells(m) : segment_holds(m.seg[j], a) => a \in {p, r}
    BY <1>1
  <2> QED
    BY ONLY <1>2, <1>4, <1>5, <2>1
<1>8. \A a \in Cells(m) : a \in Addr /\ a # Null
  <2>1. Cells(m) \subseteq Addr
    BY ONLY DEF Cells
  <2> QED
    BY ONLY <2>1 DEF Null, Addr
<1>9. Binnable(m2) = Binnable(m) \ {p}
  <2>1. ASSUME NEW a \in Binnable(m), a # p PROVE a \in Binnable(m2)
    <3>1. a \in Cells(m) /\ a # r /\ a # Null
      BY <1>6, <1>8 DEF Binnable
    <3> QED
      BY <1>1, <1>3, <1>7, <2>1, <3>1 DEF Binnable
  <2>2. ASSUME NEW a \in Binnable(m2) PROVE a \in Binnable(m) /\ a # p
    BY <1>1, <1>3, <1>7 DEF Binnable
  <2> QED
    BY <2>1, <2>2
<1>10. ASSUME NEW s \in Size PROVE Range(m2.bin[s]) = {a \in Binnable(m2) : m2.head[a].size = s}
  <2>1. Range(m2.bin[s]) \subseteq Addr
    BY <1>1 DEF State, Range
  <2>2. Range(m.bin[s]) = {a \in Binnable(m) : m.head[a].size = s}
    BY <1>0 DEF Filed
  <2>3. \A a \in Binnable(m2) : m2.head[a] = m.head[a] /\ a \in Addr
    BY <1>3, <1>7, <1>8 DEF Binnable
  <2> QED
    BY <1>1, <1>9, <2>1, <2>2, <2>3
<1>11. Victim(m2)
  <2>1. CASE m.dv = p
    BY <1>1, <2>1 DEF Victim
  <2>2. CASE m.dv # p /\ m.dv = Null
    BY <1>0, <1>1, <2>2 DEF Victim, Filed
  <2>3. CASE m.dv # p /\ m.dv # Null
    <3>1. m.dv \in Cells(m) /\ ~m.head[m.dv].cinuse /\ m.dv # m.top /\ m.dvsize = m.head[m.dv].size
      BY <1>0, <2>3 DEF Victim, Filed
    <3>2. m.dv \in Cells(m2)
      BY <1>6, <1>7, <2>3, <3>1
    <3> QED
      BY <1>1, <1>3, <2>3, <3>1, <3>2 DEF Victim
  <2> QED
    BY <2>1, <2>2, <2>3
<1>12. Sound(m2)
  <2>1. Layout(m2)
    BY GoneLayout
  <2>2. SegmentLayout(m2)
    BY GoneSegments
  <2>3. Filed(m2)
    BY <1>1, <1>10, <1>11 DEF Filed
  <2> QED
    BY <1>0, <1>1, <2>1, <2>2, <2>3 DEF Sound
<1>13. Blocks(m2) = Blocks(m)
  <2>1. RecordsOf(m2) = {m.seg[k].record : k \in DOMAIN m.seg \ {1, j}}
    BY GoneSets
  <2>2. \A a \in RecordsOf(m) : a = r \/ a \in RecordsOf(m2)
    BY <2>1 DEF RecordsOf, r
  <2>3. RecordsOf(m2) \subseteq RecordsOf(m)
    BY <2>1 DEF RecordsOf
  <2>4. InUse(m2) = InUse(m) \ {r}
    BY <1>1, <1>3, <1>7 DEF InUse
  <2> QED
    BY <1>5, <2>2, <2>3, <2>4 DEF Blocks
<1>14. \A a \in Blocks(m) : m2.head[a].size = m.head[a].size
  <2>1. \A a \in Blocks(m) : a \in Cells(m2)
    BY <1>13 DEF Blocks, InUse
  <2> QED
    BY <1>3, <2>1
<1> QED
  BY <1>1, <1>12, <1>13, <1>14 DEF Kept

LEMMA BaseHeld ==
    ASSUME NEW m \in State, Sound(m), NEW j \in DOMAIN m.seg
    PROVE  /\ m.seg[j].base \in Cells(m) /\ m.head[m.seg[j].base].pinuse = TRUE
           /\ segment_holds(m.seg[j], m.seg[j].base)
           /\ \A k \in DOMAIN m.seg : m.seg[k].base = m.seg[j].base => k = j
<1>0. Layout(m) /\ SegmentLayout(m)
  BY DEF Sound
<1>1. ASSUME NEW k \in DOMAIN m.seg PROVE segment_holds(m.seg[k], m.seg[k].base)
  <2>1. m.seg[k].base \in Int /\ m.seg[k].size \in Nat
    BY SegFacts
  <2>2. \E c \in Int : segment_holds(m.seg[k], c)
    <3>1. CASE k = 1
      BY SegmentOne, <3>1
    <3>2. CASE k # 1
      <4>1. segment_holds(m.seg[k], m.seg[k].record) /\ m.seg[k].record \in Int
        BY <1>0, <3>2, SegFacts DEF SegmentLayout
      <4> QED
        BY <4>1
    <3> QED
      BY <3>1, <3>2
  <2> QED
    BY <2>1, <2>2 DEF segment_holds
<1>2. m.seg[j].base \in Cells(m) /\ m.head[m.seg[j].base].pinuse
  BY <1>0 DEF Layout, BasesOf
<1>3. m.head[m.seg[j].base].pinuse = TRUE
  BY <1>2, CellFacts
<1>4. ASSUME NEW k \in DOMAIN m.seg, m.seg[k].base = m.seg[j].base PROVE k = j
  <2>1. m.seg[j].base \in Int
    BY SegFacts
  <2>2. segment_holds(m.seg[j], m.seg[j].base)
    BY <1>1
  <2>3. segment_holds(m.seg[k], m.seg[j].base)
    BY <1>1, <1>4
  <2> QED
    BY <1>0, <2>1, <2>2, <2>3, SegmentApart
<1> QED
  BY <1>1, <1>2, <1>3, <1>4

(* The entry that is taken off the list is the segment's own.              *)
LEMMA EntryRemoved ==
    ASSUME NEW m \in State, Sound(m), NEW j \in DOMAIN m.seg, NEW s, s = m.seg[j]
    PROVE  UnlinkEntry(m.seg, s) = RemoveAt(m.seg, j)
<1> DEFINE I == {i \in 1 .. Len(m.seg) : m.seg[i].base = s.base}
<1>1. m.seg \in Seq(Segment)
  BY DEF State
<1>2. DOMAIN m.seg = 1 .. Len(m.seg) /\ Len(m.seg) \in Nat
  <2> HIDE DEF Segment
  <2> QED
    BY <1>1
<1>3. \A i \in 1 .. Len(m.seg) : m.seg[i].base = s.base <=> i = j
  BY <1>2, BaseHeld
<1>4. I = {j} /\ j \in 1 .. Len(m.seg)
  BY <1>2, <1>3
<1>5. \E i \in 1 .. Len(m.seg) : m.seg[i].base = s.base
  BY <1>3, <1>4
<1>6. UnlinkEntry(m.seg, s) = RemoveAt(m.seg, Min(I))
  BY <1>5 DEF UnlinkEntry, RemoveFirstMatch, SelectInSeq
<1>7. Min(I) = j
  <2>1. I \in SUBSET Nat /\ I # {}
    BY <1>4
  <2> HIDE DEF I
  <2>2. Min(I) \in I
    BY <2>1, MinFacts
  <2> QED
    BY <1>4, <2>2
<1> QED
  BY <1>6, <1>7

(* What is known of a segment that goes, or could go.                      *)
Releasable(m, j, p, hi) ==
    /\ p = m.seg[j].base /\ LoneFree(m, p, hi) /\ p \in Cells(m) /\ m.head[p].cinuse = FALSE /\ p # m.top
    /\ hi = m.seg[j].record /\ hi = After(m, p) /\ hi = p + m.head[p].size
    /\ \A a \in Cells(m) : segment_holds(m.seg[j], a) => a \in {p, hi}

LEMMA ReleaseFits ==
    ASSUME NEW m \in State, Sound(m), NEW j \in DOMAIN m.seg, j # 1,
           NEW p, p = m.seg[j].base, NEW hi, hi = p + m.head[p].size,
           ~is_inuse(m, p), End(m.seg[j]) - TopFoot <= hi
    PROVE  Releasable(m, j, p, hi)
<1>0. Layout(m) /\ SegmentLayout(m)
  BY DEF Sound
<1>1. /\ p \in Cells(m) /\ m.head[p].pinuse = TRUE /\ segment_holds(m.seg[j], p) /\ p \in Int
      /\ m.head[p].cinuse \in BOOLEAN
  BY BaseHeld, CellInt, CellFacts
<1>2. m.head[p].cinuse = FALSE
  BY <1>1 DEF is_inuse
<1>3. p # m.top
  <2>1. segment_holds(m.seg[1], m.top) /\ 1 \in DOMAIN m.seg
    BY SegmentOne
  <2> QED
    BY <1>0, <1>1, <2>1, SegmentApart
<1>4. hi = After(m, p)
  BY DEF After
<1>5. LoneFree(m, p, hi)
  BY <1>0, <1>1, <1>2, <1>3, <1>4, FreeCell
<1>6. p < hi /\ hi \in Int /\ hi \in Cells(m)
  BY <1>5 DEF LoneFree
<1>7. /\ hi < End(m.seg[j]) /\ m.seg[j].record + TopFoot <= End(m.seg[j]) /\ m.seg[j].record \in Int
      /\ End(m.seg[j]) \in Int /\ m.seg[j].base \in Int
  <2>1. m.seg[j].record \in Int /\ End(m.seg[j]) \in Int /\ m.seg[j].base \in Int
    BY SegFacts
  <2>2. m.seg[j].record + TopFoot <= End(m.seg[j])
    BY <1>0 DEF SegmentLayout
  <2>3. \A a \in Cells(m) : segment_holds(m.seg[j], a) => After(m, a) < End(m.seg[j])
    BY <1>0 DEF SegmentLayout
  <2>4. After(m, p) < End(m.seg[j])
    BY ONLY <1>1, <2>3
  <2> QED
    BY ONLY <1>4, <2>1, <2>2, <2>4
<1>8. segment_holds(m.seg[j], hi)
  BY <1>6, <1>7 DEF segment_holds, End
<1>9. hi <= m.seg[j].record
  BY <1>0, <1>6, <1>8 DEF SegmentLayout
<1>10. hi = m.seg[j].record
  BY <1>6, <1>7, <1>9 DEF TopFoot, RecordSize, MinChunk
<1>11. ASSUME NEW a \in Cells(m), segment_holds(m.seg[j], a) PROVE a \in {p, hi}
  <2>1. a \in Int /\ p <= a /\ a <= hi
    BY <1>0, <1>10, <1>11, CellInt DEF SegmentLayout, segment_holds
  <2>2. a < hi => a = p
    BY <1>5, <2>1 DEF LoneFree
  <2> QED
    BY <1>6, <2>1, <2>2
<1> QED
  BY <1>1, <1>2, <1>3, <1>4, <1>5, <1>10, <1>11 DEF Releasable

(* The chunk leaves its bin, or is the victim no more.                     *)
LEMMA ReleaseTakes ==
    ASSUME NEW m \in State, Sound(m), NEW p \in Cells(m), m.head[p].cinuse = FALSE, p # m.top,
           NEW m1, m1 = IF p = m.dv THEN NoVictim(m) ELSE unlink_chunk(m, p, m.head[p].size)
    PROVE  Taken(m, m1, p)
<1>1. CASE p = m.dv
  <2>1. m.dv # Null
    BY <1>1, CellFacts DEF Null
  <2> QED
    BY <1>1, <2>1, VictimTaken
<1>2. CASE p # m.dv
  <2>1. p \in Binnable(m)
    BY <1>2 DEF Binnable
  <2> QED
    BY <1>2, <2>1, UnlinkTaken
<1> QED
  BY <1>1, <1>2

(* If it cannot be unmapped, the chunk is filed again.                     *)
LEMMA ReleaseFails ==
    ASSUME NEW m \in State, Sound(m), NEW j, NEW p, NEW hi, Releasable(m, j, p, hi),
           NEW m1, Taken(m, m1, p), NEW s, s = m.head[p].size
    PROVE  /\ Kept(m, insert_chunk(m1, p, s)) /\ insert_chunk(m1, p, s).seg = m.seg
           /\ insert_chunk(m1, p, s).release_checks = m.release_checks
<1> DEFINE m2 == insert_chunk(m1, p, s)
<1>0. Layout(m)
  BY DEF Sound
<1>1. /\ LoneFree(m, p, hi) /\ p \in Cells(m) /\ m.head[p].cinuse = FALSE /\ p # m.top
      /\ hi = After(m, p)
  BY DEF Releasable
<1>2. /\ p \in Addr /\ p \in Int /\ hi \in Addr /\ hi \in Int /\ p < hi /\ hi = p + s
      /\ s \in Size /\ s \in Nat /\ s >= MinChunk /\ m.head[p].pinuse = TRUE
      /\ hi # FootOf(m) /\ m.head[hi].cinuse = TRUE /\ m.head[hi].pinuse = FALSE
      /\ m.head[hi].prev_foot = s /\ Region(m, p, hi) /\ \A a \in Cells(m) : p <= a /\ a < hi => a = p
  BY <1>1 DEF LoneFree
<1>3. /\ m1 \in State /\ m1.head = m.head /\ m1.top = m.top /\ m1.topsize = m.topsize
      /\ m1.seg = m.seg /\ m1.footprint = m.footprint /\ m1.release_checks = m.release_checks
      /\ Cleared(m, m1, p, hi) /\ VictimApart(m, m1, p, hi)
  BY <1>1 DEF Taken
<1>4. \A a \in Addr : p < a /\ a < hi => m.head[a] = NoHeader
  <2> SUFFICES ASSUME NEW a \in Addr, p < a, a < hi, m.head[a] # NoHeader PROVE FALSE
    OBVIOUS
  <2>1. hi <= a /\ a \in Int
    BY <1>0, <1>1 DEF Layout, Addr
  <2> QED
    BY <1>2, <2>1
<1>5. s = hi - p
  BY <1>2
<1>6. Retiled(m.head, m1.head, p, hi, hi, FALSE, FALSE)
  BY <1>1, <1>2, <1>3, <1>4, <1>5 DEF Retiled
<1>7. OneFree(m, m1, p, hi)
  BY <1>2, <1>3, <1>5, <1>6 DEF OneFree
<1>8. Outcome(m, m2, p, hi, hi, FALSE, FALSE)
  BY <1>2, <1>3, <1>5, <1>7, FreeInserted
<1> HIDE DEF m2
<1>9. /\ m2 \in State /\ Sound(m2) /\ m2.seg = m.seg /\ m2.release_checks = m.release_checks
      /\ InUse(m2) = {a \in InUse(m) : a < p \/ hi <= a}
                      \cup {a \in {p} : FALSE} \cup {a \in {LastAt(p, hi, hi)} : FALSE}
      /\ \A a \in InUse(m) : a < p \/ hi <= a => m2.head[a].size = m.head[a].size
  BY <1>8 DEF Outcome
<1>10. \A a \in InUse(m) : a < p \/ hi <= a
  <2> SUFFICES ASSUME NEW a \in InUse(m) PROVE a < p \/ hi <= a
    OBVIOUS
  <2>1. a \in Cells(m) /\ a \in Int /\ a # p
    BY <1>1, CellInt DEF InUse
  <2> QED
    BY <1>2, <2>1
<1>11. InUse(m2) = InUse(m) /\ RecordsOf(m2) = RecordsOf(m)
  BY <1>9, <1>10 DEF RecordsOf
<1>12. Kept(m, m2)
  BY <1>9, <1>10, <1>11 DEF Kept, Blocks
<1> QED
  BY <1>9, <1>12 DEF m2

(* If it can, the segment is gone.                                         *)
LEMMA ReleaseUnmaps ==
    ASSUME NEW m \in State, Sound(m), NEW j \in DOMAIN m.seg, j # 1,
           NEW p, NEW hi, Releasable(m, j, p, hi), NEW m1, Taken(m, m1, p), NEW s, s = m.seg[j]
    PROVE  SegmentGone(m, Unmapped(m1, s), j) /\ Unmapped(m1, s).release_checks = m.release_checks
<1> DEFINE lo == s.base
           end == s.base + s.size
           y == Forget(m1, lo, end)
           t == RemoveAt(m.seg, j)
           f == m.footprint - s.size
           m2 == Unmapped(m1, s)
<1>0. Layout(m) /\ SegmentLayout(m) /\ Filed(m) /\ Apart(m) /\ m.footprint = Cardinality(Mapped(m))
  BY DEF Sound, SegmentLayout, Apart
<1>1. /\ p = s.base /\ LoneFree(m, p, hi) /\ p \in Cells(m) /\ m.head[p].cinuse = FALSE /\ p # m.top
      /\ hi = m.seg[j].record /\ hi = After(m, p)
      /\ \A a \in Cells(m) : segment_holds(m.seg[j], a) => a \in {p, hi}
  <2>1. /\ p = m.seg[j].base /\ LoneFree(m, p, hi) /\ p \in Cells(m) /\ m.head[p].cinuse = FALSE
        /\ p # m.top /\ hi = m.seg[j].record /\ hi = After(m, p)
        /\ \A a \in Cells(m) : segment_holds(m.seg[j], a) => a \in {p, hi}
    BY ONLY Releasable(m, j, p, hi) DEF Releasable
  <2>2. s.base = m.seg[j].base
    BY ONLY s = m.seg[j]
  <2> QED
    BY ONLY <2>1, <2>2
<1>2. p \in Int /\ hi \in Int /\ p < hi /\ \A a \in Cells(m) : p <= a /\ a < hi => a = p
  BY <1>1 DEF LoneFree
<1>3. /\ m1 \in State /\ m1.head = m.head /\ m1.top = m.top /\ m1.topsize = m.topsize
      /\ m1.seg = m.seg /\ m1.footprint = m.footprint /\ m1.release_checks = m.release_checks
      /\ Cleared(m, m1, p, hi) /\ VictimApart(m, m1, p, hi)
  BY <1>1 DEF Taken
<1>4. s \in Segment /\ s.base \in Int /\ s.size \in Nat /\ lo \in Int /\ end \in Int
  BY SegFacts
<1>5. /\ y \in State /\ SameButHead(m1, y)
      /\ \A a \in Addr : y.head[a] = IF lo <= a /\ a < end THEN NoHeader ELSE m1.head[a]
  BY <1>3, <1>4, ForgetFacts
<1>6. t \in Seq(Segment)
  <2>1. m.seg \in Seq(Segment)
    BY DEF State
  <2> HIDE DEF Segment
  <2>2. j \in 1 .. Len(m.seg)
    BY <2>1
  <2> QED
    BY <2>1, <2>2, RemoveAtFacts
<1>7. f \in Size
  <2>1. /\ Cardinality(MappedBut(m, j)) \in Nat
        /\ Cardinality(Mapped(m)) = Cardinality(MappedBut(m, j)) + m.seg[j].size
    BY <1>0, MappedAdds
  <2>2. m.footprint \in Size
    BY DEF State
  <2> QED
    BY <1>0, <1>4, <2>1, <2>2, Sizes0 DEF Size
<1>8. m2 = [y EXCEPT !.seg = t, !.footprint = f]
  <2>1. y.seg = m.seg /\ y.footprint = m.footprint
    BY <1>3, <1>5 DEF SameButHead
  <2>2. UnlinkEntry(m.seg, s) = t
    BY EntryRemoved
  <2>3. m2 = [y EXCEPT !.seg = UnlinkEntry(y.seg, s), !.footprint = y.footprint - s.size]
    BY DEF Unmapped
  <2> QED
    BY <2>1, <2>2, <2>3
<1>9. /\ m2 \in State /\ m2.head = y.head /\ m2.bin = y.bin /\ m2.dv = y.dv /\ m2.dvsize = y.dvsize
      /\ m2.top = y.top /\ m2.topsize = y.topsize /\ m2.seg = t /\ m2.footprint = f
      /\ m2.release_checks = y.release_checks
  <2> HIDE DEF m2, y, t, f, Segment
  <2> QED
    BY <1>5, <1>6, <1>7, <1>8 DEF State
<1> HIDE DEF m2
<1>10. /\ m2.bin = m1.bin /\ m2.dv = m1.dv /\ m2.dvsize = m1.dvsize
       /\ m2.top = m.top /\ m2.topsize = m.topsize /\ m2.release_checks = m.release_checks
  BY <1>3, <1>5, <1>9 DEF SameButHead
<1>11. \A a \in Addr : m2.head[a] = IF segment_holds(m.seg[j], a) THEN NoHeader ELSE m.head[a]
  BY <1>3, <1>5, <1>9 DEF segment_holds
<1>12. m.dv = Null \/ m.dv \in Cells(m)
  BY <1>0 DEF Filed, Victim
<1>13. NoRepeats(m2)
  BY <1>3, <1>10 DEF Cleared, NoRepeats
<1>14. ASSUME NEW b \in Size, NEW a \in Addr
       PROVE  a \in Range(m2.bin[b]) <=> a # p /\ a \in Range(m.bin[b])
  <2>1. a \in Range(m1.bin[b]) <=> (a < p \/ hi <= a) /\ a \in Range(m.bin[b])
    BY <1>3 DEF Cleared
  <2>2. a \in Range(m.bin[b]) => a \in Cells(m)
    BY <1>0 DEF Filed, Binnable
  <2>3. a \in Int
    BY DEF Addr
  <2> QED
    BY <1>2, <1>10, <2>1, <2>2, <2>3
<1>15. IF m.dv = p THEN m2.dv = Null /\ m2.dvsize = 0 ELSE m2.dv = m.dv /\ m2.dvsize = m.dvsize
  <2>1. p > Null /\ Null \in Int
    BY <1>1, CellFacts DEF Null
  <2>2. m.dv \in Int
    BY <1>12, <2>1, CellInt
  <2>3. m.dv # p => m.dv < p \/ hi <= m.dv
    BY <1>2, <1>12, <2>1, <2>2
  <2> QED
    BY <1>2, <1>3, <1>10, <2>2, <2>3 DEF VictimApart
<1>16. SegmentGone(m, m2, j)
  BY <1>1, <1>9, <1>10, <1>11, <1>13, <1>14, <1>15 DEF SegmentGone
<1> QED
  BY <1>10, <1>16 DEF m2

(* A segment is looked at, and perhaps released.                           *)
ReleasedOne(m, m2, j) ==
    /\ Kept(m, m2) /\ m2.release_checks = m.release_checks
    /\ m2.seg = m.seg \/ m2.seg = RemoveAt(m.seg, j)

(* If that has not gone astray, the chunk was treated as what it is.       *)
LEMMA NotAstray ==
    ASSUME NEW m \in State, NEW s, NEW taken \in BOOLEAN, ~ReleaseSegment(m, s, taken).astray,
           ~is_inuse(m, s.base), ~(s.base + m.head[s.base].size < s.base + s.size - TopFoot)
    PROVE  LET p  == s.base
               m1 == IF p = m.dv THEN NoVictim(m) ELSE unlink_chunk(m, p, m.head[p].size)
           IN  ReleaseSegment(m, s, taken) =
                   IF taken THEN Unmapped(m1, s) ELSE insert_chunk(m1, p, m.head[p].size)
<1> DEFINE p == s.base
           psize == m.head[p].size
           m1 == IF p = m.dv THEN NoVictim(m) ELSE unlink_large_chunk(m, p, psize)
           m2 == IF p = m.dv THEN NoVictim(m) ELSE unlink_chunk(m, p, psize)
           r == ReleaseSegment(m, s, taken)
           SetAstray(y) == [y EXCEPT !.astray = TRUE]
<1>1. r = IF m.astray THEN m ELSE IF m1.astray THEN m1
          ELSE IF taken THEN Unmapped(m1, s) ELSE insert_large_chunk(m1, p, psize)
  BY DEF ReleaseSegment
<1>2. m1 = m2 \/ m1 = SetAstray(m)
  BY DEF unlink_large_chunk
<1>3. SetAstray(m).astray = TRUE
  BY DEF State
<1>4. m2.astray = m.astray /\ SetAstray(m2).astray = TRUE
  BY DEF State, NoVictim, unlink_chunk
<1>5. insert_large_chunk(m2, p, psize) \in {SetAstray(m2), insert_chunk(m2, p, psize)}
  BY DEF insert_large_chunk
<1> HIDE DEF m1, m2, p, psize, SetAstray
<1>6. ~m.astray /\ ~m1.astray
  BY <1>1
<1>7. m1 = m2
  BY <1>2, <1>3, <1>6
<1>8. r = IF taken THEN Unmapped(m2, s) ELSE insert_chunk(m2, p, psize)
  BY <1>1, <1>4, <1>5, <1>6, <1>7
<1> QED
  BY <1>8 DEF m2, p, psize

GoneAstray(m) == "astray" \in DOMAIN m /\ m.astray

LEMMA FlagStays ==
    ASSUME NEW m, "astray" \in DOMAIN m, NEW s, NEW taken
    PROVE  "astray" \in DOMAIN ReleaseSegment(m, s, taken)
BY DEF ReleaseSegment, Unmapped, Forget, NoVictim, unlink_large_chunk, unlink_chunk,
       insert_large_chunk, insert_chunk

LEMMA ReleaseKeeps ==
    ASSUME NEW m \in State, Sound(m), NEW j \in DOMAIN m.seg, j # 1, NEW s, s = m.seg[j],
           NEW taken \in BOOLEAN, ~ReleaseSegment(m, s, taken).astray
    PROVE  ReleasedOne(m, ReleaseSegment(m, s, taken), j)
<1> DEFINE p == s.base
           psize == m.head[p].size
           hi == p + psize
           m1 == IF p = m.dv THEN NoVictim(m) ELSE unlink_chunk(m, p, psize)
           r == ReleaseSegment(m, s, taken)
<1>1. CASE is_inuse(m, p) \/ hi < s.base + s.size - TopFoot
  <2>1. r = m
    BY <1>1 DEF ReleaseSegment
  <2> QED
    BY <2>1 DEF ReleasedOne, Kept
<1>2. CASE ~(is_inuse(m, p) \/ hi < s.base + s.size - TopFoot)
  <2>1. r = IF taken THEN Unmapped(m1, s) ELSE insert_chunk(m1, p, psize)
    BY <1>2, NotAstray
  <2>2. End(m.seg[j]) - TopFoot <= hi /\ ~is_inuse(m, p) /\ p = m.seg[j].base
    <3>1. p \in Cells(m) /\ s.base \in Int /\ s.size \in Nat
      <4>1. m.seg[j].base \in Cells(m)
        BY BaseHeld
      <4>2. m.seg[j].base \in Nat /\ m.seg[j].size \in Nat
        BY SegFacts
      <4> QED
        BY <4>1, <4>2
    <3>2. psize \in Nat /\ p \in Int
      BY <3>1, CellFacts
    <3> QED
      BY <1>2, <3>1, <3>2 DEF End, TopFoot, RecordSize, MinChunk
  <2> HIDE DEF m1, r, p, psize
  <2>3. psize = m.head[p].size
    BY DEF psize
  <2>4. Releasable(m, j, p, hi)
    BY <2>2, <2>3, ReleaseFits
  <2>5. p \in Cells(m) /\ m.head[p].cinuse = FALSE /\ p # m.top
    BY <2>4 DEF Releasable
  <2>6. Taken(m, m1, p)
    <3>1. m1 = IF p = m.dv THEN NoVictim(m) ELSE unlink_chunk(m, p, m.head[p].size)
      BY <2>3 DEF m1
    <3> QED
      BY <2>5, <3>1, ReleaseTakes
  <2>7. CASE taken
    <3>1. SegmentGone(m, Unmapped(m1, s), j) /\ Unmapped(m1, s).release_checks = m.release_checks
      BY <2>4, <2>6, ReleaseUnmaps
    <3>2. SegmentGone(m, r, j) /\ r.release_checks = m.release_checks
      BY <2>1, <2>7, <3>1
    <3>3. Kept(m, r)
      BY <3>2, GoneKept
    <3>4. r.seg = RemoveAt(m.seg, j)
      BY <3>2 DEF SegmentGone
    <3> QED
      BY <3>2, <3>3, <3>4 DEF ReleasedOne, r
  <2>8. CASE ~taken
    <3>1. /\ Kept(m, insert_chunk(m1, p, psize)) /\ insert_chunk(m1, p, psize).seg = m.seg
          /\ insert_chunk(m1, p, psize).release_checks = m.release_checks
      BY <2>3, <2>4, <2>6, ReleaseFails
    <3> QED
      BY <2>1, <2>8, <3>1 DEF ReleasedOne, r
  <2> QED
    BY <2>7, <2>8
<1> QED
  BY <1>1, <1>2

(* Two states that differ in the counter only.                             *)
SameButChecks(m, m2) ==
    /\ m2.head = m.head /\ m2.bin = m.bin /\ m2.dv = m.dv /\ m2.dvsize = m.dvsize
    /\ m2.top = m.top /\ m2.topsize = m.topsize /\ m2.seg = m.seg /\ m2.footprint = m.footprint

LEMMA SameSound ==
    ASSUME NEW m \in State, Sound(m), NEW m2 \in State, SameButChecks(m, m2)
    PROVE  Kept(m, m2) /\ InUse(m2) = InUse(m) /\ RecordsOf(m2) = RecordsOf(m)
<1>1. /\ Cells(m2) = Cells(m) /\ FootOf(m2) = FootOf(m) /\ BasesOf(m2) = BasesOf(m)
      /\ RecordsOf(m2) = RecordsOf(m) /\ Mapped(m2) = Mapped(m)
  BY DEF SameButChecks, Cells, FootOf, BasesOf, RecordsOf, Mapped
<1>2. \A a : After(m2, a) = After(m, a)
  BY DEF SameButChecks, After
<1>3. \A a : Followed(m2, a) <=> Followed(m, a)
  BY <1>1, <1>2 DEF SameButChecks, Followed
<1>4. \A a : Tagged(m2, a) <=> Tagged(m, a)
  BY <1>2 DEF SameButChecks, Tagged
<1>5. Layout(m2)
  BY <1>1, <1>2, <1>3, <1>4 DEF Sound, Layout, SameButChecks
<1>6. SegmentLayout(m2)
  BY <1>1, <1>2 DEF Sound, SegmentLayout, SameButChecks
<1>7. Filed(m2)
  <2>1. Binnable(m2) = Binnable(m)
    BY <1>1 DEF Binnable, SameButChecks
  <2>2. Victim(m2)
    BY <1>1 DEF Sound, Filed, Victim, SameButChecks
  <2> QED
    BY <2>1, <2>2 DEF Sound, Filed, NoRepeats, SameButChecks
<1>8. InUse(m2) = InUse(m)
  BY <1>1 DEF InUse, SameButChecks
<1> QED
  BY <1>1, <1>5, <1>6, <1>7, <1>8 DEF Kept, Sound, Blocks, SameButChecks

LEMMA KeptOn ==
    ASSUME NEW m, NEW h, NEW r, Kept(m, h), Kept(h, r)
    PROVE  Kept(m, r)
BY DEF Kept

(* The state after segment k.                                              *)
ReleaseOf(c, f, k) ==
    IF k = 1 THEN c.m ELSE ReleaseSegment(f[k - 1], c.m.seg[k], c.unmaps[k])

Releases == INSTANCE StructureLemmas WITH
    Dom <- LAMBDA c : 1 .. Len(c.m.seg), Def <- LAMBDA c, f, k : ReleaseOf(c, f, k),
    Rank <- LAMBDA c, k : k, ListHead <- 0

(* How release_unused_segments comes to its result.                        *)
ReleaseBy(m, unmaps, f) ==
    LET n == Len(m.seg) IN
    /\ release_unused_segments(m, unmaps) = [f[n] EXCEPT !.release_checks = Max({n - 1, CheckRate})]
    /\ f[1] = m
    /\ \A k \in 2 .. n : f[k] = ReleaseSegment(f[k - 1], m.seg[k], unmaps[k])

LEMMA ReleaseFacts ==
    ASSUME NEW m \in State, m.seg # <<>>, NEW unmaps
    PROVE  \E f : ReleaseBy(m, unmaps, f)
<1> DEFINE n == Len(m.seg)
           c == [m |-> m, unmaps |-> unmaps]
           B(g) == [k \in 1 .. n |->
                       IF k = 1 THEN m ELSE ReleaseSegment(g[k - 1], m.seg[k], unmaps[k])]
           f == CHOOSE g : g = B(g)
<1>1. n \in Nat /\ n > 0
  <2>1. m.seg \in Seq(Segment)
    BY DEF State
  <2> HIDE DEF Segment
  <2> QED
    BY <2>1
<1>2. c.m = m /\ c.unmaps = unmaps
  OBVIOUS
<1>3. release_unused_segments(m, unmaps) = [f[n] EXCEPT !.release_checks = Max({n - 1, CheckRate})]
  BY DEF release_unused_segments
<1>4. f = [k \in 1 .. n |-> ReleaseOf(c, f, k)]
  <2> HIDE DEF c
  <2>1. Releases!Local(c)
    <3>1. ASSUME NEW g, NEW h, NEW k \in 1 .. n, \A j \in 1 .. n : j < k => g[j] = h[j]
          PROVE  ReleaseOf(c, g, k) = ReleaseOf(c, h, k)
      <4>1. CASE k = 1
        BY <1>2, <4>1 DEF ReleaseOf
      <4>2. CASE k # 1
        <5>1. k - 1 \in 1 .. n /\ k - 1 < k
          BY <1>1, <4>2
        <5>2. g[k - 1] = h[k - 1]
          BY <3>1, <5>1
        <5> QED
          BY <4>2, <5>2 DEF ReleaseOf
      <4> QED
        BY <4>1, <4>2
    <3>2. Len(c.m.seg) = n
      BY <1>2
    <3> HIDE DEF n
    <3> QED
      BY <3>1, <3>2 DEF Releases!Local
  <2>2. Releases!Ranked(c)
    BY <1>1, <1>2 DEF Releases!Ranked
  <2>3. PICK g : g = [k \in 1 .. Len(c.m.seg) |-> ReleaseOf(c, g, k)]
    BY <2>1, <2>2, Releases!SomeFunction
  <2>4. ASSUME NEW h PROVE [k \in 1 .. n |-> ReleaseOf(c, h, k)] = B(h)
    BY <1>2 DEF ReleaseOf
  <2>5. g = B(g)
    <3>1. g = [k \in 1 .. n |-> ReleaseOf(c, g, k)]
      BY <1>2, <2>3
    <3> HIDE DEF B
    <3> QED
      BY <2>4, <3>1
  <2>6. f = B(f)
    <3> HIDE DEF B
    <3> QED
      BY <2>5
  <2> HIDE DEF f, B
  <2> QED
    BY <2>4, <2>6
<1> HIDE DEF B, f
<1>5. f[1] = m
  <2>1. 1 \in 1 .. n
    BY <1>1
  <2>2. f[1] = ReleaseOf(c, f, 1)
    BY <1>4, <2>1
  <2> QED
    BY <1>2, <2>2 DEF ReleaseOf
<1>6. \A k \in 2 .. n : f[k] = ReleaseSegment(f[k - 1], m.seg[k], unmaps[k])
  <2> SUFFICES ASSUME NEW k \in 2 .. n PROVE f[k] = ReleaseSegment(f[k - 1], m.seg[k], unmaps[k])
    OBVIOUS
  <2>1. k \in 1 .. n /\ k # 1
    BY <1>1
  <2>2. f[k] = ReleaseOf(c, f, k)
    BY <1>4, <2>1
  <2> QED
    BY <1>2, <2>1, <2>2 DEF ReleaseOf
<1> QED
  BY <1>3, <1>5, <1>6 DEF ReleaseBy

(* After segment k, the later ones are still there.                        *)
ReleasedSoFar(m, h, k) ==
    /\ Kept(m, h) /\ h.release_checks = m.release_checks
    /\ \A i \in DOMAIN m.seg :
          i > k => \E j \in DOMAIN h.seg : j # 1 /\ h.seg[j] = m.seg[i]

LEMMA ReleasedNext ==
    ASSUME NEW m \in State, Sound(m), NEW k \in DOMAIN m.seg, k # 1, NEW l, l = k - 1,
           NEW h, ReleasedSoFar(m, h, l), NEW taken \in BOOLEAN,
           NEW r, r = ReleaseSegment(h, m.seg[k], taken), ~r.astray
    PROVE  ReleasedSoFar(m, r, k)
<1>1. Kept(m, h) /\ h \in State /\ Sound(h) /\ h.release_checks = m.release_checks
  BY DEF ReleasedSoFar, Kept
<1>2. k \in Nat /\ k > l
  <2>1. k \in Nat
    BY SegFacts
  <2> QED
    BY <2>1
<1>3. PICK j \in DOMAIN h.seg : j # 1 /\ h.seg[j] = m.seg[k]
  BY <1>2 DEF ReleasedSoFar
<1>4. ReleasedOne(h, r, j)
  BY <1>1, <1>3, ReleaseKeeps
<1>5. Kept(h, r) /\ r.release_checks = h.release_checks /\ (r.seg = h.seg \/ r.seg = RemoveAt(h.seg, j))
  BY <1>4 DEF ReleasedOne
<1>6. Kept(m, r)
  BY <1>1, <1>5, KeptOn
<1>7. ASSUME NEW i \in DOMAIN m.seg, i > k PROVE \E q \in DOMAIN r.seg : q # 1 /\ r.seg[q] = m.seg[i]
  <2>1. i > l /\ i # k
    <3>1. i \in Nat
      BY SegFacts
    <3> QED
      BY <1>2, <1>7, <3>1
  <2>2. PICK q \in DOMAIN h.seg : q # 1 /\ h.seg[q] = m.seg[i]
    BY <2>1 DEF ReleasedSoFar
  <2>3. q # j
    <3>1. m.seg[i].base # m.seg[k].base
      <4>1. \A u \in DOMAIN m.seg : m.seg[u].base = m.seg[k].base => u = k
        BY ONLY m \in State, Sound(m), k \in DOMAIN m.seg, BaseHeld
      <4> QED
        BY <1>7, <2>1, <4>1
    <3> QED
      BY <1>3, <2>2, <3>1
  <2>4. CASE r.seg = h.seg
    BY <2>2, <2>4
  <2>5. CASE r.seg = RemoveAt(h.seg, j)
    <3>1. /\ h \in State /\ j \in DOMAIN h.seg /\ j # 1 /\ r.seg = RemoveAt(h.seg, j)
      BY <1>1, <1>3, <2>5
    <3>4. SegsBut(h, r, j)
      BY ONLY <3>1, SegsWithout
    <3>5. /\ \A u \in DOMAIN r.seg : r.seg[u] = h.seg[Formerly(j, u)] /\ (Formerly(j, u) = 1 <=> u = 1)
          /\ \A v \in DOMAIN h.seg \ {j} : \E u \in DOMAIN r.seg : Formerly(j, u) = v
      BY <3>4 DEF SegsBut
    <3>2. PICK u \in DOMAIN r.seg : Formerly(j, u) = q
      BY <2>2, <2>3, <3>5
    <3> QED
      BY <2>2, <3>5, <3>2
  <2> QED
    BY <1>5, <2>4, <2>5
<1> QED
  BY <1>1, <1>5, <1>6, <1>7 DEF ReleasedSoFar

(* What release_unused_segments owes, however munmap answers for each      *)
(* segment: the heap is sound, and the program's chunks are as they were.  *)
(* That is so if no chunk of a small size is taken for one of a tree       *)
(* (dlmalloc.c:2890); chunks_small_release shows that one may be.          *)
THEOREM ReleaseAllKeeps ==
    ASSUME NEW m \in State, Sound(m), NEW unmaps \in Answers(m),
           ~release_unused_segments(m, unmaps).astray
    PROVE  /\ Kept(m, release_unused_segments(m, unmaps))
           /\ release_unused_segments(m, unmaps).release_checks > 0
<1> DEFINE n == Len(m.seg)
           x == release_unused_segments(m, unmaps)
<1>1. m.seg # <<>> /\ m.seg \in Seq(Segment)
  BY DEF Sound, SegmentLayout, State
<1>2. n \in Nat /\ n > 0 /\ DOMAIN m.seg = 1 .. n
  <2> HIDE DEF Segment
  <2> QED
    BY <1>1
<1>3. PICK f : ReleaseBy(m, unmaps, f)
  BY <1>1, ReleaseFacts
<1>4. x = [f[n] EXCEPT !.release_checks = Max({n - 1, CheckRate})] /\ f[1] = m
      /\ \A k \in 2 .. n : f[k] = ReleaseSegment(f[k - 1], m.seg[k], unmaps[k])
  BY <1>3 DEF ReleaseBy
<1> DEFINE D == {k \in 1 .. n : ~(GoneAstray(f[k]) \/ ReleasedSoFar(m, f[k], k))}
<1>5. D = {}
  <2> SUFFICES ASSUME D # {} PROVE FALSE
    OBVIOUS
  <2>1. D \in SUBSET Nat
    BY <1>2
  <2> HIDE DEF D
  <2>2. PICK k \in D : \A i \in D : k <= i
    BY <2>1, MinFacts
  <2>3. k \in 1 .. n /\ ~GoneAstray(f[k]) /\ ~ReleasedSoFar(m, f[k], k)
    BY <2>2 DEF D
  <2>4. k # 1
    <3>1. Kept(m, m)
      BY DEF Kept
    <3>2. \A i \in DOMAIN m.seg : i > 1 => i # 1
      BY <1>2
    <3>3. ReleasedSoFar(m, f[1], 1)
      BY <1>4, <3>1, <3>2 DEF ReleasedSoFar
    <3> QED
      BY <2>3, <3>3
  <2>5. k - 1 \in 1 .. n /\ k \in 2 .. n /\ ~(k <= k - 1) /\ k \in DOMAIN m.seg
    BY <1>2, <2>3, <2>4
  <2>6. GoneAstray(f[k - 1]) \/ ReleasedSoFar(m, f[k - 1], k - 1)
    BY <2>2, <2>5 DEF D
  <2>7. f[k] = ReleaseSegment(f[k - 1], m.seg[k], unmaps[k]) /\ unmaps[k] \in BOOLEAN
    BY <1>4, <2>5 DEF Answers
  <2>8. ReleasedSoFar(m, f[k - 1], k - 1)
    <3>1. GoneAstray(f[k - 1]) => f[k] = f[k - 1]
      BY <2>7 DEF ReleaseSegment, GoneAstray
    <3> QED
      BY <2>3, <2>6, <3>1
  <2>9. ~f[k].astray
    <3>1. f[k - 1] \in State
      BY <2>8 DEF ReleasedSoFar, Kept
    <3>2. "astray" \in DOMAIN f[k - 1]
      BY <3>1 DEF State
    <3>3. "astray" \in DOMAIN f[k]
      BY <2>7, <3>2, FlagStays
    <3> QED
      BY <2>3, <3>3 DEF GoneAstray
  <2>10. ReleasedSoFar(m, f[k], k)
    BY <2>4, <2>5, <2>7, <2>8, <2>9, ReleasedNext
  <2> QED
    BY <2>3, <2>10
<1>6. ReleasedSoFar(m, f[n], n)
  <2>1. ~GoneAstray(f[n])
    <3> DEFINE h == f[n]
               v == Max({n - 1, CheckRate})
    <3>1. x = [h EXCEPT !.release_checks = v]
      BY <1>4
    <3> HIDE DEF h, v, x
    <3>2. GoneAstray(h) => x.astray
      BY <3>1 DEF GoneAstray
    <3> QED
      BY <3>2 DEF h, x
  <2>2. n \in 1 .. n /\ n \notin D
    BY <1>2, <1>5
  <2> QED
    BY <2>1, <2>2
<1> HIDE DEF x, D
<1>7. Max({n - 1, CheckRate}) \in Nat /\ Max({n - 1, CheckRate}) > 0
  <2>1. n - 1 \in Int /\ CheckRate \in Nat /\ CheckRate > 0
    BY <1>2, ChunkAssumption DEF ChunkAssumption
  <2> HIDE DEF n
  <2>2. \E y \in {n - 1, CheckRate} : \A z \in {n - 1, CheckRate} : y >= z
    BY <2>1
  <2>3. Max({n - 1, CheckRate}) \in {n - 1, CheckRate} /\ Max({n - 1, CheckRate}) >= CheckRate
    BY <2>2 DEF Max
  <2> QED
    BY <2>1, <2>3
<1>8. Kept(m, f[n])
  BY <1>6 DEF ReleasedSoFar
<1> DEFINE h == f[n]
           v == Max({n - 1, CheckRate})
<1>9. h \in State /\ Sound(h) /\ x = [h EXCEPT !.release_checks = v] /\ v \in Nat
  BY <1>4, <1>7, <1>8 DEF Kept
<1> HIDE DEF h, v
<1>10. x \in State /\ x.release_checks = v /\ SameButChecks(h, x)
  BY <1>9 DEF State, SameButChecks
<1>11. Kept(h, x)
  BY <1>9, <1>10, SameSound
<1>12. Kept(m, x)
  BY <1>8, <1>11, KeptOn DEF h
<1> QED
  BY <1>7, <1>10, <1>12 DEF x, v

(* A segment whose whole chunk is a tree chunk.                            *)
RoomForTree(s) == s.size >= TopFoot + MinLarge

LEMMA ReleaseStays ==
    ASSUME NEW m \in State, Sound(m), ~m.astray, NEW j \in DOMAIN m.seg, NEW s, s = m.seg[j],
           RoomForTree(s), NEW taken \in BOOLEAN
    PROVE  ~ReleaseSegment(m, s, taken).astray
<1> DEFINE p == s.base
           psize == m.head[p].size
           m1 == IF p = m.dv THEN NoVictim(m) ELSE unlink_chunk(m, p, psize)
           r == ReleaseSegment(m, s, taken)
<1>1. CASE is_inuse(m, p) \/ p + psize < s.base + s.size - TopFoot
  BY <1>1 DEF ReleaseSegment
<1>2. CASE ~(is_inuse(m, p) \/ p + psize < s.base + s.size - TopFoot)
  <2>1. p \in Nat /\ s.size \in Nat /\ psize \in Nat
    <3>1. p \in Cells(m)
      BY BaseHeld
    <3>2. s.base \in Nat /\ s.size \in Nat
      BY SegFacts
    <3> QED
      BY <3>1, <3>2, CellFacts
  <2>2. ~is_small(psize)
    <3>1. MinLarge \in Nat
      BY ChunkAssumption DEF ChunkAssumption
    <3> HIDE DEF psize
    <3> QED
      BY <1>2, <2>1, <3>1 DEF is_small, RoomForTree, TopFoot, RecordSize, MinChunk
  <2>3. r = IF m1.astray THEN m1 ELSE IF taken THEN Unmapped(m1, s) ELSE insert_chunk(m1, p, psize)
    BY <1>2, <2>2 DEF ReleaseSegment, unlink_large_chunk, insert_large_chunk
  <2>4. m1.astray = m.astray /\ "astray" \in DOMAIN m1
    BY DEF State, NoVictim, unlink_chunk
  <2> HIDE DEF m1, psize, p
  <2>5. Unmapped(m1, s).astray = m1.astray /\ insert_chunk(m1, p, psize).astray = m1.astray
    BY <2>4 DEF Unmapped, Forget, insert_chunk
  <2> QED
    BY <2>3, <2>4, <2>5 DEF r
<1> QED
  BY <1>1, <1>2

(* dlmalloc.c:2890: release_unused_segments takes no small chunk for one   *)
(* of a tree, and so keeps what ReleaseAllKeeps says, if no segment but    *)
(* the first is so short that its whole chunk is small.                    *)
THEOREM RoomySegmentsRelease ==
    ASSUME NEW m \in State, Sound(m), ~m.astray, NEW unmaps \in Answers(m),
           \A k \in DOMAIN m.seg : k # 1 => RoomForTree(m.seg[k])
    PROVE  /\ ~release_unused_segments(m, unmaps).astray
           /\ Kept(m, release_unused_segments(m, unmaps))
<1> DEFINE n == Len(m.seg)
           x == release_unused_segments(m, unmaps)
<1>1. m.seg # <<>> /\ m.seg \in Seq(Segment)
  BY DEF Sound, SegmentLayout, State
<1>2. n \in Nat /\ n > 0 /\ DOMAIN m.seg = 1 .. n
  <2> HIDE DEF Segment
  <2> QED
    BY <1>1
<1>3. PICK f : ReleaseBy(m, unmaps, f)
  BY <1>1, ReleaseFacts
<1>4. x = [f[n] EXCEPT !.release_checks = Max({n - 1, CheckRate})] /\ f[1] = m
      /\ \A k \in 2 .. n : f[k] = ReleaseSegment(f[k - 1], m.seg[k], unmaps[k])
  BY <1>3 DEF ReleaseBy
<1> DEFINE D == {k \in 1 .. n : ~(ReleasedSoFar(m, f[k], k) /\ ~f[k].astray)}
<1>5. D = {}
  <2> SUFFICES ASSUME D # {} PROVE FALSE
    OBVIOUS
  <2>1. D \in SUBSET Nat
    BY <1>2
  <2> HIDE DEF D
  <2>2. PICK k \in D : \A i \in D : k <= i
    BY <2>1, MinFacts
  <2>3. k \in 1 .. n /\ ~(ReleasedSoFar(m, f[k], k) /\ ~f[k].astray)
    BY <2>2 DEF D
  <2>4. k # 1
    <3>1. Kept(m, m)
      BY DEF Kept
    <3>2. ReleasedSoFar(m, f[1], 1)
      BY <1>2, <1>4, <3>1 DEF ReleasedSoFar
    <3> QED
      BY <1>4, <2>3, <3>2
  <2>5. k - 1 \in 1 .. n /\ k \in 2 .. n /\ ~(k <= k - 1) /\ k > k - 1 /\ k \in DOMAIN m.seg
    BY <1>2, <2>3, <2>4
  <2>6. ReleasedSoFar(m, f[k - 1], k - 1) /\ ~f[k - 1].astray
    BY <2>2, <2>5 DEF D
  <2>7. f[k] = ReleaseSegment(f[k - 1], m.seg[k], unmaps[k]) /\ unmaps[k] \in BOOLEAN
    BY <1>4, <2>5 DEF Answers
  <2> DEFINE h == f[k - 1]
             s == m.seg[k]
             taken == unmaps[k]
  <2>8. h \in State /\ Sound(h) /\ ~h.astray /\ RoomForTree(s) /\ \E j \in DOMAIN h.seg : h.seg[j] = s
    BY <2>4, <2>5, <2>6 DEF ReleasedSoFar, Kept
  <2>9. ~f[k].astray
    <3> HIDE DEF h, s, taken
    <3>1. PICK j \in DOMAIN h.seg : h.seg[j] = s
      BY <2>8
    <3>2. taken \in BOOLEAN
      BY <2>7 DEF taken
    <3>3. ~ReleaseSegment(h, s, taken).astray
      BY <2>8, <3>1, <3>2, ReleaseStays
    <3> QED
      BY <2>7, <3>3 DEF h, s, taken
  <2>10. ReleasedSoFar(m, f[k], k)
    BY <2>4, <2>5, <2>6, <2>7, <2>9, ReleasedNext
  <2> QED
    BY <2>3, <2>9, <2>10
<1>6. ReleasedSoFar(m, f[n], n) /\ ~f[n].astray
  BY <1>2, <1>5
<1>7. f[n] \in State
  BY <1>6 DEF ReleasedSoFar, Kept
<1>8. ~x.astray
  <2> DEFINE h == f[n]
             v == Max({n - 1, CheckRate})
  <2>1. x = [h EXCEPT !.release_checks = v] /\ h \in State /\ ~h.astray
    BY <1>4, <1>6, <1>7
  <2> HIDE DEF h, v, x
  <2> QED
    BY <2>1 DEF State
<1> QED
  BY <1>8, ReleaseAllKeeps

=============================================================================
