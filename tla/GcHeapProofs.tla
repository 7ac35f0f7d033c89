---------------------------- MODULE GcHeapProofs ----------------------------
(***************************************************************************)
(* Proofs about GcHeap for every set of blocks, number of root words and   *)
(* number of fields: its types; that the list of collected blocks is       *)
(* doubly linked in every call and while a sweep walks and shortens it;    *)
(* that collections are safe and complete; and that it implements          *)
(* CollectedHeap.                                                          *)
(***************************************************************************)
EXTENDS GcHeap, TLAPS

INSTANCE StructureLemmas WITH
    Dom <- LAMBDA c : {}, Def <- LAMBDA c, f, x : 0, Rank <- LAMBDA c, x : 0

(* The object that is searched stays at the front of the queue until it is *)
(* marked.                                                                 *)
QueueInv == pc = "fields" => queue # <<>>

TypeInv == TypeOK /\ QueueInv

LEMMA InitTypeInv == Init => TypeInv
<1> SUFFICES ASSUME Init PROVE TypeInv
  OBVIOUS
<1> USE HeapAssumption DEF HeapAssumption, Init, Pointer, Null
<1>1. /\ root \in [1 .. Words -> Pointer]
      /\ field \in [Block -> [1 .. Fields -> Pointer]]
      /\ previous \in [Block -> Pointer \cup {ListHead, Sentinel}]
      /\ next \in [Block -> Pointer]
  BY DEF Blank
<1>2. frame \in [ptr : Pointer, previous : Pointer \cup {ListHead}, marked : BOOLEAN, next : Pointer]
  BY DEF NoFrame
<1>3. cursor \in 1 .. (RootWords + Fields + 1)
  BY DEF RootWords
<1>4. queue \in Seq(Block)
  OBVIOUS
<1> QED
  BY <1>1, <1>2, <1>3, <1>4 DEF TypeInv, TypeOK, QueueInv, Calls, Phases

(* What enqueue appends is a block.                                        *)
LEMMA EnqueueType ==
    ASSUME TypeOK, NEW v, enqueue(v)
    PROVE  queue' \in Seq(Block) /\ (queue # <<>> => queue' # <<>>)
<1>1. CASE valid_heap_object(v)
  <2>1. v \in Block /\ queue' = Append(queue, v)
    BY <1>1 DEF TypeOK, enqueue, valid_heap_object
  <2>2. Len(queue') = Len(queue) + 1 /\ Len(queue) \in Nat
    BY <2>1 DEF TypeOK
  <2> QED
    BY <2>1, <2>2 DEF TypeOK
<1>2. CASE ~valid_heap_object(v)
  BY <1>2 DEF TypeOK, enqueue
<1> QED
  BY <1>1, <1>2

LEMMA QueueType ==
    ASSUME TypeOK, queue # <<>>
    PROVE  Head(queue) \in Block /\ Tail(queue) \in Seq(Block)
BY DEF TypeOK

(* The types, in the groups that the actions leave alone.                  *)
ProgramTyped ==
    /\ root \in [1 .. Words -> Pointer]
    /\ field \in [Block -> [1 .. Fields -> Pointer]]

LinksTyped ==
    /\ head \in Pointer
    /\ previous \in [Block -> Pointer \cup {ListHead, Sentinel}]
    /\ next \in [Block -> Pointer]
    /\ mark \subseteq Block

GlobalsTyped ==
    /\ bigallocs_list \subseteq Nat
    /\ lowest \in Block \cup {TopAddress}
    /\ highest \in Pointer

CallTyped ==
    /\ caller \in Calls
    /\ collected \in BOOLEAN
    /\ frame \in [ptr : Pointer, previous : Pointer \cup {ListHead}, marked : BOOLEAN, next : Pointer]

CollectorTyped ==
    /\ queue \in Seq(Block)
    /\ cursor \in 1 .. (RootWords + Fields + 1)
    /\ before \in Block \cup {ListHead}
    /\ current \in Pointer

AllTyped ==
    /\ ProgramTyped
    /\ allocated \subseteq Block
    /\ LinksTyped
    /\ GlobalsTyped
    /\ mutex \in {0, 1}
    /\ pc \in Calls \cup Phases \cup {Astray}
    /\ CallTyped
    /\ CollectorTyped

LEMMA TypeParts == (TypeOK <=> AllTyped) /\ (TypeOK' <=> AllTyped')
BY DEF TypeOK, AllTyped, ProgramTyped, LinksTyped, GlobalsTyped, CallTyped, CollectorTyped

LEMMA PartsKept ==
    ASSUME AllTyped
    PROVE  /\ UNCHANGED program => ProgramTyped'
           /\ UNCHANGED links => LinksTyped'
           /\ UNCHANGED globals => GlobalsTyped'
           /\ UNCHANGED call => CallTyped'
           /\ UNCHANGED collector => CollectorTyped'
BY DEF AllTyped, program, links, globals, call, collector,
       ProgramTyped, LinksTyped, GlobalsTyped, CallTyped, CollectorTyped

(* A call that returns clears its frame.                                   *)
LEMMA ReturnTyped ==
    ASSUME AllTyped, NEW place, NEW w \in 1 .. Words, NEW v \in Pointer, LeaveFor(place, w, v)
    PROVE  /\ CallTyped' /\ pc' = place
           /\ root' \in [1 .. Words -> Pointer]
<1>1. NoFrame \in [ptr : Pointer, previous : Pointer \cup {ListHead}, marked : BOOLEAN,
                   next : Pointer]
  BY DEF NoFrame, Pointer
<1>2. CallTyped'
  BY <1>1 DEF AllTyped, CallTyped, LeaveFor
<1> QED
  BY <1>2 DEF AllTyped, ProgramTyped, LeaveFor

LEMMA BlankTyped == Blank \in [1 .. Fields -> Pointer] /\ Null \in Pointer /\ Block \subseteq Pointer
BY DEF Blank, Pointer

LEMMA PlaceNames == {"program", "gc_malloc", "gc_realloc", "mymalloc"} \subseteq Calls
                    /\ {"roots", "mark", "fields", "sweep"} \subseteq Phases
                    /\ "fields" \notin Calls /\ Astray # "fields"
BY DEF Calls, Phases, Astray

(* The program's own steps.                                                *)
LEMMA ProgramType == TypeInv /\ Program => TypeInv'
<1> SUFFICES ASSUME AllTyped, NEW w \in 1 .. Words,
                    \/ \E v \in Pointer : CopyRoot(w, v)
                    \/ \E x \in 1 .. Words, i \in 1 .. Fields : Load(w, x, i)
                    \/ \E i \in 1 .. Fields, v \in Pointer : Store(w, i, v)
             PROVE  AllTyped' /\ pc' # "fields"
  BY TypeParts DEF TypeInv, QueueInv, Program
<1> USE PartsKept, PlaceNames
<1>1. ASSUME NEW v \in Pointer, CopyRoot(w, v) PROVE AllTyped' /\ pc' # "fields"
  <2>1. ProgramTyped'
    BY <1>1 DEF CopyRoot, AllTyped, ProgramTyped
  <2> QED
    BY <1>1, <2>1 DEF CopyRoot, AllTyped
<1>2. ASSUME NEW x \in 1 .. Words, NEW i \in 1 .. Fields, Load(w, x, i)
      PROVE  AllTyped' /\ pc' # "fields"
  <2>1. field[root[x]][i] \in Pointer
    BY <1>2 DEF Load, Listed, AllTyped, ProgramTyped
  <2>2. ProgramTyped'
    BY <1>2, <2>1 DEF Load, AllTyped, ProgramTyped
  <2> QED
    BY <1>2, <2>2 DEF Load, AllTyped
<1>3. ASSUME NEW i \in 1 .. Fields, NEW v \in Pointer, Store(w, i, v)
      PROVE  AllTyped' /\ pc' # "fields"
  <2>1. ProgramTyped'
    BY <1>3 DEF Store, Listed, AllTyped, ProgramTyped
  <2> QED
    BY <1>3, <2>1 DEF Store, AllTyped
<1> QED
  BY <1>1, <1>2, <1>3

(* The steps that enter a call.                                            *)
LEMMA EnterType == TypeInv /\ Enter => TypeInv'
<1> SUFFICES ASSUME AllTyped, Enter PROVE AllTyped' /\ pc' # "fields"
  BY TypeParts DEF TypeInv, QueueInv
<1> USE PartsKept, PlaceNames
<1>1. CASE CallMalloc
  BY <1>1 DEF CallMalloc, AllTyped
<1>2. CASE CallMymalloc
  BY <1>2 DEF CallMymalloc, AllTyped
<1>3. ASSUME NEW x \in 1 .. Words, CallRealloc(x) PROVE AllTyped' /\ pc' # "fields"
  <2> DEFINE ptr == root[x]
  <2>1. ptr \in Block /\ previous[ptr] # Sentinel /\ Null \in Pointer
    BY <1>3, BlankTyped DEF CallRealloc, Listed, AllTyped
  <2>2. LinksTyped'
    BY <1>3, <2>1 DEF CallRealloc, AllTyped, LinksTyped
  <2>3. CallTyped'
    <3>1. previous[ptr] \in Pointer \cup {ListHead} /\ next[ptr] \in Pointer /\ ptr \in Pointer
      BY <2>1, BlankTyped DEF AllTyped, LinksTyped
    <3>2. frame' = [ptr |-> ptr, previous |-> previous[ptr], marked |-> marked(ptr),
                    next |-> next[ptr]]
      BY <1>3 DEF CallRealloc
    <3>3. marked(ptr) \in BOOLEAN
      BY DEF marked
    <3> QED
      BY <1>3, <3>1, <3>2, <3>3 DEF CallRealloc, AllTyped, CallTyped
  <2> QED
    BY <1>3, <2>2, <2>3 DEF CallRealloc, AllTyped
<1>4. ASSUME NEW x \in 1 .. Words, Myfree(x) PROVE AllTyped' /\ pc' # "fields"
  <2>1. LinksTyped'
    BY <1>4, BlankTyped DEF Myfree, AllTyped, LinksTyped
  <2>2. ProgramTyped'
    BY <1>4, BlankTyped DEF Myfree, AllTyped, ProgramTyped
  <2> QED
    BY <1>4, <2>1, <2>2 DEF Myfree, AllTyped
<1>5. ASSUME NEW x \in 1 .. Words, NEW w \in 1 .. Words, ReallocToZero(x, w)
      PROVE  AllTyped' /\ pc' # "fields"
  <2> DEFINE ptr == root[x]
  <2>1. ptr \in Block
    BY <1>5 DEF ReallocToZero, Listed, AllTyped
  <2>2. /\ previous' \in [Block -> Pointer \cup {ListHead, Sentinel}]
        /\ next' \in [Block -> Pointer]
    BY <1>5, <2>1, BlankTyped DEF ReallocToZero, AllTyped, LinksTyped
  <2>3. head' \in Pointer /\ mark' \subseteq Block
    BY <1>5, <2>1 DEF ReallocToZero, HeadWithout, MarkBit, Pointer, AllTyped, LinksTyped
  <2>4. field' \in [Block -> [1 .. Fields -> Pointer]]
    BY <1>5, BlankTyped DEF ReallocToZero, AllTyped, ProgramTyped
  <2>5. CallTyped' /\ pc' \in {"program", Astray} /\ root' \in [1 .. Words -> Pointer]
    BY <1>5, ReturnTyped, BlankTyped DEF ReallocToZero, Aftermath
  <2>6. ProgramTyped' /\ LinksTyped'
    BY <2>2, <2>3, <2>4, <2>5 DEF ProgramTyped, LinksTyped
  <2> QED
    BY <1>5, <2>5, <2>6 DEF ReallocToZero, AllTyped
<1> QED
  BY <1>1, <1>2, <1>3, <1>4, <1>5 DEF Enter

(* The steps that return from a call.                                      *)
LEMMA LeaveType == TypeInv /\ Leave => TypeInv'
<1> SUFFICES ASSUME AllTyped, Leave PROVE AllTyped' /\ pc' # "fields"
  BY TypeParts DEF TypeInv, QueueInv
<1> USE PartsKept, PlaceNames, BlankTyped
<1>1. ASSUME NEW w \in 1 .. Words, NEW b \in Block, MallocReturns(b, w)
      PROVE  AllTyped' /\ pc' # "fields"
  <2>1. CallTyped' /\ pc' = "program" /\ root' \in [1 .. Words -> Pointer]
    BY <1>1, ReturnTyped DEF MallocReturns, Return
  <2>2. LinksTyped'
    BY <1>1 DEF MallocReturns, AllTyped, LinksTyped
  <2>3. field' \in [Block -> [1 .. Fields -> Pointer]]
    BY <1>1 DEF MallocReturns, AllTyped, ProgramTyped
  <2>4. GlobalsTyped'
    BY <1>1, HeapAssumption DEF HeapAssumption, MallocReturns, new_bigalloc, AllTyped, GlobalsTyped
  <2>5. ProgramTyped'
    BY <2>1, <2>3 DEF ProgramTyped
  <2> QED
    BY <1>1, <2>1, <2>2, <2>4, <2>5 DEF MallocReturns, AllTyped
<1>2. ASSUME NEW w \in 1 .. Words, NEW b \in Block, ReallocMoves(b, w)
      PROVE  AllTyped' /\ pc' # "fields"
  <2>1. CallTyped' /\ pc' \in {"program", Astray} /\ root' \in [1 .. Words -> Pointer]
    BY <1>2, ReturnTyped DEF ReallocMoves, Aftermath
  <2>2. frame.previous \in Pointer \cup {ListHead} /\ frame.next \in Pointer
    BY DEF AllTyped, CallTyped
  <2>3. /\ previous' \in [Block -> Pointer \cup {ListHead, Sentinel}]
        /\ next' \in [Block -> Pointer]
    BY <1>2, <2>2 DEF ReallocMoves, AllTyped, LinksTyped
  <2>4. head' \in Pointer /\ mark' \subseteq Block
    BY <1>2 DEF ReallocMoves, MarkBit, AllTyped, LinksTyped
  <2>5. field' \in [Block -> [1 .. Fields -> Pointer]]
    BY <1>2 DEF ReallocMoves, AllTyped, ProgramTyped
  <2>6. GlobalsTyped'
    BY <1>2, HeapAssumption DEF HeapAssumption, ReallocMoves, new_bigalloc, AllTyped, GlobalsTyped
  <2>7. ProgramTyped' /\ LinksTyped'
    BY <2>1, <2>3, <2>4, <2>5 DEF ProgramTyped, LinksTyped
  <2> QED
    BY <1>2, <2>1, <2>6, <2>7 DEF ReallocMoves, AllTyped
<1>3. ASSUME NEW w \in 1 .. Words, NEW b \in Block, MymallocReturns(b, w)
      PROVE  AllTyped' /\ pc' # "fields"
  <2>1. CallTyped' /\ pc' = "program" /\ root' \in [1 .. Words -> Pointer]
    BY <1>3, ReturnTyped DEF MymallocReturns, Return
  <2>2. LinksTyped'
    BY <1>3 DEF MymallocReturns, AllTyped, LinksTyped
  <2>3. ProgramTyped'
    BY <1>3, <2>1 DEF MymallocReturns, AllTyped, ProgramTyped
  <2> QED
    BY <1>3, <2>1, <2>2, <2>3 DEF MymallocReturns, AllTyped
<1>4. ASSUME NEW w \in 1 .. Words, MallocFails(w) \/ MymallocFails(w)
      PROVE  AllTyped' /\ pc' # "fields"
  <2>1. Return(w, Null) /\ UNCHANGED <<field, allocated, links, globals, mutex, collector>>
    BY <1>4 DEF MallocFails, MymallocFails
  <2>2. CallTyped' /\ pc' = "program" /\ root' \in [1 .. Words -> Pointer]
    BY <2>1, ReturnTyped DEF Return
  <2>3. ProgramTyped'
    BY <2>1, <2>2 DEF AllTyped, ProgramTyped
  <2> QED
    BY <2>1, <2>2, <2>3 DEF AllTyped
<1>5. ASSUME NEW w \in 1 .. Words, ReallocFails(w) PROVE AllTyped' /\ pc' # "fields"
  <2>1. CallTyped' /\ pc' = "program" /\ root' \in [1 .. Words -> Pointer]
    BY <1>5, ReturnTyped DEF ReallocFails, Return
  <2>2. LinksTyped'
    BY <1>5 DEF ReallocFails, MarkBit, Pointer, AllTyped, LinksTyped, CallTyped
  <2>3. ProgramTyped'
    BY <1>5, <2>1 DEF ReallocFails, AllTyped, ProgramTyped
  <2> QED
    BY <1>5, <2>1, <2>2, <2>3 DEF ReallocFails, AllTyped
<1>6. ASSUME NEW w \in 1 .. Words, ReallocInPlace(w) PROVE AllTyped' /\ pc' # "fields"
  <2>1. CallTyped' /\ pc' = "program" /\ root' \in [1 .. Words -> Pointer]
    <3>1. frame.ptr \in Pointer
      BY DEF AllTyped, CallTyped
    <3> QED
      BY <1>6, <3>1, ReturnTyped DEF ReallocInPlace, Return
  <2>2. LinksTyped'
    BY <1>6 DEF ReallocInPlace, MarkBit, Pointer, AllTyped, LinksTyped, CallTyped
  <2>3. ProgramTyped'
    BY <1>6, <2>1 DEF ReallocInPlace, AllTyped, ProgramTyped
  <2> QED
    BY <1>6, <2>1, <2>2, <2>3 DEF ReallocInPlace, AllTyped
<1> QED
  BY <1>1, <1>2, <1>3, <1>4, <1>5, <1>6 DEF Leave

(* The steps of a collection.                                              *)
LEMMA CollectingType == TypeInv /\ (Collect \/ Collecting) => TypeInv'
<1> SUFFICES ASSUME TypeOK, AllTyped, pc = "fields" => queue # <<>>, Collect \/ Collecting
             PROVE  AllTyped' /\ (pc' = "fields" => queue' # <<>>)
  BY TypeParts DEF TypeInv, QueueInv
<1> USE PartsKept, PlaceNames
<1>0. RootWords \in Nat /\ Fields \in Nat /\ 1 \in 1 .. (RootWords + Fields + 1)
  BY HeapAssumption DEF HeapAssumption, RootWords
<1>1. CASE Collect
  <2>1. CollectorTyped' /\ CallTyped'
    BY <1>0, <1>1 DEF Collect, AllTyped, CollectorTyped, CallTyped
  <2> QED
    BY <1>1, <2>1 DEF Collect, AllTyped
<1>2. CASE ScanRoot
  <2>1. queue' \in Seq(Block)
    BY <1>2, EnqueueType DEF ScanRoot
  <2>2. CollectorTyped'
    BY <1>0, <1>2, <2>1 DEF ScanRoot, AllTyped, CollectorTyped
  <2> QED
    BY <1>2, <2>2 DEF ScanRoot, AllTyped
<1>3. CASE RootsScanned
  <2>1. CollectorTyped'
    BY <1>0, <1>3 DEF RootsScanned, AllTyped, CollectorTyped
  <2> QED
    BY <1>3, <2>1 DEF RootsScanned, AllTyped
<1>4. CASE SkipObject
  <2>1. queue' \in Seq(Block)
    BY <1>4, QueueType DEF SkipObject
  <2>2. CollectorTyped'
    BY <1>4, <2>1 DEF SkipObject, AllTyped, CollectorTyped
  <2> QED
    BY <1>4, <2>2 DEF SkipObject, AllTyped
<1>5. CASE SearchObject
  <2>1. CollectorTyped'
    BY <1>0, <1>5 DEF SearchObject, AllTyped, CollectorTyped
  <2> QED
    BY <1>5, <2>1 DEF SearchObject, AllTyped
<1>6. CASE ScanField
  <2>1. queue' \in Seq(Block) /\ queue' # <<>>
    BY <1>6, EnqueueType DEF ScanField
  <2>2. CollectorTyped'
    BY <1>0, <1>6, <2>1 DEF ScanField, AllTyped, CollectorTyped
  <2> QED
    BY <1>6, <2>1, <2>2 DEF ScanField, AllTyped
<1>7. CASE MarkObject
  <2>1. Head(queue) \in Block /\ queue' \in Seq(Block)
    BY <1>7, QueueType DEF MarkObject
  <2>2. CollectorTyped'
    BY <1>0, <1>7, <2>1 DEF MarkObject, AllTyped, CollectorTyped
  <2>3. LinksTyped'
    BY <1>7, <2>1 DEF MarkObject, AllTyped, LinksTyped
  <2> QED
    BY <1>7, <2>2, <2>3 DEF MarkObject, AllTyped
<1>8. CASE StartSweep
  <2>1. CollectorTyped'
    BY <1>8 DEF StartSweep, AllTyped, CollectorTyped, LinksTyped
  <2> QED
    BY <1>8, <2>1 DEF StartSweep, AllTyped
<1>9. CASE SweepMarked
  <2>1. current \in Block /\ next[current] \in Pointer
    BY <1>9 DEF SweepMarked, AllTyped, CollectorTyped, LinksTyped, Pointer
  <2>2. CollectorTyped' /\ LinksTyped'
    BY <1>9, <2>1 DEF SweepMarked, AllTyped, CollectorTyped, LinksTyped
  <2> QED
    BY <1>9, <2>2 DEF SweepMarked, AllTyped
<1>10. CASE SweepUnmarked
  <2>1. current \in Block
    BY <1>10 DEF SweepUnmarked, AllTyped, CollectorTyped, Pointer
  <2>2. /\ previous' \in [Block -> Pointer \cup {ListHead, Sentinel}]
        /\ next' \in [Block -> Pointer]
    BY <1>10, <2>1, BlankTyped DEF SweepUnmarked, AllTyped, LinksTyped, CollectorTyped
  <2>3. head' \in Pointer /\ mark' \subseteq Block /\ current' \in Pointer
    BY <1>10, <2>1 DEF SweepUnmarked, AllTyped, LinksTyped
  <2>4. ProgramTyped'
    BY <1>10, BlankTyped DEF SweepUnmarked, AllTyped, ProgramTyped
  <2>5. CollectorTyped' /\ LinksTyped'
    BY <1>10, <2>1, <2>2, <2>3 DEF SweepUnmarked, AllTyped, CollectorTyped, LinksTyped
  <2> QED
    BY <1>10, <2>4, <2>5 DEF SweepUnmarked, AllTyped
<1>11. CASE EndCollect
  <2>1. CollectorTyped' /\ CallTyped'
    BY <1>11, <1>0 DEF EndCollect, AllTyped, CollectorTyped, CallTyped, Pointer
  <2> QED
    BY <1>11, <2>1 DEF EndCollect, AllTyped, CallTyped
<1> QED
  BY <1>1, <1>2, <1>3, <1>4, <1>5, <1>6, <1>7, <1>8, <1>9, <1>10, <1>11 DEF Collecting

LEMMA NextTypeInv == TypeInv /\ [Next]_vars => TypeInv'
<1>1. TypeInv /\ UNCHANGED vars => TypeInv'
  BY DEF TypeInv, TypeOK, QueueInv, vars, program, links, globals, call, collector
<1> QED
  BY <1>1, ProgramType, EnterType, LeaveType, CollectingType DEF Next

LEMMA TypeInvariance == Spec => []TypeInv
BY InitTypeInv, NextTypeInv, PTL DEF Spec

(* Whatever the program does and whenever collections happen, the words,   *)
(* links, frame and queue of gc.c hold values of their types.              *)
THEOREM TypeCorrect == Spec => []TypeOK
<1>1. TypeInv => TypeOK
  BY DEF TypeInv
<1> QED
  BY <1>1, TypeInvariance, PTL

-----------------------------------------------------------------------------
(* The list, and the frame of gc_realloc and the queue that it depends on. *)

(* Is gc_realloc executing, or the collection its myrealloc started?       *)
Resizing == "gc_realloc" \in {pc, caller}

(* The frame of gc_realloc is in use while it executes, and then only: the *)
(* block it resizes is a collected block cut off from its successor, and   *)
(* its PREVIOUS_POINTER carried no mark.                                   *)
FrameInv ==
    /\ pc \in Calls => caller = "program"
    /\ Resizing => frame.ptr \in Listed /\ next[frame.ptr] = Null /\ ~frame.marked
    /\ ~Resizing => frame = NoFrame
    /\ pc \notin {"roots", "mark", "fields"} => queue = <<>>

Queued == {queue[k] : k \in 1 .. Len(queue)}

(* Marked, or about to be looked at.                                       *)
Known == mark \cup Queued

(* The collector recognises every collected block, and queues only blocks. *)
KnownInv ==
    /\ \A b \in Listed : valid_bigalloc(b)
    /\ Queued \subseteq allocated
    /\ pc = "fields" => Head(queue) \in Listed

(* A collected block that a scanned root word holds is known.              *)
RootsInv ==
    /\ pc = "roots" => cursor <= RootWords + 1
    /\ pc = "roots" =>
          \A i \in 1 .. (cursor - 1) : RootWord(i) \in Listed => RootWord(i) \in Known
    /\ pc \in {"mark", "fields"} =>
          \A i \in 1 .. RootWords : RootWord(i) \in Listed => RootWord(i) \in Known

(* The blocks the sweep has still to visit.  The links gc_realloc keeps in *)
(* its frame are not followed.                                             *)
Ahead == From(Listed, current, next)

(* The sweep knows the block before the current one, has passed it, and    *)
(* will not unlink a block that gc_realloc is going to link again.         *)
SweepInv ==
    pc = "sweep" =>
        /\ current \in Listed \cup {Null}
        /\ before \in Listed \cup {ListHead}
        /\ before \notin Ahead
        /\ current # Null => PreviousOf(current) = before
        /\ Resizing => {frame.ptr, frame.previous} \cap Ahead \subseteq mark
        /\ Resizing => frame.next \notin Ahead

(* No collection has left a mark behind.                                   *)
NoMarkLeft == pc = "program" => mark = {}

ListInv == TypeInv /\ FrameInv /\ KnownInv /\ RootsInv /\ DoublyLinked /\ SweepInv

LEMMA NotBlocks ==
    /\ Null \notin Block
    /\ ListHead \notin Block \cup {Null}
    /\ Sentinel \notin Block \cup {Null, ListHead}
BY HeapAssumption DEF HeapAssumption, Null

(* The predecessors and successors as functions.                           *)
Prevs == [b \in Block |-> PreviousOf(b)]
Nexts == [b \in Block |-> NextOf(b)]

LEMMA ListForm ==
    ASSUME TypeOK
    PROVE  DoublyLinked <=> IsList(Listed, head, Prevs, Nexts)
<1>1. Listed \subseteq Block
  BY DEF TypeOK, Listed
<1>2. \A b \in Listed : Prevs[b] = PreviousOf(b) /\ Nexts[b] = NextOf(b)
  BY <1>1 DEF Prevs, Nexts
<1>3. \A S \in SUBSET Listed : HoldsList(S) <=> Holds(S, head, Nexts)
  BY <1>2 DEF HoldsList, Holds
<1> QED
  BY <1>2, <1>3 DEF DoublyLinked, IsList

LEMMA ListFormNext ==
    ASSUME TypeOK'
    PROVE  DoublyLinked' <=> IsList(Listed', head', Prevs', Nexts')
<1>1. Listed' \subseteq Block
  BY DEF TypeOK, Listed
<1>2. \A b \in Listed' : Prevs'[b] = PreviousOf(b)' /\ Nexts'[b] = NextOf(b)'
  BY <1>1 DEF Prevs, Nexts
<1>3. \A S \in SUBSET Listed' : HoldsList(S)' <=> Holds(S, head', Nexts')
  BY <1>2 DEF HoldsList, Holds
<1> QED
  BY <1>2, <1>3 DEF DoublyLinked, IsList

LEMMA InitListInv == Init => ListInv
<1> SUFFICES ASSUME Init PROVE ListInv
  OBVIOUS
<1>1. TypeInv
  BY InitTypeInv
<1>2. Listed = {} /\ queue = <<>> /\ pc = "program" /\ caller = "program" /\ frame = NoFrame
  BY DEF Init, Listed
<1>3. FrameInv /\ RootsInv /\ SweepInv
  BY <1>2 DEF FrameInv, RootsInv, SweepInv, Resizing, Calls
<1>4. KnownInv
  BY <1>2 DEF KnownInv, Queued
<1>5. DoublyLinked
  BY <1>2 DEF DoublyLinked, Init
<1> QED
  BY <1>1, <1>3, <1>4, <1>5 DEF ListInv

(* A step from one call into another, or within one, meets the parts of    *)
(* the invariant that speak of collections without further ado.            *)
LEMMA CallStep ==
    ASSUME ListInv, TypeInv', pc \in Calls, pc' \in Calls, queue' = queue, FrameInv',
           \A b \in Listed' : valid_bigalloc(b)', DoublyLinked'
    PROVE  ListInv'
<1>1. pc' \notin {"roots", "mark", "fields", "sweep"}
  BY DEF Calls
<1>2. queue' = <<>>
  BY DEF ListInv, FrameInv, Calls
<1>3. KnownInv'
  BY <1>1, <1>2 DEF KnownInv, Queued
<1> QED
  BY <1>1, <1>3 DEF ListInv, RootsInv, SweepInv

(* The list does not change when neither its blocks nor their links do.    *)
LEMMA SameList ==
    ASSUME DoublyLinked, Listed' = Listed, head' = head,
           \A b \in Listed : PreviousOf(b)' = PreviousOf(b) /\ NextOf(b)' = NextOf(b)
    PROVE  DoublyLinked'
<1>1. \A S \in SUBSET Listed : HoldsList(S)' <=> HoldsList(S)
  BY DEF HoldsList
<1>2. (head # Null => head \in Listed /\ PreviousOf(head) = ListHead)'
  BY DEF DoublyLinked
<1>3. ASSUME NEW b \in Listed'
      PROVE  (NextOf(b) # Null => NextOf(b) \in Listed /\ PreviousOf(NextOf(b)) = b)'
  BY DEF DoublyLinked
<1>4. ASSUME NEW b \in Listed'
      PROVE  (\/ PreviousOf(b) = ListHead /\ head = b
              \/ PreviousOf(b) \in Listed /\ NextOf(PreviousOf(b)) = b)'
  BY DEF DoublyLinked
<1>5. \A S \in SUBSET Listed' : HoldsList(S)' => S = Listed'
  BY <1>1 DEF DoublyLinked
<1> QED
  BY <1>2, <1>3, <1>4, <1>5 DEF DoublyLinked

(* The block gc_realloc resizes, and its neighbours, are on the list.      *)
LEMMA FrameLinks ==
    ASSUME ListInv, Resizing
    PROVE  /\ frame.ptr \in Listed /\ frame.ptr \in Block
           /\ \/ frame.previous = ListHead /\ head = frame.ptr
              \/ frame.previous \in Listed /\ NextOf(frame.previous) = frame.ptr
           /\ frame.next # Null => frame.next \in Listed /\ PreviousOf(frame.next) = frame.ptr
<1>1. frame.ptr \in Listed /\ Listed \subseteq Block
  BY DEF ListInv, FrameInv, TypeInv, TypeOK, Listed
<1>2. PreviousOf(frame.ptr) = frame.previous /\ NextOf(frame.ptr) = frame.next
  BY DEF PreviousOf, NextOf
<1>3. DoublyLinked
  BY DEF ListInv
<1>4. \/ PreviousOf(frame.ptr) = ListHead /\ head = frame.ptr
      \/ PreviousOf(frame.ptr) \in Listed /\ NextOf(PreviousOf(frame.ptr)) = frame.ptr
  BY <1>1, <1>3 DEF DoublyLinked
<1>5. NextOf(frame.ptr) # Null =>
         NextOf(frame.ptr) \in Listed /\ PreviousOf(NextOf(frame.ptr)) = frame.ptr
  BY <1>1, <1>3 DEF DoublyLinked
<1> QED
  BY <1>1, <1>2, <1>4, <1>5

-----------------------------------------------------------------------------
(* Steps outside collections.                                              *)

(* Steps that leave the list as it is: the program's own, and those that   *)
(* only enter a call.                                                      *)
LEMMA SameListStep ==
    ASSUME ListInv, TypeInv', pc \in Calls \ {"gc_realloc"}, pc' \in Calls \ {"gc_realloc"},
           UNCHANGED <<allocated, links, globals, caller, frame, queue>>
    PROVE  ListInv'
<1> USE DEF links, globals
<1>1. Listed' = Listed
  BY DEF Listed
<1>2. DoublyLinked'
  BY <1>1, SameList DEF ListInv, PreviousOf, NextOf
<1>3. FrameInv'
  BY <1>1 DEF ListInv, FrameInv, Resizing, Calls
<1>4. \A b \in Listed' : valid_bigalloc(b)'
  BY <1>1 DEF ListInv, KnownInv, valid_bigalloc
<1> QED
  BY <1>2, <1>3, <1>4, CallStep

LEMMA ProgramList == ListInv /\ Program => ListInv'
<1> SUFFICES ASSUME ListInv, Program PROVE ListInv'
  OBVIOUS
<1>1. TypeInv'
  BY ProgramType DEF ListInv
<1>2. /\ pc = "program" /\ pc' = "program"
      /\ UNCHANGED <<allocated, links, globals, caller, frame, queue>>
  BY DEF Program, CopyRoot, Load, Store, call, collector
<1> QED
  BY <1>1, <1>2, SameListStep DEF Calls

LEMMA CallReallocList ==
    ASSUME ListInv, NoMarkLeft, NEW x \in 1 .. Words, CallRealloc(x)
    PROVE  ListInv' /\ Listed' = Listed
<1> DEFINE ptr == root[x]
<1> USE DEF links, globals, collector
<1>1. TypeInv'
  BY EnterType DEF ListInv, Enter
<1>2. ptr \in Listed /\ ptr \in Block /\ ptr # Null /\ frame = NoFrame
  BY NotBlocks DEF CallRealloc, ListInv, FrameInv, Resizing, TypeInv, TypeOK, Listed, Calls
<1>3. Listed' = Listed
  BY <1>2, NotBlocks DEF CallRealloc, Listed, ListInv, TypeInv, TypeOK
<1>4. \A b \in Listed : PreviousOf(b)' = PreviousOf(b) /\ NextOf(b)' = NextOf(b)
  BY <1>2, NotBlocks DEF CallRealloc, Listed, PreviousOf, NextOf, NoFrame, ListInv, TypeInv, TypeOK
<1>5. DoublyLinked'
  BY <1>3, <1>4, SameList DEF ListInv, CallRealloc
<1>6. pc = "program" /\ pc' = "gc_realloc" /\ queue' = queue /\ UNCHANGED caller
  BY DEF CallRealloc
<1>7. FrameInv'
  <2>1. frame'.ptr = ptr /\ next'[ptr] = Null /\ ~frame'.marked
    BY <1>2, <1>6 DEF CallRealloc, marked, NoMarkLeft, ListInv, TypeInv, TypeOK
  <2>2. queue' = <<>> /\ caller' = "program"
    BY <1>6 DEF ListInv, FrameInv, Calls
  <2> QED
    BY <1>2, <1>3, <1>6, <2>1, <2>2 DEF FrameInv, Resizing, Calls
<1>8. \A b \in Listed' : valid_bigalloc(b)'
  BY <1>3 DEF CallRealloc, ListInv, KnownInv, valid_bigalloc
<1> QED
  BY <1>1, <1>3, <1>5, <1>6, <1>7, <1>8, CallStep DEF Calls

LEMMA MyfreeList ==
    ASSUME ListInv, NEW x \in 1 .. Words, Myfree(x)
    PROVE  ListInv' /\ Listed' = Listed
<1> USE DEF links, globals, call, collector
<1>1. TypeInv'
  BY EnterType DEF ListInv, Enter
<1>2. pc = "program" /\ pc' = "program" /\ frame = NoFrame /\ queue' = queue
  BY DEF Myfree, ListInv, FrameInv, Resizing, Calls
<1>3. Listed' = Listed /\ \A b \in Listed : previous'[b] = previous[b]
  BY DEF Myfree, Listed, ListInv, TypeInv, TypeOK
<1>4. DoublyLinked'
  BY <1>3, SameList DEF ListInv, Myfree, PreviousOf, NextOf
<1>5. FrameInv'
  BY <1>2, <1>3 DEF Myfree, ListInv, FrameInv, Resizing, Calls
<1>6. \A b \in Listed' : valid_bigalloc(b)'
  BY <1>3 DEF Myfree, ListInv, KnownInv, valid_bigalloc
<1> QED
  BY <1>1, <1>3, <1>2, <1>4, <1>5, <1>6, CallStep DEF Calls

LEMMA ReallocToZeroList ==
    ASSUME ListInv, NoMarkLeft, NEW x \in 1 .. Words, NEW w \in 1 .. Words,
           ReallocToZero(x, w)
    PROVE  ListInv' /\ Listed' = Listed \ {root[x]}
<1> DEFINE ptr == root[x]
<1> USE DEF globals, collector
<1>1. TypeInv'
  BY EnterType DEF ListInv, Enter
<1>0. pc = "program" /\ ~marked(ptr)
  BY DEF ReallocToZero, NoMarkLeft, marked
<1>2. /\ pc = "program" /\ pc' = "program" /\ UNCHANGED caller
      /\ frame = NoFrame /\ frame' = NoFrame /\ queue' = queue
  BY <1>0 DEF ReallocToZero, Aftermath, LeaveFor, ListInv, FrameInv, Resizing, Calls
<1>3. ptr \in Listed /\ Listed \subseteq Block
  BY DEF ReallocToZero, ListInv, TypeInv, TypeOK, Listed
<1>4. \A b \in Block : /\ PreviousOf(b) = previous[b] /\ PreviousOf(b)' = previous'[b]
                       /\ NextOf(b) = next[b] /\ NextOf(b)' = next'[b]
  BY <1>2, NotBlocks DEF PreviousOf, NextOf, NoFrame
<1>5. \A b \in Block : /\ Prevs[b] = previous[b] /\ Prevs'[b] = previous'[b]
                       /\ Nexts[b] = next[b] /\ Nexts'[b] = next'[b]
  BY <1>4 DEF Prevs, Nexts
<1>6. IsList(Listed, head, Prevs, Nexts)
  BY ListForm DEF ListInv, TypeInv
<1>7. /\ head' = IF Prevs[ptr] = ListHead THEN Nexts[ptr] ELSE head
      /\ \A b \in Listed \ {ptr} : Prevs'[b] = IF b = Nexts[ptr] THEN Prevs[ptr] ELSE Prevs[b]
      /\ \A b \in Listed \ {ptr} : Nexts'[b] = IF b = Prevs[ptr] THEN Nexts[ptr] ELSE Nexts[b]
  BY <1>0, <1>3, <1>5 DEF ReallocToZero, HeadWithout, Relinks
<1>8. Listed' = Listed \ {ptr}
  <2>1. Prevs[ptr] \in Listed \cup {ListHead}
    BY <1>3, <1>6 DEF IsList
  <2>2. Sentinel \notin Listed \cup {ListHead}
    BY <1>3, NotBlocks
  <2>3. \A b \in allocated' : previous'[b] = Sentinel <=> previous[b] = Sentinel
    <3>1. \A b \in allocated' : b \in Block /\ b # ptr
      BY DEF ReallocToZero, ListInv, TypeInv, TypeOK
    <3>2. Nexts[ptr] \in Listed \cup {Null}
      BY <1>3, <1>6 DEF IsList
    <3> QED
      BY <1>3, <1>5, <2>1, <2>2, <3>1, <3>2, NotBlocks DEF ReallocToZero, Listed
  <2> QED
    BY <2>3 DEF ReallocToZero, Listed
<1>9. IsList(Listed', head', Prevs', Nexts')
  <2> HIDE DEF ptr
  <2> QED
    BY <1>3, <1>6, <1>7, <1>8, NotBlocks, UnlinkList
<1>10. DoublyLinked'
  BY <1>1, <1>9, ListFormNext DEF TypeInv
<1>11. FrameInv'
  BY <1>2 DEF ListInv, FrameInv, Resizing, Calls
<1>12. \A b \in Listed' : valid_bigalloc(b)'
  BY <1>8 DEF ReallocToZero, ListInv, KnownInv, valid_bigalloc
<1> QED
  BY <1>1, <1>8, <1>2, <1>10, <1>11, <1>12, CallStep DEF Calls

LEMMA EnterList == ListInv /\ NoMarkLeft /\ Enter => ListInv'
<1> SUFFICES ASSUME ListInv, NoMarkLeft, Enter PROVE ListInv'
  OBVIOUS
<1>1. CASE CallMalloc \/ CallMymalloc
  <2>1. TypeInv'
    BY EnterType DEF ListInv
  <2>2. /\ pc \in Calls \ {"gc_realloc"} /\ pc' \in Calls \ {"gc_realloc"}
        /\ UNCHANGED <<allocated, links, globals, caller, frame, queue>>
    BY <1>1 DEF CallMalloc, CallMymalloc, call, collector, Calls
  <2> QED
    BY <2>1, <2>2, SameListStep
<1> QED
  BY <1>1, CallReallocList, MyfreeList, ReallocToZeroList DEF Enter

LEMMA MallocReturnsList ==
    ASSUME ListInv, NEW b \in Block, NEW w \in 1 .. Words, MallocReturns(b, w)
    PROVE  ListInv' /\ Listed' = Listed \cup {b}
<1> USE DEF collector
<1>1. TypeInv'
  BY LeaveType DEF ListInv, Leave
<1>2. /\ pc = "gc_malloc" /\ pc' = "program" /\ UNCHANGED caller
      /\ frame = NoFrame /\ frame' = NoFrame /\ queue' = queue
  BY DEF MallocReturns, Return, LeaveFor, ListInv, FrameInv, Resizing, Calls
<1>3. b \notin Listed /\ Listed \subseteq Block
  BY DEF MallocReturns, ListInv, TypeInv, TypeOK, Listed
<1>4. \A a \in Block : /\ Prevs[a] = previous[a] /\ Prevs'[a] = previous'[a]
                       /\ Nexts[a] = next[a] /\ Nexts'[a] = next'[a]
  BY <1>2, NotBlocks DEF Prevs, Nexts, PreviousOf, NextOf, NoFrame
<1>5. IsList(Listed, head, Prevs, Nexts)
  BY ListForm DEF ListInv, TypeInv
<1>6. head' = b /\ Prevs'[b] = ListHead /\ Nexts'[b] = head
  <2>1. previous'[b] = ListHead
    BY <1>3, <1>5, NotBlocks DEF MallocReturns, IsList
  <2>2. next'[b] = head
    BY DEF MallocReturns, ListInv, TypeInv, TypeOK
  <2> QED
    BY <1>4, <2>1, <2>2 DEF MallocReturns
<1>7. /\ \A a \in Listed : Prevs'[a] = IF a = head THEN b ELSE Prevs[a]
      /\ \A a \in Listed : Nexts'[a] = Nexts[a]
  BY <1>3, <1>4 DEF MallocReturns
<1>8. Listed' = Listed \cup {b}
  <2>1. \A a \in allocated : a \in Block /\ a # b
    BY DEF MallocReturns, ListInv, TypeInv, TypeOK
  <2>2. \A a \in allocated : previous'[a] = IF a = head THEN b ELSE previous[a]
    BY <2>1 DEF MallocReturns
  <2>3. head = Null \/ head \in Listed
    BY <1>5 DEF IsList
  <2>4. previous'[b] = ListHead
    BY <1>4, <1>6
  <2> QED
    BY <2>1, <2>2, <2>3, <2>4, NotBlocks DEF MallocReturns, Listed
<1>9. IsList(Listed', head', Prevs', Nexts')
  BY <1>3, <1>5, <1>6, <1>7, <1>8, NotBlocks, PushList
<1>10. DoublyLinked'
  BY <1>1, <1>9, ListFormNext DEF TypeInv
<1>11. FrameInv'
  BY <1>2 DEF ListInv, FrameInv, Resizing, Calls
<1>12. \A a \in Listed' : valid_bigalloc(a)'
  BY <1>8 DEF MallocReturns, new_bigalloc, ListInv, KnownInv, valid_bigalloc
<1> QED
  BY <1>1, <1>8, <1>2, <1>10, <1>11, <1>12, CallStep DEF Calls

LEMMA ReallocMovesList ==
    ASSUME ListInv, NEW b \in Block, NEW w \in 1 .. Words, ReallocMoves(b, w)
    PROVE  ListInv' /\ Listed' = (Listed \cup {b}) \ {frame.ptr}
<1> DEFINE ptr == frame.ptr
<1> USE DEF collector
<1>1. TypeInv'
  BY LeaveType DEF ListInv, Leave
<1>0. ~frame.marked
  BY DEF ReallocMoves, ListInv, FrameInv, Resizing
<1>2. /\ pc = "gc_realloc" /\ pc' = "program" /\ UNCHANGED caller
      /\ Resizing /\ frame' = NoFrame /\ queue' = queue
  BY <1>0 DEF ReallocMoves, Aftermath, LeaveFor, Resizing
<1>3. b \notin Listed /\ Listed \subseteq Block /\ ptr \in Listed /\ b # ptr
  BY <1>2 DEF ReallocMoves, ListInv, FrameInv, TypeInv, TypeOK, Listed
<1>4. \A a \in Block : /\ Prevs[a] = PreviousOf(a) /\ Prevs'[a] = previous'[a]
                       /\ Nexts[a] = NextOf(a) /\ Nexts'[a] = next'[a]
  BY <1>2, NotBlocks DEF Prevs, Nexts, PreviousOf, NextOf, NoFrame
<1>5. IsList(Listed, head, Prevs, Nexts)
  BY ListForm DEF ListInv, TypeInv
<1>6. Prevs[ptr] = frame.previous /\ Nexts[ptr] = frame.next
  BY <1>3, <1>4 DEF PreviousOf, NextOf
<1>7. /\ head' = IF Prevs[ptr] = ListHead THEN b ELSE head
      /\ Prevs'[b] = Prevs[ptr]
      /\ Nexts'[b] = Nexts[ptr]
  <2>1. b \notin {frame.ptr, frame.previous, frame.next}
    BY <1>2, <1>3, FrameLinks, NotBlocks
  <2>2. previous'[b] = frame.previous /\ next'[b] = frame.next
    BY <1>0, <2>1 DEF ReallocMoves, Relinks
  <2> QED
    BY <1>0, <1>4, <1>6, <2>2 DEF ReallocMoves, Relinks
<1>8. \A a \in Listed \ {ptr} : Prevs'[a] = IF a = Nexts[ptr] THEN b ELSE Prevs[a]
  BY <1>3, <1>4, <1>6 DEF ReallocMoves, PreviousOf
<1>9. \A a \in Listed \ {ptr} : Nexts'[a] = IF a = Prevs[ptr] THEN b ELSE Nexts[a]
  BY <1>0, <1>3, <1>4, <1>6 DEF ReallocMoves, Relinks, NextOf
<1>10. Listed' = (Listed \cup {b}) \ {ptr}
  <2>1. \A a \in allocated' \ {b} : a \in allocated /\ a \in Block /\ a # ptr
    BY DEF ReallocMoves, ListInv, TypeInv, TypeOK
  <2>2. \A a \in allocated' \ {b} :
           previous'[a] = IF a = frame.next THEN b ELSE previous[a]
    BY <2>1 DEF ReallocMoves
  <2>3. frame.next = Null \/ frame.next \in Listed
    BY <1>2, FrameLinks
  <2>4. previous'[b] # Sentinel
    BY <1>3, <1>2, FrameLinks, NotBlocks DEF ReallocMoves
  <2> QED
    BY <1>3, <2>1, <2>2, <2>3, <2>4, NotBlocks DEF ReallocMoves, Listed
<1>11. IsList(Listed', head', Prevs', Nexts')
  <2> HIDE DEF ptr
  <2>1. b # Null /\ Null \notin Listed /\ ListHead \notin Listed \cup {b}
    BY <1>3, NotBlocks
  <2> QED
    BY <1>3, <1>5, <1>7, <1>8, <1>9, <1>10, <2>1, ReplaceList
<1>12. DoublyLinked'
  BY <1>1, <1>11, ListFormNext DEF TypeInv
<1>13. FrameInv'
  BY <1>2 DEF ListInv, FrameInv, Resizing, Calls
<1>14. \A a \in Listed' : valid_bigalloc(a)'
  BY <1>10 DEF ReallocMoves, new_bigalloc, ListInv, KnownInv, valid_bigalloc
<1> QED
  BY <1>1, <1>10, <1>2, <1>12, <1>13, <1>14, CallStep DEF Calls

(* gc_realloc puts the list pointers back where they were.                 *)
LEMMA ReallocStaysList ==
    ASSUME ListInv, NEW w \in 1 .. Words, ReallocFails(w) \/ ReallocInPlace(w)
    PROVE  ListInv' /\ Listed' = Listed
<1> USE DEF globals, collector
<1>1. TypeInv'
  BY LeaveType DEF ListInv, Leave
<1>2. /\ pc = "gc_realloc" /\ pc' = "program" /\ UNCHANGED caller
      /\ Resizing /\ frame' = NoFrame /\ queue' = queue
  BY DEF ReallocFails, ReallocInPlace, Return, LeaveFor, Resizing
<1>3. /\ previous' = [previous EXCEPT ![frame.ptr] = frame.previous]
      /\ next' = [next EXCEPT ![frame.ptr] = frame.next]
      /\ UNCHANGED <<allocated, head, globals>>
  BY DEF ReallocFails, ReallocInPlace
<1>4. Listed' = Listed
  BY <1>2, <1>3, FrameLinks, NotBlocks DEF ListInv, TypeInv, TypeOK, Listed
<1>5. \A a \in Listed : PreviousOf(a)' = PreviousOf(a) /\ NextOf(a)' = NextOf(a)
  BY <1>2, <1>3, NotBlocks DEF PreviousOf, NextOf, NoFrame, ListInv, TypeInv, TypeOK, Listed
<1>6. DoublyLinked'
  BY <1>3, <1>4, <1>5, SameList DEF ListInv
<1>7. FrameInv'
  BY <1>2 DEF ListInv, FrameInv, Resizing, Calls
<1>8. \A a \in Listed' : valid_bigalloc(a)'
  BY <1>3, <1>4 DEF ListInv, KnownInv, valid_bigalloc
<1> QED
  BY <1>1, <1>4, <1>2, <1>6, <1>7, <1>8, CallStep DEF Calls

LEMMA MymallocReturnsList ==
    ASSUME ListInv, NEW b \in Block, NEW w \in 1 .. Words, MymallocReturns(b, w)
    PROVE  ListInv' /\ Listed' = Listed
<1> USE DEF globals, collector
<1>1. TypeInv'
  BY LeaveType DEF ListInv, Leave
<1>2. /\ pc = "mymalloc" /\ pc' = "program" /\ UNCHANGED caller
      /\ frame = NoFrame /\ frame' = NoFrame /\ queue' = queue
  BY DEF MymallocReturns, Return, LeaveFor, ListInv, FrameInv, Resizing, Calls
<1>3. Listed' = Listed /\ \A a \in Listed : previous'[a] = previous[a]
  BY DEF MymallocReturns, Listed, ListInv, TypeInv, TypeOK
<1>4. DoublyLinked'
  BY <1>2, <1>3, SameList DEF ListInv, MymallocReturns, PreviousOf, NextOf
<1>5. FrameInv'
  BY <1>2 DEF ListInv, FrameInv, Resizing, Calls
<1>6. \A a \in Listed' : valid_bigalloc(a)'
  BY <1>3 DEF MymallocReturns, ListInv, KnownInv, valid_bigalloc
<1> QED
  BY <1>1, <1>3, <1>2, <1>4, <1>5, <1>6, CallStep DEF Calls

LEMMA LeaveList == ListInv /\ Leave => ListInv'
<1> SUFFICES ASSUME ListInv, Leave PROVE ListInv'
  OBVIOUS
<1>1. ASSUME NEW w \in 1 .. Words, MallocFails(w) \/ MymallocFails(w) PROVE ListInv'
  <2>1. TypeInv'
    BY LeaveType DEF ListInv
  <2>2. pc \in Calls \ {"gc_realloc"} /\ pc' \in Calls \ {"gc_realloc"}
    BY <1>1 DEF MallocFails, MymallocFails, Return, LeaveFor, Calls
  <2>3. frame' = frame
    BY <1>1 DEF MallocFails, MymallocFails, Return, LeaveFor, ListInv, FrameInv, Resizing, Calls
  <2>4. UNCHANGED <<allocated, links, globals, caller, frame, queue>>
    BY <1>1, <2>3 DEF MallocFails, MymallocFails, Return, LeaveFor, collector
  <2> QED
    BY <2>1, <2>2, <2>4, SameListStep
<1> QED
  BY <1>1, MallocReturnsList, ReallocMovesList, ReallocStaysList, MymallocReturnsList DEF Leave

-----------------------------------------------------------------------------
(* The steps of a collection up to the sweep.                              *)

(* enqueue puts at most one block in the queue, and a collected one always.*)
LEMMA EnqueueAdds ==
    ASSUME TypeOK, NEW v, enqueue(v)
    PROVE  /\ Queued \subseteq Queued'
           /\ Queued' \subseteq Queued \cup {v}
           /\ Queued' \subseteq Queued \cup allocated
           /\ v \in allocated /\ valid_bigalloc(v) => v \in Queued'
           /\ queue # <<>> => Head(queue') = Head(queue)
<1>1. CASE ~valid_heap_object(v)
  BY <1>1 DEF enqueue, valid_heap_object, Queued
<1>2. CASE valid_heap_object(v)
  <2>1. queue \in Seq(Block) /\ queue' = Append(queue, v) /\ v \in Block /\ v \in allocated
    BY <1>2 DEF enqueue, valid_heap_object, TypeOK
  <2>2. /\ Len(queue') = Len(queue) + 1 /\ Len(queue) \in Nat
        /\ \A k \in 1 .. Len(queue) : queue'[k] = queue[k]
        /\ queue'[Len(queue) + 1] = v
    BY <2>1
  <2>3. Queued' = Queued \cup {v}
    BY <2>2 DEF Queued
  <2>4. queue # <<>> => Head(queue') = Head(queue)
    BY <2>1, <2>2
  <2> QED
    BY <2>1, <2>3, <2>4
<1> QED
  BY <1>1, <1>2

(* What is taken off the queue is its head.                                *)
LEMMA TailTakes ==
    ASSUME TypeOK, queue # <<>>, queue' = Tail(queue)
    PROVE  /\ Head(queue) \in Queued
           /\ Queued = Queued' \cup {Head(queue)}
<1>1. queue \in Seq(Block) /\ Len(queue) \in Nat \ {0} /\ Head(queue) = queue[1]
  BY DEF TypeOK
<1>2. /\ Len(queue') = Len(queue) - 1
      /\ \A k \in 1 .. Len(queue') : queue'[k] = queue[k + 1]
  BY <1>1
<1>3. Queued' \subseteq Queued
  BY <1>1, <1>2 DEF Queued
<1>4. Queued \subseteq Queued' \cup {Head(queue)}
  <2> SUFFICES ASSUME NEW k \in 1 .. Len(queue), k # 1 PROVE queue[k] \in Queued'
    BY <1>1 DEF Queued
  <2>1. k - 1 \in 1 .. Len(queue') /\ queue'[k - 1] = queue[k]
    BY <1>1, <1>2
  <2> QED
    BY <2>1 DEF Queued
<1>5. 1 \in 1 .. Len(queue) /\ queue[1] \in Queued
  BY <1>1 DEF Queued
<1> QED
  BY <1>1, <1>3, <1>4, <1>5

(* What the steps that search and mark leave alone.                        *)
LEMMA MarkPhaseStep ==
    ASSUME ListInv, TypeInv', pc \in {"roots", "mark", "fields"}, pc' \in {"roots", "mark", "fields"},
           UNCHANGED <<program, allocated, head, previous, next, globals, call>>
    PROVE  /\ Listed' = Listed /\ DoublyLinked' /\ FrameInv' /\ SweepInv'
           /\ \A b \in Listed' : valid_bigalloc(b)'
           /\ \A i \in 1 .. RootWords : RootWord(i)' = RootWord(i)
<1> USE DEF globals, call, program
<1>1. Listed' = Listed
  BY DEF Listed
<1>2. DoublyLinked'
  BY <1>1, SameList DEF ListInv, PreviousOf, NextOf
<1>3. FrameInv'
  BY <1>1 DEF ListInv, FrameInv, Resizing, Calls
<1>4. SweepInv'
  BY DEF SweepInv
<1>5. \A b \in Listed' : valid_bigalloc(b)'
  BY <1>1 DEF ListInv, KnownInv, valid_bigalloc
<1>6. \A i \in 1 .. RootWords : RootWord(i)' = RootWord(i)
  BY DEF RootWord, FramePrevious
<1> QED
  BY <1>1, <1>2, <1>3, <1>4, <1>5, <1>6

LEMMA CollectList == ListInv /\ Collect => ListInv'
<1> SUFFICES ASSUME ListInv, Collect PROVE ListInv'
  OBVIOUS
<1> USE DEF links, globals
<1>1. TypeInv'
  BY CollectingType DEF ListInv
<1>2. Listed' = Listed /\ pc \in Calls /\ pc' = "roots" /\ caller' = pc /\ caller = "program"
  BY DEF Collect, Listed, ListInv, FrameInv
<1>3. DoublyLinked'
  BY <1>2, SameList DEF ListInv, Collect, PreviousOf, NextOf
<1>4. FrameInv'
  BY <1>2 DEF Collect, ListInv, FrameInv, Resizing, Calls
<1>5. queue' = <<>> /\ cursor' = 1
  BY DEF Collect, ListInv, FrameInv, Calls
<1>6. KnownInv'
  BY <1>2, <1>5 DEF Collect, ListInv, KnownInv, valid_bigalloc, Queued
<1>7. RootsInv'
  BY <1>2, <1>5, HeapAssumption DEF HeapAssumption, RootsInv, RootWords
<1>8. SweepInv'
  BY <1>2 DEF SweepInv
<1> QED
  BY <1>1, <1>3, <1>4, <1>6, <1>7, <1>8 DEF ListInv

LEMMA ScanRootList == ListInv /\ ScanRoot => ListInv'
<1> SUFFICES ASSUME ListInv, ScanRoot PROVE ListInv'
  OBVIOUS
<1>1. TypeInv'
  BY CollectingType DEF ListInv, Collecting
<1>2. /\ pc = "roots" /\ pc' = "roots" /\ cursor <= RootWords /\ cursor' = cursor + 1 /\ mark' = mark
      /\ UNCHANGED <<program, allocated, head, previous, next, globals, call>>
  BY DEF ScanRoot, links
<1>3. /\ Listed' = Listed /\ DoublyLinked' /\ FrameInv' /\ SweepInv'
      /\ \A b \in Listed' : valid_bigalloc(b)'
      /\ \A i \in 1 .. RootWords : RootWord(i)' = RootWord(i)
  BY <1>1, <1>2, MarkPhaseStep
<1>4. /\ Queued \subseteq Queued' /\ Queued' \subseteq Queued \cup allocated
      /\ RootWord(cursor) \in Listed => RootWord(cursor) \in Queued'
  BY EnqueueAdds DEF ScanRoot, ListInv, TypeInv, KnownInv, Listed
<1>5. KnownInv'
  BY <1>2, <1>3, <1>4 DEF ListInv, KnownInv
<1>6. cursor \in Nat /\ RootWords \in Nat
  BY HeapAssumption DEF HeapAssumption, RootWords, ListInv, TypeInv, TypeOK
<1>7. RootsInv'
  <2>1. cursor' <= RootWords + 1
    BY <1>2, <1>6
  <2>2. ASSUME NEW i \in 1 .. cursor, RootWord(i) \in Listed PROVE RootWord(i) \in Known'
    <3>1. i \in 1 .. (cursor - 1) \/ i = cursor
      BY <1>6
    <3>2. Known \subseteq Known' /\ Queued' \subseteq Known'
      BY <1>2, <1>4 DEF Known
    <3> QED
      BY <1>2, <1>4, <2>2, <3>1, <3>2 DEF ListInv, RootsInv
  <2>3. \A i \in 1 .. cursor : i \in 1 .. RootWords
    BY <1>2, <1>6
  <2>4. cursor' - 1 = cursor
    BY <1>2, <1>6
  <2> QED
    BY <1>2, <1>3, <2>1, <2>2, <2>3, <2>4 DEF RootsInv
<1> QED
  BY <1>1, <1>3, <1>5, <1>7 DEF ListInv

LEMMA RootsScannedList == ListInv /\ RootsScanned => ListInv'
<1> SUFFICES ASSUME ListInv, RootsScanned PROVE ListInv'
  OBVIOUS
<1>1. TypeInv'
  BY CollectingType DEF ListInv, Collecting
<1>2. /\ pc = "roots" /\ pc' = "mark" /\ cursor > RootWords /\ mark' = mark /\ queue' = queue
      /\ UNCHANGED <<program, allocated, head, previous, next, globals, call>>
  BY DEF RootsScanned, links
<1>3. /\ Listed' = Listed /\ DoublyLinked' /\ FrameInv' /\ SweepInv'
      /\ \A b \in Listed' : valid_bigalloc(b)'
      /\ \A i \in 1 .. RootWords : RootWord(i)' = RootWord(i)
  BY <1>1, <1>2, MarkPhaseStep
<1>4. Queued' = Queued /\ Known' = Known
  BY <1>2 DEF Queued, Known
<1>5. KnownInv'
  BY <1>2, <1>3, <1>4 DEF ListInv, KnownInv
<1>6. cursor \in Nat /\ RootWords \in Nat
  BY HeapAssumption DEF HeapAssumption, RootWords, ListInv, TypeInv, TypeOK
<1>7. \A i \in 1 .. RootWords : i \in 1 .. (cursor - 1)
  BY <1>2, <1>6
<1>8. RootsInv'
  BY <1>2, <1>3, <1>4, <1>7 DEF ListInv, RootsInv
<1> QED
  BY <1>1, <1>3, <1>5, <1>8 DEF ListInv

(* In the mark phase what is known stays known: the queue gives a block up *)
(* when it is marked, or is not a collected one.                           *)
LEMMA MarkingList ==
    ListInv /\ (SkipObject \/ SearchObject \/ ScanField \/ MarkObject)
        => ListInv' /\ Known \cap Listed \subseteq Known'
<1> SUFFICES ASSUME ListInv, SkipObject \/ SearchObject \/ ScanField \/ MarkObject
             PROVE  ListInv' /\ Known \cap Listed \subseteq Known'
  OBVIOUS
<1>1. TypeInv' /\ TypeInv
  BY CollectingType DEF ListInv, Collecting
<1>2. /\ pc \in {"mark", "fields"} /\ pc' \in {"mark", "fields"}
      /\ UNCHANGED <<program, allocated, head, previous, next, globals, call>>
  BY DEF SkipObject, SearchObject, ScanField, MarkObject, links
<1>3. /\ Listed' = Listed /\ DoublyLinked' /\ FrameInv' /\ SweepInv'
      /\ \A b \in Listed' : valid_bigalloc(b)'
      /\ \A i \in 1 .. RootWords : RootWord(i)' = RootWord(i)
  BY <1>1, <1>2, MarkPhaseStep
<1>4. Known \cap Listed \subseteq Known' /\ KnownInv' /\ (pc' = "fields" => cursor' <= Fields + 1)
  <2>1. CASE SkipObject
    <3>1. Head(queue) \in mark \/ Head(queue) \notin Listed
      BY <2>1 DEF SkipObject, marked, Listed
    <3>2. Queued = Queued' \cup {Head(queue)} /\ mark' = mark /\ pc' = "mark"
      BY <1>1, <2>1, TailTakes DEF SkipObject, links, TypeInv
    <3> QED
      BY <1>2, <1>3, <3>1, <3>2 DEF Known, ListInv, KnownInv
  <2>2. CASE SearchObject
    <3>1. Queued' = Queued /\ mark' = mark /\ queue' = queue
      BY <2>2 DEF SearchObject, links, Queued
    <3>2. Head(queue) \in Queued
      BY <1>1, <2>2 DEF SearchObject, Queued, TypeInv, TypeOK
    <3>3. Head(queue) \in Listed
      BY <2>2, <3>2 DEF SearchObject, Listed, ListInv, KnownInv
    <3>4. cursor' <= Fields + 1
      BY <2>2, HeapAssumption DEF SearchObject, HeapAssumption
    <3> QED
      BY <1>2, <1>3, <3>1, <3>3, <3>4 DEF Known, ListInv, KnownInv
  <2>3. CASE ScanField
    <3>1. /\ Queued \subseteq Queued' /\ Queued' \subseteq Queued \cup allocated
          /\ Head(queue') = Head(queue)
      BY <1>1, <2>3, EnqueueAdds DEF ScanField, TypeInv, QueueInv
    <3>2. cursor' <= Fields + 1 /\ mark' = mark /\ pc = "fields"
      BY <1>1, <2>3, HeapAssumption DEF ScanField, links, TypeInv, TypeOK, HeapAssumption, RootWords
    <3> QED
      BY <1>2, <1>3, <3>1, <3>2 DEF Known, ListInv, KnownInv
  <2>4. CASE MarkObject
    <3>1. queue # <<>> /\ queue' = Tail(queue) /\ mark' = mark \cup {Head(queue)} /\ pc' = "mark"
      BY <1>1, <2>4 DEF MarkObject, TypeInv, QueueInv
    <3>2. Queued = Queued' \cup {Head(queue)}
      BY <1>1, <3>1, TailTakes DEF TypeInv
    <3> QED
      BY <1>2, <1>3, <3>1, <3>2 DEF Known, ListInv, KnownInv
  <2> QED
    BY <2>1, <2>2, <2>3, <2>4
<1>5. RootsInv'
  BY <1>2, <1>3, <1>4 DEF ListInv, RootsInv
<1> QED
  BY <1>1, <1>3, <1>4, <1>5 DEF ListInv

-----------------------------------------------------------------------------
(* The sweep.                                                              *)

(* Every step of the sweep stays on the list.                              *)
LEMMA OnTheList ==
    ASSUME ListInv, NEW b \in Listed
    PROVE  /\ b \in Block
           /\ next[b] \in Listed \cup {Null}
           /\ b = frame.ptr => next[b] = Null
           /\ b # frame.ptr => next[b] = NextOf(b)
           /\ next[b] # Null => PreviousOf(next[b]) = b
           /\ \/ PreviousOf(b) = ListHead /\ head = b
              \/ PreviousOf(b) \in Listed /\ NextOf(PreviousOf(b)) = b
<1>1. b \in Block
  BY DEF ListInv, TypeInv, TypeOK, Listed
<1>2. b = frame.ptr => next[b] = Null
  BY <1>1, NotBlocks DEF ListInv, FrameInv, NoFrame
<1>3. b # frame.ptr => next[b] = NextOf(b)
  BY DEF NextOf
<1>4. DoublyLinked
  BY DEF ListInv
<1>5. NextOf(b) # Null => NextOf(b) \in Listed /\ PreviousOf(NextOf(b)) = b
  BY <1>4 DEF DoublyLinked
<1>6. \/ PreviousOf(b) = ListHead /\ head = b
      \/ PreviousOf(b) \in Listed /\ NextOf(PreviousOf(b)) = b
  BY <1>4 DEF DoublyLinked
<1> QED
  BY <1>1, <1>2, <1>3, <1>5, <1>6

LEMMA StartSweepList ==
    ListInv /\ StartSweep => ListInv' /\ Ahead' = From(Listed, head, next)
<1> SUFFICES ASSUME ListInv, StartSweep PROVE ListInv' /\ Ahead' = From(Listed, head, next)
  OBVIOUS
<1>1. TypeInv'
  BY CollectingType DEF ListInv, Collecting
<1>2. /\ pc = "mark" /\ pc' = "sweep" /\ queue = <<>> /\ queue' = <<>>
      /\ before' = ListHead /\ current' = head
      /\ UNCHANGED <<program, allocated, head, previous, next, mark, globals, call>>
  BY DEF StartSweep, links
<1>3. Listed' = Listed /\ \A b \in Pointer : PreviousOf(b)' = PreviousOf(b) /\ NextOf(b)' = NextOf(b)
  BY <1>2 DEF Listed, PreviousOf, NextOf, call
<1>4. Listed \subseteq Block /\ Block \subseteq Pointer
  BY DEF ListInv, TypeInv, TypeOK, Listed, Pointer
<1>5. DoublyLinked'
  BY <1>2, <1>3, <1>4, SameList DEF ListInv
<1>6. FrameInv'
  BY <1>2, <1>3 DEF ListInv, FrameInv, Resizing, call, Calls
<1>7. KnownInv'
  BY <1>2, <1>3 DEF ListInv, KnownInv, valid_bigalloc, globals, Queued
<1>8. RootsInv'
  BY <1>2 DEF RootsInv
<1>9. Ahead' = From(Listed, head, next)
  BY <1>2, <1>3 DEF Ahead
<1>10. head # Null => head \in Listed /\ PreviousOf(head) = ListHead
  BY DEF ListInv, DoublyLinked
<1>11. ASSUME Resizing PROVE {frame.ptr, frame.previous} \cap Listed \subseteq mark
  <2>1. /\ Words + 1 \in 1 .. RootWords /\ RootWord(Words + 1) = frame.ptr
        /\ Words + 2 \in 1 .. RootWords /\ RootWord(Words + 2) = frame.previous
    BY <1>11, HeapAssumption DEF HeapAssumption, RootWords, RootWord, FramePrevious, ListInv, FrameInv
  <2>2. Known = mark
    BY <1>2 DEF Known, Queued
  <2> QED
    BY <1>2, <2>1, <2>2 DEF ListInv, RootsInv
<1>12. ASSUME Resizing PROVE frame.next \notin From(Listed, head, next)
  <2> DEFINE S == Listed \ {frame.next}
  <2>1. CASE frame.next = Null
    BY <1>4, <2>1, NotBlocks DEF From
  <2>2. CASE frame.next # Null
    <3>1. frame.next \in Listed /\ PreviousOf(frame.next) = frame.ptr /\ frame.ptr \in Block
      BY <1>12, <2>2, FrameLinks
    <3>2. head # frame.next
      BY <1>10, <3>1, NotBlocks, <2>2
    <3>3. \A b \in Listed : next[b] # frame.next
      BY <2>2, <3>1, OnTheList
    <3>4. Holds(S, head, next)
      BY <1>10, <3>2, <3>3, OnTheList DEF Holds
    <3> QED
      BY <3>4 DEF From
  <2> QED
    BY <2>1, <2>2
<1>13. SweepInv'
  <2>1. ListHead \notin Ahead'
    BY <1>4, <1>9, NotBlocks DEF From
  <2>2. Resizing' = Resizing \/ ~Resizing'
    BY <1>2 DEF Resizing, call
  <2>3. Resizing' => Resizing
    BY <1>2 DEF Resizing, call
  <2>4. current' # Null => PreviousOf(current)' = before'
    BY <1>2, <1>3, <1>4, <1>10 DEF PreviousOf, call
  <2>5. Ahead' \subseteq Listed
    BY <1>9 DEF From
  <2>6. Resizing' => {frame'.ptr, frame'.previous} \cap Ahead' \subseteq mark'
    BY <1>2, <1>11, <2>3, <2>5 DEF call
  <2>7. Resizing' => frame'.next \notin Ahead'
    BY <1>2, <1>9, <1>12, <2>3 DEF call
  <2>8. current' \in Listed' \cup {Null} /\ before' \in Listed' \cup {ListHead} /\ before' \notin Ahead'
    BY <1>2, <1>3, <1>10, <2>1
  <2> QED
    BY <2>4, <2>6, <2>7, <2>8 DEF SweepInv
<1> QED
  BY <1>1, <1>5, <1>6, <1>7, <1>8, <1>9, <1>13 DEF ListInv

(* The block the sweep is about to visit, and those around it.             *)
LEMMA AtCurrent ==
    ASSUME ListInv, pc = "sweep", current # Null
    PROVE  /\ current \in Listed /\ current \in Block /\ current \in Ahead
           /\ Holds(Listed, current, next)
           /\ \A b \in Ahead : next[b] # current
           /\ PreviousOf(current) = before
           /\ Null \notin Listed /\ Ahead \subseteq Listed
<1>1. /\ current \in Listed /\ before \notin Ahead
      /\ PreviousOf(current) = before
  BY DEF ListInv, SweepInv
<1>2. current \in Block /\ Null \notin Listed /\ Ahead \subseteq Listed
  BY <1>1, NotBlocks DEF ListInv, TypeInv, TypeOK, Listed, Ahead, From
<1>3. Holds(Listed, current, next)
  BY <1>1, OnTheList DEF Holds
<1>4. current \in Ahead
  BY <1>1, <1>2, <1>3 DEF Ahead, From, Holds
<1>5. \A b \in Ahead : next[b] # current
  BY <1>1, <1>2, OnTheList
<1> QED
  BY <1>1, <1>2, <1>3, <1>4, <1>5

LEMMA SweepMarkedList ==
    ListInv /\ SweepMarked => ListInv' /\ Ahead' = Ahead \ {current}
<1> SUFFICES ASSUME ListInv, SweepMarked PROVE ListInv' /\ Ahead' = Ahead \ {current}
  OBVIOUS
<1>1. TypeInv'
  BY CollectingType DEF ListInv, Collecting
<1>2. /\ pc = "sweep" /\ pc' = "sweep" /\ queue' = queue /\ current # Null
      /\ before' = current /\ current' = next[current] /\ mark' = mark \ {current}
      /\ UNCHANGED <<program, allocated, head, previous, next, globals, call>>
  BY DEF SweepMarked
<1>3. Listed' = Listed
  BY <1>2 DEF Listed
<1>4. DoublyLinked'
  BY <1>2, <1>3, SameList DEF ListInv, PreviousOf, NextOf, call
<1>5. FrameInv'
  BY <1>2, <1>3 DEF ListInv, FrameInv, Resizing, call, Calls
<1>6. KnownInv'
  BY <1>2, <1>3 DEF ListInv, KnownInv, valid_bigalloc, globals, Queued
<1>7. RootsInv'
  BY <1>2 DEF RootsInv
<1>8. Ahead' = Ahead \ {current}
  <2>1. Ahead' = From(Listed, next[current], next)
    BY <1>2, <1>3 DEF Ahead
  <2> QED
    BY <1>2, <2>1, AtCurrent, FromStep DEF Ahead
<1>9. /\ current \in Listed /\ next[current] \in Listed \cup {Null}
      /\ next[current] # Null => PreviousOf(next[current]) = current
  BY <1>2, AtCurrent, OnTheList
<1>10. SweepInv'
  <2>1. /\ current' \in Listed' \cup {Null} /\ before' \in Listed' \cup {ListHead}
        /\ before' \notin Ahead'
    BY <1>2, <1>3, <1>8, <1>9
  <2>2. current' # Null => PreviousOf(current)' = before'
    BY <1>2, <1>9 DEF PreviousOf, call
  <2>3. Resizing' => /\ {frame'.ptr, frame'.previous} \cap Ahead' \subseteq mark'
                     /\ frame'.next \notin Ahead'
    BY <1>2, <1>8 DEF ListInv, SweepInv, Resizing, call
  <2> QED
    BY <2>1, <2>2, <2>3 DEF SweepInv
<1> QED
  BY <1>1, <1>4, <1>5, <1>6, <1>7, <1>8, <1>10 DEF ListInv

LEMMA EndCollectList == ListInv /\ EndCollect => ListInv'
<1> SUFFICES ASSUME ListInv, EndCollect PROVE ListInv'
  OBVIOUS
<1>1. TypeInv'
  BY CollectingType DEF ListInv, Collecting
<1>2. /\ pc = "sweep" /\ pc' = caller /\ caller' = "program" /\ queue' = queue /\ queue = <<>>
      /\ caller \in Calls
      /\ UNCHANGED <<program, allocated, head, previous, next, mark, globals, frame>>
  BY DEF EndCollect, links, ListInv, FrameInv, TypeInv, TypeOK
<1>3. Listed' = Listed
  BY <1>2 DEF Listed
<1>4. DoublyLinked'
  BY <1>2, <1>3, SameList DEF ListInv, PreviousOf, NextOf
<1>5. FrameInv'
  BY <1>2, <1>3 DEF ListInv, FrameInv, Resizing, Calls
<1>6. KnownInv'
  BY <1>2, <1>3 DEF ListInv, KnownInv, valid_bigalloc, globals, Queued, Calls
<1>7. RootsInv' /\ SweepInv'
  BY <1>2 DEF RootsInv, SweepInv, Calls
<1> QED
  BY <1>1, <1>4, <1>5, <1>6, <1>7 DEF ListInv

(* The block that is unlinked is not one gc_realloc is about to link to.   *)
LEMMA NotInFrame ==
    ASSUME ListInv, pc = "sweep", current # Null, current \notin mark
    PROVE  current \notin {frame.ptr, frame.previous, frame.next}
<1>1. CASE Resizing
  BY <1>1, AtCurrent DEF ListInv, SweepInv
<1>2. CASE ~Resizing
  BY <1>2 DEF ListInv, FrameInv, NoFrame
<1> QED
  BY <1>1, <1>2

LEMMA SweepUnmarkedList ==
    ListInv /\ SweepUnmarked
        => ListInv' /\ Ahead' = Ahead \ {current} /\ Listed' = Listed \ {current}
<1> SUFFICES ASSUME ListInv, SweepUnmarked
             PROVE  ListInv' /\ Ahead' = Ahead \ {current} /\ Listed' = Listed \ {current}
  OBVIOUS
<1> DEFINE following == next[current]
<1>1. TypeInv'
  BY CollectingType DEF ListInv, Collecting
<1>2. /\ pc = "sweep" /\ pc' = "sweep" /\ queue' = queue /\ before' = before
      /\ current # Null /\ current \notin mark /\ current' = following
      /\ allocated' = allocated \ {current}
      /\ UNCHANGED <<mark, globals, call>>
  BY DEF SweepUnmarked, marked
<1>3. /\ current \in Listed /\ current \in Block /\ current \in Ahead
      /\ Holds(Listed, current, next)
      /\ \A b \in Ahead : next[b] # current
      /\ PreviousOf(current) = before
      /\ Null \notin Listed /\ Ahead \subseteq Listed
  BY <1>2, AtCurrent
<1>4. current \notin {frame.ptr, frame.previous, frame.next}
  BY <1>2, NotInFrame
<1>5. /\ NextOf(current) = following /\ following \in Listed \cup {Null}
      /\ following # Null => PreviousOf(following) = current
      /\ \/ before = ListHead /\ head = current
         \/ before \in Listed /\ NextOf(before) = current
  BY <1>3, <1>4, OnTheList
<1>6. head # Null => PreviousOf(head) = ListHead
  BY DEF ListInv, DoublyLinked
<1>7. Listed \subseteq Block /\ before \in Block \cup {ListHead}
  BY <1>5 DEF Listed, ListInv, TypeInv, TypeOK
<1>8. head = current <=> before = ListHead
  BY <1>2, <1>3, <1>5, <1>6, <1>7, NotBlocks
(* Neither neighbour of the unlinked block has its links in the frame.     *)
<1>9. /\ following = frame.ptr => following = Null
      /\ before # frame.ptr
  <2>1. ASSUME following = frame.ptr, following # Null PROVE FALSE
    <3>1. frame.previous = current
      BY <1>5, <2>1 DEF PreviousOf
    <3> QED
      BY <1>4, <3>1
  <2>2. ASSUME before = frame.ptr PROVE FALSE
    <3>1. frame.ptr # ListHead
      BY NotBlocks DEF ListInv, TypeInv, TypeOK, Pointer
    <3>2. frame.next = current
      BY <1>5, <2>2, <3>1 DEF NextOf
    <3> QED
      BY <1>4, <3>2
  <2> QED
    BY <2>1, <2>2
<1>10. following # current
  BY <1>3
<1>11. \A a \in Block \ {current} :
          /\ next'[a] = IF a = before THEN following ELSE next[a]
          /\ previous'[a] = IF a = following THEN before ELSE previous[a]
  BY <1>7, <1>8, NotBlocks DEF SweepUnmarked
<1>12. Listed' = Listed \ {current}
  <2>1. \A a \in allocated' : a \in Block \ {current}
    BY <1>2 DEF ListInv, TypeInv, TypeOK
  <2>2. following \in Block => following \in Listed
    BY <1>5, NotBlocks
  <2> QED
    BY <1>2, <1>7, <1>11, <2>1, <2>2, NotBlocks DEF Listed
<1>13. \A a \in Block : /\ Prevs[a] = PreviousOf(a) /\ Prevs'[a] = PreviousOf(a)'
                        /\ Nexts[a] = NextOf(a) /\ Nexts'[a] = NextOf(a)'
  BY DEF Prevs, Nexts
<1>14. frame' = frame
  BY <1>2 DEF call
<1>15. \A b \in Listed \ {current} :
          Prevs'[b] = IF b = Nexts[current] THEN Prevs[current] ELSE Prevs[b]
  <2> SUFFICES ASSUME NEW b \in Listed \ {current}
               PROVE  PreviousOf(b)' = IF b = following THEN before ELSE PreviousOf(b)
    BY <1>3, <1>5, <1>7, <1>13
  <2> QED
    BY <1>3, <1>7, <1>9, <1>11, <1>14 DEF PreviousOf
<1>16. \A b \in Listed \ {current} :
          Nexts'[b] = IF b = Prevs[current] THEN Nexts[current] ELSE Nexts[b]
  <2> SUFFICES ASSUME NEW b \in Listed \ {current}
               PROVE  NextOf(b)' = IF b = before THEN following ELSE NextOf(b)
    BY <1>3, <1>5, <1>7, <1>13
  <2> QED
    BY <1>3, <1>7, <1>9, <1>11, <1>14 DEF NextOf
<1>17. head' = IF Prevs[current] = ListHead THEN Nexts[current] ELSE head
  BY <1>3, <1>5, <1>8, <1>13 DEF SweepUnmarked
<1>18. IsList(Listed, head, Prevs, Nexts)
  BY ListForm DEF ListInv, TypeInv
<1>19. IsList(Listed', head', Prevs', Nexts')
  <2>1. ListHead \notin Listed
    BY <1>7, NotBlocks
  <2> QED
    BY <1>3, <1>12, <1>15, <1>16, <1>17, <1>18, <2>1, UnlinkList
<1>20. DoublyLinked'
  BY <1>1, <1>19, ListFormNext DEF TypeInv
<1>21. FrameInv'
  <2>1. caller' = caller /\ (Resizing' <=> Resizing) /\ queue = <<>>
    BY <1>2 DEF call, Resizing, ListInv, FrameInv
  <2>2. Resizing => frame.ptr \in Listed' /\ next'[frame.ptr] = Null
    BY <1>4, <1>7, <1>9, <1>11, <1>12 DEF ListInv, FrameInv
  <2> QED
    BY <1>2, <1>14, <2>1, <2>2 DEF ListInv, FrameInv, Calls
<1>22. KnownInv'
  <2>1. queue' = <<>>
    BY <1>2 DEF ListInv, FrameInv
  <2> QED
    BY <1>2, <1>12, <2>1 DEF ListInv, KnownInv, valid_bigalloc, globals, Queued
<1>23. RootsInv'
  BY <1>2 DEF RootsInv
<1>24. Ahead' = Ahead \ {current}
  <2>1. \A b \in Listed' :
           next'[b] = next[b] \/ (next[b] = current /\ next'[b] = next[current])
    <3> SUFFICES ASSUME NEW b \in Listed'
                 PROVE  next'[b] = next[b] \/ (next[b] = current /\ next'[b] = following)
      OBVIOUS
    <3>1. CASE b = before
      BY <1>5, <1>7, <1>9, <1>11, <1>12, <3>1, NotBlocks DEF NextOf
    <3>2. CASE b # before
      BY <1>7, <1>11, <1>12, <3>2
    <3> QED
      BY <3>1, <3>2
  <2>2. Listed \ {current} \subseteq Listed' /\ Listed' \subseteq Listed
    BY <1>12
  <2>3. \A b \in From(Listed, current, next) : next[b] # current
    BY <1>3 DEF Ahead
  <2>4. From(Listed', next[current], next') = From(Listed, current, next) \ {current}
    BY <1>3, <2>1, <2>2, <2>3, FromStep
  <2> QED
    BY <1>2, <2>4 DEF Ahead
<1>25. SweepInv'
  <2>1. current' \in Listed' \cup {Null}
    BY <1>2, <1>5, <1>10, <1>12
  <2>2. before' \in Listed' \cup {ListHead} /\ before' \notin Ahead'
    BY <1>2, <1>3, <1>12, <1>24 DEF ListInv, SweepInv
  <2>3. current' # Null => PreviousOf(current)' = before'
    BY <1>2, <1>5, <1>7, <1>9, <1>10, <1>11, <1>14 DEF PreviousOf
  <2>4. Resizing' => /\ {frame'.ptr, frame'.previous} \cap Ahead' \subseteq mark'
                     /\ frame'.next \notin Ahead'
    BY <1>2, <1>14, <1>24 DEF ListInv, SweepInv, Resizing, call
  <2> QED
    BY <2>1, <2>2, <2>3, <2>4 DEF SweepInv
<1> QED
  BY <1>1, <1>12, <1>20, <1>21, <1>22, <1>23, <1>24, <1>25 DEF ListInv

-----------------------------------------------------------------------------

LEMMA NextListInv == ListInv /\ NoMarkLeft /\ [Next]_vars => ListInv'
<1> SUFFICES ASSUME ListInv, NoMarkLeft, [Next]_vars PROVE ListInv'
  OBVIOUS
<1>1. CASE Collecting
  BY <1>1, ScanRootList, RootsScannedList, MarkingList, StartSweepList, SweepMarkedList,
     SweepUnmarkedList, EndCollectList DEF Collecting
<1>2. CASE UNCHANGED vars
  <2> USE <1>2 DEF vars, program, links, globals, call, collector
  <2>1. TypeInv'
    BY NextTypeInv DEF ListInv
  <2>2. Listed' = Listed /\ Queued' = Queued /\ Known' = Known /\ Resizing' = Resizing
    BY DEF Listed, Queued, Known, Resizing
  <2>3. FrameInv' /\ KnownInv'
    BY <2>2 DEF ListInv, FrameInv, KnownInv, valid_bigalloc
  <2>4. RootsInv'
    <3>1. \A i \in 1 .. RootWords : RootWord(i)' = RootWord(i)
      BY DEF RootWord, FramePrevious
    <3>2. \A i \in 1 .. (cursor - 1) : RootWord(i)' = RootWord(i)
      BY DEF RootWord, FramePrevious
    <3> QED
      BY <2>2, <3>1, <3>2 DEF ListInv, RootsInv
  <2>5. DoublyLinked'
    BY <2>2, SameList DEF ListInv, PreviousOf, NextOf
  <2>6. SweepInv'
    BY <2>2 DEF ListInv, SweepInv, Ahead, PreviousOf
  <2> QED
    BY <2>1, <2>3, <2>4, <2>5, <2>6 DEF ListInv
<1> QED
  BY <1>1, <1>2, ProgramList, EnterList, LeaveList, CollectList DEF Next

(* gc.c:48: as long as no collection leaves a mark on a block, the blocks  *)
(* that gc_malloc gave out form one doubly linked list, at every step of   *)
(* every call and of every collection, also one that myrealloc starts      *)
(* while a block is cut off from the list.  (A block that has kept its     *)
(* mark is not unlinked by gc_realloc, and the list breaks.)               *)
THEOREM ListLastsUnmarked == Spec /\ []NoMarkLeft => []DoublyLinked
<1>1. ListInv => DoublyLinked
  BY DEF ListInv
<1> QED
  BY <1>1, InitListInv, NextListInv, PTL DEF Spec

-----------------------------------------------------------------------------
(* Collections.  No block the program can reach is taken back, every other *)
(* collected block is, and the heap is the one CollectedHeap describes.    *)
(* The results need that myrealloc does not collect: when it does, the     *)
(* sweep stops at the block that is cut off from the list, and the run     *)
(* heap_realloc_reachable shows a reachable block being freed.             *)

NoResizeCollects == ~ReallocMayCollect

(* Marks exist during a collection only, on collected blocks, and in the   *)
(* sweep only on blocks it has still to visit.                             *)
MarkInv ==
    /\ mark \subseteq Listed
    /\ pc \in Calls \cup {"roots"} => mark = {}
    /\ pc = "sweep" => mark \subseteq Ahead

(* The children of a marked block are known, and so are those of the block *)
(* being searched, as far as the search has come.                          *)
ColourInv ==
    /\ pc \in {"mark", "fields"} =>
          \A b \in mark, i \in 1 .. Fields : field[b][i] \in Listed => field[b][i] \in Known
    /\ pc = "fields" =>
          \A i \in 1 .. (cursor - 1) :
              field[Head(queue)][i] \in Listed => field[Head(queue)][i] \in Known

(* What the rest of the sweep will take back.                              *)
Doomed == Ahead \ mark

(* No pointer leads from the root words, or from a block that stays, to    *)
(* one that the sweep takes back.                                          *)
DoomedInv ==
    pc = "sweep" =>
        /\ \A i \in 1 .. RootWords : RootWord(i) \notin Doomed
        /\ \A b \in Listed \ Doomed, i \in 1 .. Fields : field[b][i] \notin Doomed

(* What is known, and what the sweep leaves, is reachable from the words   *)
(* the root scan reads.                                                    *)
ScannedInv ==
    /\ pc \in {"roots", "mark", "fields"} => Known \subseteq Scanned
    /\ pc = "sweep" => Listed \ Doomed \subseteq Scanned

(* The program still holds the block it resizes.                           *)
HeldInv == Resizing => frame.ptr \in {root[w] : w \in 1 .. Words}

CollectInv ==
    /\ ListInv
    /\ pc \in Phases => ~Resizing
    /\ MarkInv
    /\ ColourInv
    /\ DoomedInv
    /\ ScannedInv
    /\ HeldInv

LEMMA InitCollectInv == Init => CollectInv
<1> SUFFICES ASSUME Init PROVE CollectInv
  OBVIOUS
<1>1. ListInv
  BY InitListInv
<1>2. pc = "program" /\ caller = "program" /\ mark = {}
  BY DEF Init
<1> QED
  BY <1>1, <1>2 DEF CollectInv, Phases, Calls, Resizing, MarkInv, ColourInv, DoomedInv, ScannedInv,
     HeldInv

-----------------------------------------------------------------------------
(* Steps outside collections.                                              *)

LEMMA CallCollect == CollectInv /\ (Program \/ Enter \/ Leave) => CollectInv'
<1> SUFFICES ASSUME CollectInv, Program \/ Enter \/ Leave PROVE CollectInv'
  OBVIOUS
<1>1. ListInv'
  BY ProgramList, EnterList, LeaveList DEF CollectInv, MarkInv, NoMarkLeft, Calls
<1>2. ASSUME Program PROVE /\ pc = "program" /\ pc' = "program" /\ mark' = mark /\ caller' = caller
  BY <1>2 DEF Program, CopyRoot, Load, Store, links, call
<1> DEFINE Entered ==
        /\ pc = "program" /\ pc' \in Calls /\ mark' = {} /\ caller' = caller
        /\ pc' = "gc_realloc" => frame'.ptr \in {root'[w] : w \in 1 .. Words}
<1>3. ASSUME Enter PROVE Entered
  <2>0. mark = {} \/ pc # "program"
    BY DEF CollectInv, MarkInv, Calls
  <2>1. CASE CallMalloc \/ CallMymalloc
    BY <2>0, <2>1 DEF CallMalloc, CallMymalloc, links, call, Calls
  <2>2. ASSUME NEW x \in 1 .. Words, CallRealloc(x) PROVE Entered
    BY <2>0, <2>2 DEF CallRealloc, program, Calls
  <2>3. ASSUME NEW x \in 1 .. Words, Myfree(x) PROVE Entered
    BY <2>0, <2>3 DEF Myfree, call, Calls
  <2>4. ASSUME NEW x \in 1 .. Words, NEW w \in 1 .. Words, ReallocToZero(x, w) PROVE Entered
    BY <2>0, <2>4 DEF ReallocToZero, Aftermath, MarkBit, marked, LeaveFor, Calls
  <2> QED
    BY <1>3, <2>1, <2>2, <2>3, <2>4 DEF Enter
<1>4. ASSUME Leave
      PROVE  pc \in Calls /\ pc' = "program" /\ mark' \subseteq mark /\ caller' = caller
  <2>1. pc = "gc_realloc" => ~frame.marked
    BY DEF CollectInv, ListInv, FrameInv, Resizing
  <2> QED
    BY <1>4, <2>1 DEF Aftermath, MarkBit, Leave, MallocReturns, ReallocMoves, MymallocReturns, MallocFails, ReallocFails,
     ReallocInPlace, MymallocFails, Return, LeaveFor, links, Calls
<1>5. /\ pc \in Calls /\ pc' \in Calls /\ mark' \subseteq mark /\ caller' = caller
      /\ pc' = "gc_realloc" => frame'.ptr \in {root'[w] : w \in 1 .. Words}
  BY <1>2, <1>3, <1>4 DEF Calls
<1>6. mark' = {} /\ caller' = "program"
  BY <1>5 DEF CollectInv, MarkInv, ListInv, FrameInv
<1> QED
  BY <1>1, <1>5, <1>6 DEF CollectInv, Phases, Calls, Resizing, MarkInv, ColourInv, DoomedInv,
     ScannedInv, HeldInv

-----------------------------------------------------------------------------
(* Reachability.                                                           *)

(* The words the root scan reads.                                          *)
AllRoots ==
    {root[w] : w \in 1 .. Words} \cup {lowest, highest}
        \cup {frame.ptr, FramePrevious, frame.next}

LEMMA RootWordsAreRoots ==
    /\ \A v \in AllRoots : \E i \in 1 .. RootWords : v = RootWord(i)
    /\ \A i \in 1 .. RootWords : RootWord(i) \in AllRoots
<1> USE HeapAssumption DEF HeapAssumption
<1>1. \A w \in 1 .. Words : w \in 1 .. RootWords /\ RootWord(w) = root[w]
  BY DEF RootWords, RootWord
<1>2. /\ \A k \in 1 .. 5 : Words + k \in 1 .. RootWords
      /\ RootWord(Words + 1) = frame.ptr
      /\ RootWord(Words + 2) = FramePrevious
      /\ RootWord(Words + 3) = frame.next
      /\ RootWord(Words + 4) = lowest
      /\ RootWord(Words + 5) = highest
  BY DEF RootWords, RootWord
<1>3. \A v \in AllRoots : \E i \in 1 .. RootWords : v = RootWord(i)
  BY <1>1, <1>2 DEF AllRoots
<1>4. \A i \in 1 .. RootWords : \/ i \in 1 .. Words
                                \/ i \in {Words + 1, Words + 2, Words + 3, Words + 4, Words + 5}
  BY DEF RootWords
<1>5. \A i \in 1 .. RootWords : RootWord(i) \in AllRoots
  BY <1>1, <1>2, <1>4 DEF AllRoots
<1> QED
  BY <1>3, <1>5

LEMMA ScannedIsReachable == Scanned = ReachableFrom(AllRoots)
<1>1. AllRoots = {root[w] : w \in 1 .. Words} \cup {lowest, highest}
                     \cup {frame.ptr, FramePrevious, frame.next}
  BY DEF AllRoots
<1> QED
  BY <1>1 DEF Scanned

(* Roots, and the fields of reachable collected blocks, are reachable.     *)
LEMMA ScannedGrows ==
    /\ \A i \in 1 .. RootWords : RootWord(i) \in allocated => RootWord(i) \in Scanned
    /\ \A b \in Scanned \cap Listed, i \in 1 .. Fields :
          field[b][i] \in allocated => field[b][i] \in Scanned
<1>1. Scanned = {b \in allocated : \A S \in SUBSET allocated : Closed(S, AllRoots) => b \in S}
  BY ScannedIsReachable DEF ReachableFrom
<1>2. ASSUME NEW i \in 1 .. RootWords, RootWord(i) \in allocated PROVE RootWord(i) \in Scanned
  BY <1>1, <1>2, RootWordsAreRoots DEF Closed
<1>3. ASSUME NEW b \in Scanned \cap Listed, NEW i \in 1 .. Fields, field[b][i] \in allocated
      PROVE  field[b][i] \in Scanned
  BY <1>1, <1>3 DEF Closed
<1> QED
  BY <1>2, <1>3

(* Until the sweep nothing changes what is reachable.                      *)
LEMMA SameScanned ==
    ASSUME UNCHANGED <<program, allocated, previous, globals, call>>
    PROVE  Scanned' = Scanned
<1> USE DEF program, globals, call
<1>1. Listed' = Listed
  BY DEF Listed
<1>2. \A S : Closed(S, AllRoots)' <=> Closed(S, AllRoots)
  BY <1>1 DEF Closed, AllRoots, FramePrevious
<1>3. Scanned = {b \in allocated : \A S \in SUBSET allocated : Closed(S, AllRoots) => b \in S}
  BY ScannedIsReachable DEF ReachableFrom
<1>4. Scanned' = {b \in allocated' : \A S \in SUBSET allocated' : Closed(S, AllRoots)' => b \in S}
  BY DEF Scanned, ReachableFrom, AllRoots, FramePrevious
<1> QED
  BY <1>2, <1>3, <1>4

-----------------------------------------------------------------------------
(* The search and the marking.                                             *)

LEMMA StartCollect ==
    ASSUME NoResizeCollects, CollectInv, Collect
    PROVE  CollectInv'
<1>1. ListInv'
  BY CollectList DEF CollectInv
<1>2. /\ pc \in Calls /\ pc # "gc_realloc" /\ pc' = "roots" /\ caller' = pc
      /\ mark' = {} /\ mark = {}
  BY DEF Collect, NoResizeCollects, links, CollectInv, MarkInv
<1>3. queue' = <<>>
  BY <1>2 DEF Collect, CollectInv, ListInv, FrameInv, Calls
<1>4. ~Resizing'
  BY <1>2 DEF Resizing
<1>5. Known' = {}
  BY <1>2, <1>3 DEF Known, Queued
<1>6. MarkInv' /\ ColourInv' /\ DoomedInv' /\ ScannedInv'
  BY <1>2, <1>5 DEF MarkInv, ColourInv, DoomedInv, ScannedInv, Calls, Phases
<1> QED
  BY <1>1, <1>4, <1>6 DEF CollectInv, HeldInv

(* What the steps before the sweep have in common.                         *)
LEMMA SearchStep ==
    ASSUME CollectInv,
           ScanRoot \/ RootsScanned \/ SkipObject \/ SearchObject \/ ScanField \/ MarkObject
    PROVE  /\ ListInv'
           /\ pc \in {"roots", "mark", "fields"} /\ pc' \in {"roots", "mark", "fields"}
           /\ UNCHANGED <<program, allocated, head, previous, next, globals, call>>
           /\ ~Resizing' /\ Listed' = Listed /\ Scanned' = Scanned
           /\ Known \cap Listed \subseteq Known'
<1>1. ListInv'
  BY ScanRootList, RootsScannedList, MarkingList DEF CollectInv
<1>2. /\ pc \in {"roots", "mark", "fields"} /\ pc' \in {"roots", "mark", "fields"}
      /\ UNCHANGED <<program, allocated, head, previous, next, globals, call>>
  BY DEF ScanRoot, RootsScanned, SkipObject, SearchObject, ScanField, MarkObject, links
<1>3. ~Resizing'
  BY <1>2 DEF CollectInv, Resizing, Phases, call
<1>4. Listed' = Listed /\ Scanned' = Scanned
  BY <1>2, SameScanned DEF Listed
<1>5. CASE ScanRoot
  <2>1. Queued \subseteq Queued' /\ mark' = mark
    BY <1>5, EnqueueAdds DEF ScanRoot, links, CollectInv, ListInv, TypeInv
  <2> QED
    BY <1>1, <1>2, <1>3, <1>4, <2>1 DEF Known
<1>6. CASE RootsScanned
  BY <1>1, <1>2, <1>3, <1>4, <1>6 DEF RootsScanned, links, Known, Queued
<1>7. CASE SkipObject \/ SearchObject \/ ScanField \/ MarkObject
  <2>1. Known \cap Listed \subseteq Known'
    BY <1>7, MarkingList DEF CollectInv
  <2> QED
    BY <1>1, <1>2, <1>3, <1>4, <2>1
<1> QED
  BY <1>5, <1>6, <1>7

(* A step that queues or drops something, and marks nothing.               *)
LEMMA NothingMarked ==
    ASSUME CollectInv, ScanRoot \/ RootsScanned \/ SkipObject \/ SearchObject, Known' \subseteq Scanned
    PROVE  CollectInv'
<1>1. /\ ListInv'
      /\ pc \in {"roots", "mark", "fields"} /\ pc' \in {"roots", "mark", "fields"}
      /\ UNCHANGED <<program, allocated, head, previous, next, globals, call>>
      /\ ~Resizing' /\ Listed' = Listed /\ Scanned' = Scanned
      /\ Known \cap Listed \subseteq Known'
  BY SearchStep
<1>2. mark' = mark /\ (pc' = "roots" => pc = "roots") /\ (pc = "roots" => mark = {})
  BY DEF ScanRoot, RootsScanned, SkipObject, SearchObject, links, CollectInv, MarkInv
<1>3. MarkInv'
  BY <1>1, <1>2 DEF CollectInv, MarkInv, Calls
<1>4. \A b \in mark', i \in 1 .. Fields : field'[b][i] \in Listed' => field'[b][i] \in Known'
  BY <1>1, <1>2 DEF CollectInv, ColourInv, program
<1>5. ASSUME pc' = "fields", NEW i \in 1 .. (cursor' - 1) PROVE FALSE
  BY <1>5 DEF ScanRoot, RootsScanned, SkipObject, SearchObject
<1>6. ColourInv'
  BY <1>4, <1>5 DEF ColourInv
<1>7. DoomedInv' /\ ScannedInv' /\ HeldInv'
  BY <1>1 DEF DoomedInv, ScannedInv, HeldInv
<1> QED
  BY <1>1, <1>3, <1>6, <1>7 DEF CollectInv

LEMMA SearchCollect ==
    CollectInv /\ (ScanRoot \/ RootsScanned \/ SkipObject \/ SearchObject) => CollectInv'
<1> SUFFICES ASSUME CollectInv, ScanRoot \/ RootsScanned \/ SkipObject \/ SearchObject
             PROVE  Known' \subseteq Scanned
  BY NothingMarked
<1>1. Known \subseteq Scanned /\ TypeInv
  BY SearchStep DEF CollectInv, ScannedInv, ListInv
<1>2. CASE ScanRoot
  <2>1. /\ Queued' \subseteq Queued \cup {RootWord(cursor)}
        /\ Queued' \subseteq Queued \cup allocated /\ mark' = mark
    BY <1>1, <1>2, EnqueueAdds DEF ScanRoot, links, TypeInv
  <2>2. cursor \in 1 .. RootWords
    BY <1>1, <1>2, HeapAssumption DEF HeapAssumption, RootWords, ScanRoot, TypeInv, TypeOK
  <2>3. RootWord(cursor) \in allocated => RootWord(cursor) \in Scanned
    BY <2>2, ScannedGrows
  <2> QED
    BY <1>1, <2>1, <2>3 DEF Known
<1>3. CASE RootsScanned \/ SearchObject
  BY <1>1, <1>3 DEF RootsScanned, SearchObject, links, Known, Queued
<1>4. CASE SkipObject
  <2>1. queue # <<>> /\ queue' = Tail(queue) /\ mark' = mark
    BY <1>4 DEF SkipObject, links
  <2>2. Queued' \subseteq Queued
    BY <1>1, <2>1, TailTakes DEF TypeInv
  <2> QED
    BY <1>1, <2>1, <2>2 DEF Known
<1> QED
  BY <1>2, <1>3, <1>4

LEMMA ScanFieldCollect == CollectInv /\ ScanField => CollectInv'
<1> SUFFICES ASSUME CollectInv, ScanField PROVE CollectInv'
  OBVIOUS
<1> DEFINE b == Head(queue)
           v == field[b][cursor]
<1>1. /\ ListInv'
      /\ UNCHANGED <<program, allocated, head, previous, next, globals, call>>
      /\ ~Resizing' /\ Listed' = Listed /\ Scanned' = Scanned
      /\ Known \cap Listed \subseteq Known'
  BY SearchStep
<1>2. /\ pc = "fields" /\ pc' = "fields" /\ mark' = mark /\ cursor <= Fields /\ cursor' = cursor + 1
      /\ enqueue(v)
  BY DEF ScanField, links
<1>3. TypeOK /\ queue # <<>> /\ b \in Listed
  BY <1>2 DEF CollectInv, ListInv, TypeInv, QueueInv, KnownInv
<1>4. /\ Queued' \subseteq Queued \cup {v} /\ Queued' \subseteq Queued \cup allocated
      /\ v \in Listed => v \in Queued'
      /\ Head(queue') = b
  BY <1>2, <1>3, EnqueueAdds DEF CollectInv, ListInv, KnownInv, Listed
<1>5. cursor \in 1 .. Fields
  BY <1>2, <1>3, HeapAssumption DEF TypeOK, HeapAssumption, RootWords
<1>6. MarkInv'
  BY <1>1, <1>2 DEF CollectInv, MarkInv, Calls
<1>7. ColourInv'
  <2>1. \A a \in mark', i \in 1 .. Fields : field'[a][i] \in Listed' => field'[a][i] \in Known'
    BY <1>1, <1>2 DEF CollectInv, ColourInv, program
  <2>2. ASSUME NEW i \in 1 .. (cursor' - 1), field'[b][i] \in Listed PROVE field'[b][i] \in Known'
    <3>1. i \in 1 .. (cursor - 1) \/ i = cursor
      BY <1>2, <1>5
    <3>2. CASE i \in 1 .. (cursor - 1)
      BY <1>1, <1>2, <2>2, <3>2 DEF CollectInv, ColourInv, program
    <3>3. CASE i = cursor
      BY <1>1, <1>4, <2>2, <3>3 DEF Known, program
    <3> QED
      BY <3>1, <3>2, <3>3
  <2> QED
    BY <1>1, <1>4, <2>1, <2>2 DEF ColourInv
<1>8. Known' \subseteq Scanned
  <2>1. b \in Queued /\ Known \subseteq Scanned
    <3>1. b = queue[1] /\ 1 \in 1 .. Len(queue)
      BY <1>3 DEF TypeOK
    <3> QED
      BY <1>2, <3>1 DEF CollectInv, ScannedInv, Queued
  <2>2. v \in allocated => v \in Scanned
    BY <1>3, <1>5, <2>1, ScannedGrows DEF Known
  <2> QED
    BY <1>2, <1>4, <2>1, <2>2 DEF Known
<1>9. DoomedInv' /\ ScannedInv' /\ HeldInv'
  BY <1>1, <1>2, <1>8 DEF DoomedInv, ScannedInv, HeldInv
<1> QED
  BY <1>1, <1>6, <1>7, <1>9 DEF CollectInv

LEMMA MarkObjectCollect == CollectInv /\ MarkObject => CollectInv'
<1> SUFFICES ASSUME CollectInv, MarkObject PROVE CollectInv'
  OBVIOUS
<1> DEFINE b == Head(queue)
<1>1. /\ ListInv'
      /\ UNCHANGED <<program, allocated, head, previous, next, globals, call>>
      /\ ~Resizing' /\ Listed' = Listed /\ Scanned' = Scanned
      /\ Known \cap Listed \subseteq Known'
  BY SearchStep
<1>2. /\ pc = "fields" /\ pc' = "mark" /\ mark' = mark \cup {b} /\ cursor > Fields
      /\ queue' = Tail(queue)
  BY DEF MarkObject
<1>3. TypeOK /\ queue # <<>> /\ b \in Listed
  BY <1>2 DEF CollectInv, ListInv, TypeInv, QueueInv, KnownInv
<1>4. b \in Queued /\ Queued = Queued' \cup {b}
  BY <1>2, <1>3, TailTakes
<1>5. \A i \in 1 .. Fields : i \in 1 .. (cursor - 1)
  BY <1>2, <1>3, HeapAssumption DEF TypeOK, HeapAssumption, RootWords
<1>6. MarkInv'
  BY <1>1, <1>2, <1>3 DEF CollectInv, MarkInv, Calls
<1>7. ColourInv'
  <2>1. \A a \in mark, i \in 1 .. Fields : field[a][i] \in Listed => field[a][i] \in Known
    BY <1>2 DEF CollectInv, ColourInv
  <2>2. \A i \in 1 .. Fields : field[b][i] \in Listed => field[b][i] \in Known
    BY <1>2, <1>5 DEF CollectInv, ColourInv
  <2> QED
    BY <1>1, <1>2, <2>1, <2>2 DEF ColourInv, program
<1>8. Known' \subseteq Scanned
  BY <1>2, <1>4 DEF CollectInv, ScannedInv, Known
<1>9. DoomedInv' /\ ScannedInv' /\ HeldInv'
  BY <1>1, <1>2, <1>8 DEF DoomedInv, ScannedInv, HeldInv
<1> QED
  BY <1>1, <1>6, <1>7, <1>9 DEF CollectInv

-----------------------------------------------------------------------------
(* The sweep.                                                              *)

(* It starts with the whole list ahead, and with every block marked that   *)
(* the root words lead to.                                                 *)
LEMMA StartSweepCollect == CollectInv /\ StartSweep => CollectInv'
<1> SUFFICES ASSUME CollectInv, StartSweep PROVE CollectInv'
  OBVIOUS
<1>1. ListInv' /\ Ahead' = From(Listed, head, next)
  BY StartSweepList DEF CollectInv
<1>2. /\ pc = "mark" /\ pc' = "sweep" /\ queue = <<>> /\ mark' = mark
      /\ UNCHANGED <<program, allocated, head, previous, next, globals, call>>
  BY DEF StartSweep, links
<1>3. Listed' = Listed /\ Scanned' = Scanned
  BY <1>2, SameScanned DEF Listed
<1>4. ~Resizing /\ ~Resizing'
  BY <1>2 DEF CollectInv, Resizing, Phases, call
<1>5. Known = mark
  BY <1>2 DEF Known, Queued
<1>6. Ahead' = Listed
  <2>1. \A b \in Listed : next[b] = NextOf(b)
    BY <1>4, NotBlocks DEF NextOf, CollectInv, ListInv, FrameInv, NoFrame, TypeInv, TypeOK, Listed
  <2>2. \A S \in SUBSET Listed : Holds(S, head, next) => S = Listed
    BY <2>1 DEF CollectInv, ListInv, DoublyLinked, Holds, HoldsList
  <2> QED
    BY <1>1, <2>2 DEF From
<1>7. Doomed' = Listed \ mark
  BY <1>2, <1>6 DEF Doomed
<1>8. MarkInv'
  BY <1>2, <1>3, <1>6 DEF CollectInv, MarkInv, Calls
<1>9. ColourInv' /\ HeldInv'
  BY <1>2, <1>4 DEF ColourInv, HeldInv
<1>10. DoomedInv'
  <2>1. \A i \in 1 .. RootWords : RootWord(i)' = RootWord(i)
    BY <1>2 DEF RootWord, program, globals, call
  <2>2. \A i \in 1 .. RootWords : RootWord(i) \notin Listed \ mark
    BY <1>2, <1>5 DEF CollectInv, ListInv, RootsInv
  <2>3. \A b \in mark, i \in 1 .. Fields : field[b][i] \notin Listed \ mark
    BY <1>2, <1>5 DEF CollectInv, ColourInv
  <2>4. Listed' \ Doomed' \subseteq mark
    BY <1>3, <1>7
  <2> QED
    BY <1>2, <1>7, <2>1, <2>2, <2>3, <2>4 DEF DoomedInv, program
<1>11. ScannedInv'
  <2>1. mark \subseteq Scanned
    BY <1>2, <1>5 DEF CollectInv, ScannedInv
  <2> QED
    BY <1>2, <1>3, <1>7, <2>1 DEF ScannedInv
<1> QED
  BY <1>1, <1>4, <1>8, <1>9, <1>10, <1>11 DEF CollectInv

LEMMA SweepMarkedCollect == CollectInv /\ SweepMarked => CollectInv'
<1> SUFFICES ASSUME CollectInv, SweepMarked PROVE CollectInv'
  OBVIOUS
<1>1. ListInv' /\ Ahead' = Ahead \ {current}
  BY SweepMarkedList DEF CollectInv
<1>2. /\ pc = "sweep" /\ pc' = "sweep" /\ mark' = mark \ {current} /\ current \in mark
      /\ UNCHANGED <<program, allocated, head, previous, next, globals, call>>
  BY DEF SweepMarked, marked
<1>3. Listed' = Listed /\ Scanned' = Scanned
  BY <1>2, SameScanned DEF Listed
<1>4. ~Resizing'
  BY <1>2 DEF CollectInv, Resizing, Phases, call
<1>5. Doomed' = Doomed
  BY <1>1, <1>2 DEF Doomed
<1>6. MarkInv'
  BY <1>1, <1>2, <1>3 DEF CollectInv, MarkInv, Calls
<1>7. ColourInv' /\ HeldInv'
  BY <1>2, <1>4 DEF ColourInv, HeldInv
<1>8. DoomedInv'
  <2>1. \A i \in 1 .. RootWords : RootWord(i)' = RootWord(i)
    BY <1>2 DEF RootWord, program, globals, call
  <2> QED
    BY <1>2, <1>3, <1>5, <2>1 DEF CollectInv, DoomedInv, program
<1>9. ScannedInv'
  BY <1>2, <1>3, <1>5 DEF CollectInv, ScannedInv
<1> QED
  BY <1>1, <1>4, <1>6, <1>7, <1>8, <1>9 DEF CollectInv

(* The blocks that stay are closed: none of their fields, and no root      *)
(* word, names a doomed block.                                             *)
LEMMA KeptIsClosed ==
    ASSUME CollectInv, pc = "sweep"
    PROVE  \A W \in SUBSET AllRoots : Closed(allocated \ Doomed, W)
<1> SUFFICES ASSUME NEW W \in SUBSET AllRoots PROVE Closed(allocated \ Doomed, W)
  OBVIOUS
<1>1. W \cap allocated \subseteq allocated \ Doomed
  BY RootWordsAreRoots DEF CollectInv, DoomedInv
<1>2. \A b \in (allocated \ Doomed) \cap Listed, i \in 1 .. Fields :
         field[b][i] \in allocated => field[b][i] \in allocated \ Doomed
  BY DEF CollectInv, DoomedInv
<1> QED
  BY <1>1, <1>2 DEF Closed

(* The block that is taken back is unreachable for the program and the     *)
(* root scan alike.                                                        *)
LEMMA FreedIsUnreachable ==
    ASSUME CollectInv, SweepUnmarked
    PROVE  current \in Listed /\ current \in Doomed /\ current \notin Scanned \cup Reachable
<1>1. pc = "sweep" /\ current # Null /\ current \notin mark
  BY DEF SweepUnmarked, marked
<1>2. current \in Listed /\ current \in Doomed
  BY <1>1, AtCurrent DEF CollectInv, Doomed
<1>3. {root[w] : w \in 1 .. Words} \cup {frame.ptr} \in SUBSET AllRoots
  BY DEF AllRoots
<1>4. \A W \in SUBSET AllRoots : current \notin ReachableFrom(W)
  BY <1>1, <1>2, KeptIsClosed DEF ReachableFrom
<1> QED
  BY <1>2, <1>3, <1>4, ScannedIsReachable DEF Reachable

LEMMA SweepUnmarkedCollect == CollectInv /\ SweepUnmarked => CollectInv'
<1> SUFFICES ASSUME CollectInv, SweepUnmarked PROVE CollectInv'
  OBVIOUS
<1>1. ListInv' /\ Ahead' = Ahead \ {current} /\ Listed' = Listed \ {current}
  BY SweepUnmarkedList DEF CollectInv
<1>2. /\ pc = "sweep" /\ pc' = "sweep" /\ mark' = mark /\ current \notin mark
      /\ allocated' = allocated \ {current}
      /\ UNCHANGED <<root, globals, call>>
  BY DEF SweepUnmarked, marked
<1>3. \A b \in Block \ {current} : field'[b] = field[b]
  BY DEF SweepUnmarked, CollectInv, ListInv, TypeInv, TypeOK
<1>4. ~Resizing'
  BY <1>2 DEF CollectInv, Resizing, Phases, call
<1>5. Doomed' = Doomed \ {current}
  BY <1>1, <1>2 DEF Doomed
<1>6. current \in Listed /\ current \in Doomed /\ current \notin Scanned /\ Listed \subseteq Block
  BY FreedIsUnreachable DEF CollectInv, ListInv, TypeInv, TypeOK, Listed
<1>7. MarkInv'
  BY <1>1, <1>2 DEF CollectInv, MarkInv, Calls
<1>8. ColourInv' /\ HeldInv'
  BY <1>2, <1>4 DEF ColourInv, HeldInv
<1>9. Listed' \ Doomed' = Listed \ Doomed
  BY <1>1, <1>5, <1>6
<1>10. DoomedInv'
  <2>1. \A i \in 1 .. RootWords : RootWord(i)' = RootWord(i)
    BY <1>2 DEF RootWord, globals, call
  <2>2. \A b \in Listed \ Doomed : field'[b] = field[b]
    BY <1>3, <1>6
  <2> QED
    BY <1>2, <1>5, <1>9, <2>1, <2>2 DEF CollectInv, DoomedInv
(* Nothing that was reachable becomes unreachable: a set closed after the  *)
(* step, cut down to the blocks that stay, was closed before it.           *)
<1>11. Scanned \subseteq Scanned'
  <2>1. AllRoots' = AllRoots
    BY <1>2 DEF AllRoots, FramePrevious, globals, call
  <2>2. Scanned = {b \in allocated : \A S \in SUBSET allocated : Closed(S, AllRoots) => b \in S}
    BY ScannedIsReachable DEF ReachableFrom
  <2>3. Scanned' = {b \in allocated' : \A S \in SUBSET allocated' : Closed(S, AllRoots)' => b \in S}
    BY DEF Scanned, ReachableFrom, AllRoots, FramePrevious
  <2>4. ASSUME NEW S \in SUBSET allocated', Closed(S, AllRoots)'
        PROVE  Closed(S \ Doomed, AllRoots)
    <3>1. Closed(allocated \ Doomed, AllRoots)
      BY <1>2, KeptIsClosed
    <3>2. AllRoots \cap allocated' \subseteq S
      BY <2>1, <2>4 DEF Closed
    <3>3. \A b \in S \cap Listed', i \in 1 .. Fields : field'[b][i] \in allocated' => field'[b][i] \in S
      BY <2>4 DEF Closed
    <3>4. \A b \in (S \ Doomed) \cap Listed : b \in Listed' /\ field'[b] = field[b]
      BY <1>1, <1>3, <1>6
    <3> QED
      BY <1>2, <1>6, <3>1, <3>2, <3>3, <3>4 DEF Closed
  <2>5. ASSUME NEW b \in Scanned, NEW S \in SUBSET allocated', Closed(S, AllRoots)'
        PROVE  b \in S
    <3>1. Closed(S \ Doomed, AllRoots) /\ S \ Doomed \in SUBSET allocated
      BY <1>2, <2>4, <2>5
    <3> QED
      BY <2>2, <2>5, <3>1
  <2> QED
    BY <1>2, <1>6, <2>2, <2>3, <2>5
<1>12. ScannedInv'
  BY <1>2, <1>9, <1>11 DEF CollectInv, ScannedInv
<1> QED
  BY <1>1, <1>4, <1>7, <1>8, <1>10, <1>12 DEF CollectInv

(* At the end nothing is ahead.                                            *)
LEMMA NothingAhead ==
    ASSUME current = Null
    PROVE  Ahead = {}
<1>1. Holds({}, current, next) /\ {} \in SUBSET Listed
  BY DEF Holds
<1> QED
  BY <1>1 DEF Ahead, From

LEMMA EndCollectCollect == CollectInv /\ EndCollect => CollectInv' /\ Listed \subseteq Scanned
<1> SUFFICES ASSUME CollectInv, EndCollect PROVE CollectInv' /\ Listed \subseteq Scanned
  OBVIOUS
<1>1. ListInv'
  BY EndCollectList DEF CollectInv
<1>2. /\ pc = "sweep" /\ current = Null /\ pc' = caller /\ caller' = "program" /\ mark' = mark
      /\ caller \in Calls /\ caller # "gc_realloc"
  BY DEF EndCollect, links, CollectInv, ListInv, TypeInv, TypeOK, Resizing, Phases
<1>3. Ahead = {} /\ Doomed = {} /\ mark = {}
  BY <1>2, NothingAhead DEF Doomed, CollectInv, MarkInv
<1>4. Listed \subseteq Scanned
  BY <1>2, <1>3 DEF CollectInv, ScannedInv
<1>5. ~Resizing' /\ pc' \notin Phases
  BY <1>2 DEF Resizing, Calls, Phases
<1>6. MarkInv' /\ ColourInv' /\ DoomedInv' /\ ScannedInv' /\ HeldInv'
  BY <1>2, <1>3, <1>5 DEF MarkInv, ColourInv, DoomedInv, ScannedInv, HeldInv, Phases, Calls
<1> QED
  BY <1>1, <1>4, <1>5, <1>6 DEF CollectInv

-----------------------------------------------------------------------------
(* The results.                                                            *)

LEMMA NextCollectInv ==
    ASSUME NoResizeCollects
    PROVE  CollectInv /\ [Next]_vars => CollectInv'
<1> SUFFICES ASSUME CollectInv, [Next]_vars PROVE CollectInv'
  OBVIOUS
<1>1. CASE Program \/ Enter \/ Leave
  BY <1>1, CallCollect
<1>2. CASE Collect
  BY <1>2, StartCollect
<1>3. CASE Collecting
  BY <1>3, SearchCollect, ScanFieldCollect, MarkObjectCollect, StartSweepCollect,
     SweepMarkedCollect, SweepUnmarkedCollect, EndCollectCollect DEF Collecting
<1>4. CASE UNCHANGED vars
  <2> USE <1>4 DEF vars, program, links, globals, call, collector
  <2>1. ListInv'
    BY NextListInv DEF CollectInv, MarkInv, NoMarkLeft, Calls
  <2>2. Listed' = Listed /\ Known' = Known /\ Resizing' = Resizing /\ Scanned' = Scanned
    BY SameScanned DEF Listed, Known, Queued, Resizing
  <2>3. Ahead' = Ahead /\ Doomed' = Doomed
    BY <2>2 DEF Ahead, Doomed
  <2>4. MarkInv' /\ ColourInv' /\ ScannedInv' /\ HeldInv'
    BY <2>2, <2>3 DEF CollectInv, MarkInv, ColourInv, ScannedInv, HeldInv
  <2>5. DoomedInv'
    <3>1. \A i \in 1 .. RootWords : RootWord(i)' = RootWord(i)
      BY DEF RootWord, FramePrevious
    <3> QED
      BY <2>2, <2>3, <3>1 DEF CollectInv, DoomedInv
  <2> QED
    BY <2>1, <2>2, <2>4, <2>5 DEF CollectInv
<1> QED
  BY <1>1, <1>2, <1>3, <1>4 DEF Next

LEMMA CollectInvariance ==
    ASSUME NoResizeCollects
    PROVE  Spec => []CollectInv
BY InitCollectInv, NextCollectInv, PTL DEF Spec

(* gc.c:48: when myrealloc does not collect, the blocks that gc_malloc     *)
(* gave out form one doubly linked list at every step of every call and of *)
(* every collection.                                                       *)
THEOREM ListStaysLinked ==
    ASSUME NoResizeCollects
    PROVE  Spec => []DoublyLinked
<1>1. CollectInv => DoublyLinked
  BY DEF CollectInv, ListInv
<1> QED
  BY <1>1, CollectInvariance, PTL

(* gc.c:576: no mark survives a collection, so that the next one searches  *)
(* every block afresh.                                                     *)
THEOREM NoMarkSurvives ==
    ASSUME NoResizeCollects
    PROVE  Spec => []MarksClear
<1>1. CollectInv => MarksClear
  BY DEF CollectInv, MarkInv, MarksClear
<1> QED
  BY <1>1, CollectInvariance, PTL

(* While blocks are searched and marked, in gc.c:389-481, no child of a    *)
(* marked block is forgotten.                                              *)
THEOREM NoChildForgotten ==
    ASSUME NoResizeCollects
    PROVE  Spec => []TriColour
<1>1. CollectInv => TriColour
  BY DEF CollectInv, ColourInv, TriColour, Known, Queued
<1> QED
  BY <1>1, CollectInvariance, PTL

(* The sweep of gc.c:560-600 frees no block that the program can reach and *)
(* none that is not the collector's.                                       *)
THEOREM SweepFreesGarbage ==
    ASSUME NoResizeCollects
    PROVE  Spec => SweepSafe
<1>1. ASSUME CollectInv, [Next]_vars
      PROVE  [pc = "sweep" => allocated \ allocated' \subseteq Listed \ Reachable]_vars
  <2> SUFFICES ASSUME [Next]_vars, pc = "sweep"
               PROVE  allocated \ allocated' \subseteq Listed \ Reachable
    BY <1>1
  <2>1. CASE SweepUnmarked
    BY <1>1, <2>1, FreedIsUnreachable DEF SweepUnmarked
  <2>2. CASE ~SweepUnmarked
    <3>1. allocated' = allocated
      BY <1>1, <2>2 DEF Next, Program, CopyRoot, Load, Store, Enter, CallMalloc, CallMymalloc,
         CallRealloc, Myfree, ReallocToZero, Leave, MallocReturns, ReallocMoves, MymallocReturns,
         MallocFails, ReallocFails, ReallocInPlace, MymallocFails, Collect, Collecting, ScanRoot,
         RootsScanned, SkipObject, SearchObject, ScanField, MarkObject, StartSweep, SweepMarked,
         EndCollect, Calls, vars
    <3> QED
      BY <3>1
  <2> QED
    BY <2>1, <2>2
<1> QED
  BY <1>1, InitCollectInv, NextCollectInv, PTL DEF Spec, SweepSafe

(* The sweep leaves no collected block that the words of the root scan do  *)
(* not lead to.                                                            *)
THEOREM SweepFreesAllGarbage ==
    ASSUME NoResizeCollects
    PROVE  Spec => SweepComplete
<1>1. ASSUME CollectInv, [Next]_vars
      PROVE  [pc = "sweep" /\ pc' # "sweep" => Listed \subseteq Scanned]_vars
  <2> SUFFICES ASSUME [Next]_vars, pc = "sweep", pc' # "sweep" PROVE Listed \subseteq Scanned
    BY <1>1
  <2>1. EndCollect
    BY DEF Next, Program, CopyRoot, Load, Store, Enter, CallMalloc, CallMymalloc,
       CallRealloc, Myfree, ReallocToZero, Leave, MallocReturns, ReallocMoves, MymallocReturns,
       MallocFails, ReallocFails, ReallocInPlace, MymallocFails, Collect, Collecting, ScanRoot,
       RootsScanned, SkipObject, SearchObject, ScanField, MarkObject, StartSweep, SweepMarked,
       SweepUnmarked, Calls, vars
  <2> QED
    BY <1>1, <2>1, EndCollectCollect
<1> QED
  BY <1>1, InitCollectInv, NextCollectInv, PTL DEF Spec, SweepComplete

-----------------------------------------------------------------------------
(* The refinement: every step of GcHeap is a step of CollectedHeap, or     *)
(* leaves its variables alone.                                             *)

LEMMA PromiseInit == Init => Promise!Init
BY DEF Init, Promise!Init, Promise!Empty, Promise!NoBlock, Blank, Null, Listed

LEMMA PromiseBlank == Blank = Promise!Empty /\ Null = Promise!NoBlock
BY DEF Blank, Null, Promise!Empty, Promise!NoBlock

LEMMA PromiseProgram ==
    ASSUME CollectInv, Program
    PROVE  Promise!Next
<1> USE DEF links, globals, call, collector
<1>1. PICK w \in 1 .. Words :
          \/ \E v \in Pointer : CopyRoot(w, v)
          \/ \E x \in 1 .. Words, i \in 1 .. Fields : Load(w, x, i)
          \/ \E i \in 1 .. Fields, v \in Pointer : Store(w, i, v)
  BY DEF Program
<1>2. Listed' = Listed
  BY <1>1 DEF CopyRoot, Load, Store, Listed
<1>3. ASSUME NEW v \in Pointer, CopyRoot(w, v) PROVE Promise!SetWord(w)
  <2>1. v \in Promise!Held \cup {Promise!NoBlock}
    BY <1>3, PromiseBlank DEF CopyRoot, Promise!Held
  <2>2. v \in Promise!AtHand /\ root' = [root EXCEPT ![w] = v]
    BY <1>3, <2>1 DEF CopyRoot, Promise!AtHand
  <2>3. UNCHANGED <<field, allocated, Listed>>
    BY <1>2, <1>3 DEF CopyRoot
  <2> QED
    BY <2>2, <2>3 DEF Promise!SetWord
<1>4. ASSUME NEW x \in 1 .. Words, NEW i \in 1 .. Fields, Load(w, x, i) PROVE Promise!SetWord(w)
  <2>1. root[x] \in Promise!Open
    BY <1>4 DEF Load, Promise!Open, Promise!Held
  <2>2. field[root[x]][i] \in Promise!AtHand /\ root' = [root EXCEPT ![w] = field[root[x]][i]]
    BY <1>4, <2>1 DEF Load, Promise!AtHand
  <2>3. UNCHANGED <<field, allocated, Listed>>
    BY <1>2, <1>4 DEF Load
  <2> QED
    BY <2>2, <2>3 DEF Promise!SetWord
<1>5. ASSUME NEW i \in 1 .. Fields, NEW v \in Pointer, Store(w, i, v)
      PROVE  \E b \in Block : Promise!SetField(b, i)
  <2>1. root[w] \in Promise!Open /\ root[w] \in Block
    BY <1>5 DEF Store, Promise!Open, Promise!Held, Listed, CollectInv, ListInv, TypeInv, TypeOK
  <2>2. Promise!SetField(root[w], i)
    BY <1>2, <1>5, <2>1, PromiseBlank DEF Store, Promise!SetField, Promise!Held
  <2> QED
    BY <2>1, <2>2
<1> QED
  BY <1>1, <1>3, <1>4, <1>5 DEF Promise!Next

LEMMA PromiseEnter ==
    ASSUME CollectInv, Enter
    PROVE  [Promise!Next]_(Promise!vars)
<1>1. ListInv /\ TypeOK
  BY DEF CollectInv, ListInv, TypeInv
<1>2. CASE CallMalloc \/ CallMymalloc
  BY <1>2 DEF CallMalloc, CallMymalloc, program, links, Listed, Promise!vars
<1>3. ASSUME NEW x \in 1 .. Words, CallRealloc(x) PROVE UNCHANGED Promise!vars
  <2>1. Listed' = Listed
    BY <1>1, <1>3, CallReallocList DEF CollectInv, MarkInv, NoMarkLeft, Calls
  <2> QED
    BY <1>3, <2>1 DEF CallRealloc, program, Promise!vars
<1>4. ASSUME NEW x \in 1 .. Words, Myfree(x) PROVE Promise!Next
  <2>1. Listed' = Listed
    BY <1>1, <1>4, MyfreeList
  <2>2. root[x] \in Promise!Held \cap allocated /\ root[x] \in Block /\ root[x] \notin Listed
    BY <1>1, <1>4 DEF Myfree, Promise!Held, TypeOK
  <2>3. Promise!GiveBack(root[x])
    BY <1>4, <2>1, <2>2 DEF Myfree, program, Promise!GiveBack
  <2> QED
    BY <2>2, <2>3 DEF Promise!Next
<1>5. ASSUME NEW x \in 1 .. Words, NEW w \in 1 .. Words, ReallocToZero(x, w)
      PROVE  Promise!Next
  <2>1. Listed' = Listed \ {root[x]}
    BY <1>1, <1>5, ReallocToZeroList DEF CollectInv, MarkInv, NoMarkLeft, Calls
  <2>2. root[x] \in Promise!Held \cap allocated /\ root[x] \in Block
    BY <1>1, <1>5 DEF ReallocToZero, Listed, Promise!Held, TypeOK
  <2>3. Promise!GiveBack(root[x])
    BY <1>5, <2>1, <2>2, PromiseBlank DEF ReallocToZero, Return, LeaveFor, Promise!GiveBack
  <2> QED
    BY <2>2, <2>3 DEF Promise!Next
<1> QED
  BY <1>2, <1>3, <1>4, <1>5 DEF Enter

LEMMA PromiseLeave ==
    ASSUME CollectInv, Leave
    PROVE  Promise!Next
<1>1. ListInv /\ TypeOK
  BY DEF CollectInv, ListInv, TypeInv
(* A call that fails puts a null pointer into a word.                      *)
<1>2. ASSUME NEW w \in 1 .. Words, root' = [root EXCEPT ![w] = Null],
             UNCHANGED <<field, allocated>>, Listed' = Listed
      PROVE  Promise!Next
  <2>1. Null \in Promise!AtHand
    BY PromiseBlank DEF Promise!AtHand
  <2>2. Promise!SetWord(w)
    BY <1>2, <2>1 DEF Promise!SetWord
  <2> QED
    BY <2>2 DEF Promise!Next
<1>3. ASSUME NEW w \in 1 .. Words, MallocFails(w) \/ MymallocFails(w) PROVE Promise!Next
  <2>1. root' = [root EXCEPT ![w] = Null] /\ UNCHANGED <<field, allocated>> /\ Listed' = Listed
    BY <1>3 DEF MallocFails, MymallocFails, Return, LeaveFor, links, Listed
  <2> QED
    BY <1>2, <2>1
<1>4. ASSUME NEW w \in 1 .. Words, ReallocFails(w) PROVE Promise!Next
  <2>1. Listed' = Listed
    BY <1>1, <1>4, ReallocStaysList
  <2>2. root' = [root EXCEPT ![w] = Null] /\ UNCHANGED <<field, allocated>>
    BY <1>4 DEF ReallocFails, Return, LeaveFor
  <2> QED
    BY <1>2, <2>1, <2>2
<1>5. ASSUME NEW w \in 1 .. Words, NEW b \in Block, MallocReturns(b, w) PROVE Promise!Next
  <2>1. Listed' = Listed \cup {b}
    BY <1>1, <1>5, MallocReturnsList
  <2>2. Promise!New(b, w)
    BY <1>5, <2>1, PromiseBlank DEF MallocReturns, Return, LeaveFor, Promise!New
  <2> QED
    BY <2>2 DEF Promise!Next
<1>6. ASSUME NEW w \in 1 .. Words, NEW b \in Block, MymallocReturns(b, w) PROVE Promise!Next
  <2>1. Listed' = Listed
    BY <1>1, <1>6, MymallocReturnsList
  <2>2. Promise!New(b, w)
    BY <1>6, <2>1 DEF MymallocReturns, Return, LeaveFor, Promise!New
  <2> QED
    BY <2>2 DEF Promise!Next
(* The block that is resized is one the program holds.                     *)
<1>7. ASSUME pc = "gc_realloc"
      PROVE  frame.ptr \in Promise!Open /\ frame.ptr \in Block /\ frame.ptr \in Listed
  BY <1>1, <1>7, FrameLinks DEF CollectInv, HeldInv, Resizing, Promise!Open, Promise!Held
<1>8. ASSUME NEW w \in 1 .. Words, ReallocInPlace(w) PROVE Promise!Next
  <2>1. Listed' = Listed /\ pc = "gc_realloc"
    BY <1>1, <1>8, ReallocStaysList DEF ReallocInPlace
  <2>2. /\ root' = [root EXCEPT ![w] = frame.ptr] /\ allocated' = allocated
        /\ field' = [field EXCEPT ![frame.ptr] = Promise!Empty]
    BY <1>8, PromiseBlank DEF ReallocInPlace, Return, LeaveFor
  <2>3. field' = [a \in Block |-> CASE a = frame.ptr -> Promise!Empty
                                    [] a = frame.ptr -> Promise!Empty
                                    [] OTHER -> field[a]]
    BY <1>1, <2>2 DEF TypeOK
  <2>4. Promise!Resize(frame.ptr, frame.ptr, w)
    BY <1>7, <2>1, <2>2, <2>3 DEF Promise!Resize, Listed
  <2> QED
    BY <1>7, <2>1, <2>4 DEF Promise!Next
<1>9. ASSUME NEW w \in 1 .. Words, NEW b \in Block, ReallocMoves(b, w) PROVE Promise!Next
  <2>1. Listed' = (Listed \cup {b}) \ {frame.ptr} /\ pc = "gc_realloc"
    BY <1>1, <1>9, ReallocMovesList DEF ReallocMoves
  <2>2. /\ root' = [root EXCEPT ![w] = b] /\ allocated' = (allocated \cup {b}) \ {frame.ptr}
        /\ field' = [field EXCEPT ![b] = Promise!Empty, ![frame.ptr] = Promise!Empty]
        /\ b \notin allocated
    BY <1>9, PromiseBlank DEF ReallocMoves, Return, LeaveFor
  <2>3. field' = [a \in Block |-> CASE a = b -> Promise!Empty
                                    [] a = frame.ptr -> Promise!Empty
                                    [] OTHER -> field[a]]
    BY <1>1, <1>7, <2>1, <2>2 DEF TypeOK
  <2>4. b # frame.ptr
    BY <1>7, <2>1, <2>2 DEF Listed
  <2>5. /\ allocated' = (allocated \ {frame.ptr}) \cup {b}
        /\ Listed' = (Listed \ {frame.ptr}) \cup {b}
    BY <2>1, <2>2, <2>4
  <2>6. \E v \in {field[frame.ptr], Promise!Empty} :
           field' = [a \in Block |-> CASE a = b -> v
                                       [] a = frame.ptr -> Promise!Empty
                                       [] OTHER -> field[a]]
    BY <2>3
  <2>7. Promise!Resize(frame.ptr, b, w)
    BY ONLY <1>7, <2>1, <2>2, <2>5, <2>6 DEF Promise!Resize
  <2> QED
    BY <1>7, <2>1, <2>7 DEF Promise!Next
<1> QED
  BY <1>3, <1>4, <1>5, <1>6, <1>8, <1>9 DEF Leave

(* The collection only takes back what cannot be reached.                  *)
LEMMA PromiseCollecting ==
    ASSUME CollectInv, Collect \/ Collecting
    PROVE  [Promise!Next]_(Promise!vars)
<1>1. CASE SweepUnmarked
  <2>1. /\ allocated' = allocated \ {current} /\ field' = [field EXCEPT ![current] = Promise!Empty]
        /\ root' = root /\ pc = "sweep"
    BY <1>1, PromiseBlank DEF SweepUnmarked
  <2>2. Listed' = Listed \ {current}
    BY <1>1, SweepUnmarkedList DEF CollectInv
  <2>3. current \in Listed /\ current \in Doomed /\ current \in Block
    BY <1>1, FreedIsUnreachable DEF CollectInv, ListInv, TypeInv, TypeOK, Listed
  <2>4. Promise!Kept(allocated \ Doomed)
    <3>1. Promise!Held \in SUBSET AllRoots
      BY DEF Promise!Held, AllRoots
    <3>2. Closed(allocated \ Doomed, Promise!Held)
      BY <2>1, <3>1, KeptIsClosed
    <3> QED
      BY <3>2 DEF Closed, Promise!Kept
  <2>5. ~Promise!Reached(current)
    BY <2>3, <2>4 DEF Promise!Reached
  <2>6. Promise!Reclaim(current)
    BY <2>1, <2>2, <2>3, <2>5 DEF Promise!Reclaim
  <2> QED
    BY <2>3, <2>6 DEF Promise!Next
<1>2. CASE ~SweepUnmarked
  <2>1. UNCHANGED <<root, field, allocated, previous>>
    BY <1>2 DEF Collect, Collecting, ScanRoot, RootsScanned, SkipObject, SearchObject, ScanField,
       MarkObject, StartSweep, SweepMarked, EndCollect, program, links
  <2> QED
    BY <2>1 DEF Listed, Promise!vars
<1> QED
  BY <1>1, <1>2

(* gc.c implements the heap its users are promised: blocks come and go by  *)
(* the program's own calls, and otherwise only once nothing leads to them. *)
THEOREM HeapIsAsPromised ==
    ASSUME NoResizeCollects
    PROVE  Spec => HeapPromise
<1>1. CollectInv /\ [Next]_vars => [Promise!Next]_(Promise!vars)
  <2> SUFFICES ASSUME CollectInv, [Next]_vars PROVE [Promise!Next]_(Promise!vars)
    OBVIOUS
  <2>1. CASE UNCHANGED vars
    BY <2>1 DEF vars, program, links, Listed, Promise!vars
  <2> QED
    BY <2>1, PromiseProgram, PromiseEnter, PromiseLeave, PromiseCollecting DEF Next
<1> QED
  BY <1>1, PromiseInit, InitCollectInv, NextCollectInv, PTL DEF Spec, HeapPromise, Promise!Spec

=============================================================================
