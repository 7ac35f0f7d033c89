------------------------------- MODULE GcHeap -------------------------------
(***************************************************************************)
(* The collected heap of gc.c: the allocation entry points gc_malloc and   *)
(* gc_realloc, the doubly linked list of collected blocks they maintain,   *)
(* and the mark-sweep collection that gc_collect, or an allocation that    *)
(* passes dlmalloc's threshold, runs.                                      *)
(*                                                                         *)
(* There is one program thread, and the runtime runs inside its calls: pc  *)
(* names the call, or the phase of the collection, that is executing.      *)
(* What mymalloc and myrealloc do with chunks is abstracted to the choice  *)
(* of a free block; a block's type is abstracted to its pointer fields,    *)
(* which process_heap_object_recursive visits in order.                    *)
(***************************************************************************)
EXTENDS Integers, Sequences

CONSTANTS
    Block,              \* addresses mymalloc can return
    TopAddress,         \* (void *) -1, above every block
    Words,              \* number of words of the program the root scan visits
    Fields,             \* number of pointer fields of a block
    BigallocOf,         \* the liballocs bigallocation each block lies in
    ListHead,           \* &heap_list_head, as a value of PREVIOUS_POINTER
    Sentinel,           \* 0xcccccccccccccccc, PREVIOUS_POINTER of other blocks
    ReallocMayCollect   \* can myrealloc pass the collection threshold?

Null == 0

ASSUME HeapAssumption ==
    /\ Block \subseteq 1 .. (TopAddress - 1)
    /\ TopAddress \in Nat \ {0}
    /\ Words \in Nat
    /\ Fields \in Nat
    /\ BigallocOf \in [Block -> Nat]
    /\ ListHead \notin Block \cup {Null}
    /\ Sentinel \notin Block \cup {Null, ListHead}
    /\ ReallocMayCollect \in BOOLEAN

VARIABLES
    root,           \* the program's registers, stack and global words
    field,          \* the pointer fields of each block
    allocated,      \* blocks mymalloc has handed out and not got back
    head,           \* heap_list_head
    previous,       \* PREVIOUS_POINTER of each block, without its mark bit
    next,           \* NEXT_POINTER of each block
    mark,           \* blocks whose PREVIOUS_POINTER has bit 0 set
    bigallocs_list, \* bigallocations that hold a collected block
    lowest,         \* __mymalloc_lowest
    highest,        \* __mymalloc_highest
    mutex,          \* allocator_mutex
    pc,             \* the call or the collection phase that is executing
    caller,         \* where the collection returns to
    collected,      \* has the current call collected already?
    frame,          \* ptr, previous (with its mark bit) and next of gc_realloc
    queue,          \* q_head .. q_tail
    cursor,         \* position of the root scan or of the field scan
    before,         \* previous, in sweep
    current         \* current, in sweep

program   == <<root, field>>
links     == <<head, previous, next, mark>>
globals   == <<bigallocs_list, lowest, highest>>
call      == <<caller, collected, frame>>
collector == <<queue, cursor, before, current>>
vars == <<program, allocated, links, globals, mutex, pc, call, collector>>

Pointer == Block \cup {Null}
Calls   == {"program", "gc_malloc", "gc_realloc", "mymalloc"}
Phases  == {"roots", "mark", "fields", "sweep"}

(* Where the thread is when it has written through an address that is not  *)
(* a block's: nothing is said of what the program does from there.         *)
Astray == "astray"

NoFrame == [ptr |-> Null, previous |-> Null, marked |-> FALSE, next |-> Null]

Blank == [i \in 1 .. Fields |-> Null]

marked(b) == b \in mark

(* The blocks gc_malloc returned: only they have list pointers.            *)
Listed == {b \in allocated : previous[b] # Sentinel}

Init ==
    /\ root = [w \in 1 .. Words |-> Null]
    /\ field = [b \in Block |-> Blank]
    /\ allocated = {}
    /\ head = Null
    /\ previous = [b \in Block |-> Null]
    /\ next = [b \in Block |-> Null]
    /\ mark = {}
    /\ bigallocs_list = {}
    /\ lowest = TopAddress
    /\ highest = Null
    /\ mutex = 1
    /\ pc = "program"
    /\ caller = "program"
    /\ collected = FALSE
    /\ frame = NoFrame
    /\ queue = <<>>
    /\ cursor = 1
    /\ before = ListHead
    /\ current = Null

-----------------------------------------------------------------------------
(* The program.  It copies pointers it holds; a pointer to a freed block   *)
(* may stay in a root word, but is never dereferenced.                     *)

CopyRoot(w, v) ==
    /\ pc = "program"
    /\ v \in {root[x] : x \in 1 .. Words} \cup {Null}
    /\ root' = [root EXCEPT ![w] = v]
    /\ UNCHANGED <<field, allocated, links, globals, mutex, pc, call, collector>>

Load(w, x, i) ==
    /\ pc = "program"
    /\ root[x] \in Listed
    /\ root' = [root EXCEPT ![w] = field[root[x]][i]]
    /\ UNCHANGED <<field, allocated, links, globals, mutex, pc, call, collector>>

Store(x, i, v) ==
    /\ pc = "program"
    /\ root[x] \in Listed
    /\ v \in {root[y] : y \in 1 .. Words} \cup {Null}
    /\ field' = [field EXCEPT ![root[x]][i] = v]
    /\ UNCHANGED <<root, allocated, links, globals, mutex, pc, call, collector>>

-----------------------------------------------------------------------------
(* Entry points.  A call waits for the semaphore before it does anything.  *)

LeaveFor(place, w, v) ==
    /\ pc' = place
    /\ root' = [root EXCEPT ![w] = v]
    /\ collected' = FALSE
    /\ frame' = NoFrame
    /\ UNCHANGED caller

Return(w, v) == LeaveFor("program", w, v)

CallMalloc ==
    /\ pc = "program"
    /\ mutex = 1
    /\ mutex' = 0
    /\ pc' = "gc_malloc"
    /\ UNCHANGED <<program, allocated, links, globals, call, collector>>

(* Mutant: the list is overwritten instead of extended.                    *)
new_bigalloc_overwrites(b) == bigallocs_list' = {BigallocOf[b]}

new_bigalloc(b) == bigallocs_list' = bigallocs_list \cup {BigallocOf[b]}

MallocReturns(b, w) ==
    /\ pc = "gc_malloc"
    /\ b \in Block \ allocated
    /\ allocated' = allocated \cup {b}
    /\ lowest' = IF b < lowest THEN b ELSE lowest
    /\ highest' = IF b > highest THEN b ELSE highest
    /\ field' = [field EXCEPT ![b] = Blank]
    /\ previous' = [a \in Block |-> CASE a = b    -> ListHead
                                      [] a = head -> b
                                      [] OTHER    -> previous[a]]
    /\ mark' = mark \ {b, head}
    /\ next' = [next EXCEPT ![b] = head]
    /\ head' = b
    /\ new_bigalloc(b)
    /\ mutex' = 1
    /\ Return(w, b)
    /\ UNCHANGED collector

(* The early return of gc_malloc: no sem_post.                             *)
MallocFails(w) ==
    /\ pc = "gc_malloc"
    /\ Return(w, Null)
    /\ UNCHANGED <<field, allocated, links, globals, mutex, collector>>

(* gc_realloc uses the saved PREVIOUS_POINTER as it stands, mark bit        *)
(* included.  An address with bit 0 set is neither &heap_list_head nor a   *)
(* block: NEXT_POINTER of it is a word somewhere, and what should have     *)
(* been relinked to the neighbour before is left as it was.                *)
Relinks(p, isMarked, a) == a = p /\ ~isMarked

Aftermath(isMarked) == IF isMarked THEN Astray ELSE "program"

(* PREVIOUS_POINTER(b) is written with or without the bit.                 *)
MarkBit(b, isMarked) == IF isMarked THEN {b} \ {Null} ELSE {}

(* Mutant: the head becomes what came before ptr, not what comes after.    *)
HeadWithout_previous(ptr) ==
    IF Relinks(previous[ptr], marked(ptr), ListHead) THEN previous[ptr] ELSE head

HeadWithout(ptr) ==
    IF Relinks(previous[ptr], marked(ptr), ListHead) THEN next[ptr] ELSE head

(* gc_realloc(ptr, 0).                                                     *)
ReallocToZero(x, w) ==
    LET ptr == root[x] IN
    /\ pc = "program"
    /\ mutex = 1
    /\ ptr \in Listed
    /\ head' = HeadWithout(ptr)
    /\ next' = [a \in Block |->
                  CASE a = ptr                                    -> Null
                    [] Relinks(previous[ptr], marked(ptr), a)     -> next[ptr]
                    [] OTHER                                      -> next[a]]
    /\ previous' = [a \in Block |-> CASE a = ptr       -> Null
                                      [] a = next[ptr] -> previous[ptr]
                                      [] OTHER         -> previous[a]]
    /\ mark' = (mark \ {ptr, next[ptr]}) \cup MarkBit(next[ptr], marked(ptr))
    /\ allocated' = allocated \ {ptr}
    /\ field' = [field EXCEPT ![ptr] = Blank]
    /\ LeaveFor(Aftermath(marked(ptr)), w, Null)
    /\ UNCHANGED <<globals, mutex, collector>>

(* gc_realloc up to its call of myrealloc: the list pointers of ptr are    *)
(* saved in the frame and cleared, the mark bit with them.                 *)
CallRealloc(x) ==
    LET ptr == root[x] IN
    /\ pc = "program"
    /\ mutex = 1
    /\ ptr \in Listed
    /\ mutex' = 0
    /\ frame' = [ptr |-> ptr, previous |-> previous[ptr], marked |-> marked(ptr),
                 next |-> next[ptr]]
    /\ previous' = [previous EXCEPT ![ptr] = Null]
    /\ mark' = mark \ {ptr}
    /\ next' = [next EXCEPT ![ptr] = Null]
    /\ pc' = "gc_realloc"
    /\ UNCHANGED <<program, allocated, head, globals, caller, collected, collector>>

(* Mutant: only one of the two list pointers is put back.                  *)
ReallocFails_half(w) ==
    /\ pc = "gc_realloc"
    /\ previous' = [previous EXCEPT ![frame.ptr] = frame.previous]
    /\ mark' = (mark \ {frame.ptr}) \cup MarkBit(frame.ptr, frame.marked)
    /\ mutex' = 1
    /\ Return(w, Null)
    /\ UNCHANGED <<field, allocated, head, next, globals, collector>>

ReallocFails(w) ==
    /\ pc = "gc_realloc"
    /\ previous' = [previous EXCEPT ![frame.ptr] = frame.previous]
    /\ next' = [next EXCEPT ![frame.ptr] = frame.next]
    /\ mark' = (mark \ {frame.ptr}) \cup MarkBit(frame.ptr, frame.marked)
    /\ mutex' = 1
    /\ Return(w, Null)
    /\ UNCHANGED <<field, allocated, head, globals, collector>>

(* The block was resized where it stood; dlrealloc tries this first, so no *)
(* collection has happened.  The memset clears it all the same.            *)
ReallocInPlace(w) ==
    /\ pc = "gc_realloc"
    /\ ~collected
    /\ field' = [field EXCEPT ![frame.ptr] = Blank]
    /\ previous' = [previous EXCEPT ![frame.ptr] = frame.previous]
    /\ next' = [next EXCEPT ![frame.ptr] = frame.next]
    /\ mark' = (mark \ {frame.ptr}) \cup MarkBit(frame.ptr, frame.marked)
    /\ mutex' = 1
    /\ Return(w, frame.ptr)
    /\ UNCHANGED <<allocated, head, globals, collector>>

(* The data was moved to block b and ptr freed; the neighbours of ptr are  *)
(* relinked to b.  lowest and highest are not updated.                     *)
ReallocMoves(b, w) ==
    /\ pc = "gc_realloc"
    /\ b \in Block \ allocated
    /\ allocated' = (allocated \cup {b}) \ {frame.ptr}
    /\ field' = [field EXCEPT ![b] = Blank, ![frame.ptr] = Blank]
    /\ head' = IF Relinks(frame.previous, frame.marked, ListHead) THEN b ELSE head
    /\ next' = [a \in Block |->
                  CASE a = b                                    -> frame.next
                    [] Relinks(frame.previous, frame.marked, a) -> b
                    [] a = frame.ptr                            -> Null
                    [] OTHER                                    -> next[a]]
    /\ previous' = [a \in Block |-> CASE a = b          -> frame.previous
                                      [] a = frame.next -> b
                                      [] a = frame.ptr  -> Null
                                      [] OTHER          -> previous[a]]
    /\ mark' = (mark \ {b, frame.ptr, frame.next}) \cup MarkBit(b, frame.marked)
    /\ new_bigalloc(b)
    /\ mutex' = 1
    /\ LeaveFor(Aftermath(frame.marked), w, b)
    /\ UNCHANGED <<lowest, highest, collector>>

(* The program may also use mymalloc and myfree directly.                  *)
CallMymalloc ==
    /\ pc = "program"
    /\ pc' = "mymalloc"
    /\ UNCHANGED <<program, allocated, links, globals, mutex, call, collector>>

MymallocReturns(b, w) ==
    /\ pc = "mymalloc"
    /\ b \in Block \ allocated
    /\ allocated' = allocated \cup {b}
    /\ previous' = [previous EXCEPT ![b] = Sentinel]
    /\ Return(w, b)
    /\ UNCHANGED <<field, head, next, mark, globals, mutex, collector>>

MymallocFails(w) ==
    /\ pc = "mymalloc"
    /\ Return(w, Null)
    /\ UNCHANGED <<field, allocated, links, globals, mutex, collector>>

Myfree(x) ==
    /\ pc = "program"
    /\ root[x] \in allocated \ Listed
    /\ allocated' = allocated \ {root[x]}
    /\ previous' = [previous EXCEPT ![root[x]] = Null]
    /\ UNCHANGED <<program, head, next, mark, globals, mutex, pc, call, collector>>

-----------------------------------------------------------------------------
(* Collection.                                                             *)

(* Mutant: the allocation is retried with the counter still above the      *)
(* threshold.                                                              *)
Collect_again ==
    /\ pc \in Calls
    /\ pc = "gc_realloc" => ReallocMayCollect
    /\ caller' = pc
    /\ collected' = (pc # "program")
    /\ pc' = "roots"
    /\ cursor' = 1
    /\ UNCHANGED <<program, allocated, links, globals, mutex, frame, queue, before, current>>

(* gc_collect, called by the program or by dlmalloc, at most once a call.  *)
Collect ==
    /\ pc \in Calls
    /\ ~collected
    /\ pc = "gc_realloc" => ReallocMayCollect
    /\ caller' = pc
    /\ collected' = (pc # "program")
    /\ pc' = "roots"
    /\ cursor' = 1
    /\ UNCHANGED <<program, allocated, links, globals, mutex, frame, queue, before, current>>

(* The words the root scan reads: the program's, then the frame of         *)
(* gc_realloc, then the two allocator globals.  heap_list_head lies among  *)
(* them too, and is the one word the scan leaves out.  A saved previous    *)
(* that carries the mark bit is not the start of a block: it names none.   *)
FramePrevious == IF frame.marked THEN Null ELSE frame.previous

RootWords == Words + 5

RootWord(i) ==
    CASE i \in 1 .. Words -> root[i]
      [] i = Words + 1    -> frame.ptr
      [] i = Words + 2    -> FramePrevious
      [] i = Words + 3    -> frame.next
      [] i = Words + 4    -> lowest
      [] i = Words + 5    -> highest

valid_bigalloc(b) == BigallocOf[b] \in bigallocs_list

(* A value is followed only when it is the start of an allocated block of  *)
(* a bigallocation known to the collector.                                 *)
valid_heap_object(v) == v \in allocated /\ valid_bigalloc(v)

(* Mutant: a node is lost when the queue already holds one.                *)
enqueue_first(v) ==
    queue' = IF valid_heap_object(v) /\ queue = <<>> THEN <<v>> ELSE queue

enqueue(v) == queue' = IF valid_heap_object(v) THEN Append(queue, v) ELSE queue

ScanRoot ==
    /\ pc = "roots"
    /\ cursor <= RootWords
    /\ enqueue(RootWord(cursor))
    /\ cursor' = cursor + 1
    /\ UNCHANGED <<program, allocated, links, globals, mutex, pc, call, before, current>>

(* Mutant: the word heap_list_head is scanned like the others.             *)
RootsScanned_head ==
    /\ pc = "roots"
    /\ cursor > RootWords
    /\ enqueue(head)
    /\ pc' = "mark"
    /\ cursor' = 1
    /\ UNCHANGED <<program, allocated, links, globals, mutex, call, before, current>>

RootsScanned ==
    /\ pc = "roots"
    /\ cursor > RootWords
    /\ pc' = "mark"
    /\ cursor' = 1
    /\ UNCHANGED <<program, allocated, links, globals, mutex, call, queue, before, current>>

(* A block that is marked already, or is not the collector's, is dropped.  *)
SkipObject ==
    /\ pc = "mark"
    /\ queue # <<>>
    /\ marked(Head(queue)) \/ previous[Head(queue)] = Sentinel
    /\ queue' = Tail(queue)
    /\ UNCHANGED <<program, allocated, links, globals, mutex, pc, call, cursor, before, current>>

(* Mutant: the first field is passed over.                                 *)
SearchObject_second ==
    /\ pc = "mark"
    /\ queue # <<>>
    /\ ~marked(Head(queue))
    /\ previous[Head(queue)] # Sentinel
    /\ pc' = "fields"
    /\ cursor' = 2
    /\ UNCHANGED <<program, allocated, links, globals, mutex, call, queue, before, current>>

SearchObject ==
    /\ pc = "mark"
    /\ queue # <<>>
    /\ ~marked(Head(queue))
    /\ previous[Head(queue)] # Sentinel
    /\ pc' = "fields"
    /\ cursor' = 1
    /\ UNCHANGED <<program, allocated, links, globals, mutex, call, queue, before, current>>

ScanField ==
    /\ pc = "fields"
    /\ cursor <= Fields
    /\ enqueue(field[Head(queue)][cursor])
    /\ cursor' = cursor + 1
    /\ UNCHANGED <<program, allocated, links, globals, mutex, pc, call, before, current>>

MarkObject ==
    /\ pc = "fields"
    /\ cursor > Fields
    /\ mark' = mark \cup {Head(queue)}
    /\ queue' = Tail(queue)
    /\ pc' = "mark"
    /\ cursor' = 1
    /\ UNCHANGED <<program, allocated, head, previous, next, globals, mutex, call, before, current>>

StartSweep ==
    /\ pc = "mark"
    /\ queue = <<>>
    /\ pc' = "sweep"
    /\ before' = ListHead
    /\ current' = head
    /\ UNCHANGED <<program, allocated, links, globals, mutex, call, queue, cursor>>

(* Mutant: unmark_block is not called.                                     *)
SweepMarked_keeps ==
    /\ pc = "sweep"
    /\ current # Null
    /\ marked(current)
    /\ before' = current
    /\ current' = next[current]
    /\ UNCHANGED <<program, allocated, links, globals, mutex, pc, call, queue, cursor>>

SweepMarked ==
    /\ pc = "sweep"
    /\ current # Null
    /\ marked(current)
    /\ mark' = mark \ {current}
    /\ before' = current
    /\ current' = next[current]
    /\ UNCHANGED <<program, allocated, head, previous, next, globals, mutex, pc, call, queue, cursor>>

(* An unmarked block is unlinked, its successor keeping its mark, and      *)
(* given back to myfree; its memory is no longer of interest.              *)
SweepUnmarked ==
    LET following == next[current] IN
    /\ pc = "sweep"
    /\ current # Null
    /\ ~marked(current)
    /\ head' = IF head = current THEN following ELSE head
    /\ next' = [a \in Block |->
                  CASE a = current                     -> Null
                    [] a = before /\ head # current    -> following
                    [] OTHER                           -> next[a]]
    /\ previous' = [a \in Block |-> CASE a = current   -> Null
                                      [] a = following -> before
                                      [] OTHER         -> previous[a]]
    /\ allocated' = allocated \ {current}
    /\ field' = [field EXCEPT ![current] = Blank]
    /\ current' = following
    /\ UNCHANGED <<root, mark, globals, mutex, pc, call, queue, cursor, before>>

EndCollect ==
    /\ pc = "sweep"
    /\ current = Null
    /\ pc' = caller
    /\ caller' = "program"
    /\ before' = ListHead
    /\ UNCHANGED <<program, allocated, links, globals, mutex, collected, frame, queue, cursor, current>>

-----------------------------------------------------------------------------
Program ==
    \E w \in 1 .. Words :
        \/ \E v \in Pointer : CopyRoot(w, v)
        \/ \E x \in 1 .. Words, i \in 1 .. Fields : Load(w, x, i)
        \/ \E i \in 1 .. Fields, v \in Pointer : Store(w, i, v)

Enter ==
    \/ CallMalloc
    \/ CallMymalloc
    \/ \E x \in 1 .. Words : CallRealloc(x) \/ Myfree(x)
    \/ \E x, w \in 1 .. Words : ReallocToZero(x, w)

Leave ==
    \E w \in 1 .. Words :
        \/ \E b \in Block : \/ MallocReturns(b, w)
                            \/ ReallocMoves(b, w)
                            \/ MymallocReturns(b, w)
        \/ MallocFails(w)
        \/ ReallocFails(w)
        \/ ReallocInPlace(w)
        \/ MymallocFails(w)

Collecting ==
    \/ ScanRoot
    \/ RootsScanned
    \/ SkipObject
    \/ SearchObject
    \/ ScanField
    \/ MarkObject
    \/ StartSweep
    \/ SweepMarked
    \/ SweepUnmarked
    \/ EndCollect

Next == Program \/ Enter \/ Leave \/ Collect \/ Collecting

Spec == Init /\ [][Next]_vars

(* The runtime runs on the program's own thread: nothing but its own next  *)
(* step can follow, and the thread keeps running.                          *)
FairSpec == Spec /\ WF_vars(Collecting) /\ WF_vars(Leave)

-----------------------------------------------------------------------------
(* Properties.                                                             *)

(* Every variable keeps the type the code gives it, and the semaphore is   *)
(* taken in the two calls that wait for it and the collections they start. *)
TypeOK ==
    /\ root \in [1 .. Words -> Pointer]
    /\ field \in [Block -> [1 .. Fields -> Pointer]]
    /\ allocated \subseteq Block
    /\ head \in Pointer
    /\ previous \in [Block -> Pointer \cup {ListHead, Sentinel}]
    /\ next \in [Block -> Pointer]
    /\ mark \subseteq Block
    /\ bigallocs_list \subseteq Nat
    /\ lowest \in Block \cup {TopAddress}
    /\ highest \in Pointer
    /\ mutex \in {0, 1}
    /\ pc \in Calls \cup Phases \cup {Astray}
    /\ caller \in Calls
    /\ collected \in BOOLEAN
    /\ frame \in [ptr : Pointer, previous : Pointer \cup {ListHead}, marked : BOOLEAN,
                  next : Pointer]
    /\ queue \in Seq(Block)
    /\ cursor \in 1 .. (RootWords + Fields + 1)
    /\ before \in Block \cup {ListHead}
    /\ current \in Pointer

(* The list pointers gc_realloc has taken from its block are in its frame. *)
PreviousOf(b) == IF b = frame.ptr THEN frame.previous ELSE previous[b]
NextOf(b)     == IF b = frame.ptr THEN frame.next ELSE next[b]

(* A set that holds the head and the successor of each of its members.     *)
HoldsList(S) ==
    /\ head \in S \cup {Null}
    /\ \A b \in S : NextOf(b) \in S \cup {Null}

(* gc.c:48, "stored as a doubly linked list": from heap_list_head, each    *)
(* block's NEXT_POINTER names the block whose PREVIOUS_POINTER names it,   *)
(* and every block gc_malloc gave out is on the list, at every step of the *)
(* entry points and of the sweep.                                          *)
DoublyLinked ==
    /\ head # Null => head \in Listed /\ PreviousOf(head) = ListHead
    /\ \A b \in Listed :
          /\ NextOf(b) # Null => NextOf(b) \in Listed /\ PreviousOf(NextOf(b)) = b
          /\ \/ PreviousOf(b) = ListHead /\ head = b
             \/ PreviousOf(b) \in Listed /\ NextOf(PreviousOf(b)) = b
    /\ \A S \in SUBSET Listed : HoldsList(S) => S = Listed

(* The blocks that can be reached from the words of W through the fields   *)
(* of collected blocks.                                                    *)
Closed(S, W) ==
    /\ W \cap allocated \subseteq S
    /\ \A b \in S \cap Listed, i \in 1 .. Fields :
          field[b][i] \in allocated => field[b][i] \in S

ReachableFrom(W) ==
    {b \in allocated : \A S \in SUBSET allocated : Closed(S, W) => b \in S}

(* What the program can still reach, the block it is resizing included.    *)
Reachable == ReachableFrom({root[w] : w \in 1 .. Words} \cup {frame.ptr})

(* What the root scan finds: also the list neighbours in gc_realloc's      *)
(* frame and the blocks the two allocator globals name.                    *)
Scanned ==
    ReachableFrom({root[w] : w \in 1 .. Words} \cup {lowest, highest}
                      \cup {frame.ptr, FramePrevious, frame.next})

(* A sweep gives back no block the program can reach, and no block that    *)
(* was not obtained from gc_malloc or gc_realloc (gc.c:566-598).           *)
SweepSafe ==
    [][pc = "sweep" => allocated \ allocated' \subseteq Listed \ Reachable]_vars

(* A collection is exact up to the words it scans: when it ends, no        *)
(* collected block is left that those words do not lead to, whatever was   *)
(* freed between two marked blocks or at the head of the list.             *)
SweepComplete ==
    [][pc = "sweep" /\ pc' # "sweep" => Listed \subseteq Scanned]_vars

(* The mark bits are all clear when no collection runs, so that the next   *)
(* one searches every block again (gc.c:576, unit_tester.c:284).           *)
MarksClear == pc \in Calls => mark = {}

(* The queue holds only blocks that are still allocated, and a block that  *)
(* is marked has all its children marked or queued: nothing the mark phase *)
(* has yet to do is forgotten.                                             *)
TriColour ==
    pc \in {"mark", "fields"} =>
        \A b \in mark, i \in 1 .. Fields :
            field[b][i] \in Listed =>
                \/ field[b][i] \in mark
                \/ \E k \in 1 .. Len(queue) : queue[k] = field[b][i]

(* Every call comes back, the collections it starts included: whatever the *)
(* shape of the heap, cycles included, the mark phase and the sweep end,   *)
(* and an allocation does not collect again and again (dlmalloc.c:3292).   *)
CallsReturn == pc # "program" ~> pc = "program"

(* The collector implements the heap its users are promised.               *)
Promise == INSTANCE CollectedHeap WITH live <- allocated, managed <- Listed
HeapPromise == Promise!Spec

=============================================================================
