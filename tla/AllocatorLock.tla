---------------------------- MODULE AllocatorLock ----------------------------
(***************************************************************************)
(* gc.c seen by several threads.  gc_malloc and gc_realloc wait for        *)
(* allocator_mutex, a POSIX semaphore that gc_init sets to 1, and post it  *)
(* before they return; gc_malloc does not post it when mymalloc fails.     *)
(* gc_collect takes no semaphore: it relies on being called by mymalloc,   *)
(* as it is here; a program that calls it itself while other threads       *)
(* allocate is outside of this model (GcHeap has that call for a program   *)
(* of one thread).                                                         *)
(*                                                                         *)
(* A call goes through the list block by block: what it does to the two    *)
(* links of its own block is a step, what it does to a neighbour or to the *)
(* head of the list is another, and the sweep takes one block a step.      *)
(*                                                                         *)
(* Which blocks a sweep keeps is left open, except that it keeps those     *)
(* that are the argument of a call.  The collection that myrealloc may     *)
(* start is not modelled here but in GcHeap.                               *)
(***************************************************************************)
EXTENDS Integers, FiniteSets

CONSTANTS
    Thread,             \* the threads of the program
    Block,              \* addresses mymalloc can return
    Null,
    ListHead,           \* &heap_list_head
    MallocMayFail       \* can mymalloc run out of memory?

ASSUME LockAssumption ==
    /\ Null \notin Block
    /\ ListHead \notin Block \cup {Null}
    /\ MallocMayFail \in BOOLEAN

VARIABLES
    GC_initialised,
    allocator_mutex,    \* the value of the semaphore
    allocated,          \* blocks mymalloc has handed out and not got back
    head,               \* heap_list_head
    previous,           \* PREVIOUS_POINTER of each block
    next,               \* NEXT_POINTER of each block
    pc,                 \* where each thread is
    op,                 \* the call each thread is in
    block,              \* its block: ptr, then the new one
    before,             \* its local previous
    after               \* its local next (current, in sweep)

list   == <<allocated, head, previous, next>>
locals == <<op, block, before, after>>
vars   == <<GC_initialised, allocator_mutex, list, pc, locals>>

Op == {"none", "gc_malloc", "release", "gc_realloc"}

Place == {"idle", "sem_wait", "enter", "sweep", "mymalloc", "link_new",
          "link_head", "set_head", "read_links", "unlink_previous",
          "unlink_next", "free", "myrealloc", "relink_previous",
          "relink_next", "sem_post"}

(* Outside of the section that the semaphore protects.                     *)
Outside == {"idle", "sem_wait"}
Inside(t) == pc[t] \notin Outside

Init ==
    /\ GC_initialised = FALSE
    /\ allocator_mutex = 0
    /\ allocated = {}
    /\ head = Null
    /\ previous = [b \in Block |-> Null]
    /\ next = [b \in Block |-> Null]
    /\ pc = [t \in Thread |-> "idle"]
    /\ op = [t \in Thread |-> "none"]
    /\ block = [t \in Thread |-> Null]
    /\ before = [t \in Thread |-> Null]
    /\ after = [t \in Thread |-> Null]

Goto(t, place) == pc' = [pc EXCEPT ![t] = place]

-----------------------------------------------------------------------------
(* Mutant: gc_init may run again while the semaphore is in use.            *)
gc_init_again ==
    /\ GC_initialised' = TRUE
    /\ allocator_mutex' = 1
    /\ UNCHANGED <<list, pc, locals>>

(* gc_init is called once.                                                 *)
gc_init ==
    /\ ~GC_initialised
    /\ GC_initialised' = TRUE
    /\ allocator_mutex' = 1
    /\ UNCHANGED <<list, pc, locals>>

(* When mymalloc cannot fail, calls of gc_malloc leave room for each other.*)
MemoryLeft ==
    Cardinality({u \in Thread : op[u] = "gc_malloc" /\ block[u] = Null})
        < Cardinality(Block \ allocated)

(* A thread calls gc_malloc (also as gc_realloc(NULL, n)), gc_realloc(b, 0)*)
(* or gc_realloc(b, n).  No two threads resize the same block.             *)
Call(t, o, b) ==
    /\ pc[t] = "idle"
    /\ \/ o = "gc_malloc" /\ b = Null /\ (MallocMayFail \/ MemoryLeft)
       \/ /\ o \in {"release", "gc_realloc"}
          /\ b \in allocated
          /\ \A u \in Thread : block[u] # b
    /\ op' = [op EXCEPT ![t] = o]
    /\ block' = [block EXCEPT ![t] = b]
    /\ Goto(t, "sem_wait")
    /\ UNCHANGED <<GC_initialised, allocator_mutex, list, before, after>>

(* Mutant: the semaphore is looked at and not taken.                       *)
sem_wait_looks(t) ==
    /\ pc[t] = "sem_wait"
    /\ allocator_mutex > 0
    /\ Goto(t, IF op[t] = "gc_malloc" THEN "enter" ELSE "read_links")
    /\ UNCHANGED <<GC_initialised, allocator_mutex, list, locals>>

sem_wait(t) ==
    /\ pc[t] = "sem_wait"
    /\ allocator_mutex > 0
    /\ allocator_mutex' = allocator_mutex - 1
    /\ Goto(t, IF op[t] = "gc_malloc" THEN "enter" ELSE "read_links")
    /\ UNCHANGED <<GC_initialised, list, locals>>

Finish(t) ==
    /\ Goto(t, "idle")
    /\ op' = [op EXCEPT ![t] = "none"]
    /\ block' = [block EXCEPT ![t] = Null]
    /\ before' = [before EXCEPT ![t] = Null]
    /\ after' = [after EXCEPT ![t] = Null]

sem_post(t) ==
    /\ pc[t] = "sem_post"
    /\ allocator_mutex' = allocator_mutex + 1
    /\ Finish(t)
    /\ UNCHANGED <<GC_initialised, list>>

-----------------------------------------------------------------------------
(* gc_malloc.  mymalloc may run a collection before it allocates.          *)

BelowThreshold(t) ==
    /\ pc[t] = "enter"
    /\ Goto(t, "mymalloc")
    /\ UNCHANGED <<GC_initialised, allocator_mutex, list, locals>>

StartSweep(t) ==
    /\ before' = [before EXCEPT ![t] = ListHead]
    /\ after' = [after EXCEPT ![t] = head]
    /\ Goto(t, "sweep")

AboveThreshold(t) ==
    /\ pc[t] = "enter"
    /\ StartSweep(t)
    /\ UNCHANGED <<GC_initialised, allocator_mutex, list, op, block>>

MallocFails(t) ==
    /\ MallocMayFail
    /\ pc[t] = "mymalloc"
    /\ Finish(t)
    /\ UNCHANGED <<GC_initialised, allocator_mutex, list>>

MallocSucceeds(t, b) ==
    /\ pc[t] = "mymalloc"
    /\ b \in Block \ allocated
    /\ allocated' = allocated \cup {b}
    /\ block' = [block EXCEPT ![t] = b]
    /\ Goto(t, "link_new")
    /\ UNCHANGED <<GC_initialised, allocator_mutex, head, previous, next, op, before, after>>

LinkNew(t) ==
    /\ pc[t] = "link_new"
    /\ previous' = [previous EXCEPT ![block[t]] = ListHead]
    /\ next' = [next EXCEPT ![block[t]] = head]
    /\ Goto(t, "link_head")
    /\ UNCHANGED <<GC_initialised, allocator_mutex, allocated, head, locals>>

(* EXCEPT leaves the function alone when the head is null.                 *)
LinkHead(t) ==
    /\ pc[t] = "link_head"
    /\ previous' = [previous EXCEPT ![head] = block[t]]
    /\ Goto(t, "set_head")
    /\ UNCHANGED <<GC_initialised, allocator_mutex, allocated, head, next, locals>>

SetHead(t) ==
    /\ pc[t] = "set_head"
    /\ head' = block[t]
    /\ Goto(t, "sem_post")
    /\ UNCHANGED <<GC_initialised, allocator_mutex, allocated, previous, next, locals>>

-----------------------------------------------------------------------------
(* gc_realloc.                                                             *)

ReadLinks(t) ==
    LET b == block[t] IN
    /\ pc[t] = "read_links"
    /\ before' = [before EXCEPT ![t] = previous[b]]
    /\ after' = [after EXCEPT ![t] = next[b]]
    /\ IF op[t] = "release"
       THEN Goto(t, "unlink_previous") /\ UNCHANGED <<previous, next>>
       ELSE /\ previous' = [previous EXCEPT ![b] = Null]
            /\ next' = [next EXCEPT ![b] = Null]
            /\ Goto(t, "myrealloc")
    /\ UNCHANGED <<GC_initialised, allocator_mutex, allocated, head, op, block>>

(* Mutant: the first block of the list is not treated apart.               *)
SetSuccessor_always(t, b) ==
    next' = [next EXCEPT ![before[t]] = b] /\ UNCHANGED head

(* The successor of the block before t's block becomes b.                  *)
SetSuccessor(t, b) ==
    IF before[t] = ListHead
    THEN head' = b /\ UNCHANGED next
    ELSE next' = [next EXCEPT ![before[t]] = b] /\ UNCHANGED head

UnlinkPrevious(t) ==
    /\ pc[t] = "unlink_previous"
    /\ SetSuccessor(t, after[t])
    /\ Goto(t, "unlink_next")
    /\ UNCHANGED <<GC_initialised, allocator_mutex, allocated, previous, locals>>

UnlinkNext(t) ==
    /\ pc[t] = "unlink_next"
    /\ previous' = [previous EXCEPT ![after[t]] = before[t]]
    /\ Goto(t, "free")
    /\ UNCHANGED <<GC_initialised, allocator_mutex, allocated, head, next, locals>>

Free(t) ==
    /\ pc[t] = "free"
    /\ allocated' = allocated \ {block[t]}
    /\ previous' = [previous EXCEPT ![block[t]] = Null]
    /\ next' = [next EXCEPT ![block[t]] = Null]
    /\ Goto(t, "sem_post")
    /\ UNCHANGED <<GC_initialised, allocator_mutex, head, locals>>

(* myrealloc failed, or resized the block in place.                        *)
ReallocStays(t) ==
    /\ pc[t] = "myrealloc"
    /\ previous' = [previous EXCEPT ![block[t]] = before[t]]
    /\ next' = [next EXCEPT ![block[t]] = after[t]]
    /\ Goto(t, "sem_post")
    /\ UNCHANGED <<GC_initialised, allocator_mutex, allocated, head, locals>>

ReallocMoves(t, b) ==
    /\ pc[t] = "myrealloc"
    /\ b \in Block \ allocated
    /\ allocated' = (allocated \ {block[t]}) \cup {b}
    /\ previous' = [previous EXCEPT ![b] = before[t]]
    /\ next' = [next EXCEPT ![b] = after[t]]
    /\ block' = [block EXCEPT ![t] = b]
    /\ Goto(t, "relink_previous")
    /\ UNCHANGED <<GC_initialised, allocator_mutex, head, op, before, after>>

RelinkPrevious(t) ==
    /\ pc[t] = "relink_previous"
    /\ SetSuccessor(t, block[t])
    /\ Goto(t, "relink_next")
    /\ UNCHANGED <<GC_initialised, allocator_mutex, allocated, previous, locals>>

RelinkNext(t) ==
    /\ pc[t] = "relink_next"
    /\ previous' = [previous EXCEPT ![after[t]] = block[t]]
    /\ Goto(t, "sem_post")
    /\ UNCHANGED <<GC_initialised, allocator_mutex, allocated, head, next, locals>>

-----------------------------------------------------------------------------
(* sweep, in the collection that mymalloc started.                         *)

SweepKeeps(t) ==
    /\ pc[t] = "sweep"
    /\ after[t] # Null
    /\ before' = [before EXCEPT ![t] = after[t]]
    /\ after' = [after EXCEPT ![t] = next[after[t]]]
    /\ UNCHANGED <<GC_initialised, allocator_mutex, list, pc, op, block>>

SweepFrees(t) ==
    LET b == after[t] IN
    /\ pc[t] = "sweep"
    /\ b # Null
    /\ \A u \in Thread : block[u] # b
    /\ head' = IF head = b THEN next[b] ELSE head
    /\ next' = [a \in Block |-> CASE a = b                        -> Null
                                  [] a = before[t] /\ head # b    -> next[b]
                                  [] OTHER                        -> next[a]]
    /\ previous' = [a \in Block |-> CASE a = b       -> Null
                                      [] a = next[b] -> before[t]
                                      [] OTHER       -> previous[a]]
    /\ allocated' = allocated \ {b}
    /\ after' = [after EXCEPT ![t] = next[b]]
    /\ UNCHANGED <<GC_initialised, allocator_mutex, pc, op, block, before>>

SweepEnds(t) ==
    /\ pc[t] = "sweep"
    /\ after[t] = Null
    /\ Goto(t, "mymalloc")
    /\ UNCHANGED <<GC_initialised, allocator_mutex, list, locals>>

-----------------------------------------------------------------------------
(* A step of a call that is under way.                                     *)
Step(t) ==
    \/ sem_wait(t)
    \/ sem_post(t)
    \/ BelowThreshold(t)
    \/ AboveThreshold(t)
    \/ MallocFails(t)
    \/ \E b \in Block : MallocSucceeds(t, b) \/ ReallocMoves(t, b)
    \/ LinkNew(t)
    \/ LinkHead(t)
    \/ SetHead(t)
    \/ ReadLinks(t)
    \/ UnlinkPrevious(t)
    \/ UnlinkNext(t)
    \/ Free(t)
    \/ ReallocStays(t)
    \/ RelinkPrevious(t)
    \/ RelinkNext(t)
    \/ SweepKeeps(t)
    \/ SweepFrees(t)
    \/ SweepEnds(t)

Next ==
    \/ gc_init
    \/ \E t \in Thread :
          \/ \E o \in Op, b \in Block \cup {Null} : Call(t, o, b)
          \/ Step(t)

Spec == Init /\ [][Next]_vars

(* A thread inside a call keeps running; nothing obliges a thread to make  *)
(* a call, or the program to call gc_init.                                 *)
FairSpec == Spec /\ \A t \in Thread : WF_vars(Step(t))

-----------------------------------------------------------------------------
(* Every variable keeps its type; the semaphore is binary.                 *)
TypeOK ==
    /\ GC_initialised \in BOOLEAN
    /\ allocator_mutex \in {0, 1}
    /\ allocated \subseteq Block
    /\ head \in Block \cup {Null}
    /\ previous \in [Block -> Block \cup {Null, ListHead}]
    /\ next \in [Block -> Block \cup {Null}]
    /\ pc \in [Thread -> Place]
    /\ op \in [Thread -> Op]
    /\ block \in [Thread -> Block \cup {Null}]
    /\ before \in [Thread -> Block \cup {Null, ListHead}]
    /\ after \in [Thread -> Block \cup {Null}]

(* gc.c:41, "exclusive access to gc_malloc allocator": no two threads are  *)
(* between the wait and the post of gc_malloc and gc_realloc, or in a      *)
(* collection, at the same time.                                           *)
Exclusion == \A t, u \in Thread : Inside(t) /\ Inside(u) => t = u

(* Whatever calls the threads interleave, whenever none of them is inside, *)
(* the list is doubly linked from heap_list_head and no block is lost from *)
(* it (gc.c:48).                                                           *)
ListIntact ==
    (\A t \in Thread : ~Inside(t)) =>
        /\ head # Null => head \in allocated /\ previous[head] = ListHead
        /\ \A b \in allocated :
              /\ next[b] # Null => next[b] \in allocated /\ previous[next[b]] = b
              /\ \/ previous[b] = ListHead /\ head = b
                 \/ previous[b] \in allocated /\ next[previous[b]] = b
        /\ \A S \in SUBSET allocated :
              head \in S \cup {Null} /\ (\A b \in S : next[b] \in S \cup {Null})
              => S = allocated

(* A thread that took the semaphore gives it back.                         *)
MutexReleased == GC_initialised /\ allocator_mutex = 0 ~> allocator_mutex = 1

(* gc.c:487-507 and every path of gc_realloc: a call that has entered      *)
(* leaves, whatever other calls have made of the list before it.  Calls    *)
(* that wait are another matter: MutexReleased.                            *)
CallsEnd == \A t \in Thread : Inside(t) ~> ~Inside(t)

=============================================================================
