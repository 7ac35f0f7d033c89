------------------------- MODULE AllocatorLockProofs -------------------------
(***************************************************************************)
(* Proofs about AllocatorLock for every set of threads and blocks: its     *)
(* type invariant, mutual exclusion, and that the list of blocks is doubly *)
(* linked whenever no thread is inside, whatever calls they interleave.    *)
(***************************************************************************)
EXTENDS AllocatorLock, TLAPS

INSTANCE StructureLemmas WITH
    Dom <- LAMBDA c : {}, Def <- LAMBDA c, f, x : 0, Rank <- LAMBDA c, x : 0

(* What keeps the semaphore binary: whoever holds it has taken its only    *)
(* unit, and before gc_init there is none to take.  A call of gc_realloc   *)
(* has a block from the start.                                             *)
LockInv ==
    /\ \A t \in Thread : Inside(t) => allocator_mutex = 0 /\ GC_initialised
    /\ \A t, u \in Thread : Inside(t) /\ Inside(u) => t = u
    /\ ~GC_initialised => allocator_mutex = 0
    /\ \A t \in Thread :
          \/ pc[t] = "read_links"
          \/ pc[t] = "sem_wait" /\ op[t] # "gc_malloc"
          => block[t] \in Block

Inv == TypeOK /\ LockInv

LEMMA InitInv == Init => Inv
<1> SUFFICES ASSUME Init PROVE Inv
  OBVIOUS
<1>1. TypeOK
  BY DEF Init, TypeOK, Place, Op
<1>2. LockInv
  <2>1. \A t \in Thread : ~Inside(t) /\ op[t] = "none"
    BY DEF Init, Inside, Outside
  <2> QED
    BY <2>1 DEF Init, LockInv
<1> QED
  BY <1>1, <1>2 DEF Inv

(* A step inside of the section goes on, and leaves the semaphore alone.   *)
LEMMA GoesOn ==
    ASSUME Inv, NEW t \in Thread, Inside(t), pc' = pc \/ \E p \in Place \ (Outside \cup {"read_links"}) : Goto(t, p),
           UNCHANGED <<GC_initialised, allocator_mutex>>, op' = op,
           block' = block \/ \E b \in Block : block' = [block EXCEPT ![t] = b]
    PROVE  LockInv' /\ pc' \in [Thread -> Place] /\ block' \in [Thread -> Block \cup {Null}]
<1>1. pc \in [Thread -> Place] /\ op \in [Thread -> Op] /\ block \in [Thread -> Block \cup {Null}]
  BY DEF Inv, TypeOK
<1>2. pc' \in [Thread -> Place] /\ block' \in [Thread -> Block \cup {Null}]
  BY <1>1 DEF Goto
<1>3. \A u \in Thread : /\ u # t => pc'[u] = pc[u] /\ block'[u] = block[u]
                        /\ block[u] \in Block => block'[u] \in Block
  BY <1>1 DEF Goto
<1>4. Inside(t)' /\ pc'[t] # "sem_wait" /\ (pc'[t] = "read_links" => pc[t] = "read_links")
  BY <1>1 DEF Goto, Inside, Outside
<1>5. \A u \in Thread : Inside(u)' <=> Inside(u)
  BY <1>3, <1>4 DEF Inside
<1>6. \A u \in Thread : \/ pc'[u] = "read_links"
                        \/ pc'[u] = "sem_wait" /\ op'[u] # "gc_malloc"
                        => block'[u] \in Block
  BY <1>3, <1>4 DEF Inv, LockInv
<1> QED
  BY <1>2, <1>5, <1>6 DEF Inv, LockInv

(* The types, without those of pc and block.                               *)
ListTyped ==
    /\ allocated \subseteq Block
    /\ head \in Block \cup {Null}
    /\ previous \in [Block -> Block \cup {Null, ListHead}]
    /\ next \in [Block -> Block \cup {Null}]

LinksTyped ==
    /\ before \in [Thread -> Block \cup {Null, ListHead}]
    /\ after \in [Thread -> Block \cup {Null}]

Typed ==
    /\ GC_initialised \in BOOLEAN
    /\ allocator_mutex \in {0, 1}
    /\ ListTyped
    /\ pc \in [Thread -> Place]
    /\ op \in [Thread -> Op]
    /\ block \in [Thread -> Block \cup {Null}]
    /\ LinksTyped

LEMMA TypeParts == (TypeOK <=> Typed) /\ (TypeOK' <=> Typed')
BY DEF TypeOK, Typed, ListTyped, LinksTyped

LEMMA PlaceNames ==
    {"link_head", "set_head", "sem_post", "unlink_next", "free", "relink_next"}
        \subseteq Place \ (Outside \cup {"read_links"})
    /\ {"link_new", "link_head", "set_head", "unlink_next", "free", "myrealloc", "relink_next"}
        \subseteq Place \ Outside
BY DEF Place, Outside

(* The steps that write the list through a pointer of t.                   *)
LinkWrite(t) ==
    \/ LinkNew(t) \/ LinkHead(t) \/ UnlinkNext(t) \/ Free(t) \/ ReallocStays(t) \/ RelinkNext(t)

LEMMA LinkWrites == ASSUME Inv, NEW t \in Thread, LinkWrite(t) PROVE Inv'
<1>1. /\ Typed /\ block[t] \in Block \cup {Null} /\ before[t] \in Block \cup {Null, ListHead}
      /\ after[t] \in Block \cup {Null}
  BY TypeParts DEF Inv, Typed, LinksTyped
<1>2. /\ Inside(t) /\ UNCHANGED <<GC_initialised, allocator_mutex, locals>>
      /\ \E p \in {"link_head", "set_head", "sem_post", "unlink_next", "free", "relink_next"} : Goto(t, p)
  BY DEF LinkWrite, LinkNew, LinkHead, UnlinkNext, Free, ReallocStays, RelinkNext, Inside, Outside
<1>3. LockInv' /\ pc' \in [Thread -> Place] /\ block' \in [Thread -> Block \cup {Null}]
  BY <1>2, GoesOn, PlaceNames DEF locals
<1>4. ListTyped'
  <2>1. /\ head' = head /\ allocated' \subseteq allocated
        /\ \/ previous' = previous
           \/ \E b \in Block \cup {Null}, v \in Block \cup {Null, ListHead} : previous' = [previous EXCEPT ![b] = v]
        /\ \/ next' = next
           \/ \E b, v \in Block \cup {Null} : next' = [next EXCEPT ![b] = v]
    <3>1. CASE LinkNew(t)
      BY <1>1, <3>1 DEF LinkNew, Typed, ListTyped
    <3>2. CASE LinkHead(t)
      BY <1>1, <3>2 DEF LinkHead, Typed, ListTyped
    <3>3. CASE UnlinkNext(t)
      BY <1>1, <3>3 DEF UnlinkNext
    <3>4. CASE Free(t)
      BY <1>1, <3>4 DEF Free
    <3>5. CASE ReallocStays(t)
      BY <1>1, <3>5 DEF ReallocStays
    <3>6. CASE RelinkNext(t)
      BY <1>1, <3>6 DEF RelinkNext
    <3> QED
      BY <3>1, <3>2, <3>3, <3>4, <3>5, <3>6 DEF LinkWrite
  <2>2. previous' \in [Block -> Block \cup {Null, ListHead}]
    BY <1>1, <2>1 DEF Typed, ListTyped
  <2>3. next' \in [Block -> Block \cup {Null}]
    BY <1>1, <2>1 DEF Typed, ListTyped
  <2> QED
    BY <1>1, <2>1, <2>2, <2>3 DEF Typed, ListTyped
<1>5. LinksTyped' /\ op' \in [Thread -> Op]
  BY <1>1, <1>2 DEF Typed, LinksTyped, locals
<1> QED
  BY <1>1, <1>2, <1>3, <1>4, <1>5, TypeParts DEF Inv, Typed

(* Every action preserves the invariant.                                   *)
LEMMA NextInv == Inv /\ [Next]_vars => Inv'
<1> SUFFICES ASSUME Inv, [Next]_vars PROVE Inv'
  OBVIOUS
<1> USE LockAssumption DEF LockAssumption, Inv, TypeOK, LockInv, Inside, Outside, Place, Op,
                           Goto, Finish, StartSweep, SetSuccessor, list, locals, vars
<1>1. CASE gc_init
  BY <1>1 DEF gc_init
<1>2. ASSUME NEW t \in Thread, NEW o \in Op, NEW b \in Block \cup {Null}, Call(t, o, b)
      PROVE  Inv'
  BY <1>2 DEF Call
<1>3. ASSUME NEW t \in Thread, Step(t) PROVE Inv'
  <2>1. CASE sem_wait(t)
    BY <1>3, <2>1 DEF sem_wait
  <2>2. CASE sem_post(t)
    BY <1>3, <2>2 DEF sem_post
  <2>3. CASE BelowThreshold(t)
    BY <1>3, <2>3 DEF BelowThreshold
  <2>4. CASE AboveThreshold(t)
    BY <1>3, <2>4 DEF AboveThreshold
  <2>5. CASE MallocFails(t)
    BY <1>3, <2>5 DEF MallocFails
  <2>6. ASSUME NEW b \in Block, MallocSucceeds(t, b) PROVE Inv'
    BY <1>3, <2>6 DEF MallocSucceeds
  <2>7. ASSUME NEW b \in Block, ReallocMoves(t, b) PROVE Inv'
    BY <1>3, <2>7 DEF ReallocMoves
  <2>8. CASE LinkNew(t)
    BY <2>8, LinkWrites DEF LinkWrite
  <2>9. CASE LinkHead(t)
    BY <2>9, LinkWrites DEF LinkWrite
  <2>10. CASE SetHead(t)
    BY <1>3, <2>10 DEF SetHead
  <2>11. CASE ReadLinks(t)
    BY <1>3, <2>11 DEF ReadLinks
  <2>12. CASE UnlinkPrevious(t)
    BY <1>3, <2>12 DEF UnlinkPrevious
  <2>13. CASE UnlinkNext(t)
    BY <2>13, LinkWrites DEF LinkWrite
  <2>14. CASE Free(t)
    BY <2>14, LinkWrites DEF LinkWrite
  <2>15. CASE ReallocStays(t)
    BY <2>15, LinkWrites DEF LinkWrite
  <2>16. CASE RelinkPrevious(t)
    BY <1>3, <2>16 DEF RelinkPrevious
  <2>17. CASE RelinkNext(t)
    BY <2>17, LinkWrites DEF LinkWrite
  <2>18. CASE SweepKeeps(t)
    BY <1>3, <2>18 DEF SweepKeeps
  <2>19. CASE SweepFrees(t)
    BY <1>3, <2>19 DEF SweepFrees
  <2>20. CASE SweepEnds(t)
    BY <1>3, <2>20 DEF SweepEnds
  <2> QED
    BY <1>3, <2>1, <2>2, <2>3, <2>4, <2>5, <2>6, <2>7, <2>8, <2>9, <2>10, <2>11,
       <2>12, <2>13, <2>14, <2>15, <2>16, <2>17, <2>18, <2>19, <2>20 DEF Step
<1>4. CASE UNCHANGED vars
  BY <1>4
<1> QED
  BY <1>1, <1>2, <1>3, <1>4 DEF Next

LEMMA Invariance == Spec => []Inv
BY InitInv, NextInv, PTL DEF Spec

(* The variables of gc.c keep their types, and allocator_mutex is a binary *)
(* semaphore whatever calls the threads make and whichever of them fail.   *)
THEOREM TypeCorrect == Spec => []TypeOK
<1>1. Inv => TypeOK
  BY DEF Inv
<1> QED
  BY <1>1, Invariance, PTL

(* gc.c:41: at most one thread is inside the allocator, or in a collection *)
(* that the allocator started, whatever the threads call.                  *)
THEOREM MutualExclusion == Spec => []Exclusion
<1>1. Inv => Exclusion
  BY DEF Inv, LockInv, Exclusion
<1> QED
  BY <1>1, Invariance, PTL

-----------------------------------------------------------------------------
(* The list.                                                               *)

(* A call works on a block of its own, which exists while the call needs   *)
(* it.                                                                     *)
BlockInv ==
    /\ \A t \in Thread : block[t] # Null /\ pc[t] # "sem_post" => block[t] \in allocated
    /\ \A t, u \in Thread : block[t] # Null /\ block[t] = block[u] => t = u
    /\ \A t \in Thread :
          pc[t] \in {"link_new", "link_head", "set_head", "unlink_previous", "unlink_next", "free",
                     "myrealloc", "relink_previous", "relink_next"}
          => block[t] \in Block

(* The blocks, head and links make up a doubly linked list.                *)
Linked == IsList(allocated, head, previous, next)

(* The head of the list once c is the successor of the block before t's.   *)
HeadOnce(t, c) == IF before[t] = ListHead THEN c ELSE head

(* What a thread that is inside has still to write: the list is doubly     *)
(* linked once those writes are done.                                      *)
PendingWrites(t) ==
    LET b == block[t]
        p == before[t]
        n == after[t]
    IN
    /\ pc[t] = "link_new" =>
          IsList(allocated, b, [previous EXCEPT ![b] = ListHead, ![head] = b], [next EXCEPT ![b] = head])
    /\ pc[t] = "link_head" => IsList(allocated, b, [previous EXCEPT ![head] = b], next)
    /\ pc[t] = "set_head" => IsList(allocated, b, previous, next)
    /\ pc[t] = "unlink_previous" =>
          IsList(allocated \ {b}, HeadOnce(t, n), [previous EXCEPT ![n] = p], [next EXCEPT ![p] = n])
    /\ pc[t] = "unlink_next" => IsList(allocated \ {b}, head, [previous EXCEPT ![n] = p], next)
    /\ pc[t] = "free" => IsList(allocated \ {b}, head, previous, next)
    /\ pc[t] = "myrealloc" =>
          IsList(allocated, head, [previous EXCEPT ![b] = p], [next EXCEPT ![b] = n])
    /\ pc[t] = "relink_previous" =>
          IsList(allocated, HeadOnce(t, b), [previous EXCEPT ![n] = b], [next EXCEPT ![p] = b])
    /\ pc[t] = "relink_next" => IsList(allocated, head, [previous EXCEPT ![n] = b], next)
    /\ pc[t] \in {"enter", "sweep", "mymalloc", "read_links", "sem_post"} => Linked
    /\ pc[t] = "sweep" => /\ n \in allocated \cup {Null}
                          /\ p \in allocated \cup {ListHead}
                          /\ n # Null => previous[n] = p

ListInv ==
    /\ Inv
    /\ BlockInv
    /\ \A t \in Thread : Inside(t) => PendingWrites(t)
    /\ (\A t \in Thread : ~Inside(t)) => Linked

LEMMA InitListInv == Init => ListInv
<1> SUFFICES ASSUME Init PROVE ListInv
  OBVIOUS
<1>1. Inv
  BY InitInv
<1>2. \A t \in Thread : block[t] = Null /\ pc[t] = "idle"
  BY DEF Init
<1>3. BlockInv /\ \A t \in Thread : ~Inside(t)
  BY <1>2 DEF BlockInv, Inside, Outside
<1>4. Linked
  BY DEF Init, Linked, IsList, Holds
<1> QED
  BY <1>1, <1>3, <1>4 DEF ListInv

-----------------------------------------------------------------------------
(* Every action keeps the blocks of the calls apart.                       *)

LEMMA NextBlockInv ==
    ASSUME ListInv, Next
    PROVE  BlockInv'
<1> USE LockAssumption DEF LockAssumption, ListInv, BlockInv, Inv, TypeOK, LockInv, Inside, Outside,
                           Goto, Finish, StartSweep, list, locals, vars
<1>1. CASE gc_init
  BY <1>1 DEF gc_init
<1>2. ASSUME NEW t \in Thread, NEW o \in Op, NEW b \in Block \cup {Null}, Call(t, o, b)
      PROVE  BlockInv'
  BY <1>2 DEF Call
<1>3. ASSUME NEW t \in Thread, Step(t) PROVE BlockInv'
  <2>1. CASE sem_wait(t)
    BY <2>1 DEF sem_wait
  <2>2. CASE sem_post(t)
    BY <2>2 DEF sem_post
  <2>3. CASE BelowThreshold(t) \/ AboveThreshold(t) \/ SweepEnds(t) \/ SweepKeeps(t)
    BY <2>3 DEF BelowThreshold, AboveThreshold, SweepEnds, SweepKeeps
  <2>5. CASE MallocFails(t)
    BY <2>5 DEF MallocFails
  <2>6. ASSUME NEW b \in Block, MallocSucceeds(t, b) PROVE BlockInv'
    BY <2>6 DEF MallocSucceeds
  <2>7. ASSUME NEW b \in Block, ReallocMoves(t, b) PROVE BlockInv'
    BY <2>7 DEF ReallocMoves
  <2>8. CASE LinkNew(t) \/ LinkHead(t) \/ SetHead(t)
    BY <2>8 DEF LinkNew, LinkHead, SetHead
  <2>11. CASE ReadLinks(t)
    BY <2>11 DEF ReadLinks
  <2>12. CASE UnlinkPrevious(t) \/ UnlinkNext(t) \/ RelinkPrevious(t) \/ RelinkNext(t)
    BY <2>12 DEF UnlinkPrevious, UnlinkNext, RelinkPrevious, RelinkNext
  <2>14. CASE Free(t)
    BY <2>14 DEF Free
  <2>15. CASE ReallocStays(t)
    BY <2>15 DEF ReallocStays
  <2>19. CASE SweepFrees(t)
    BY <2>19 DEF SweepFrees
  <2> QED
    BY <1>3, <2>1, <2>2, <2>3, <2>5, <2>6, <2>7, <2>8, <2>11, <2>12, <2>14, <2>15, <2>19 DEF Step
<1> QED
  BY <1>1, <1>2, <1>3 DEF Next

(* A thread that is inside, or goes in, is alone: the invariant depends on *)
(* what it has still to write and on nothing else.                         *)
LEMMA OneInside ==
    ASSUME ListInv, Next, NEW t \in Thread, Step(t),
           Inside(t)' => PendingWrites(t)', ~Inside(t)' => Linked'
    PROVE  ListInv'
<1>1. Inv'
  BY NextInv DEF ListInv
<1>2. BlockInv'
  BY NextBlockInv
<1>3. \A u \in Thread \ {t} : pc'[u] = pc[u]
  BY DEF ListInv, Inv, TypeOK, Goto, Finish, StartSweep, Step, sem_wait, sem_post, BelowThreshold,
     AboveThreshold, MallocFails, MallocSucceeds, ReallocMoves, LinkNew, LinkHead, SetHead, ReadLinks,
     UnlinkPrevious, UnlinkNext, Free, ReallocStays, RelinkPrevious, RelinkNext, SweepKeeps, SweepFrees,
     SweepEnds
<1>4. \A u \in Thread \ {t} : ~Inside(u)
  <2>1. CASE Inside(t)
    BY <2>1 DEF ListInv, Inv, LockInv
  <2>2. CASE ~Inside(t)
    <3>1. sem_wait(t)
      BY <2>2 DEF Inside, Outside, Step, sem_post, BelowThreshold,
         AboveThreshold, MallocFails, MallocSucceeds, ReallocMoves, LinkNew, LinkHead, SetHead, ReadLinks,
         UnlinkPrevious, UnlinkNext, Free, ReallocStays, RelinkPrevious, RelinkNext, SweepKeeps,
         SweepFrees, SweepEnds
    <3> QED
      BY <3>1 DEF sem_wait, ListInv, Inv, LockInv
  <2> QED
    BY <2>1, <2>2
<1>5. \A u \in Thread \ {t} : ~Inside(u)'
  BY <1>3, <1>4 DEF Inside
<1> QED
  BY <1>1, <1>2, <1>5 DEF ListInv

-----------------------------------------------------------------------------
(* Steps that change no link.                                              *)

LEMMA SameLinked == UNCHANGED list => Linked' = Linked
BY DEF list, Linked

LEMMA EnterLeaveList ==
    ASSUME ListInv, NEW t \in Thread, sem_wait(t) \/ sem_post(t) \/ MallocFails(t)
    PROVE  ListInv'
<1> USE DEF ListInv, Inv, TypeOK, Inside, Outside, Goto, Finish
<1>1. Next /\ Step(t)
  BY DEF Next, Step
<1>2. Linked /\ UNCHANGED list
  <2>1. CASE sem_wait(t)
    <3>1. \A u \in Thread : ~Inside(u)
      BY <2>1 DEF sem_wait, LockInv
    <3> QED
      BY <2>1, <3>1 DEF sem_wait
  <2>2. CASE sem_post(t) \/ MallocFails(t)
    BY <2>2 DEF sem_post, MallocFails, PendingWrites
  <2> QED
    BY <2>1, <2>2
<1>3. Linked'
  BY <1>2, SameLinked
<1>4. pc'[t] \in {"enter", "read_links", "idle"}
  BY DEF sem_wait, sem_post, MallocFails
<1>5. PendingWrites(t)'
  BY <1>3, <1>4 DEF PendingWrites
<1> QED
  BY <1>1, <1>3, <1>5, OneInside

LEMMA SweepStepsList ==
    ASSUME ListInv, NEW t \in Thread,
           BelowThreshold(t) \/ AboveThreshold(t) \/ SweepKeeps(t) \/ SweepEnds(t)
    PROVE  ListInv'
<1> USE DEF ListInv, Inv, TypeOK, Goto, StartSweep
<1>1. Next /\ Step(t)
  BY DEF Next, Step
<1>2. UNCHANGED list /\ pc[t] \in {"enter", "sweep"}
  BY DEF BelowThreshold, AboveThreshold, SweepKeeps, SweepEnds
<1>3. PendingWrites(t) /\ Linked
  BY <1>2 DEF PendingWrites, Inside, Outside
<1>4. Linked'
  BY <1>2, <1>3, SameLinked
<1>5. CASE BelowThreshold(t) \/ SweepEnds(t)
  <2>1. pc'[t] = "mymalloc"
    BY <1>5 DEF BelowThreshold, SweepEnds
  <2>2. PendingWrites(t)'
    BY <1>4, <2>1 DEF PendingWrites
  <2> QED
    BY <1>1, <2>1, <2>2, OneInside DEF Inside, Outside
<1>6. CASE AboveThreshold(t)
  <2>1. pc'[t] = "sweep" /\ after'[t] = head /\ before'[t] = ListHead
    BY <1>6 DEF AboveThreshold
  <2>2. head \in allocated \cup {Null} /\ (head # Null => previous[head] = ListHead)
    BY <1>3 DEF Linked, IsList
  <2>3. PendingWrites(t)'
    BY <1>2, <1>4, <2>1, <2>2 DEF PendingWrites, list
  <2> QED
    BY <1>1, <2>1, <2>3, OneInside DEF Inside, Outside
<1>7. CASE SweepKeeps(t)
  <2>1. /\ pc'[t] = "sweep" /\ after'[t] = next[after[t]] /\ before'[t] = after[t]
        /\ after[t] \in allocated
    BY <1>3, <1>7 DEF SweepKeeps, PendingWrites
  <2>2. /\ next[after[t]] \in allocated \cup {Null}
        /\ next[after[t]] # Null => previous[next[after[t]]] = after[t]
    BY <1>3, <2>1 DEF Linked, IsList
  <2>3. PendingWrites(t)'
    BY <1>2, <1>4, <2>1, <2>2 DEF PendingWrites, list
  <2> QED
    BY <1>1, <2>1, <2>3, OneInside DEF Inside, Outside
<1> QED
  BY <1>5, <1>6, <1>7

-----------------------------------------------------------------------------
(* Steps that change what the list will be.                                *)

LEMMA MallocSucceedsList ==
    ASSUME ListInv, NEW t \in Thread, NEW b \in Block, MallocSucceeds(t, b)
    PROVE  ListInv'
<1> USE LockAssumption DEF LockAssumption, ListInv, Inv, TypeOK, Goto
<1>1. Next /\ Step(t)
  BY DEF Next, Step
<1>2. /\ pc[t] = "mymalloc" /\ pc'[t] = "link_new" /\ block'[t] = b /\ b \notin allocated
      /\ allocated' = allocated \cup {b} /\ UNCHANGED <<head, previous, next>>
  BY DEF MallocSucceeds
<1>3. Linked
  BY <1>2 DEF PendingWrites, Inside, Outside
<1> DEFINE P2 == [previous EXCEPT ![b] = ListHead, ![head] = b]
           N2 == [next EXCEPT ![b] = head]
<1>4. head \in allocated \cup {Null} /\ head # b /\ Null \notin allocated
  BY <1>2, <1>3 DEF Linked, IsList
<1>5. P2[b] = ListHead /\ N2[b] = head
  BY <1>2, <1>4
<1>6. /\ \A a \in allocated : P2[a] = IF a = head THEN b ELSE previous[a]
      /\ \A a \in allocated : N2[a] = next[a]
  BY <1>2, <1>4
<1>7. IsList(allocated \cup {b}, b, P2, N2)
  <2>1. b # Null /\ ListHead \notin allocated \cup {b}
    BY <1>2
  <2> HIDE DEF P2, N2
  <2> QED
    BY <1>2, <1>3, <1>4, <1>5, <1>6, <2>1, PushList DEF Linked
<1>8. PendingWrites(t)'
  BY <1>2, <1>7 DEF PendingWrites
<1> QED
  BY <1>1, <1>2, <1>8, OneInside DEF Inside, Outside

LEMMA ReadLinksList ==
    ASSUME ListInv, NEW t \in Thread, ReadLinks(t)
    PROVE  ListInv'
<1> USE LockAssumption DEF LockAssumption, ListInv, Inv, TypeOK, Goto
<1>1. Next /\ Step(t)
  BY DEF Next, Step
<1> DEFINE b == block[t]
           p == previous[b]
           n == next[b]
<1>2. /\ pc[t] = "read_links" /\ before'[t] = p /\ after'[t] = n
      /\ UNCHANGED <<allocated, head, block>>
  BY DEF ReadLinks
<1>3. Linked /\ b \in Block
  BY <1>2 DEF PendingWrites, Inside, Outside, LockInv
<1>4. b \in allocated /\ Null \notin allocated /\ ListHead \notin allocated
  BY <1>2, <1>3 DEF BlockInv
<1>5. n # b /\ p # b
  <2>1. n # b
    BY <1>3, <1>4, NoSelfLink DEF Linked
  <2> QED
    BY <1>3, <1>4, <2>1 DEF Linked, IsList
<1>6. CASE op[t] = "release"
  <2>1. pc'[t] = "unlink_previous" /\ UNCHANGED <<previous, next>>
    BY <1>6 DEF ReadLinks
  <2> DEFINE h2 == IF p = ListHead THEN n ELSE head
             P2 == [previous EXCEPT ![n] = p]
             N2 == [next EXCEPT ![p] = n]
  <2>2. /\ \A a \in allocated \ {b} : P2[a] = IF a = n THEN p ELSE previous[a]
        /\ \A a \in allocated \ {b} : N2[a] = IF a = p THEN n ELSE next[a]
    OBVIOUS
  <2>3. IsList(allocated \ {b}, h2, P2, N2)
    <3> HIDE DEF P2, N2
    <3> QED
      BY <1>3, <1>4, <2>2, UnlinkList DEF Linked
  <2>4. PendingWrites(t)'
    BY <1>2, <2>1, <2>3 DEF PendingWrites, HeadOnce
  <2> QED
    BY <1>1, <2>1, <2>4, OneInside DEF Inside, Outside
<1>7. CASE op[t] # "release"
  <2>1. /\ pc'[t] = "myrealloc" /\ previous' = [previous EXCEPT ![b] = Null]
        /\ next' = [next EXCEPT ![b] = Null]
    BY <1>7 DEF ReadLinks
  <2>2. [previous' EXCEPT ![b] = p] = previous /\ [next' EXCEPT ![b] = n] = next
    BY <1>3, <2>1
  <2>3. IsList(allocated, head, [previous' EXCEPT ![b] = p], [next' EXCEPT ![b] = n])
    BY <1>3, <2>2 DEF Linked
  <2>4. PendingWrites(t)'
    BY <1>2, <2>1, <2>3 DEF PendingWrites
  <2> QED
    BY <1>1, <2>1, <2>4, OneInside DEF Inside, Outside
<1> QED
  BY <1>6, <1>7

LEMMA ReallocMovesList ==
    ASSUME ListInv, NEW t \in Thread, NEW c \in Block, ReallocMoves(t, c)
    PROVE  ListInv'
<1> USE LockAssumption DEF LockAssumption, ListInv, Inv, TypeOK, Goto
<1>1. Next /\ Step(t)
  BY DEF Next, Step
<1> DEFINE b == block[t]
           p == before[t]
           n == after[t]
           P == [previous EXCEPT ![b] = p]
           N == [next EXCEPT ![b] = n]
<1>2. /\ pc[t] = "myrealloc" /\ pc'[t] = "relink_previous" /\ block'[t] = c /\ c \notin allocated
      /\ allocated' = (allocated \ {b}) \cup {c}
      /\ previous' = [previous EXCEPT ![c] = p] /\ next' = [next EXCEPT ![c] = n]
      /\ UNCHANGED <<head, before, after>>
  BY DEF ReallocMoves
<1>3. IsList(allocated, head, P, N)
  BY <1>2 DEF PendingWrites, Inside, Outside
<1>4. /\ b \in allocated /\ b \in Block /\ Null \notin allocated /\ ListHead \notin allocated \cup {c}
      /\ c # Null
  BY <1>2 DEF BlockInv
<1>5. P[b] = p /\ N[b] = n
  BY <1>4
<1>6. n # c /\ p # c
  <2>1. n \in allocated \cup {Null} /\ p \in allocated \cup {ListHead}
    BY <1>3, <1>4, <1>5 DEF IsList
  <2> QED
    BY <1>2, <1>4, <2>1
<1> DEFINE h2 == IF p = ListHead THEN c ELSE head
           P2 == [previous' EXCEPT ![n] = c]
           N2 == [next' EXCEPT ![p] = c]
<1>7. P2[c] = p /\ N2[c] = n
  BY <1>2, <1>6
<1>8. /\ \A a \in allocated \ {b} : P2[a] = IF a = n THEN c ELSE P[a]
      /\ \A a \in allocated \ {b} : N2[a] = IF a = p THEN c ELSE N[a]
  BY <1>2, <1>4
<1>9. IsList((allocated \cup {c}) \ {b}, h2, P2, N2)
  <2>1. c \notin allocated /\ h2 = IF P[b] = ListHead THEN c ELSE head
    BY <1>2, <1>5
  <2>2. P2[c] = P[b] /\ N2[c] = N[b]
    BY <1>5, <1>7
  <2>3. /\ \A a \in allocated \ {b} : P2[a] = IF a = N[b] THEN c ELSE P[a]
        /\ \A a \in allocated \ {b} : N2[a] = IF a = P[b] THEN c ELSE N[a]
    BY <1>5, <1>8
  <2> HIDE DEF h2, P2, N2, P, N, b, p, n
  <2> QED
    BY <1>3, <1>4, <2>1, <2>2, <2>3, ReplaceList
<1>10. (allocated \cup {c}) \ {b} = allocated'
  BY <1>2, <1>4
<1>11. PendingWrites(t)'
  BY <1>2, <1>9, <1>10 DEF PendingWrites, HeadOnce
<1> QED
  BY <1>1, <1>2, <1>11, OneInside DEF Inside, Outside

LEMMA SweepFreesList ==
    ASSUME ListInv, NEW t \in Thread, SweepFrees(t)
    PROVE  ListInv'
<1> USE LockAssumption DEF LockAssumption, ListInv, Inv, TypeOK, Goto
<1>1. Next /\ Step(t)
  BY DEF Next, Step
<1> DEFINE b == after[t]
           n == next[b]
<1>2. /\ pc[t] = "sweep" /\ pc'[t] = "sweep" /\ b # Null
      /\ allocated' = allocated \ {b} /\ after'[t] = n /\ before'[t] = before[t]
      /\ head' = IF head = b THEN n ELSE head
  BY DEF SweepFrees
<1>3. Linked /\ b \in allocated /\ previous[b] = before[t]
  BY <1>2 DEF PendingWrites, Inside, Outside
<1>4. Null \notin allocated /\ ListHead \notin allocated /\ b \in Block
  BY <1>2, <1>3
<1>5. n # b /\ previous[b] # b
  <2>1. n # b
    BY <1>3, <1>4, NoSelfLink DEF Linked
  <2> QED
    BY <1>3, <1>4, <2>1 DEF Linked, IsList
<1>6. /\ head = b <=> previous[b] = ListHead
      /\ n \in allocated \cup {Null}
      /\ previous[b] \in allocated \cup {ListHead}
  BY <1>3, <1>4 DEF Linked, IsList
<1>7. /\ \A a \in allocated \ {b} : previous'[a] = IF a = n THEN previous[b] ELSE previous[a]
      /\ \A a \in allocated \ {b} : next'[a] = IF a = previous[b] THEN n ELSE next[a]
  <2>1. allocated \subseteq Block
    OBVIOUS
  <2> QED
    BY <1>3, <1>4, <1>6, <2>1 DEF SweepFrees
<1>8. Linked'
  BY <1>2, <1>3, <1>4, <1>6, <1>7, UnlinkList DEF Linked
<1>9. /\ n \in allocated' \cup {Null} /\ before[t] \in allocated' \cup {ListHead}
      /\ n # Null => previous'[n] = before[t]
  BY <1>2, <1>3, <1>5, <1>6, <1>7
<1>10. PendingWrites(t)'
  BY <1>2, <1>8, <1>9 DEF PendingWrites
<1> QED
  BY <1>1, <1>2, <1>10, OneInside DEF Inside, Outside

-----------------------------------------------------------------------------
(* Steps that do one of the pending writes.                                *)

LEMMA LinkStepsList ==
    ASSUME ListInv, NEW t \in Thread, LinkNew(t) \/ LinkHead(t) \/ SetHead(t)
    PROVE  ListInv'
<1> USE DEF ListInv, Inv, TypeOK, Goto
<1>1. Next /\ Step(t)
  BY DEF Next, Step
<1>2. PendingWrites(t) /\ block' = block
  BY DEF LinkNew, LinkHead, SetHead, locals, Inside, Outside
<1>3. CASE LinkNew(t)
  <2>1. /\ pc[t] = "link_new" /\ pc'[t] = "link_head" /\ UNCHANGED <<allocated, head>>
        /\ previous' = [previous EXCEPT ![block[t]] = ListHead]
        /\ next' = [next EXCEPT ![block[t]] = head]
    BY <1>3 DEF LinkNew
  <2>2. [previous EXCEPT ![block[t]] = ListHead, ![head] = block[t]] = [previous' EXCEPT ![head] = block[t]]
    BY <2>1
  <2>3. PendingWrites(t)'
    BY <1>2, <2>1, <2>2 DEF PendingWrites
  <2> QED
    BY <1>1, <2>1, <2>3, OneInside DEF Inside, Outside
<1>4. CASE LinkHead(t)
  <2>1. /\ pc[t] = "link_head" /\ pc'[t] = "set_head" /\ UNCHANGED <<allocated, head, next>>
        /\ previous' = [previous EXCEPT ![head] = block[t]]
    BY <1>4 DEF LinkHead
  <2>2. PendingWrites(t)'
    BY <1>2, <2>1 DEF PendingWrites
  <2> QED
    BY <1>1, <2>1, <2>2, OneInside DEF Inside, Outside
<1>5. CASE SetHead(t)
  <2>1. /\ pc[t] = "set_head" /\ pc'[t] = "sem_post" /\ UNCHANGED <<allocated, previous, next>>
        /\ head' = block[t]
    BY <1>5 DEF SetHead
  <2>2. PendingWrites(t)'
    BY <1>2, <2>1 DEF PendingWrites, Linked
  <2> QED
    BY <1>1, <2>1, <2>2, OneInside DEF Inside, Outside
<1> QED
  BY <1>3, <1>4, <1>5

LEMMA NoSuchField == \A f, D, R, x, y : f \in [D -> R] /\ x \notin D => [f EXCEPT ![x] = y] = f
OBVIOUS

(* Writing the successor of the block before t's.                          *)
LEMMA SuccessorWritten ==
    ASSUME TypeOK, NEW t \in Thread, NEW c, SetSuccessor(t, c), ListHead \notin Block
    PROVE  head' = HeadOnce(t, c) /\ next' = [next EXCEPT ![before[t]] = c]
<1>1. CASE before[t] = ListHead
  BY <1>1, NoSuchField DEF SetSuccessor, HeadOnce, TypeOK
<1>2. CASE before[t] # ListHead
  BY <1>2 DEF SetSuccessor, HeadOnce
<1> QED
  BY <1>1, <1>2

LEMMA UnlinkStepsList ==
    ASSUME ListInv, NEW t \in Thread, UnlinkPrevious(t) \/ UnlinkNext(t) \/ Free(t)
    PROVE  ListInv'
<1> USE LockAssumption DEF LockAssumption, ListInv, Inv, TypeOK, Goto
<1>1. Next /\ Step(t)
  BY DEF Next, Step
<1>2. PendingWrites(t) /\ UNCHANGED <<block, before, after>>
  BY DEF UnlinkPrevious, UnlinkNext, Free, locals, Inside, Outside
<1>3. CASE UnlinkPrevious(t)
  <2>1. /\ pc[t] = "unlink_previous" /\ pc'[t] = "unlink_next" /\ UNCHANGED <<allocated, previous>>
        /\ head' = HeadOnce(t, after[t]) /\ next' = [next EXCEPT ![before[t]] = after[t]]
    BY <1>3, SuccessorWritten DEF UnlinkPrevious
  <2>2. PendingWrites(t)'
    BY <1>2, <2>1 DEF PendingWrites
  <2> QED
    BY <1>1, <2>1, <2>2, OneInside DEF Inside, Outside
<1>4. CASE UnlinkNext(t)
  <2>1. /\ pc[t] = "unlink_next" /\ pc'[t] = "free" /\ UNCHANGED <<allocated, head, next>>
        /\ previous' = [previous EXCEPT ![after[t]] = before[t]]
    BY <1>4 DEF UnlinkNext
  <2>2. PendingWrites(t)'
    BY <1>2, <2>1 DEF PendingWrites
  <2> QED
    BY <1>1, <2>1, <2>2, OneInside DEF Inside, Outside
<1>5. CASE Free(t)
  <2>1. /\ pc[t] = "free" /\ pc'[t] = "sem_post" /\ head' = head
        /\ allocated' = allocated \ {block[t]}
        /\ previous' = [previous EXCEPT ![block[t]] = Null]
        /\ next' = [next EXCEPT ![block[t]] = Null]
    BY <1>5 DEF Free
  <2>2. IsList(allocated \ {block[t]}, head, previous, next)
    BY <1>2, <2>1 DEF PendingWrites
  <2>3. \A a \in allocated \ {block[t]} : previous'[a] = previous[a] /\ next'[a] = next[a]
    BY <2>1
  <2>4. Linked'
    BY <2>1, <2>2, <2>3, SameLinks DEF Linked
  <2>5. PendingWrites(t)'
    BY <2>1, <2>4 DEF PendingWrites
  <2> QED
    BY <1>1, <2>1, <2>5, OneInside DEF Inside, Outside
<1> QED
  BY <1>3, <1>4, <1>5

LEMMA RelinkStepsList ==
    ASSUME ListInv, NEW t \in Thread, ReallocStays(t) \/ RelinkPrevious(t) \/ RelinkNext(t)
    PROVE  ListInv'
<1> USE LockAssumption DEF LockAssumption, ListInv, Inv, TypeOK, Goto
<1>1. Next /\ Step(t)
  BY DEF Next, Step
<1>2. PendingWrites(t) /\ UNCHANGED <<block, before, after>>
  BY DEF ReallocStays, RelinkPrevious, RelinkNext, locals, Inside, Outside
<1>3. CASE ReallocStays(t)
  <2>1. /\ pc[t] = "myrealloc" /\ pc'[t] = "sem_post" /\ UNCHANGED <<allocated, head>>
        /\ previous' = [previous EXCEPT ![block[t]] = before[t]]
        /\ next' = [next EXCEPT ![block[t]] = after[t]]
    BY <1>3 DEF ReallocStays
  <2>2. PendingWrites(t)'
    BY <1>2, <2>1 DEF PendingWrites, Linked
  <2> QED
    BY <1>1, <2>1, <2>2, OneInside DEF Inside, Outside
<1>4. CASE RelinkPrevious(t)
  <2>1. /\ pc[t] = "relink_previous" /\ pc'[t] = "relink_next" /\ UNCHANGED <<allocated, previous>>
        /\ head' = HeadOnce(t, block[t]) /\ next' = [next EXCEPT ![before[t]] = block[t]]
    BY <1>4, SuccessorWritten DEF RelinkPrevious
  <2>2. PendingWrites(t)'
    BY <1>2, <2>1 DEF PendingWrites
  <2> QED
    BY <1>1, <2>1, <2>2, OneInside DEF Inside, Outside
<1>5. CASE RelinkNext(t)
  <2>1. /\ pc[t] = "relink_next" /\ pc'[t] = "sem_post" /\ UNCHANGED <<allocated, head, next>>
        /\ previous' = [previous EXCEPT ![after[t]] = block[t]]
    BY <1>5 DEF RelinkNext
  <2>2. PendingWrites(t)'
    BY <1>2, <2>1 DEF PendingWrites, Linked
  <2> QED
    BY <1>1, <2>1, <2>2, OneInside DEF Inside, Outside
<1> QED
  BY <1>3, <1>4, <1>5

-----------------------------------------------------------------------------

(* gc_init and the start of a call leave the list, and the threads that    *)
(* are inside, alone.                                                      *)
LEMMA OutsideStepsList ==
    ASSUME ListInv,
           \/ gc_init
           \/ \E t \in Thread, o \in Op, b \in Block \cup {Null} : Call(t, o, b)
    PROVE  ListInv'
<1>1. Next
  BY DEF Next
<1>2. Inv' /\ BlockInv'
  BY <1>1, NextInv, NextBlockInv DEF ListInv
<1>3. UNCHANGED list /\ Linked' = Linked
  BY SameLinked DEF gc_init, Call
<1>4. \A t \in Thread : Inside(t)' <=> Inside(t)
  BY DEF gc_init, Call, Goto, Inside, Outside, ListInv, Inv, TypeOK
<1>5. ASSUME NEW t \in Thread, Inside(t) PROVE PendingWrites(t)'
  <2>1. pc'[t] = pc[t] /\ block'[t] = block[t] /\ before'[t] = before[t] /\ after'[t] = after[t]
    BY <1>5 DEF gc_init, Call, Goto, locals, Inside, Outside, ListInv, Inv, TypeOK
  <2>2. \A c : HeadOnce(t, c)' = HeadOnce(t, c)
    BY <1>3, <2>1 DEF HeadOnce, list
  <2>3. PendingWrites(t)
    BY <1>5 DEF ListInv
  <2> QED
    BY <1>3, <2>1, <2>2, <2>3 DEF PendingWrites, HeadOnce, list
<1> QED
  BY <1>2, <1>3, <1>4, <1>5 DEF ListInv

LEMMA NextListInv == ListInv /\ [Next]_vars => ListInv'
<1> SUFFICES ASSUME ListInv, [Next]_vars PROVE ListInv'
  OBVIOUS
<1>1. ASSUME NEW t \in Thread, Step(t) PROVE ListInv'
  <2>1. sem_wait(t) \/ sem_post(t) \/ MallocFails(t) => ListInv'
    BY EnterLeaveList
  <2>2. BelowThreshold(t) \/ AboveThreshold(t) \/ SweepKeeps(t) \/ SweepEnds(t) => ListInv'
    BY SweepStepsList
  <2>3. \A b \in Block : MallocSucceeds(t, b) \/ ReallocMoves(t, b) => ListInv'
    BY MallocSucceedsList, ReallocMovesList
  <2>4. ReadLinks(t) \/ SweepFrees(t) => ListInv'
    BY ReadLinksList, SweepFreesList
  <2>5. LinkNew(t) \/ LinkHead(t) \/ SetHead(t) => ListInv'
    BY LinkStepsList
  <2>6. UnlinkPrevious(t) \/ UnlinkNext(t) \/ Free(t) => ListInv'
    BY UnlinkStepsList
  <2>7. ReallocStays(t) \/ RelinkPrevious(t) \/ RelinkNext(t) => ListInv'
    BY RelinkStepsList
  <2> HIDE DEF ListInv
  <2> QED
    BY <1>1, <2>1, <2>2, <2>3, <2>4, <2>5, <2>6, <2>7 DEF Step
<1>2. CASE UNCHANGED vars
  BY <1>2 DEF vars, list, locals, ListInv, Inv, TypeOK, LockInv, BlockInv, Inside, PendingWrites,
     HeadOnce, Linked
<1> QED
  BY <1>1, <1>2, OutsideStepsList DEF Next

(* gc.c:48 with several threads: each call may be interrupted after every  *)
(* read and write of the list, and collections run in the middle of calls; *)
(* when no thread is inside, the list is whole and holds every block.      *)
THEOREM ListStaysIntact == Spec => []ListIntact
<1>1. ListInv => ListIntact
  BY DEF ListInv, ListIntact, Linked, IsList, Holds
<1> QED
  BY <1>1, InitListInv, NextListInv, PTL DEF Spec

=============================================================================
