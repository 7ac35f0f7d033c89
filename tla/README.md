# Verification of precision-gc

precision-gc is a precise mark-sweep garbage collector for C. Programs allocate
with `gc_malloc` and `gc_realloc`; the collector learns the layout of each block
from liballocs, which records a run-time type (a *uniqtype*) for every
allocation; memory comes from a copy of dlmalloc that was changed so that it
decides when to collect and how fast the heap grows. This directory holds TLA+
models of that code, the TLC configurations that check them, and proofs for TLAPS.

`PROJECT.json` lists components, runs, mutants, hazards, findings and theorems,
and gives for each definition the lines of source it stands for.

## 1. Inventory

### Components, their state and their operations

| Component | Where | State | Operations |
|---|---|---|---|
| Collected heap | `gc.c` 34-125, 254-379 | `heap_list_head`; in each block, behind its user data, `PREVIOUS_POINTER` (bit 0 is the mark) and `NEXT_POINTER`; `bigallocs_list`; the frame of a running `gc_realloc` | `gc_malloc`, `gc_realloc` (null pointer, size 0, in place, moved, failed), `new_bigalloc` |
| Collector | `gc.c` 58-92, 381-635 | mark queue, root cursor, `previous`/`current` of the sweep | scan of registers, stack, `.data`, `.bss`; `mark_reachable_heap_objects`; `sweep`; `gc_collect` |
| Allocator lock | `gc.c` 41, 204-252 and the waits and posts of the two calls | `allocator_mutex` (a POSIX semaphore), `GC_initialised` | `gc_init`, `sem_wait`, `sem_post` |
| Precise search | `gc.c` 127-202 | C stack of the recursion | `process_heap_object_recursive` |
| Chunk heap | `dlmalloc.c` 780-2090, 2147-3772, 3820-3987 | headers and feet of chunks, small bins, tree bins, `dv`, `top`, list of segments, `footprint`, `release_checks` | `dlmalloc`, `dlfree`, `dlrealloc`, `dlrealloc_in_place`, `dlmemalign`, `dlindependent_calloc`, `dlindependent_comalloc`, `dlbulk_free`, `dlmalloc_trim`, statistics, checks of a DEBUG build |
| Tree bins | `dlmalloc.c` 941-983, 1414-1524, 2225-2373, 3054-3160 | the fields of `malloc_tree_chunk`, `treebins`, `treemap` | `insert_large_chunk`, `unlink_large_chunk`, `tmalloc_large`, `tmalloc_small` |
| Growth and trigger | `dlmalloc.c` 2618-2680, 3250-3313, 3426-3439, 3820-3911, 4002-4011 | `heap_size`, `allocated_since_last_GC`, `footprint`, `footprint_limit` | decide to collect or to grow, and by how much; count what every entry point hands out |
| Usable size hook | `mymalloc_usable_size.c` | `__mymalloc_lowest`, `__mymalloc_highest` | glue for liballocs |
| Tests and benchmarks | `unit_tester.c`, `GCBench.c`, `synth_mem_mine.c`, `boehm_tests/` | - | clients; `unit_tester.c` is a source of claims |

### How they interact

The program calls `gc_malloc`. It waits for the semaphore and calls `mymalloc`
(`dlmalloc` behind hooks that tell liballocs of each allocation). If no free
chunk will do, `dlmalloc` either calls `gc_collect` and starts again, or maps
more memory. A collection thus runs *inside* an allocation, with the semaphore
taken and with the caller's local variables on the very stack that is scanned.
`gc_collect` walks the list of blocks, asks liballocs for the type of every
candidate, and gives blocks back through `myfree` while `dlmalloc` is in the
middle of a call. `gc_realloc` takes the list pointers out of its block before
`myrealloc`, which may move the block, fail, or collect, and puts them back after.

The components share memory in ways no interface shows: the list pointers and
the mark bit lie in user blocks; the collector's own globals
(`heap_list_head`, `__mymalloc_lowest`, `__mymalloc_highest`) lie in the
sections it scans for roots, and one of them is left out on purpose.

### What is hard, and what makes each component correct

* **Collection inside a call.** The list must be whole, and every block the
  caller still needs must be reachable, at the point where `mymalloc` or
  `myrealloc` is called. Properties: no reachable block is freed, no
  unreachable one is kept, the list stays doubly linked, marks are clear between
  collections, the mark phase forgets nothing, every call returns.
* **Threads.** A semaphore guards the list, which a call reads and writes block
  by block. Properties: exclusion, an intact list whenever nobody
  is inside, the semaphore is given back.
* **Types.** Element addresses are computed from sizes of nested types.
  Properties: only pointer words are read, and all of them.
* **Chunks.** Each call cuts, joins and moves chunks between bins, `dv`, `top`
  and segments; the system may refuse to map or unmap and places segments where
  it likes. Properties: boundary tags agree, chunks tile the segments, each free
  chunk is found in exactly one place, nothing is lost, the statistics add up,
  the heap grows only when it must and then by enough, and no chunk of a small size is
  treated as a node of a tree.
* **Tries.** A large free chunk is found by the bits of its size, through links
  that insertion and removal rewrite, and by searches that compare unsigned
  differences. Properties: the shape, every chunk findable, best fit in the
  order of age.
* **Accounting.** A counter that five entry points change in different ways
  decides when to collect; sizes are computed modulo the word. Properties: the
  counter is never behind, overflow never yields a small block and never maps
  less than was asked for, the limit holds, a call ends although it retries
  after a collection.

There is no persistence and no messaging, hence no hazards of crash recovery or
delivery. The complete list is under `hazards` in `PROJECT.json`.

## 2. Modules

| Module | Kind | Models |
|---|---|---|
| `CollectedHeap` | abstract | what `gc.c` promises a program: blocks that disappear by themselves only when nothing leads to them |
| `GcHeap` | detailed | `gc.c` with one program thread; implements `CollectedHeap` |
| `MCGcHeap` | instance | small sets of blocks for `GcHeap` |
| `StructureLemmas` | proofs | what a doubly linked list keeps when a block is put in front or taken out; that functions which are defined by recursion exist and satisfy their equations |
| `GcHeapProofs` | proofs | types and the doubly linked list of `GcHeap`; marks, colours, safety and completeness of the sweep; that `GcHeap` implements `CollectedHeap` |
| `AllocatorLock` | detailed | `gc.c` with several threads, the list of blocks written block by block |
| `AllocatorLockProofs` | proofs | types, mutual exclusion, and the list under interleaving |
| `TypeScan` | detailed | `process_heap_object_recursive`, with a reference definition of the pointer words of a type |
| `MCTypeScan` | instance | all type tables of a bounded size |
| `TypeScanProofs` | proofs | what the search reads, for every type table |
| `BlockStore` | abstract | what `dlmalloc` promises: disjoint blocks in mapped memory, large enough and hardly larger, untouched by calls about others |
| `ChunkHeap` | detailed | `dlmalloc` as the Makefile builds it; implements `BlockStore` |
| `ChunkLemmas` | proofs | the heap of `ChunkHeap` as a set of chunks, and what the operators that cut, join, search, resize, divide, free and release do to it |
| `ChunkHeapProofs` | proofs | trimming, growth in each direction, every call of the program, and all that follows from the invariant |
| `LargeBins` | abstract | what the tree bins promise: queues by size, the best fitting size first |
| `TreeBin` | detailed | the bitwise tries of `dlmalloc`; implements `LargeBins` |
| `MCTreeBin` | instance | symmetry for `TreeBin` |
| `TreeBinProofs` | proofs | the bits of a size and the shape of the tries through insertion, removal and both searches; that `TreeBin` implements `LargeBins` |
| `HeapGrowth` | detailed | the counter, the trigger, the growth and the limit, in words of a bounded size |
| `HeapGrowthProofs` | proofs | the counter is never behind, growth is earned, what the checks of `sys_alloc` protect, sums and sizes of the blocks |

Operators with a suffix and a comment that begins with "Mutant" are not part of
the models. Each is a variant of the definition that follows it, with a bug that
could plausibly have been written; `PROJECT.json` says which property notices it.

### GcHeap

`pc` names the call or collection phase that executes; since the runtime runs in
the program's thread, there is one `pc`. The registers, the stack and the global
sections of the program are one sequence `root` of words. A block has `Fields`
pointer fields, the words that the precise search would read. `previous` is
`PREVIOUS_POINTER` without its low bit, which is membership in `mark`; `previous`
of a block that came from `mymalloc` directly is `Sentinel`, the value
0xcccccccccccccccc that the code tests for. The program copies, loads and stores
pointers it holds (`CopyRoot`, `Load`, `Store`).

An entry point is split where a collection can start: `CallMalloc` is
`gc_malloc` up to `mymalloc`, `MallocReturns` and `MallocFails` the rest;
`CallRealloc` is `gc_realloc` up to `myrealloc`, `ReallocInPlace`,
`ReallocMoves` and `ReallocFails` the rest; `ReallocToZero` frees. `Collect`
starts `gc_collect` from any of these places, at most once per call, as
`dlmalloc` resets its counter before it tries again. The frame of `gc_realloc`
(`frame`) keeps `PREVIOUS_POINTER` with the mark bit (`marked`), as the code does,
which uses it as an address without clearing the bit: such an address is neither
`&heap_list_head` nor a block (`Relinks`), so that the neighbour before is not
relinked and a word elsewhere is written. The thread is then `Astray`, and the
model has no further step. A collection takes one step
per scanned word, per queued object, per field and per swept block. The root
scan also reads the frame of `gc_realloc` (its locals are on the scanned stack)
and the two address globals of the hook, and leaves out `heap_list_head`.

`mymalloc` and `myrealloc` are a choice of a free block here; liballocs is
external: the allocations it reports are those in `allocated`, and a block lies
in the bigallocation `BigallocOf`, which the collector knows once `new_bigalloc`
has recorded it.

### AllocatorLock

Threads with local variables `block`, `before`, `after`. What a call does to both
links of its own block is one action (`LinkNew`, `ReadLinks`, `Free`), what it does
to a neighbour or to the head of the list is another (`LinkHead`, `SetHead`,
`UnlinkPrevious`, `RelinkNext` and so on), and `SweepFrees` takes one block off the
list. The program calls `gc_init` at most once, and perhaps never. Which blocks a
sweep keeps is left open, except that arguments of calls are kept. Only
`mymalloc` starts a collection here: a program that calls `gc_collect` itself
while other threads allocate takes no semaphore and is outside of the model.

### TypeScan

A type table is a sequence of types that refer to earlier ones: a base type, a
pointer, structures, unions, arrays. `stack` holds the activations of the
recursive function. `PointerWords` computes from the layout alone where pointers
lie, and `Flat` which objects have no array as a member or element.

### ChunkHeap

Addresses and sizes count units of 16 bytes and requests are padded sizes. `gm`
is the `malloc_state` together with the headers in memory; an operator named
like a function or macro of the code returns the state that function leaves, so
that an action (`Malloc`, `Free`, `Memalign`, `ReallocInPlace`, `ReallocMoves`,
`Trim`) is a whole call. Header bits and feet are stored and tested as the code
does, so that a wrong tag leads the model astray as it would the code; a header
swallowed by a larger chunk is forgotten. A tree bin is seen as the set of its
sizes with the chain of chunks of each size, which is what `LargeBins` promises
and `TreeBin` delivers.

`IndependentAlloc` is `ialloc`: one chunk is found and cut into parts by header
writes. `BulkFree` is `internal_bulk_free`, which joins a block with the next one
of the array if that follows in memory. `do_check_malloc_state` and what it calls
are the checks of a DEBUG build, and `mallinfo` is the walk behind the
statistics and behind `get_heap_size`.

`CALL_MMAP` may answer with any free range of pages or a failure. `Answers` says
for each segment whether the system takes it back (`munmap`), and for the end of
top (`mremap`, else `munmap`); each answer is for itself. The model follows the
flags of the Makefile: no `MORECORE`, thresholds for trimming and direct
mapping out of reach (so that a free releases segments but never trims top), no
locks, no footers, one global state.

`release_unused_segments` uses `unlink_large_chunk` and `insert_large_chunk` for
whatever chunk fills a segment. For a chunk of a small size these read and write
fields that the chunk does not have; `gm.astray` is then set, and no call follows.

A collection that `dlmalloc` starts is steps of its own, namely `Free`s before the
call. `ReallocMoves` therefore does not ask whether `try_realloc_chunk` fails now,
but only whether the block is too small: the code asked before the collection.

The sizes of the code are scaled: a chunk has at least 2 units (as in the code),
a segment record takes 3, the foot of top 5 (as in the code), and a tree chunk
has at least `MinLarge` units (16 in the code). `Granularity`, `Page`, `FSD` and
`MAX_RELEASE_CHECK_RATE` are constants.

### TreeBin

`node` holds the fields of each large free chunk: size, index, parent, two
children, and the ring (`fd`, `bk`) of the chunks of its size, of which just one
is in the tree. `Root` is the parent that a chunk at `treebins[i]` has: the code
stores the address of the bin. Sizes are words of `Width` bits and every
subtraction and shift is modulo the word, as in the code: the searches rely on
it, when `dvsize - nb` wraps around for a victim that is too small. A loop down
the tree is a path of nodes (`Path`, `Leftmost`, `RightmostLeaf`).

### HeapGrowth

The same calls as in `ChunkHeap`, but with totals instead of chunks: `used` is
the sum of the blocks in use, and whether a free chunk serves a request (`Found`)
is open as long as there is room for it. What is exact are the amounts:
`request2size`, `MAX_REQUEST`, the product of `calloc` and its overflow test, the
padding of `memalign`, `granularity_align`, the two sizes of `sys_alloc` (the one
that is checked and the one that is mapped), all modulo `WordSpan`; and what
each entry point adds to `allocated_since_last_GC`. A call is `pc` = "attempt"
until it is `Found`, `SysAllocGrows` or `SysAllocFails`; `StartCollection`,
`SweepFrees` and `EndCollection` are a `gc_collect` in between, after which it
begins again. A size to map that has wrapped around, or has no room for the foot
of top, makes `SysAllocGrows` go astray (`GoesAstray`): a chunk then reaches beyond
what was mapped. `used_at_GC` is a history variable.

## 3. Runs

Every property of a passing run has a mutant that violates it. `expect` is
"violation" where the run shows a disagreement between the code and what it or
its tests say (section 5).

| Run | Bounds | Question |
|---|---|---|
| `heap_collect` | 3 blocks, 2 bigallocations, 1 field, 2 root words; no collection inside `myrealloc` | Is a collection safe and complete, and is the list sound at each step? `SweepSafe`, `SweepComplete`, `MarksClear`, `TriColour`, `DoublyLinked`, and the refinement `HeapPromise` |
| `heap_returns` | 2 blocks, 1 field, 2 root words; no collection inside `myrealloc` | Does each call return, although it may collect and try again (`CallsReturn`)? |
| `heap_realloc_reachable` | as `heap_collect`, collections inside `myrealloc` | violation: `SweepSafe` |
| `lock_safety` | 2 threads, 3 blocks, calls may fail | `Exclusion` and `ListIntact` under every interleaving of the steps of two calls (one block of the list a step), and each call that has entered leaves (`CallsEnd`) |
| `lock_failed_malloc` | 1 thread, 1 block, calls may fail | violation: `MutexReleased` |
| `types_search` | all tables of 3 composed types | `ReadsOnlyPointers`, `FlatObjectsSearched`, `SearchEnds` |
| `types_nested_array` | all tables of 2 composed types | violation: `ObjectsSearched` |
| `chunks` | 36 units, pages of 6, up to 3 blocks of 2 or 5 units, alignment 4, `FSD` 1, arrays of 2 for `bulk_free` | the whole chunk heap: `StateChecked`, `Tiled`, `SegmentsKept`, `NothingLost`, `BulkIsEach`, `Accounted`, `GrowsForNeed`, `GrowthSuffices`, and the refinement `StoreKept` |
| `trees` | 5 chunks of 5 sizes and their remainders, words of 5 bits, 4 bins | the tries: `TreeIsTrie`, `Findable`, `VictimWeighed`, and the refinement `BinsKept` |
| `growth` | 2 blocks, words of 8 bits, units of granularity of 16, `FSD` 3, requests near 0 and near the end of the range | `BlocksCover`, `GrowthEarned`, `LimitNearlyKept`, `GrowthNoWrap`, `CallEnds` |
| `chunks_trimmed` | 72 units, 1 block of 2 or 22 units, `FSD` 3 | violation: `GrowthSuffices` |
| `chunks_small_release` | 96 units, up to 2 blocks of 2 or 5 units, `FSD` 3, only `malloc`, `realloc` and frees | violation: `ReleasedAreLarge` |

### Why the bounds are enough

*Heap.* Three blocks give a list with a first, a middle and a last block, the
removal of each while a marked neighbour stays, cycles of length 1 to 3, chains
in which a block is reachable only through another, and a move into a
bigallocation not known before. A second root word is needed for a program
that loses one pointer and keeps another, and to resize one block while another
is held. `heap_returns` has two blocks, enough for a cycle of objects that queue
each other and for a sweep that frees one and keeps one.

*Lock.* Two threads suffice to break an unprotected insertion, and to leave one
of them in the queue of the semaphore while the other changes places. A third
block gives an insertion or removal neighbours on both sides.

*Types.* Three composed types over a base and a pointer type allow a structure
in a structure in a structure, an array of structures, a union, and arrays in
each of these.

*Chunks.* With 36 units the heap has up to three segments, which are extended at
their end, extended at their start, added, trimmed, released, or refused. Sizes
2 and 5 lie on both sides of `MinLarge`, and their differences leave remainders
of 0, 1, 2 and more units, the cases a split tells apart. Every branch of each
operator is taken in this run. `MaxLive`, the number of blocks held at once,
bounds the calls that add blocks. `BulkFree` takes arrays of `MaxArray` blocks;
`BulkIsEach` is evaluated for arrays of up to three in every state.

`FSD` is 1 and `MinLarge` below `TopFoot` in `chunks`, so that a growth always has
room for the foot of top, and no segment is so short that its only chunk is
small. These are boundaries of what holds, not only of what is checked. In the
code `FSD` is 3 and `MIN_LARGE_SIZE` 16 units, and both fail, because
`dlmalloc.c:2676` replaces a size that was padded and rounded up to `Granularity` by
the share of the heap and the request. The share of a large heap covers what is
missing, but that of a small heap does not, and a heap becomes small by trimming
or by the release of older segments. Then `GrowthSuffices` fails
(`chunks_trimmed`); and a segment that was mapped for a small request can end up as
one free chunk below `MinLarge`, which `release_unused_segments` treats as a node of
a tree (`chunks_small_release`, with frees alone). The theorems of section 4 about
this module have both as hypotheses, that the share covers the foot and that no
small chunk is released so.

*Tries.* With five bits, the last bin holds the sizes from 12 on, among them 12,
18, 20 and 29, which part at the first, second or third bit, and remainders like 16;
what is cut off a larger chunk reaches the other bins. Five chunks allow a ring
of several and a subtree below it, so that the place of a removed node is taken
from the ring, by a leaf far below, or by its own child. `VictimSizes` has a victim
that is too small, one that fits some requests exactly and one that is larger
than most chunks.

*Growth.* One of the two requests is small, the other so large that its padding
wraps around once it is rounded or aligned; the factors 3 and 86 give products
that are small, too large, and that wrap around to a small number, also with
one factor below the bound from which the code tests for overflow.
`MaxFootprint` allows a heap of several steps of growth, `MaxCount` several
allocations, resizes and a collection in any order. The limit is absent, or less
than the heap can grow to. A heap whose share exceeds a unit of granularity
and the padding does not occur; for it `GrowthNoWrap` claims nothing, since the size
mapped can then wrap around (section 5).

Deadlock is checked in `heap_collect`, `heap_returns` and `growth`. It is not where
the system may stop: in `heap_realloc_reachable`, where a thread may go astray; in
the lock runs, after a failed `gc_malloc` has kept the semaphore; in `TypeScan`, when the search is over; in `ChunkHeap`, when a
program with no room left holds nothing that it could free; in `TreeBin`, where
the caller decides.

### Fairness

* `GcHeap`: weak fairness of `Collecting` and of `Leave`. The runtime executes on
  the program's own thread, and while a call runs nothing else can happen; so
  these say that the thread runs on. The program owes no step.
* `AllocatorLock`: weak fairness of each thread's `Step`. A thread inside a call
  keeps running; it owes no call, and nobody owes `gc_init`. The semaphore is not
  assumed to be fair, so that with several threads one of them may wait for ever;
  `CallsEnd` is about threads that have passed it.
* `HeapGrowth`: weak fairness of `Step`, what `dlmalloc` does in a call, on the
  program's own thread. The program owes no call.
* `TypeScan`: weak fairness of the function's next step.
* `ChunkHeap` and `TreeBin` have no liveness property.

## 4. Proofs

TLAPS proves these for every value of the constants that satisfies the module's
assumption.

**The collected heap**, under `HeapAssumption` (addresses are positive and below
`TopAddress`; the sentinels are not addresses).

* `GcHeapProofs!TypeCorrect`: `Spec => []TypeOK`. `TypeOK` is not inductive:
  `MarkObject` takes the head of the queue, and nothing in `TypeOK` says that
  there is one while fields are scanned. `TypeInv` adds `QueueInv`: the object
  that is searched stays at the front of the queue.
* `GcHeapProofs!ListStaysLinked`: `Spec => []DoublyLinked`, if `myrealloc` does not
  collect (`NoResizeCollects`). It rests on `ListLastsUnmarked`, which needs less:
  `Spec /\ []NoMarkLeft => []DoublyLinked`, where `NoMarkLeft` says that `gc_realloc` is
  never entered with a marked block. The hypothesis is needed: a collection
  inside `myrealloc` leaves marks, and a resize of a marked block breaks the list
  (section 5). `ListInv` adds what the links depend on. The frame of
  `gc_realloc` is in use while it executes and only then (`FrameInv`). Every
  collected block is in a known bigallocation (`KnownInv`), and what the root scan
  has passed is marked or queued (`RootsInv`). The sweep has passed the block
  before the current one, and will not unlink a block whose links `gc_realloc`
  keeps in its frame (`SweepInv`): these are roots, hence marked, or lie behind
  the point where the list is cut off. "On the list" would be an induction along
  `next`; `DoublyLinked` says instead that every set closed under `next` that holds
  the head is the whole list, and the lemmas of `StructureLemmas` carry this through
  insertion, removal and replacement by choosing a closed set. What the sweep has
  still to visit (`Ahead`) is the smallest set closed under `next` from `current`.
* `GcHeapProofs!NoMarkSurvives`, `NoChildForgotten`, `SweepFreesGarbage`,
  `SweepFreesAllGarbage` and `HeapIsAsPromised`: `[]MarksClear`, `[]TriColour`, `SweepSafe`, `SweepComplete` and
  the refinement `HeapPromise`, under `NoResizeCollects`. The hypothesis is that
  `ReallocMayCollect` is FALSE, and it is needed: the run `heap_realloc_reachable`
  shows a reachable block being freed without it (section 5). `CollectInv` says
  that marks lie ahead of the sweep (`MarkInv`); that children of marked blocks,
  and of the searched block up to the cursor, are known (`ColourInv`); that no
  pointer leads from the roots or a block that stays to one that is still to be
  taken back (`DoomedInv`); that what is known is reachable from what was scanned
  (`ScannedInv`); and that the program holds the block it resizes (`HeldInv`).
  When the mark phase ends, the marked blocks contain the roots and are closed
  under fields, so that what is not marked is not reachable: safety. What is
  marked was scanned or reached: completeness. For the refinement each action is
  a step of `CollectedHeap` or a stutter; `SweepUnmarked` is its `Collect`.

**The lock**, under `LockAssumption`.

* `AllocatorLockProofs!TypeCorrect` and `MutualExclusion`: `Spec => []TypeOK` and
  `Spec => []Exclusion`. A binary semaphore gives exclusion only if it is binary,
  and it stays binary only if no more threads post than have waited. `LockInv`
  ties the two together: a thread inside implies that the semaphore is 0 and
  initialised, two threads inside are the same, the semaphore is 0 before
  `gc_init`, and a call of `gc_realloc` has its block from the start. It holds
  with failing calls too; what they break is liveness.
* `AllocatorLockProofs!ListStaysIntact`: `Spec => []ListIntact`. In the middle of a
  call the list is not intact, so the invariant says what will make it so:
  `PendingWrites(t)` states, for each place in a call, that the list is doubly
  linked once the writes that thread `t` has still to do are done. A write then
  only moves from the pending ones to the state. A thread that is not inside
  writes nothing, and by `MutualExclusion` there is no other inside.

**The search**, under `TypeAssumption` (a type refers to types before it in the
table, and an array has an element type).

* `TypeScanProofs!TypeCorrect`, `PointersOnly`, `FlatSearched`: `Spec => []TypeOK`,
  `[]ReadsOnlyPointers`, `[]FlatObjectsSearched`, for tables of any size and depth.
  `StackInv` describes the activations: each stands behind the member that the
  next one searches. `WordsInv` says that an activation's words, shifted to its
  address, are words of the object; `PendingInv` that a word of a flat object has
  been read or lies before some activation. What these rest on is that
  `PointerWords` and `Flat`, functions defined by recursion over the table, satisfy
  their equations. `StructureLemmas` proves this for any such function: partial
  functions that satisfy the equation up to `n` exist and agree, by taking a
  smallest counterexample in a set of naturals. The function is a parameter of
  the module, since the provers cannot instantiate the library's induction
  theorems.

**Growth**, under `GrowthAssumption`.

* `HeapGrowthProofs!CounterNeverBehind` and `GrowthIsEarned`: `Spec =>
  []CounterAhead` and `Spec => GrowthEarned`. `GrowthInv` adds to the inequality
  what makes it inductive: the amounts are integers and the sizes natural
  numbers, and a call in progress has an unused block to return, so that what is
  handed out was not counted in `used` before. One lemma each covers the
  beginning of a call, a release, a return and a failure; `OnlySysAllocGrows`
  shows that the footprint grows in one action only, whose guard is that no
  collection is due.
* `HeapGrowthProofs!LimitIsNearlyKept` and `GrowthDoesNotWrap`: what the two checks
  of `sys_alloc`, made for the padded size, are worth for the size that is mapped.
  `PaddedSizeFits` shows that a padded size above the request has not wrapped
  around and lies a unit of granularity below the end of the range (which is a
  multiple of it), `GrowthSizeBounds` bounds the other size, and `WordInv` keeps
  requests and footprint in range. The assumption used here is that twice the
  granularity and padding is within a word: 64 KiB against 2^64.
* `HeapGrowthProofs!TotalsCorrect` and `BlocksAlwaysCover`: `Spec => []TypeOK` and
  `Spec => []BlocksCover`. That `used` does not fall below zero needs that it is
  the sum of all blocks, for any set of blocks. `SumsTo` says that there is an
  additive measure on sets of blocks with these sizes as its weights and `used`
  as its total; `SumAfter` changes one weight of it. `CallInv` says that a call
  keeps more than was asked for or looks for a chunk that cannot exist, which is
  what every overflow must lead to; `CallocCovers` is the argument for the product
  of `calloc`, whose test looks at the factors first.

**The chunk heap**, under `ChunkAssumption` (positive sizes, whole pages in a unit
of granularity, requests of at least a chunk, `MinLarge` above the smallest chunk
and within the space, and a granularity whose share covers the foot of top and a
large chunk).

The invariant, `Serving`, is `Serves(gm, live)`: nothing has been allocated yet, or
the heap is `Sound`, the chunks in use are the program's blocks and the records of
segments, and each block is as large as asked for and hardly larger. `Sound` is
what the code relies on without saying so, in four parts.

* `Layout`: no header lies inside of a chunk; behind each chunk other than top and
  the records comes another chunk, which knows whether the one before it is in use
  and, if not, its size; no two free chunks touch.
* `SegmentLayout`: segments lie apart, all headers lie in one, top ends the first
  with its foot and a record the others, and the footprint is what they cover.
* `Filed`: each bin holds just the free chunks of its size, each once, but for
  `dv` and top, and `dv` is a free chunk of size `dvsize`.
* `m.top # Null`: there is a top.

The arguments, in the order of the modules:

* Whatever cuts, joins, takes or gives back chunks changes one region of the heap,
  from a chunk `lo` to a unit `hi` where another begins, into one chunk or two.
  `Retiled`, `Fits` and `Refiled` say what such a step writes, and
  `ReshapeSound` that it keeps the heap sound, from `RetileLayout`,
  `RetileSegments` and `RetileFiled`. Then each operator is shown to be of that
  form, case by case of the code: `FindMemoryServes`, `DisposeFrees` (joined with
  the chunk before, the one behind, `dv` or top), `ReallocResizes`, `AlignedPlaces`,
  and by induction over an array or a list of sizes `PartedDivides` and
  `BulkFrees`. `StructureLemmas` gives the functions these folds are.
* What changes segments is a form of its own. Top moves its end (`TopGrows`,
  `TopShrinks`); a segment goes, with the one chunk that fills it, while
  `release_unused_segments` is a fold over segments (`ReleaseAllKeeps`); memory
  before a segment becomes a chunk of it, so that `prepend_alloc` does what the
  disposal of the rest would do (`PrependGrows`); a new segment takes over as the
  first, with the end of the old top as the record (`SegmentAdded`); and the first
  growth makes a heap from nothing. `GrowthServes` takes the branches of
  `sys_alloc` together, `TrimKeeps` and `FreeReturns` those of `sys_trim` and
  `myfree`, `DlmallocServes` search and growth. `ReleaseAllKeeps` and what rests on it
  hold for any answers of the system, one for each segment, provided that no
  chunk of a small size is unlinked from, or put back into, a tree.
* `RoomySegmentsRelease` says when that is so: a release treats tree chunks only,
  if each segment but the first has room for a tree chunk and the foot of top
  (21 units). The segments of an unchanged dlmalloc, which are multiples of
  `Granularity`, have; those of line 2676 need not.
* `ServesOn` states what a call owes, and there is one lemma for each call of the
  program (`MallocStep` to `TrimStep`); `HeapServes` is `[]Serving`.
* `ChunkTypes`, `ChunksTile`, `NothingIsLost` and `SegmentsHold` (`TypeOK`, `Tiled`,
  `NothingLost`, `SegmentsKept`) read off the invariant. For the last, the fold
  over segments is a cardinality: a fold that adds the sizes of disjoint sets
  is the size of their union (`WeightsSum`), since an additive function and the
  fold satisfy the same equation, which has one solution.
* `StateIsChecked` (`StateChecked`) is about the assertions of a build with DEBUG.
  `WalkIs` shows that the walk over the segments, a recursive function of an
  address, finds each chunk but top, once, by the distance to the end of the space;
  `ArenaFits` that all chunks with the foot of top are within the footprint.
  `StatisticsAddUp` (`Accounted`) gives each mapped unit to the last chunk
  before it in its segment (`Owner`): top with its foot, a free chunk, a block, or
  a record with the rest of its segment. The four classes add up to the footprint.
* `GrowthIsNeeded` and `GrowthIsEnough` (`GrowsForNeed`, `GrowthSuffices`) follow from
  what the search finds and what a growth serves.
* `HeapImplementsStore` (`StoreKept`): blocks do not overlap because chunks do not,
  and lie in mapped memory because segments cover chunks; each call is a step of
  `BlockStore` because it leaves the chunks of other blocks where they are.

All of these theorems about `Spec` have two hypotheses. `[]ShareCoversFoot`:
`footprint \div FSD` stays at least the foot of top. `[]ReleasedAreLarge`: no
release treats a small chunk as a node of a tree. Neither can be dropped. With
`FSD` 3 the footprint can be trimmed until its share is less; what is mapped next
then has no room for the foot and the request, and top is empty or too small
(`chunks_trimmed`, section 5). And a segment mapped by such a share can be
released as a small chunk (`chunks_small_release`), with which the code corrupts
its bins; what the heap is from there on the theorems do not say. With
`FSD` 1 the second hypothesis implies the first, for every other constant:
`WholeShareCovers`. In the run `chunks` both hold in every state. The lemmas about
single operators do without the first, but for `GrowthServes` and
`DlmallocServes`, which assume it of the one state, and without the second, but for
those that release segments.

**The tries**, under `TreeAssumption`: an even number of bins, and words that are
wider than an `unsigned int` but not by more than `TREEBIN_SHIFT`, so that
`compute_tree_index` loses no bit of a size (below 2^40 bytes). Chunks may be any
set, and requests and sizes of the victim any words.

The invariant is `IInv`: there are queues `q`, a sequence of chunks for each size,
and places `at`, a depth for each chunk, such that the state is `Good`. Neither is
stored by the code, which only has the links that they explain:

* `Ringed`: the queue of a size is its ring, from the chunk in the tree along `bk`;
  `fd` is the inverse; just the first has a parent; no chunk is in two queues.
* `Trie`: a root is where the bin of its size has it; any other chunk of a tree is
  `Placed`: one step below its parent, in the child slot that the next bit of its
  size names, and with the bits that led to the parent (`Agree`). Children agree
  with parents, and depths are bounded.
* The index stored in a chunk is that of its size, and `treemap` the bins in use.

`TypeOK`, `TreeIsTrie` and `Findable` are not inductive by themselves: that the
subtrees of a chunk can be ordered, or that a search finds a size, follows from
the bits of all chunks above it, and removal preserves these only because the leaf
that moves up comes from below the chunk that it replaces.

* Bits. The backends know nothing of powers of two, so `Two` is a recursive
  function, whose equations `StructureLemmas` gives, and quotients and remainders
  are handled by their bounds. `IndexFacts` shows that a size lies in the range of
  its index; `Key(s, d)` is the word of `s` after `d` steps down and `Bit(s, d)` the bit
  on top of it; sizes of one bin are ordered as their words, and two sizes with the
  same first bits as the next bit says (`KeysAgree`).
* Walks. A way down a tree is a recursive function of the node that it has reached,
  whose rank is the distance to the greatest depth; so `Path`, `Leftmost` and
  `RightmostLeaf` are defined and end where the code's loops do. `Searches` says
  what the way down for a size passes, and `SearchFinds` that it ends at a chunk of
  the size if there is one.
* Insertion. It ends at a free slot, where the chunk becomes a leaf (`AddLeaf`), or at
  a chunk of its size, whose ring it joins as the last (`RingsWith`): `InsertGood`.
* Removal. The place of the chunk is taken by the next of its ring, by a leaf from
  below it, or by nothing. `Replaced` describes what the writes of the code amount
  to, and `Replaces` and `DropLeaf` that a trie remains; a ring without one chunk is
  the ring of the rest.
* Searches. `BestFitIs`: what `tmalloc_large` finds is a chunk of the smallest size
  that is enough. The argument follows the code: on the way down for the request
  each fitting chunk is passed, or is in the last right subtree not taken, or in a
  tree of a larger index; and the leftmost way through a subtree passes its smallest
  chunk. `SmallestLargeIs` is the same for `tmalloc_small`. The unsigned comparison
  with `dvsize - nb` is case by case: a victim that is too small makes the
  difference larger than any fit.

`TreeBinProofs!Invariant` is `[]IInv`; `TypesHold`, `TreesAreTries` and `AllFound`
(`TypeOK`, `TreeIsTrie`, `Findable`) read off it; `VictimsWeighed` (`VictimWeighed`)
adds the searches; and `Refinement` is `Spec => BinsKept`: the queues read off the
rings by `Ring` are those of the invariant, and each step is one of `LargeBins`, which
takes the oldest chunk of the smallest fitting size. With `HeapImplementsStore`
this closes the chain from the fields of the nodes to the blocks of the program,
but for one link that is not stated as a theorem: `ChunkHeap` has its large bins
written into its operators, as `LargeBins` describes them, and does not instantiate
that module.

Only model-checked: all liveness (`CallsReturn`, `CallsEnd`, `SearchEnds`, `CallEnds`:
fairness and ENABLED are beyond the prover). Of `ChunkHeap`, `BulkIsEach`, which
compares two folds state by state, bins and stale headers included, while
`BulkFrees` shows of one what it leaves.

## 5. Where the code disagrees with its claims

1. `gc_realloc` clears `NEXT_POINTER` of its block before `myrealloc`. A
   collection inside it stops its sweep there and leaves marks on what follows;
   the next collection takes these for searched and frees what only they lead to
   (`gc.c:336`; run `heap_realloc_reachable`).
2. `gc_malloc` returns without `sem_post` when memory is exhausted (`gc.c:286`;
   run `lock_failed_malloc`), which the unit test provokes and then goes on.
3. A member or element that is an array is not searched (`gc.c:197`; run
   `types_nested_array`).
4. The growth of an initialised heap leaves out the padding that the comment
   twenty lines below, and the name `SYS_ALLOC_PADDING`, say is there
   (`dlmalloc.c:2676`; run `chunks_trimmed`).
5. `release_unused_segments` unlinks the chunk that fills a segment from a tree,
   whatever its size. Line 2676 maps segments whose only chunk is small, and a
   program that does nothing but allocate and free reaches the release of one
   (`dlmalloc.c:2890`; run `chunks_small_release`).

Met while modelling, without a run of their own:

* `gc_realloc` clears the block that `myrealloc` returned, so the contents it
  was to keep are lost (`gc.c:349`). `ReallocInPlace` and `ReallocMoves` do so too.
* `gc_realloc` takes `PREVIOUS_POINTER` of its block, with the mark bit in it, for the
  address of the block before (`gc.c:317-325`, `362-366`). A block that kept its mark
  because of 1 is then freed or moved without being unlinked, and a word beside
  the block before is overwritten. With `ReallocMayCollect = TRUE` in
  `heap_collect.cfg`, TLC finds `DoublyLinked` violated: `gc_realloc` fails after a
  collection that left its block marked, and `gc_realloc(ptr, 0)` of that block leaves
  the list with a pointer to it.
* The check for wrap-around at `dlmalloc.c:2663` comes before `asize` is computed
  again; once the share of the heap exceeds a unit of granularity and the
  padding, a request near the end of the range wraps around there, and less is
  mapped than was asked for (`dlmalloc.c:2676`). With `MaxFootprint = 112` and a
  request of 226 in `growth.cfg`, TLC has a heap of 98 words grow by 6 for a chunk
  of 228 (`GoesAstray`). `GrowthNoWrap` states what holds.
* The unit test never calls `gc_init`, without which the first `gc_malloc` waits
  on a semaphore that is 0 from static initialisation.
* The footprint limit is compared with the padded request (`dlmalloc.c:2667`), and
  then `heap_size / FSD` more may be mapped, beyond the "maximum number of bytes to
  obtain from the system" of `dlmalloc.h:1003`. `LimitNearlyKept` states what holds.
* `dlmalloc_set_footprint_limit(0)` computes the smallest limit and then
  overwrites it (`dlmalloc.c:4002-4011`), so that 0 takes the limit away, although
  `dlmalloc.h:1008-1010` says that an argument up to the present footprint makes
  all further growth fail.
* From 2^40 bytes on, `compute_tree_index` drops high bits of a size (it shifts
  into an `unsigned int`); `TreeAssumption` excludes such sizes.

Because of 1, `heap_collect` and `heap_returns` exclude collections inside
`myrealloc`. With them a sweep frees reachable blocks (`heap_realloc_reachable`), and
the list does not survive a resize that follows.

## 6. Not modelled

* liballocs and libdlbind, external: modelled by what `gc.c` relies on. The
  error path of `__liballocs_get_alloc_info` in the search is an assertion.
* The stacks and registers of threads other than the collecting one. The code
  neither stops nor scans them; `GcHeap` is about a program of one thread, and
  `AllocatorLock` about the lock alone.
* What the compiler does with registers before they are scanned.
* `mspace`s, dlmalloc's locks and footers, direct mapping of large requests,
  `MORECORE`: not compiled, or unreachable with the flags of the Makefile.
* `malloc_inspect_all`, which is not compiled, and `mallopt`, which could bring
  the thresholds for trimming and direct mapping into reach: nothing in the
  repository calls it.
* The wrap-around of sums in `ialloc`, which the code does not check; its callers
  are outside of the repository.
* The corruption checks of dlmalloc, which abort: `StateChecked` and `Tiled` say
  that they have nothing to find.
* Tests and benchmarks.

## 7. Plan

Done: the collector and its list, the lock, the precise search, the chunk heap
with all calls the Makefile's configuration has, the tries, the growth and the
trigger; and proofs of every safety property and refinement that passing runs
check, but for `BulkIsEach`. What is left:

1. `BulkIsEach` as an equality of states.
2. The hypothesis `[]ReleasedAreLarge` from the sizes of segments, by carrying
   `RoomySegmentsRelease` through the calls.
3. A composition of `GcHeap` and `HeapGrowth`, in which the trigger replaces the
   choice that `Collect` makes.
