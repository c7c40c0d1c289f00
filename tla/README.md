# Wait-free breadth-first search: models and proofs

This directory holds TLA+ models of the searches in this repository, TLC
configurations that check them on small instances, and TLAPS proofs for every
instance. The paper (`Paper/sections`) argues the same properties in prose; the
models follow the code, and where both say something they can be compared.

## The system

| Part | Code | State it keeps | Operations |
|---|---|---|---|
| Top-down search | `WF_BFS/wf-bfs.cpp` | `dist`, `vis`; a linked list of nodes, each with one bucket, `done` flag and `last_done` per thread | `wf_bfs` with `process_own_bucket`, `process_other_bucket`, `process_neighbors`, `discover_vertex`, `customList::push_back`; `init_and_start_threads`, `clean_up`, `main` |
| CSR search | `WF_BFS/wf-bfs-csr.cpp` | the same, in per-thread arenas; the counters of `search_control` | the same, and `search_thread`, `run_searches`, `reset_share`, `add_node` with a spare level |
| Variants of the top-down search | `WF_BFS/wf-atomic.cpp`, `wf-th-fail.cpp`, `wf-th-delay.cpp` | buckets on atomics; buckets that are plain vectors | failing and delayed threads |
| Direction-optimizing search | `WF_DO_BFS/wf-dir.cpp` (`wf-dir-mo.cpp`) | adds `plan_owner` and proposals per node, frontier codes `dist8`, block stamps `helped_at` | `plan_level`, `top_down_level`, `write_frontier_codes`, `bottom_up_level`, `scan_block` |
| Two-node search | `WF_DO_BFS/wf-dir-mem.cpp` | the same in two nodes that are reused; `plan_word` | the same, and catching up with a node that has moved on |
| First direction-optimizing search | `WF_DO_BFS/wf-dir-2.cpp` | `vis`, `vis_forw` as level numbers, frontier counts | `populate_forward`, `fetch_from_back` |
| Blocking searches | `Locking_BFS/*.cpp` | a queue and a semaphore; OpenMP locks and barriers | `lock_bfs`, `BFS_parallel_frontier_expansion` |
| Sequential search | `BFS/seq-bfs.cpp` | `dist` and a queue | `bfs` |
| Loading and output | `Graph_helpers/graph_reader.hpp` | edge list, `offsets`, `adj` | `run_on_threads`, `parse_edges`, `build_csr`, `write_distances` |
| CPU selection | `CPU_helpers/cpu_affinity.hpp` | the CPUs it was first allowed | `select_idle_cpus`, `pin_current_thread`, `parse_thread_counts` |
| GAPBS baseline | `DO_BFS/dir-bfs.cpp` | `SlidingQueue`, two bitmaps, the counts of the direction rule | `DOBFS` with `TDStep`, `BUStep`, `QueueToBitmap`, `BitmapToQueue` |
| Stall points | `Benchmark/stall.hpp` | the last round of a thread | `wait_if_stalled` |
| Other baselines | `DO_BFS/dir-bfs-seq.cpp`, `GBBS_BFS`, `PASGAL_BFS` | | derived from GAPBS, GBBS and PASGAL |

How they interact: a program reads a graph, starts `num_t` threads, and runs the
same search a number of times on the same `dist` and `vis`. Inside a search the
threads share memory only, with no lock: `dist`, `vis`, the nodes, the buckets.
The main thread waits for all of them, resets or frees what the search used, and
writes `dist`. In the CSR programs the threads live on between searches and meet
the main thread at counters and a condition variable.

What is hard: every write that lets others skip work (`vis`, `last_done`, `done`,
a size of 0, a null `next`, block stamps, codes) races with threads that are
stalled anywhere, possibly levels behind, and that keep writing when they go on.

What makes each part correct:

- *wait-free searches*: when the first call returns, `dist` holds the distances;
  no vertex is lost however the threads skip each other's work; a stalled or
  stopped thread delays nobody; memory stays bounded.
- *multi-search protocol*: no thread searches before everything is reset, and
  nothing is freed while a thread may read it; every search is reported.
- *direction-optimizing searches*: all threads expand a level the same way, the
  frontier test is right in the codes' limited range, a reused node is never
  mistaken for the level it held before.
- *blocking searches*: no vertex is lost, nobody waits for ever at a barrier, and with
  barriers the distances are right.
- *loading*: every line of the file belongs to one thread, every list to one owner; an
  error in any thread is reported, and no thread outlives the call.
- *CPU selection*: every thread gets a CPU of its own, also when the thread that asks has
  been pinned in the meantime.

## Modules

| Module | What it is |
|---|---|
| `BfsGraph` | the graph, the source and the true distances `Delta`, as parameters with assumptions |
| `BfsGraphProofs` | facts about graphs, distances, numbers and sequences that the proofs share |
| `LevelOrderBfs` | abstract specification: what a search promises, whatever its threads do |
| `WaitFreeBfs` | the search of `wf-bfs.cpp`, and its properties |
| `WaitFreeBfsInv` | its inductive invariant |
| `WaitFreeBfsProofs` | proofs about it: control state, then distances, marks, buckets and the refinement |
| `AppendLog` | abstract specification of a bucket: a list that only grows |
| `Bucket` | `customList` of `wf-bfs.cpp`, access by access, its properties and its inductive invariant |
| `BucketProofs` | proofs about `Bucket` |
| `AtomicBucket` | `customList` of `wf-atomic.cpp` |
| `SearchControl` | the driver of `wf-bfs-csr.cpp`: a series of searches on threads that live on |
| `SearchControlProofs` | its inductive invariant and the proofs about it; at the end those about `Startup` and `Loading` |
| `MCSearchControl` | its instance for TLC |
| `BarrierBfs` | the level-synchronous search of `barrier-bfs.cpp`, with barriers and a lock per vertex |
| `BarrierBfsProofs` | its inductive invariant, the proofs and the refinement; at the end the proofs about `LockBfs` |
| `LockBfs` | the search of `lock-bfs.cpp`, with a queue under a semaphore |
| `WfDir` | the direction-optimizing search of `wf-dir.cpp` |
| `WfDirInv` | its inductive invariant |
| `WfDirProofs` | proofs about `WfDir`: where threads can be, and the plans; then distances, buckets, codes, blocks, and the refinement |
| `WfDirMem` | the direction-optimizing search with two nodes that are reused, of `wf-dir-mem.cpp` |
| `WfDirMemInv` | its inductive invariant |
| `WfDirMemProofs` | proofs about `WfDirMem`: what a step writes and where it leads, one lemma per part of the invariant, then the properties and the refinement |
| `WfDir2` | the first direction-optimizing search, of `wf-dir-2.cpp` |
| `WfDir2Inv` | its inductive invariant |
| `DirBfs` | the baseline from GAPBS, `dir-bfs.cpp` |
| `DirBfsProofs` | its inductive invariant, the proofs and the refinement; at the end the proofs about `WfDir2` |
| `Loading` | reading a graph, building its lists and writing the distances, `graph_reader.hpp` |
| `Startup` | thread counts, the choice of CPUs and pinning, `cpu_affinity.hpp` and the `main` functions |
| `MCWaitFreeBfs` | an instance of `WaitFreeBfs` for TLC: a graph, and what TLC checks about it |
| `MCWaitFreeAlone` | the same with one thread that is scheduled, for liveness |
| `MCBarrierBfs`, `MCLockBfs`, `MCWfDir`, `MCWfDirMem`, `MCWfDir2`, `MCDirBfs`, `MCLoading`, `MCStartup` | instances for TLC |

`BfsGraph` pins down `Delta` without recursion (the source alone has 0, an edge
raises the distance by at most one, every other reached vertex has a predecessor),
so that it can be used in proofs. `MCWaitFreeBfs` writes each graph down as the
lines of an input file with its lists and distances, and TLC checks, with a
recursive function, that the lists are what `read_graph` makes of the lines and
the distances are the breadth-first ones.

### `WaitFreeBfs` and the code

One action is one access to memory shared between threads, so a thread can be
overtaken or stop between any two. `pc[t]` names the next access of thread `t`:

| `pc` | Action | Code (`WF_BFS/wf-bfs.cpp`) |
|---|---|---|
| `done` | `TestDone` | `curr->done[work_on]`, 355 |
| `size` | `TestSize` | `buckets[work_on].size == 0`, 355 |
| `next` | `TestNext` | `curr->next == nullptr`, 361 |
| `link` | `LinkNext` | the compare-and-swap, 367 |
| `load` | `LoadBucket` | `curr->next.load()` and the size, 373-375 |
| `start` | `StartHelping` | `last_done + 1`, 309-311 |
| `entry` | `TakeEntry` | `vis[u]`, 296 and 335 |
| `du` | `ReadDist` | `dist[u]`, 297 and 337 |
| `neighbor` | `TestNeighbor` | `dist[v] == -1`, 235 and 257 |
| `push` | `PushVertex` | `push_back`, 225 |
| `mark` | `MarkDist` | `dist[v] = next_distance`, 227 |
| `vis` | `MarkVisited` | `vis[u] = 1`, 299 and 339 |
| `progress` | `Progress` | `last_done = i`, 302 |
| `finish` | `FinishBucket` | `curr->done[work_on] = true`, 387 |
| `advance` | `Advance` | `curr = curr->next`, 392 |
| `returned` | | the call has returned |

`SearchAgain` and `WriteOutput` are the main thread: it joins the threads, then
resets `dist` and `vis` and searches again, or writes the output and ends.

Abstractions, each of which allows at least what the code does:

- a push is one step; `list` and `size` of a bucket are one sequence, of which
  readers read a length and then entries below it. This is `AppendLog`, and `Bucket`
  shows that the code's arrays implement it;
- a helper takes the entries that are left in any order, where the code draws a
  random affine permutation;
- `LoadBucket` reads the next pointer and the size in one step: the pointer cannot
  change any more;
- a node that loses the race to be linked is deleted without having been seen, so
  only linked nodes exist, numbered in the order they were linked. A node is set up
  before it is linked, so its fields have their first values from the start;
- positions in buckets count from 1, so `last_done` starts at 0 instead of -1;
- accesses are sequentially consistent, and the plain `int` accesses of the code
  are taken to be atomic (they are word-sized and aligned);
- prefetches, thread names, CPU pinning, `perf` and timing are left out;
- the main thread may search any number of times (20 in the code).

The operators whose names begin with `Slip` are changed copies of the operator
that follows them, each with a slip such as a dropped test or two swapped writes.
No specification uses them. Put in the place of the original they make TLC find
the corresponding property violated, which shows that the property is not idle.

### `Bucket` and the code

`PushBack` is the start of `push_back` up to the compiler barrier: nothing it does is
visible to other threads, since nobody knows of the new array. `PublishList`,
`WriteEntry` and `PublishSize` are the three stores that others can see (lines 44, 46
and 48). A reader does `ReadSize` (375), `ReadList` (285 and 315) and any number of
`ReadEntry` (294 and 333), and may look when the bucket has grown, while it grows, or
never; it finishes with `Leave`, so that `Clear`, after the threads are joined, can
delete the arrays. Arrays are kept apart from the current pointer, with what a new one
holds (`Junk`) in the positions nobody has written: the model can express a reader
that finds less than it was promised. Stores and loads of a thread take effect in
program order, as the code's comments and compiler barriers intend for x86.

- `TypeOK`, which includes that the size never exceeds the capacity, and `BucketInv`,
  the inductive invariant: both are proved.
- `ArraysAgree`: every position a reader may use is written, and the same in the array
  it has as in the current one.
- `AllFreed`: every array is deleted once. The buckets of a node that loses the race to
  be linked never get this far: `delete new_node` (368) does not call `clear`, and their
  first arrays stay allocated.
- `ImplementsLog`: the bucket implements `AppendLog`.

`AtomicBucket` has the same readers, but the order of `list[size++] = x`: the size is
published before the entry. `ReadsWritten` is violated: an owner increments the size, a
helper reads size and pointer and copies the entry, and gets what the array held
before. That helper uses it as a vertex. The comment at `wf-bfs.cpp:35` says why the
size has to come last.

### `SearchControl` and the code

The main thread (`mpc`) runs `StartThreads`, then per search `MakeFirstLevel`,
`Publish`, the wait on the condition variable, and `FreeLevels`, then `StopThreads` and
`Join`, for each thread count in turn. The wait is what the library does: `LockMain`,
`TestReturned` under the mutex, `Block`, which joins the set of waiting threads and
gives the mutex back in one step, and `Wake`; `SpuriousWake` may happen at any time.
A thread (`pc`) polls `number`, resets its share vertex by vertex (`FillDist`,
`FillVis`, `SetSource`), counts it, spins until all shares are counted (`Meet`),
searches, notes its time, counts its return, and if it is the last one notifies the
main thread under the mutex.

A search is told in the steps that `WaitFreeBfs` implements: a thread finds distances
and marks vertices in its level until the level is done. Its marks, distances and nodes
are what `SearchControl` keeps of it, because those are what the next search could
inherit. A level is represented by the time it was allocated: `arena` counts how often
the arenas have been made or taken back, so a level with an older number is memory that
has been handed out again. `add_node` keeps a level that lost the race in `spare_level`.

- `DistancesFinal`: from the moment the first thread has returned until the next search
  is published, `dist` is right (comment at line 585); it is when the main thread reads
  it. This needs that the shares make up the whole array, that none is reset late, and
  that no mark is left over.
- `SharesReset`: no share is reset while a thread searches. No run checks it by itself,
  since `DistancesFinal` fails without it.
- `LevelsInUse`: no thread walks, links or keeps a level whose memory was taken back.
- `TimesNoted`: all return times the main thread compares are those of this search.
- `Ends`: the run of searches ends; in particular no notification is lost.

### `WfDir` and the code

As in `WaitFreeBfs`, an action is one access to shared memory. What the code keeps per
level and owner (`owner_entry`) is a record in `node[d].owners[t]`, what a thread has for
itself is the record `my[t]`.

| Code (`WF_DO_BFS/wf-dir.cpp`) | Actions |
|---|---|
| `plan_level`, 827-849 | `LoadPlanOwner`, `ReadSize`, `Propose`, `Claim`, with `AssignCode` |
| `top_down_level` and below, 357-463, 670-713 | `TestDone` to `FinishBucket`, and `TestNext`, `AddNode` |
| `write_frontier_codes`, 720-755 | `TestCodesDone` to `CodesFinish` |
| `scan_block`, 521-557 | `Gather`, `TestCandidate`, `PushFound`, `WriteNextCode`, `MarkFound` |
| `fetch_own_blocks`, `fetch_other_blocks`, 593-647 | `OwnBlock` to `Stamp` |
| the loop of `wf_bfs`, 856-867 | `Follow`, `Advance` |
| `reset_share`, `make_first_level`, 888-915 | `Init`, `SearchAgain` |

Abstractions, besides those of `WaitFreeBfs` that also apply here (pushes, orders, lost
nodes, sequential consistency):

- of the direction rule only this is kept: an empty frontier is top-down. For others every
  thread may propose any direction in `Rule`, at every level, which covers whatever the
  degree sums and thresholds say, and whatever different views threads have of them. The
  instances fix `Rule`, to select the sequences of directions they are about;
- the proposal of a thread that loses the claim is forgotten, since nobody reads it;
- the sum of the bucket sizes is read bucket by bucket until one is not empty;
- `SAME_SOCKET_FIRST` only changes the order in which helpers visit the owners;
- `SearchAgain` resets everything in one step; that no thread searches before all shares
  are reset is what `SearchControl` is about.

Properties:

- `OnePlan`: all threads expand a level by the plan that was decided, whatever they proposed.
- `FrontierTestExact`: while a thread scans blocks, the vertices with the level's code (or
  distance, when codes have run out) are exactly the vertices of the level. This is what
  the comment on `dist8` promises: a code names one level, and a stale thread's test stays
  exact.
- `BlocksCovered`: a block that is skipped on account of progress, stamp or flag has
  nothing left to find.
- `ImplementsLevelOrder`: as for `WaitFreeBfs`; with it the first call that returns leaves
  the right distances (`FirstReturnExact`).

### `WfDirMem` and the code

Two nodes hold all levels, the even and the odd. A thread's record has its own `level`, and
the node it works in is `nodes[level % 2]`. Nobody waits before a node is reused, so a thread
may be anywhere in level *d* when the node is emptied and filled for *d* + 2. Only the plan
word and the tags of the buckets say which level they are of; everything else has to be right
by the order of the accesses.

| Code (`WF_DO_BFS/wf-dir-mem.cpp`) | Actions |
|---|---|
| `plan_level` | `LoadWord`, `SumTag`, `SumSize`, `Choose` |
| catching up, `wf_bfs` 917 | `Jump`, `JumpOther` |
| `begin_level` | `ResetProgress`, `EmptyBucket`, `TagBucket` |
| `top_down_level` and below | `TestDone` to `Progress` |
| `write_frontier_codes` | `TestCodesDone` to `MarkCodesDone` |
| `bottom_up_level`, `fetch_own_blocks`, `fetch_other_blocks` | `Reserve`, `OwnBlock` to `Stamp` |
| `scan_block` | `Gather` to `MarkFound` |
| `mark_done` | `TestMark`, `MarkDone` |

Abstractions besides those of `WfDir`: the two progress entries are reset in one step. An
array that `reserve` replaces has `Junk` in it; a late reader that finds junk reads anything,
a vertex or not, since the memory may hold anything by then.

- `ReusedWhenOver`: when a bucket is emptied for a level, all nearer levels are complete, and
  whoever works on a level works on a complete one, also after a jump.
- `OnePlan`, `FrontierTestExact`, `BlocksCovered`: as in `WfDir`, here for the level a node is
  at, while threads two levels back still write into the same fields.
- `OnlyForward`: a thread never goes back, and a jump takes it forward to a level that has
  been chosen. So it neither repeats a jump for ever nor passes the end of the search.
- `ImplementsLevelOrder`: two nodes do what a node per level does.

### `WfDir2` and the code

There are no buckets: a thread owns a range of vertices and finds its level in `dist`. `Sum`
reads the counts of one more owner (117-125) and chooses the direction; `TestDone` to
`WriteDone` are `populate_forward` and `fetch_from_back` over the range of one owner (67-108,
130-150), and `TestCalcs` to `WriteCalcs` count the next level (153-172). `done` and
`done_calcs` are `vector<bool>`: setting a bit is a read and a write of the word it shares
with the others' (`ReadDone`, `WriteDone`), so bits get lost and work is done again. The scan
of a range that counts, and the writing of the two counts, are one step each.

- `OneDirection`: threads that agree on nothing run a level the same way, with the same count
  of edges left, because the counts they compute are the same, whoever writes them and however
  often. None of them leaves a level without a next node to go to.
- `ReturnedExact`: the first call that returns leaves the distances of the graph, if the first
  level goes top-down. `vis_forw` starts at 0 (194), which is the depth of the first level, so
  if that one goes bottom-up every vertex counts as scanned, nothing is found, and the search
  ends with the source alone. That happens from a source with more than 1/15 of the edges, or
  with fewer than 24 vertices. Nothing in the repository says what this early program is for,
  so this is described here and in the property, not listed as a finding.

### `DirBfs` and the code

The baseline is a team of OpenMP threads that runs one loop after the other; `loop` says which,
and the actions `AfterTopDown`, `AfterToBitmap`, `AfterBottomUp`, `AfterToQueue` are what runs
between two loops, once every thread has ended its part. Inside a loop there is an action for
each access to what another thread of the loop may write: the compare-and-swap on `dist`,
the reservation at the end of the queue (`Flush`) and the copy to it (`Copy`), the reads
and writes of a word of a bitmap (`ReadWord` and `SwapWord`, `TestVertex` and `SetBit`). The static
schedule of OpenMP is in `PartStart`; the dynamic one is `TakeChunk`.

- `FrontierExact`: the structure that holds the frontier, queue or bitmap, holds the level;
  `front` may have bits of an earlier bottom-up phase left, which find nothing. `set_bit` is
  not atomic: this needs a chunk of vertices never to share a word with another.
- `QueueFits`: the queue, which is only ever appended to, has room for every vertex once.
- `ImplementsLevelOrder`: as `LevelOrderBfs`, with one call for the whole team. Degrees, which
  the code keeps as negative numbers in `dist` until a vertex is found, are mapped to no
  distance, and must be gone at the end.

### `Loading` and the code

A program reads a graph, builds its lists and later writes the distances in seven jobs
(`Jobs`), each run on the load threads by `run_on_threads` (`StartThread`, `RunOwn`, one action
per worker, then the action that follows the join). A thread may fail to start
(`Unwind`: the others are joined, and the error goes up), and a worker may throw. A file is a
sequence of lines, the byte each starts at and what it parses to. The jobs are `Parse`
(the part of the file between two boundaries moved to line starts, 282), `Copy`,
`Count`, `SortEdge`, `Degrees`, `Lists` (`build_csr`) and `Text` (`write_distances`).
Workers share no memory they write, so all but the sort, where they write into one array,
are one action each.

- `ReadOnce`: the edges are those of the lines in file order, wherever the boundaries fall, and
  the error that is reported is the first in the file.
- `OwnersApart`: when owners count and fill without a lock, every entry is in place and all
  entries of a list are with one owner.
- `SameAsSequential`: the lists are those a sequential build makes, and the output has every
  distance once, in order, and the largest.
- `Ends`: whatever fails, loading comes to an end.

### `Startup` and the code

`Sample` and `Select` are `select_idle_cpus`: what `/proc` and `/sys` say is external (any subset
of the CPUs allowed, any idle ratios); the choice is the code's, as operators
(`ChooseCandidates`, `OneNode`, `SpreadOverNodes`). The sorts and loops of the code take CPUs in an
order, and `FirstOf` is what they have taken when they stop. `Pin` narrows what the thread may run on;
where the main thread searches too, that is what the next call sees.

- `ChosenWell`: CPUs are distinct, on one node when one has room, evenly spread when spread is
  asked for, and two share a core only when every core they could have had is used: of the
  nodes in use, or, spread, of the node the two are on. Spread, a core may be shared on a
  small node while a larger one has a free core: the shares of the nodes come first.
- `NeverNarrowed`: every call chooses among the CPUs the program was started with.

### The blocking searches

`BarrierBfs` is one phase after the other: `While` (the loop test, 195), `For` and the
loop over the neighbours (`TestLock`, `Visit`, `Unlock`, 199-229), `Count` (232), `Sum`
(237-242), `Copy` (246-248), with `Barrier` between them. `Barrier` stands for every
barrier of the code, those that end an `omp for` included, and moves all threads at
once. Which thread gets which iterations is left open, because OpenMP decides it; `taken`
holds those handed out. `Visit` is one step, since `vis[w]` and `dist[w]` of a vertex of
the next level are used under its lock only, and `dist[v]` no longer changes. `pSCount` is
not written before it is read, so its first values do not matter.

- `FrontierExact`: when a phase starts, `S` holds exactly the vertices of its level, each
  once, although a thread that does not get a lock skips the neighbour, trusting
  the holder.
- `LeaveTogether`: threads test the loop condition one by one; if they could disagree,
  those inside would wait at a barrier for ever.
- `ImplementsLevelOrder`: it does what the wait-free search does, as `LevelOrderBfs`.

`LockBfs` has one action for each critical section of the semaphore (`Pop`, `Push`) and
one for each access to `dist` between them (`TestDist`, `WriteDist`).

- `NeverTooSmall`: no distance is below the true one.
- `NoneLost`: a thread returns when the queue is empty although others may still push; a
  vertex with undiscovered neighbours is then in the hands of one that goes on.

Distances of `LockBfs` can be too large at the end: with two threads, one is stopped
between `Pop` and `WriteDist` while the other reaches the same vertex by a longer path.
Nothing in the repository says otherwise, so this is not listed as a finding.

### Properties of `WaitFreeBfs`

The runs check `IInv`, which contains the first conjuncts below, and the rest by name.

- `TypeOK`.
- `DistSound`, `BucketsSound`: no distance is ever wrong and no vertex is in the
  bucket of a wrong level, not even for a moment, though threads test and write
  `dist` without a compare-and-swap and may be levels apart.
- `FirstReturnExact`: when the first call returns, `dist` is final.
- `LevelReady`: a thread enters a level only when all of its vertices have their
  distance; this is what makes the distances right without a barrier.
- `Certificates`: a marked vertex, and every entry up to `last_done`, is covered.
- `NoneLost`: a vertex that is not covered has an entry that nobody has declared
  done and that every thread in the level is still going to take.
- `AppendedOnce`: a thread pushes a vertex at most once, which bounds the buckets.
- `OneList`, `ListComplete`: the nodes form one list, and at the end there is one
  node per level and an empty one.
- `ImplementsLevelOrder`: the search implements `LevelOrderBfs`, with `dist` as it is
  and `finished` the set of threads that have returned.
- `LoneReturns`: wait-freedom.

## Runs

| Run | Instance | Checks | States |
|---|---|---|---|
| `wf_two` | 2 threads, a square with two shortest paths to the last level and an isolated vertex, any number of searches; thread 1 alone is fair | `IInv`, `BucketsSound`, `FirstReturnExact`, `NoneLost`, `ListComplete`, `ImplementsLevelOrder`, `LoneReturns` | 78,529 |
| `bucket` | 2 readers, 2 values, 5 pushes | `ArraysAgree`, `AllFreed`, `ImplementsLog` | 872,981 |
| `searches` | 4 vertices; 1 thread, then 3; two searches each | `DistancesFinal`, `LevelsInUse`, `TimesNoted`, `Ends` | 87,559 |
| `wf_dir` | 2 threads, a path in two blocks of two owners, three codes; top-down, either way, bottom-up | `OnePlan`, `BlocksCovered`, `FrontierTestExact`, `ImplementsLevelOrder` | 1,693,682 |
| `wf_dir_mem` | 2 threads, a path of four, so that each node is used twice; either way, either way, bottom-up, top-down; two codes | `OnePlan`, `ReusedWhenOver`, `FrontierTestExact`, `BlocksCovered`, `OnlyForward`, `ImplementsLevelOrder` | 1,093,068 |
| `wf_dir_2` | 2 threads, 5 vertices, two thresholds | `OneDirection`, `ReturnedExact` | 3,940,331 |
| `dir_bfs` | 3 threads, 9 vertices, words and chunks of two, six pairs of thresholds | `FrontierExact`, `QueueFits`, `ImplementsLevelOrder` | 41,930 |
| `barrier` | 3 threads, a square with an edge from a vertex to itself and an isolated vertex | `FrontierExact`, `LeaveTogether`, `ImplementsLevelOrder` | 17,271 |
| `lock` | 3 threads, a square with a vertex behind it and an isolated one | `NeverTooSmall`, `NoneLost` | 55,897 |
| `loading` | 3 load threads, 581 files of up to six lines or with no edge in the three formats, good and bad | `ReadOnce`, `OwnersApart`, `SameAsSequential`, `Ends` | 66,900 |
| `startup` | 5 CPUs on two nodes and three cores, up to two thread counts of up to 4 | `ChosenWell`, `NeverNarrowed` | 527,764 |
| `bucket_atomic` | 1 reader, 3 pushes | `ReadsWritten`, found violated | |

Properties that are proved and follow from others that a run checks, such as the type
invariants, are not listed in the runs a second time.

Why the bounds are enough to be interesting. With two threads each one is the
owner of a bucket and the helper of the other's. The square has four levels of
nodes (the last one empty), a level with two vertices, so a bucket with several
entries and two buckets with entries; a vertex both of them lead to, so racing
discoveries with a wrong level in reach when a level is left too early; edges back
to the source, and a vertex nothing leads to. Three threads would add two helpers of one
owner; the proofs cover them, and any number. `MaxNode` bounds the list: the largest
distance must be below it, and then it never stops a thread (`LinkNext` is only
reached for a level that has vertices, which is part of `IInv`).

Five pushes replace the array of a bucket three times (1, 2, 4 and 8 positions), so a
reader can hold an array that is two generations old, and positions are left over in
the last one. Readers do not affect each other or the owner, two of them can hold
different arrays at once.

Three threads on four vertices make shares of different sizes, three candidates for
each link and so spare levels left over at the end of a search; two searches are the
least that let the second inherit something, and two thread counts the least that let
the second series inherit something from the first. The source is in the last share.

In `wf_dir` thread 0 owns the block {0, 1} and thread 1 the block {2}. A bottom-up level 1 finds
vertex 2 in the block of thread 1, with either thread ahead; level 2 always goes bottom-up and has
nothing to find, but its frontier is tested: with codes written for vertices that were pushed
top-down, or with those passed on by a bottom-up level 1. Threads propose either direction
for level 1, in every interleaving. Three codes are enough for the two levels that use one, so codes
do not run out here; a second run of codes, or a bottom-up level before a top-down one, would
need a longer path than is within reach.

`wf_dir_mem` has both. Level 2 is the first that uses a node for the second time; it is
always bottom-up, because there is more to skip on a stale mark, and comes after each of the four ways
to have used both nodes. One block is enough, since what can go stale, progress, marks, stamps
and tags, is kept per owner: thread 0 owns it and thread 1 only helps there. There are two
codes, for levels 0 and 1, so level 2 has none and tests by distance.

The graph of `wf_dir_2` goes forward, forward, back, forward with one threshold, which needs the
counts of all levels so far to come out the same, and back at once with the other. The
ranges of the two threads are of different size. Words hold the bits of all threads, as they
do for up to 64.

In `dir_bfs` the thresholds give every sequence of the two directions up to switching
back and forth twice, so that `front` has old bits when it is used again. Words of two bits and
chunks of two keep the proportion that matters, a chunk being a multiple of a word, and
parts of the queue share words. A buffer of one entry is flushed inside and at the end of loops.

The files of `loading` have lines of different lengths, so that a boundary falls on the
first, a middle and the last byte of a line, two boundaries fall into one line, parts are empty,
and errors are in one part or several. There are at most three blocks for up to six vertices, so blocks have
one or two, and owners none, one or all of them. `MaxInt` is 5.

The CPUs of `startup` are a node with a shared and an unshared core and one with a shared
core: for one to four threads, there are choices where a node has room and has not, where cores are
enough and are not, and where nodes take an equal share or do not.

Three threads for the blocking searches: a level of two vertices leaves one of them without
an iteration, which still has to meet the others, and two can contend for the lock of the
vertex both lead to while the third is ahead or behind.

Deadlock is checked: the only state without an action of its own is the one after
the output is written, or the arrays are deleted, where `Exited` stutters.

Fairness. Safety needs none. Wait-freedom is checked with weak fairness of the
steps of one thread, nothing else: the scheduler gives that thread time, and the
others may stop anywhere for ever. Thread 1 is the one that is scheduled, since the
source is in the bucket of thread 0, which may never take a step.

`Ends` assumes weak fairness of each thread and of the main thread, and strong fairness
of locking the mutex by the thread that notifies: the main thread holds it for a few
instructions per wake-up, but spurious wake-ups, of which nothing bounds the number,
could otherwise make it take the mutex at every opportunity. No wake-up is assumed to be
spurious: the run ends by the notification alone.

`Ends` of `Loading` assumes weak fairness of each thread: the threads of a job never
wait for one another, and the main thread only joins.

## Proofs

For every graph, every number of threads and every bound that satisfies the
assumptions of `BfsGraph` and of the module. Each of these theorems is `Spec => ...`:

| Theorem | Module | States |
|---|---|---|
| `ControlCorrect`, `TypeCorrect`, `ListCorrect` | `WaitFreeBfsProofs` | `[]ControlInv`, `[]TypeOK`, `[]OneList` |
| `InvCorrect` | `WaitFreeBfsProofs` | `[]IInv` |
| `DistCorrect`, `BucketsCorrect` | `WaitFreeBfsProofs` | `[]DistSound`, `[]BucketsSound` |
| `LevelsReady`, `FirstReturnCorrect` | `WaitFreeBfsProofs` | `[]LevelReady`, `[]FirstReturnExact` |
| `MarksCorrect`, `NothingLost` | `WaitFreeBfsProofs` | `Certificates`, `NoneLost` |
| `PushedOnce`, `OneNodePerLevel` | `WaitFreeBfsProofs` | `AppendedOnce`, `ListComplete` |
| `LevelOrderImplemented` | `WaitFreeBfsProofs` | `ImplementsLevelOrder` |
| `BucketInvCorrect`, `BucketTyped`, `ArraysCorrect`, `FreedCorrect` | `BucketProofs` | `[]BucketInv`, `[]TypeOK`, `[]ArraysAgree`, `[]AllFreed` |
| `LogImplemented` | `BucketProofs` | `ImplementsLog` |
| `InvCorrect` | `SearchControlProofs` | `[]IInv` |
| `FinalAtFirstReturn`, `MemoryInUse` | `SearchControlProofs` | `[]DistancesFinal`, `[]LevelsInUse` |
| `AllTimesNoted`, `NobodyResets` | `SearchControlProofs` | `[]TimesNoted`, `[]SharesReset` |
| `CpusNeverNarrowed`, `CpusChosenWell` | `SearchControlProofs` | `[]NeverNarrowed`, `[]ChosenWell` of `Startup` |
| `EdgesReadOnce` | `SearchControlProofs` | `[]ReadOnce` of `Loading` |
| `InvCorrect` | `BarrierBfsProofs` | `[]IInv` |
| `LevelsExact`, `AllLeave` | `BarrierBfsProofs` | `[]FrontierExact`, `[]LeaveTogether` |
| `Refinement` | `BarrierBfsProofs` | `ImplementsLevelOrder` |
| `PlansCorrect`, `PlansAgree` | `WfDirProofs` | `[]PlanInv`, `[]OnePlan` |
| `DataCorrect` | `WfDirProofs` | `[]IInv` |
| `FrontierTestRight`, `SkippedBlocksComplete` | `WfDirProofs` | `[]FrontierTestExact`, `[]BlocksCovered` |
| `FirstReturnRight` | `WfDirProofs` | `[]FirstReturnExact` |
| `LevelOrderKept` | `WfDirProofs` | `ImplementsLevelOrder` |
| `InvCorrect` | `DirBfsProofs` | `[]IInv` |
| `FrontierCorrect`, `QueueCorrect` | `DirBfsProofs` | `[]FrontierExact`, `[]QueueFits` |
| `Refinement` | `DirBfsProofs` | `ImplementsLevelOrder` |
| `Dir2InvCorrect` | `DirBfsProofs` | `[]IInv` of `WfDir2Inv` |
| `DirectionAgreed`, `ResultRight` | `DirBfsProofs` | `[]OneDirection`, `[]ReturnedExact` of `WfDir2` |
| `QueueDistancesLargeEnough`, `QueueNothingLost`, `QueueEndComplete` | `BarrierBfsProofs` | `[]NeverTooSmall`, `[]NoneLost`, `[]AllFound` of `LockBfs` |
| `InvCorrect`, `TypeCorrect` | `WfDirMemProofs` | `[]IInv`, `[]TypeOK` |
| `OnePlanKept`, `ReuseRight` | `WfDirMemProofs` | `[]OnePlan`, `[]ReusedWhenOver` |
| `FrontierTestRight`, `SkippedBlocksComplete` | `WfDirMemProofs` | `[]FrontierTestExact`, `[]BlocksCovered` |
| `OnlyForwardKept` | `WfDirMemProofs` | `OnlyForward` |
| `LevelOrderKept` | `WfDirMemProofs` | `ImplementsLevelOrder` |

The proofs about `LockBfs` and `WfDir2` are in the modules of their neighbours in the code,
which instantiate them: `Queue!Spec` in `BarrierBfsProofs` is the specification of `LockBfs` with
the parameters of `BarrierBfs`, of which `TeamAssumption` says all that `PoolAssumption` does;
`Dir2!Spec` in `DirBfsProofs` is that of `WfDir2` with the parameters of `DirBfs`, and uses of
`Dir2Assumption` only what `DirAssumption` says, too. `SearchControlProofs` declares the parameters
of `Startup` and `Loading` and instantiates both (`Launch!Spec`, `Load!Spec`); the theorems assume
of them only what they name: that there is a CPU (and, for `CpusChosenWell`, what else
`StartupAssumption` says), that there is a load thread, and that every file is one (`IsFile`: a
line has a byte at least, and the lines follow one another).

None of the properties of `WaitFreeBfs` is inductive by itself, so everything goes through `IInv`.

*Control* (`ControlInv`). That `Advance`, `LinkNext` and `PushVertex` stay inside the
list needs to know that a thread at a bucket has seen a non-null next pointer, that
the list has no forks, that positions are within the size that was read, and that
sizes never shrink. `Control` says this, by `pc`. The proof: `StepFrame` (a step
changes the locals of one thread; list and buckets only grow), `StepType`,
`StepOneList`, `StepLastDone`, `OthersControl`, `OwnLoop` and `OwnEntries`.

*Data* (`DataInv`, `OnceInv`), proved from `ControlInv`:

- Distances only get set, never changed (`StepDist`): a thread that is going to write
  `curr + 1` got past `dist[v] == -1` while every vertex up to its level had its
  distance, so the vertex is in the next level (`StepVertexView`).
- A vertex that is passed is covered (`ListEndCovered`), so the marks are right
  (`StepVisCertificate`, `StepProgressCertificate`), and what a thread skips because
  of them is covered (`StepEntriesView`).
- A vertex that gets its distance is in a bucket that is not done and in a level
  nobody has entered (`NewlyMarked`); from then on no step of anybody loses it
  (`StillTakes`). This gives `NoneLost`.
- A thread at the end of its round would have taken it, so the level is covered
  (`RoundCovers`), and the next one is ready (`StepLevelReady`).
- A bucket is passed without linking the next node only when it is done, which
  means that there is one, or empty (`StepLinkedInTime`). So a thread that finds no
  next node is beyond the last level (`LastLevel`, with `NothingBeyond`: from a
  vertex beyond an empty level one finds, by the least such distance, an edge that
  jumps over it). This gives `FirstReturnExact` and `ListComplete`.

The refinement (`RefineNext`) adds that `MarkDist` is a discovery or a stutter,
`Advance` at a null pointer is a return with nothing left to discover, and
`SearchAgain` starts over.

*Bucket* (`BucketInv`), for any number of readers and entries. `ArraysAgree` is not
inductive: it says nothing about an array that is filled but not published, nor about
the entry between its write and the increment. `Chain` says which arrays exist and
which have been replaced, `Room` that the entry has a position, `Written` that the
entries are in the current and in the next array, `Views` what each reader may rely on.
One lemma per action keeps them; the refinement follows, because only `PublishSize`
changes the list of entries (`RefineStep`).

*A series of searches* (`SearchControlProofs!IInv`), for any number of thread counts,
searches and threads, `mutex` and condition variable included.

- The counters never go back, so what `reset` and `returned` say about the search that is
  on depends on what they said before. `CountsExact`: above the multiple of `num_t` of the
  searches before, each is the number of threads (`HasReset`, `HasReturned`) that have got
  there. A step of a thread adds itself to both sides or to none; that the count is
  full then means that nobody is missing (cardinalities of sets of threads). This gives
  `SharesReset` and `TimesNoted`.
- `LastOrBefore`: a thread is in the search published last or idle since the one before.
  The main thread publishes when all have returned, so nobody is two searches behind.
- Before the first thread has got past the meeting point (`Begun`), each has reset a part of
  its share (`ResetSoFar`); the shares make up all vertices, so the search starts from
  `Fresh` ones. From then on `DataSound` and `Walks` are the invariant of a search.
- `Allocated`: the levels and spare levels of threads that search come from the
  arenas as they are now. This gives `LevelsInUse`.

*The CPUs* (`SearchControlProofs!LaunchInv`): until the CPUs allowed have been noted, nothing has been
pinned; from then on they are all there are, whatever the mask is by then.

*The choice of CPUs* (`SearchControlProofs!SelectionWell`). The sort and the two loops of `choose_candidates` are
an order (`Orders`), of which `FirstOf` takes what has the lowest ranks: the ranks of a finite set are the
numbers from 0 (`RankFacts`), so what is taken is distinct and as many as asked for (`FirstFacts`).
- `ChosenFacts`: the first of each core come before all others, so whoever shares a core is taken
  after every core has been used.
- `BestThere`: of the nodes with room there is a best, as scores are numbers (`ScoreType`; the sum is a
  recursive function) and ordered.
- `ShareFacts`, `DealFacts`: the shares are the quotient, one more for as many nodes as the remainder, so the
  deals are as many as the threads, and `SpreadFacts` counts on each node what it was dealt.

What this needs of a state, that the last sample is of CPUs allowed and the thread count a positive number, is
`LaunchKnown`.

*Reading the edges* (`SearchControlProofs!LoadInv`), for any files and number of load threads. It holds
through the seven jobs, a thread that does not start and workers that throw included.

- `AppendsParted`: of what a loop over the lines appends, the part for an interval of lines comes right after
  what was appended before it. The loop is a recursive function; it exists and is typed by
  `AppendsExist` and `AppendsTyped`, and the proofs use nothing else of it.
- A boundary that is moved forward to a line start does not go back (`BoundariesGrow`), so a part
  is an interval of lines (`Slices`, `Parted`), every line is in one (`InAPart`), and the sum of the lengths of the parts
  before is where the part's edges belong in the file (`OffsetFacts`, `FirstEdges`).
- `ParseInv` and `CopyInv`: a thread that has ended has its part, or the first bad line of it; a thread that has
  copied has filled its range, and no other thread writes there. Since bad lines of an earlier part come first in
  the file, the error of the first thread that has one is the first of all (`FirstReported`).

*Level-synchronous search* (`BarrierBfsProofs!IInv`), for any graph and team.

- `Together`: between two barriers, all are in one of four stages. `PhasesInv` ties the loop
  test to them; with it `LeaveTogether` is immediate. It also bounds the phases: `start[p]`
  is the number of vertices closer than `p`, and at least `p`.
- An iteration that was taken is done, or a thread is at a neighbour of it (`TakenInv`): each
  neighbour before that has a distance, or is in `vLock`. `WorkInv` says that every lock
  has one holder, who is going to set the distance before it unlocks. So at the barrier
  every neighbour of the level has a distance (`LevelExpanded`).
- `ListsInv`: the new level is in the lists, each vertex once. So the running sum that thread 0
  computes ends at the number of vertices up to the new level (`ListsCounted`,
  `LevelCounted`), and no position is outside `S`.
- The sum is a recursive function; that it exists and satisfies its equations is
  `RunningSum`, by the least index at which it does not. It is monotone, so two threads never copy
  to one position (`OwnRange`), and every position is in the range of some thread
  (`RangesCover`). This gives `FrontierExact` for the next phase (`LevelCopied`).
- The refinement: a visit of a vertex without a distance is a discovery, since all levels before
  are done; a thread leaves at an empty level, beyond which there is nothing (`AllCovered`).

*Search with a queue* (`BarrierBfsProofs!QueueIInv`). `NoneLost` needs `QueueCovers`: the neighbours a
thread has dealt with have a distance and keep it. That a thread which returns leaves nothing behind
needs `QueueServed`: as long as there is something in the queue, somebody is there. `QueueEndComplete`
says more than the run checks: at the end the vertices with a distance are exactly
those that can be reached. Their distances may be too large (above).

*Direction-optimizing search* (`WfDirInv!IInv`), for any undirected graph (the assumption
`SymmetryAssumption`: "the symmetric CSR the searches use", `graph_reader.hpp:482`), any number of
threads, blocks, codes, and any rule for the directions, the rules under which no two threads
would agree by themselves included.

- `Control` is what it is for `WaitFreeBfs`, for four kinds of walks instead of one: through the
  buckets of a top-down level, through buckets to write codes, through a thread's own blocks
  and through the blocks of others. Which of them a thread is on follows from the plan it
  has (`Directed`), so a thread with a plan of its own would index a bucket with a block
  position. Blocks need arithmetic: the blocks of an owner are inside the
  vertices (`BlockRange`), and every vertex is in one (`InSomeBlock`).
- `OnePlan` is not inductive: a winner that still had its proposal to write could change the
  decision after others have read it. `OwnerHasLeft` says that it is past that. `PlansInOrder` says
  that a level is decided only after the one before, from its plan, and that a thread that is
  about to claim a level has a proposal that starts from that plan.
- A step either goes from one label to another within its level, or takes a plan, or
  advances (`PlanSteps`); it decides at most one level, the one its thread is at
  (`NewDecision`), and a decision stays (`DecisionsStay`).

This much is `PlanInv`. The rest (`DataInv`) is about what the walks find and leave:

- *Codes.* `CodesGrow`: the codes of the levels that have one increase, and the code after a
  level's own, which the vertices it finds are given, is left free for the next level unless
  that one takes it over. With `CodesSound` (a code that is not 0 in `dist8` is that of the vertex's own level
  or the next one of the level before, even if a thread of an older level writes it late) no vertex outside of a level
  has the level's code. That none in the level lacks it has two reasons: after a bottom-up
  level it was written before the distance (`CodesPassed`), and after a top-down one no
  thread gets to the blocks before the entry of the vertex is coded or it will code it
  itself (`NoneUncoded`). `FrontierExact` puts them together.
- *Top-down levels.* `NoneLost` as for `WaitFreeBfs`, but only for levels that are not bottom-up:
  a thread that is still deciding counts as one that will take everything.
- *Bottom-up levels.* `NoneUnscanned`: a block with a vertex that the level has to find has
  no stamp of the level, is not counted and not the block of a done owner, and every thread
  in the level still has it ahead of it, or is in it with the vertex ahead of it or among
  the candidates (`WillScan`). So the thread that stamps, counts or finishes has left
  nothing out (`KeepsScanning`). A thread of an older level that stamps over a newer stamp
  only causes a second scan.
- `last_done` counts entries in one kind of level and blocks in the other, and stamps of old
  levels stay. `Untouched` and `LastDone` say that a level starts with none, and that what
  is in its marks is of its kind.
- Whichever direction a level takes, at its end the next level is found (`TopDownFound`,
  `BottomUpFound`), which makes `LevelReady` inductive. A vertex is found before its own level is decided
  (`NewVertex`): that is why buckets no longer change when they are expanded or coded.
- The end: a bottom-up level always links the next node, a top-down one only for a bucket that
  is not empty. `LinkedInTime` says that the owner of a vertex's entry is not passed before the node is linked;
  with it `LastLevel` is as for `WaitFreeBfs`.
- The refinement (`RefineStep`): a write that changes `dist` gives a vertex the distance after
  the thread's level, so it is a discovery from some vertex of that level, whose level
  before is covered; one of a thread that has fallen behind changes nothing.

*Two-node search* (`WfDirMemInv!IInv`), for any undirected graph (`SymmetryAssumption`, as for
`WfDir`), team, block size, largest code and rule for the directions.

- `Chosen` is the level of the later of the two words; the nodes hold the levels `Chosen` and
  `Chosen - 1`. Everything rests on one fact: every vertex up to level `Chosen` has its distance, and
  those of the next level, too, once a thread has got there (`LevelsFound`). A thread gets to
  level `Chosen + 1` only through all of level `Chosen`, and one that has to jump gets no
  further than `Chosen`. `ReusedWhenOver` follows from it, whoever still reads the node.
- A thread in an older level is behind: what it is about to write is there already or does
  not matter. Its distances are set (`DistSound`), its codes are those of the depth
  (`CodesSound`), and a word that it proposes fails: a node has each word once, and words only
  go up (`OneWord`, `WordsInOrder`, `Place`), so the word the compare-and-swap expects does not come back.
- A bucket is written by its owner alone, and its tag says of which level it is (`Tags`). `Kept` and
  `PushedFirst`: a vertex has an entry before it has its distance, and keeps it as long as its level is one of the
  two latest. So a thread that adds up the sizes of a level calls it empty only if it is (`Summed`).
- `NoneLost`, `NoneUncoded` and `NoneUnscanned` are as for `WfDir`, but for level `Chosen` only: every
  thread in it, or still on its way into it, will take, code or scan what is missing
  (`WillTake`, `WillCode`, `WillScan`). `Entries` and its like say what a thread in level `Chosen`
  knows of the bucket it reads, and that a thread that is behind at least stays within the array.
- Marks and stamps are not cleared when a node is reused: `Untouched` says that none is of a level later than
  the one the node is at. Progress is, by its owner, before it tags the bucket of the
  next level, so it counts only once that tag is there (`Counts`). With `FirstOnes` (the words
  below level 0, to which stamps of -1 would fit, are top-down) this gives `BlocksCovered`.
- `LevelsCoded` and `CodesPassed` say that a level with a code has it on all of its
  vertices before anybody scans, which with `CodesSound` gives `FrontierTestExact`; levels without
  a code are tested by distance.
- The refinement: a write that changes `dist` is a discovery from the level of the thread, whose level
  before is complete; a call returns only when level `Chosen` is empty, and there is nothing
  beyond an empty level (`NothingBeyond`).

*First direction-optimizing search* (`WfDir2Inv!IInv`), for any undirected graph
(`SymmetryAssumption`), number of threads and `a`.

- The threads have no plan to agree on, so the invariant says what each will compute. `Goal` is
  what the search ends with: `Delta`, or the source alone when the first level goes
  bottom-up (`FirstIsBack`). The counts of a level by owner (`Edges`, `Nodes`), the sums of a thread
  that has added up some of them (`Running`), the edges that remain (`Remaining`) and the
  direction (`BackAt`) are functions of `Goal`. `Summing` and `Directed` tie what a thread
  holds to them, which gives `OneDirection`. A count that is written again is the same count
  (`CountsSound`), so it does no harm that others are adding it up.
- A thread in level `d` has `Complete(d)`: every vertex up to `d` has its distance. For that the
  ranges of all owners must have been handled. A mark or a done bit says that a
  vertex or a range is handled (`MarksSound`, `DoneSound`), forward or back as `BackAt` says; a
  bit that is lost is not set, so the range is only handled again. What a thread has passed itself is in
  `Walks`. All of this only grows (`Dir2Grows`), so no step of one thread disturbs another
  (`Dir2Others`), and each step is proved for its own thread (`Dir2LocalStep`).
- The sums are recursive functions over owners and depths; that they exist is `Dir2SumsExist`, by the
  least index at which they do not.
- `ReturnedExact`: a thread returns at a level without vertices (`Important` is false exactly then:
  `Dir2CountsTell`, `Dir2CountsShow`), beyond which there are none (`Dir2LastLevel`).

*Baseline from GAPBS* (`DirBfsProofs!IInv`), for any undirected graph, team, size of a buffer
and of a word, and any alpha and beta. Two assumptions on the constants: `SymmetryAssumption`, as for
the three before (a bottom-up step looks for a parent among the neighbours of a vertex, which is
where its children are), and that a chunk is made of whole words, `Chunk % Word = 0`, as 1024 and 64
are.

- The parts of the static schedule cover the loop and lie apart (`PartBounds`, `PartsCover`,
  `PartsApart`), which `RangeInv` carries through a loop. What a thread has left of its part
  is what is still to do: `EdgesInv` of a top-down step, `FrontInv` of `QueueToBitmap`, `GatherInv` of
  `BitmapToQueue`. When all have joined nothing is left, and the next loop starts with the whole
  level.
- `FrontierExact` is not inductive, since within a loop a found vertex may be anywhere:
  pending at the thread that won the swap, in a buffer, in the reserved part of the queue, or at
  an entry that is written. `Places`, `WrittenInv`, `BuffersInv` and `PendingInv` say that
  it is in exactly one place, and `CompleteInv` that it is in one. The vertices of
  the entries, written or reserved, are therefore all different, and there are no more entries
  than vertices (`Fits`), which gives `QueueFits`.
- `BottomUpInv`: the chunks the threads hold, and what has not been handed out, have no word in
  common, so that the word a thread read for `set_bit` is still what it was when it writes it back.
  It fails without `Chunk % Word = 0`. `curr` then is the set of the vertices found,
  except those about to be set.
- The bits of an old level that are left in `front` when the search goes bottom-up again are of
  vertices up to the level `Ready`, which is complete (`FrontInv`): what has no distance yet is not next
  to one that is not in the level itself.
- The refinement (`StepRefines`, `ClearDegreesRefines`): the swap that is won and the vertex that finds a parent are
  discoveries from the level before, which is complete; `ClearDegrees` is the return, with nothing beyond an
  empty level.

Model-checked only:

- liveness, which is out of the prover's reach: `LoneReturns` of the wait-free search and `Ends` of
  the driver and of loading;
- `Loading` (`OwnersApart`, `SameAsSequential`): the result of each step is a sum over edges, blocks
  and threads, folded over sets, so that the proof is one induction over data after the other.

What `ReadsWritten` of `AtomicBucket` says is false.

## Plan

What the plan listed is modelled, except for the store buffers and the affine orders (below),
and what is safety in the searches, their driver and their buckets is proved. Left to prove:
`OwnersApart` of `Loading` from the sums of `Place`, for which `RunningSum` is the pattern.

## Not modelled, and why

- `wf-dir-mo.cpp` is the search of `wf-dir.cpp` with prefetching, separate arrays for what a
  level holds, plain accesses in place of atomic ones, and without some of the compiler
  barriers. Its steps are those of `WfDir` as long as they stay in order.
- `wf-th-fail.cpp` and `wf-th-delay.cpp` copy a `std::vector` while its owner appends to it,
  which has no defined outcome. Threads that stop are in `WaitFreeBfs`, where any thread may.
- Store buffers, and with them the fence of `wf-bfs-csr.cpp`: accesses are sequentially
  consistent in all modules. The comments of the code claim what x86 gives: stores stay in
  order. A thread that reads before its own stores are visible is a thread that is slower than it
  looks; that this covers everything has not been checked.
- `affine_shuffle` and `next_affine_index`: the models let helpers take entries in any
  order, which includes every order those can produce if they produce permutations. A step
  that is not coprime to the size would leave entries out, and no property covers that.
- The order of neighbours in `wf-dir.cpp` and `wf-dir-mem.cpp`: a helper takes the list of a
  vertex of more than 48 neighbours in blocks of 16 in an order of its own
  (`process_neighbors_shuffled`), the models take every list as it stands in `adj`. The
  theorems hold for any order of the lists, but for one that is the same for all threads.
- Arenas: an allocation that reuses memory within a search. `SearchControl` has when they are
  taken back, `WfDirMem` what a reader may find in them.
- The direction rule of `wf-dir.cpp` and `wf-dir-mem.cpp` with its sums: the models let any
  direction be chosen, which covers it. The sums of `wf-dir-2.cpp` and `dir-bfs.cpp` are
  modelled, but not that `int` counts of edges overflow, `2*M` in `wf-dir-2.cpp` among them.
- `SAME_SOCKET_FIRST`, which permutes the order of helping.
- `dir-bfs-seq.cpp` is the method of `dir-bfs.cpp` without threads. `GBBS_BFS` and `PASGAL_BFS` are other
  people's methods on work-stealing schedulers of their own.
- The graph generator, scripts, plots, `perf` control, prefetching, reading `/proc` and `/sys`,
  and mapping of files are I/O or leave the searches' state alone.
- `clean_up` is modelled for one bucket (`Clear`); it frees what only the joined threads have
  used.
