---------------------------- MODULE WaitFreeBfs ----------------------------
(***************************************************************************)
(* The top-down wait-free search of WF_BFS/wf-bfs.cpp.                     *)
(*                                                                         *)
(* A linked list has one node per level.  A node holds one bucket (an      *)
(* append-only list of vertices) per thread; in a level every thread goes  *)
(* over all buckets, its own first, processes what is not marked yet, and  *)
(* appends what it discovers to its own bucket in the next node.  Nobody   *)
(* waits: a thread leaves a level when it has gone over every bucket,      *)
(* whatever the owners are doing.                                          *)
(*                                                                         *)
(* One action is one access to memory that several threads share, so a     *)
(* thread can be stalled, or stop for ever, between any two of them.       *)
(* Accesses to an element of a bucket that was there when the thread read  *)
(* the size are folded into the neighbouring step: the element never       *)
(* changes.  Accesses are sequentially consistent here.                    *)
(*                                                                         *)
(* Positions in a bucket count from 1, as in TLA+: each is one more than   *)
(* the code's index, so the code's "last_done = -1" is 0 here.             *)
(***************************************************************************)
EXTENDS BfsGraph

CONSTANTS
  NumT,       \* num_t, the number of threads
  MaxNode     \* bound: nodes the list may get, head included, less one

ASSUME ThreadAssumption == NumT \in Nat \ {0}

ASSUME NodeAssumption == MaxNode \in Nat /\ MaxDelta < MaxNode

Thread == 0 .. NumT - 1
Node == 0 .. MaxNode     \* in the order the nodes are linked; head is 0
Null == -1               \* nullptr

VARIABLES
  \* shared by all threads
  dist,          \* dist[v], Unset until v is discovered
  vis,           \* vis[v]: some thread has gone over all of adj[v]
  linked,        \* number of nodes in the list
  next,          \* next[n], the atomic pointer of node n
  buckets,       \* buckets[n][t]
  done,          \* done[n][t]: somebody has finished buckets[n][t]
  last_done,     \* progress[t].last_done of node n, advanced by t alone
  \* local to each thread
  pc,            \* the access the thread performs next
  curr,          \* the node the thread is at
  work_on,       \* whose bucket it is looking at
  tried,         \* how many buckets of the node it has dealt with
  next_is_null,  \* has not seen a next node in this level yet
  next_node,     \* the next node, once loaded
  sz,            \* the size of the bucket, as read
  todo,          \* positions of the bucket it still has to look at
  item,          \* the position it is looking at
  du,            \* the distance it read for the vertex there
  j,             \* position in that vertex' adjacency list
  \* the main thread
  stage          \* "search" until the output is written

shared == <<dist, vis, linked, next, buckets, done, last_done>>
bucketLoop == <<curr, work_on, tried, next_is_null>>
entryLoop == <<next_node, sz, todo, item, du, j>>
vars == <<shared, pc, bucketLoop, entryLoop, stage>>

-----------------------------------------------------------------------------
(***************************************************************************)
(* init_and_start_threads(): the source is in thread 0's bucket of the     *)
(* head, its distance is 0, and the threads are started.                   *)
(***************************************************************************)

InitDist == [v \in Vertex |-> IF v = Root THEN 0 ELSE Unset]
InitVis == [v \in Vertex |-> FALSE]
InitNext == [n \in Node |-> Null]
InitBuckets ==
  [n \in Node |-> [t \in Thread |-> IF n = 0 /\ t = 0 THEN <<Root>> ELSE <<>>]]
InitDone == [n \in Node |-> [t \in Thread |-> FALSE]]
InitLastDone == [n \in Node |-> [t \in Thread |-> 0]]

InitLabel == [t \in Thread |-> "done"]
InitZero == [t \in Thread |-> 0]
InitUnset == [t \in Thread |-> -1]
InitWorkOn == [t \in Thread |-> t]
InitNextIsNull == [t \in Thread |-> TRUE]
InitTodo == [t \in Thread |-> {}]

InitShared ==
  /\ dist = InitDist
  /\ vis = InitVis
  /\ linked = 1
  /\ next = InitNext
  /\ buckets = InitBuckets
  /\ done = InitDone
  /\ last_done = InitLastDone

InitLocal ==
  /\ pc = InitLabel
  /\ curr = InitZero
  /\ work_on = InitWorkOn
  /\ tried = InitZero
  /\ next_is_null = InitNextIsNull
  /\ next_node = InitUnset
  /\ sz = InitZero
  /\ todo = InitTodo
  /\ item = InitZero
  /\ du = InitUnset
  /\ j = InitZero

Init == InitShared /\ InitLocal /\ stage = "search"

-----------------------------------------------------------------------------
(***************************************************************************)
(* Helpers of the actions.                                                 *)
(***************************************************************************)

Bucket(t) == buckets[curr[t]][work_on[t]]
Own(t) == work_on[t] = t
U(t) == Bucket(t)[item[t]]          \* u, the vertex t is processing
V(t) == adj[U(t)][j[t]]             \* v, the neighbour t has got to

Goto(t, label) == pc' = [pc EXCEPT ![t] = label]

\* The operators called Slip... are changed copies of the operator that
\* follows them.  Nothing refers to them: each is put in its place in turn,
\* to see that the properties notice.

(***************************************************************************)
(* The end of one turn of the loop over the buckets of a node, which       *)
(* starts at the thread's own bucket and wraps around.                     *)
(***************************************************************************)
NextBucket(t) ==
  /\ work_on' = [work_on EXCEPT ![t] = IF @ + 1 >= NumT THEN @ + 1 - NumT
                                                        ELSE @ + 1]
  /\ tried' = [tried EXCEPT ![t] = @ + 1]
  /\ Goto(t, IF tried[t] + 1 < NumT THEN "done" ELSE "advance")
  /\ UNCHANGED <<curr, next_is_null>>

(***************************************************************************)
(* The end of one turn of the loop over the entries of a bucket.           *)
(***************************************************************************)
NextEntry(t) == Goto(t, IF todo[t] = {} THEN "finish" ELSE "entry")

(***************************************************************************)
(* The adjacency list of u from position p on: the next neighbour, or the  *)
(* end of process_neighbors().                                             *)
(***************************************************************************)
FromNeighbor(t, u, p) ==
  /\ j' = [j EXCEPT ![t] = p]
  /\ Goto(t, IF p <= Len(adj[u]) THEN "neighbor" ELSE "vis")

-----------------------------------------------------------------------------
(***************************************************************************)
(* wf_bfs(): the loop over the buckets of a node.                          *)
(***************************************************************************)

\* if(curr->done[work_on] ...) continue
TestDone(t) ==
  /\ pc[t] = "done"
  /\ \/ /\ done[curr[t]][work_on[t]]
        /\ NextBucket(t)
     \/ /\ ~done[curr[t]][work_on[t]]
        /\ Goto(t, "size")
        /\ UNCHANGED bucketLoop
  /\ UNCHANGED <<shared, entryLoop, stage>>

\* if(... || curr->buckets[work_on].size == 0) continue
TestSize(t) ==
  /\ pc[t] = "size"
  /\ \/ /\ Bucket(t) = <<>>
        /\ NextBucket(t)
     \/ /\ Bucket(t) # <<>>
        /\ Goto(t, IF next_is_null[t] THEN "next" ELSE "load")
        /\ UNCHANGED bucketLoop
  /\ UNCHANGED <<shared, entryLoop, stage>>

\* if(next_is_null && curr->next == nullptr)
TestNext(t) ==
  /\ pc[t] = "next"
  /\ Goto(t, IF next[curr[t]] = Null THEN "link" ELSE "load")
  /\ UNCHANGED <<shared, bucketLoop, entryLoop, stage>>

\* a store instead of the compare-and-swap
SlipLinkNextStore(t) ==
  /\ pc[t] = "link"
  /\ linked \in Node
  /\ next' = [next EXCEPT ![curr[t]] = linked]
  /\ linked' = linked + 1
  /\ Goto(t, "load")
  /\ UNCHANGED <<dist, vis, buckets, done, last_done, bucketLoop, entryLoop,
                 stage>>

(***************************************************************************)
(* The compare-and-swap that links a new node.  A node that loses is       *)
(* deleted again, so only linked nodes are counted.  linked \in Node is    *)
(* the bound on the length of the list.                                    *)
(***************************************************************************)
LinkNext(t) ==
  /\ pc[t] = "link"
  /\ \/ /\ next[curr[t]] = Null
        /\ linked \in Node
        /\ next' = [next EXCEPT ![curr[t]] = linked]
        /\ linked' = linked + 1
     \/ /\ next[curr[t]] # Null
        /\ UNCHANGED <<next, linked>>
  /\ Goto(t, "load")
  /\ UNCHANGED <<dist, vis, buckets, done, last_done, bucketLoop, entryLoop,
                 stage>>

\* the bucket is declared done on the way in
SlipLoadBucketDone(t) ==
  /\ pc[t] = "load"
  /\ next_is_null' = [next_is_null EXCEPT ![t] = FALSE]
  /\ next_node' = [next_node EXCEPT ![t] = next[curr[t]]]
  /\ sz' = [sz EXCEPT ![t] = Len(Bucket(t))]
  /\ done' = [done EXCEPT ![curr[t]][work_on[t]] = TRUE]
  /\ todo' = [todo EXCEPT ![t] = IF Own(t) THEN 1 .. Len(Bucket(t)) ELSE @]
  /\ Goto(t, IF Own(t) THEN "entry" ELSE "start")
  /\ UNCHANGED <<dist, vis, linked, next, buckets, last_done, curr, work_on,
                 tried, item, du, j, stage>>

(***************************************************************************)
(* next_node is loaded and the size read, in this order; the owner starts  *)
(* at the first entry, a helper has to look at the owner's progress.       *)
(***************************************************************************)
LoadBucket(t) ==
  /\ pc[t] = "load"
  /\ next_is_null' = [next_is_null EXCEPT ![t] = FALSE]
  /\ next_node' = [next_node EXCEPT ![t] = next[curr[t]]]
  /\ sz' = [sz EXCEPT ![t] = Len(Bucket(t))]
  /\ IF Own(t)
     THEN /\ todo' = [todo EXCEPT ![t] = 1 .. Len(Bucket(t))]
          /\ Goto(t, "entry")
     ELSE /\ Goto(t, "start")
          /\ UNCHANGED todo
  /\ UNCHANGED <<shared, curr, work_on, tried, item, du, j, stage>>

-----------------------------------------------------------------------------
(***************************************************************************)
(* process_own_bucket() and process_other_bucket().                        *)
(***************************************************************************)

\* a helper waits until the owner is done
SlipStartHelpingWaits(t) ==
  /\ pc[t] = "start"
  /\ last_done[curr[t]][work_on[t]] >= sz[t]
  /\ todo' = [todo EXCEPT ![t] = {}]
  /\ Goto(t, "finish")
  /\ UNCHANGED <<shared, bucketLoop, next_node, sz, item, du, j, stage>>

(***************************************************************************)
(* A helper skips what the owner says it has done.                         *)
(***************************************************************************)
StartHelping(t) ==
  /\ pc[t] = "start"
  /\ LET start == last_done[curr[t]][work_on[t]] + 1
     IN  /\ todo' = [todo EXCEPT ![t] = start .. sz[t]]
         /\ Goto(t, IF start > sz[t] THEN "finish" ELSE "entry")
  /\ UNCHANGED <<shared, bucketLoop, next_node, sz, item, du, j, stage>>

\* the owner reports progress when it takes an entry
SlipTakeEntryProgress(t) ==
  /\ pc[t] = "entry"
  /\ \E i \in todo[t] :
       /\ Own(t) => \A x \in todo[t] : i <= x
       /\ item' = [item EXCEPT ![t] = i]
       /\ todo' = [todo EXCEPT ![t] = @ \ {i}]
       /\ IF Own(t) THEN last_done' = [last_done EXCEPT ![curr[t]][t] = i]
                    ELSE UNCHANGED last_done
       /\ \/ /\ ~vis[Bucket(t)[i]]
             /\ Goto(t, "du")
          \/ /\ vis[Bucket(t)[i]]
             /\ Own(t)
             /\ Goto(t, "progress")
          \/ /\ vis[Bucket(t)[i]]
             /\ ~Own(t)
             /\ Goto(t, IF todo[t] = {i} THEN "finish" ELSE "entry")
  /\ UNCHANGED <<dist, vis, linked, next, buckets, done, bucketLoop, next_node,
                 sz, du, j, stage>>

(***************************************************************************)
(* The owner takes the entries in order.  A helper takes them in the order *)
(* of a random affine permutation: in any order, here.  A vertex that is   *)
(* marked is skipped, though the owner counts it as progress.              *)
(***************************************************************************)
TakeEntry(t) ==
  /\ pc[t] = "entry"
  /\ \E i \in todo[t] :
       /\ Own(t) => \A x \in todo[t] : i <= x
       /\ item' = [item EXCEPT ![t] = i]
       /\ todo' = [todo EXCEPT ![t] = @ \ {i}]
       /\ \/ /\ ~vis[Bucket(t)[i]]
             /\ Goto(t, "du")
          \/ /\ vis[Bucket(t)[i]]
             /\ Own(t)
             /\ Goto(t, "progress")
          \/ /\ vis[Bucket(t)[i]]
             /\ ~Own(t)
             /\ Goto(t, IF todo[t] = {i} THEN "finish" ELSE "entry")
  /\ UNCHANGED <<shared, bucketLoop, next_node, sz, du, j, stage>>

\* a vertex is marked before its neighbours are processed
SlipReadDistMarks(t) ==
  /\ pc[t] = "du"
  /\ du' = [du EXCEPT ![t] = dist[U(t)]]
  /\ vis' = [vis EXCEPT ![U(t)] = TRUE]
  /\ FromNeighbor(t, U(t), 1)
  /\ UNCHANGED <<dist, linked, next, buckets, done, last_done, bucketLoop,
                 next_node, sz, todo, item, stage>>

\* int du = dist[u]
ReadDist(t) ==
  /\ pc[t] = "du"
  /\ du' = [du EXCEPT ![t] = dist[U(t)]]
  /\ FromNeighbor(t, U(t), 1)
  /\ UNCHANGED <<shared, bucketLoop, next_node, sz, todo, item, stage>>

\* a vertex gets its distance before it is pushed
SlipTestNeighborMarks(t) ==
  /\ pc[t] = "neighbor"
  /\ \/ /\ dist[V(t)] = Unset
        /\ dist' = [dist EXCEPT ![V(t)] = du[t] + 1]
        /\ Goto(t, "push")
        /\ UNCHANGED j
     \/ /\ dist[V(t)] # Unset
        /\ FromNeighbor(t, U(t), j[t] + 1)
        /\ UNCHANGED dist
  /\ UNCHANGED <<vis, linked, next, buckets, done, last_done, bucketLoop,
                 next_node, sz, todo, item, du, stage>>

\* if(dist[v] == -1)
TestNeighbor(t) ==
  /\ pc[t] = "neighbor"
  /\ \/ /\ dist[V(t)] = Unset
        /\ Goto(t, "push")
        /\ UNCHANGED j
     \/ /\ dist[V(t)] # Unset
        /\ FromNeighbor(t, U(t), j[t] + 1)
  /\ UNCHANGED <<shared, bucketLoop, next_node, sz, todo, item, du, stage>>

\* discover_vertex() pushes before it marks; nothing is tested again
PushVertex(t) ==
  /\ pc[t] = "push"
  /\ buckets' = [buckets EXCEPT ![next_node[t]][t] = Append(@, V(t))]
  /\ Goto(t, "mark")
  /\ UNCHANGED <<dist, vis, linked, next, done, last_done, bucketLoop,
                 entryLoop, stage>>

MarkDist(t) ==
  /\ pc[t] = "mark"
  /\ dist' = [dist EXCEPT ![V(t)] = du[t] + 1]
  /\ FromNeighbor(t, U(t), j[t] + 1)
  /\ UNCHANGED <<vis, linked, next, buckets, done, last_done, bucketLoop,
                 next_node, sz, todo, item, du, stage>>

\* vis[u] = 1
MarkVisited(t) ==
  /\ pc[t] = "vis"
  /\ vis' = [vis EXCEPT ![U(t)] = TRUE]
  /\ IF Own(t) THEN Goto(t, "progress") ELSE NextEntry(t)
  /\ du' = [du EXCEPT ![t] = Unset]
  /\ j' = [j EXCEPT ![t] = 0]
  /\ UNCHANGED <<dist, linked, next, buckets, done, last_done, bucketLoop,
                 next_node, sz, todo, item, stage>>

\* last_done = i, the owner's alone
Progress(t) ==
  /\ pc[t] = "progress"
  /\ last_done' = [last_done EXCEPT ![curr[t]][t] = item[t]]
  /\ NextEntry(t)
  /\ UNCHANGED <<dist, vis, linked, next, buckets, done, bucketLoop,
                 entryLoop, stage>>

-----------------------------------------------------------------------------
(***************************************************************************)
(* wf_bfs(), continued: the bucket is done, and the level.                 *)
(***************************************************************************)

\* curr->done[work_on] = true
FinishBucket(t) ==
  /\ pc[t] = "finish"
  /\ done' = [done EXCEPT ![curr[t]][work_on[t]] = TRUE]
  /\ NextBucket(t)
  /\ sz' = [sz EXCEPT ![t] = 0]
  /\ item' = [item EXCEPT ![t] = 0]
  /\ todo' = [todo EXCEPT ![t] = {}]
  /\ next_node' = [next_node EXCEPT ![t] = Null]
  /\ UNCHANGED <<dist, vis, linked, next, buckets, last_done, du, j, stage>>

\* curr = curr->next, and the call returns at the end of the list
Advance(t) ==
  /\ pc[t] = "advance"
  /\ curr' = [curr EXCEPT ![t] = next[@]]
  /\ Goto(t, IF next[curr[t]] = Null THEN "returned" ELSE "done")
  /\ work_on' = [work_on EXCEPT ![t] = t]
  /\ tried' = [tried EXCEPT ![t] = 0]
  /\ next_is_null' = [next_is_null EXCEPT ![t] = TRUE]
  /\ UNCHANGED <<shared, entryLoop, stage>>

-----------------------------------------------------------------------------
(***************************************************************************)
(* The main thread.  init_and_start_threads() returns when all threads are *)
(* joined and their buckets and nodes are freed; main() then fills dist    *)
(* and vis and searches again, or writes dist to a file and ends.  How     *)
(* often it searches is left open (20 times in the code).                  *)
(***************************************************************************)

Joined == stage = "search" /\ \A t \in Thread : pc[t] = "returned"

\* everything but vis is filled or allocated anew, and the threads started
Restart ==
  /\ dist' = InitDist
  /\ linked' = 1
  /\ next' = InitNext
  /\ buckets' = InitBuckets
  /\ done' = InitDone
  /\ last_done' = InitLastDone
  /\ pc' = InitLabel
  /\ curr' = InitZero
  /\ work_on' = InitWorkOn
  /\ tried' = InitZero
  /\ next_is_null' = InitNextIsNull
  /\ next_node' = InitUnset
  /\ sz' = InitZero
  /\ todo' = InitTodo
  /\ item' = InitZero
  /\ du' = InitUnset
  /\ j' = InitZero

\* vis is not cleared between two searches
SlipSearchAgainVis ==
  /\ Joined
  /\ UNCHANGED vis
  /\ Restart
  /\ UNCHANGED stage

SearchAgain ==
  /\ Joined
  /\ vis' = InitVis
  /\ Restart
  /\ UNCHANGED stage

WriteOutput ==
  /\ Joined
  /\ stage' = "written"
  /\ UNCHANGED <<shared, pc, bucketLoop, entryLoop>>

Exited == stage = "written" /\ UNCHANGED vars

Step(t) ==
  \/ TestDone(t) \/ TestSize(t) \/ TestNext(t) \/ LinkNext(t)
  \/ LoadBucket(t) \/ StartHelping(t) \/ TakeEntry(t) \/ ReadDist(t)
  \/ TestNeighbor(t) \/ PushVertex(t) \/ MarkDist(t) \/ MarkVisited(t)
  \/ Progress(t) \/ FinishBucket(t) \/ Advance(t)

Next ==
  \/ \E t \in Thread : Step(t)
  \/ SearchAgain
  \/ WriteOutput
  \/ Exited

Spec == Init /\ [][Next]_vars

-----------------------------------------------------------------------------
(***************************************************************************)
(* Properties.                                                             *)
(***************************************************************************)

Labels == {"done", "size", "next", "link", "load", "start", "entry", "du",
           "neighbor", "push", "mark", "vis", "progress", "finish",
           "advance", "returned"}

(***************************************************************************)
(* Type invariant.                                                         *)
(***************************************************************************)
TypeOK ==
  /\ dist \in [Vertex -> Int]
  /\ vis \in [Vertex -> BOOLEAN]
  /\ linked \in 1 .. MaxNode + 1
  /\ next \in [Node -> Node \cup {Null}]
  /\ buckets \in [Node -> [Thread -> Seq(Vertex)]]
  /\ done \in [Node -> [Thread -> BOOLEAN]]
  /\ last_done \in [Node -> [Thread -> Nat]]
  /\ pc \in [Thread -> Labels]
  /\ curr \in [Thread -> Node \cup {Null}]
  /\ work_on \in [Thread -> Thread]
  /\ tried \in [Thread -> 0 .. NumT]
  /\ next_is_null \in [Thread -> BOOLEAN]
  /\ next_node \in [Thread -> Node \cup {Null}]
  /\ sz \in [Thread -> Nat]
  /\ todo \in [Thread -> SUBSET Nat]
  /\ item \in [Thread -> Nat]
  /\ du \in [Thread -> Int]
  /\ j \in [Thread -> Nat]
  /\ stage \in {"search", "written"}

Returned(t) == pc[t] = "returned"

(***************************************************************************)
(* All neighbours of u have their distance.                                *)
(***************************************************************************)
Covered(u) == \A v \in Neighbors(u) : dist[v] # Unset

(***************************************************************************)
(* A distance is never wrong, not even for a moment: threads that stall    *)
(* between the test of dist[v] and the writes of discover_vertex(), and    *)
(* threads that are levels apart, still agree on the value.                *)
(***************************************************************************)
DistSound == \A v \in Vertex : dist[v] \in {Unset, Delta[v]}

(***************************************************************************)
(* The bucket of a level holds vertices of that level only, late appends   *)
(* of stalled threads included.                                            *)
(***************************************************************************)
BucketsSound ==
  \A n \in Node, t \in Thread :
    \A i \in DOMAIN buckets[n][t] : Delta[buckets[n][t][i]] = n

(***************************************************************************)
(* The first call to return leaves the final result, while the others may  *)
(* still be anywhere in the list or stopped for ever.                      *)
(***************************************************************************)
FirstReturnExact == (\E t \in Thread : Returned(t)) => dist = Delta

(***************************************************************************)
(* A thread enters a level only when all its vertices have their distance. *)
(***************************************************************************)
LevelReady ==
  \A t \in Thread : ~Returned(t) =>
    \A v \in Vertex : Delta[v] \in 0 .. curr[t] => dist[v] # Unset

(***************************************************************************)
(* What the marks certify.  A marked vertex (vis) is covered, and so is    *)
(* every entry up to the progress (last_done) of the bucket's owner.       *)
(***************************************************************************)
VisCertificate == \A u \in Vertex : vis[u] => Covered(u)

ProgressCertificate ==
  \A n \in Node, t \in Thread :
    \A i \in 1 .. last_done[n][t] : Covered(buckets[n][t][i])

Certificates == VisCertificate /\ ProgressCertificate

(***************************************************************************)
(* Thread t has dealt with the bucket of w in its level: the position of w *)
(* in the round that starts at t comes before that of work_on[t].          *)
(***************************************************************************)
Visited(t, w) == (IF w >= t THEN w - t ELSE w + NumT - t) < tried[t]

(***************************************************************************)
(* Thread t, which is in level n, will still look at entry i of w.         *)
(***************************************************************************)
AtBucket == {"start", "entry", "du", "neighbor", "push", "mark", "vis",
             "progress", "finish"}
AtItem == {"du", "neighbor", "push", "mark", "vis"}

WillTake(t, w, i) ==
  /\ ~Visited(t, w)
  /\ work_on[t] = w /\ pc[t] \in AtBucket =>
       \/ pc[t] = "start" /\ i <= sz[t]
       \/ pc[t] # "start" /\ i \in todo[t]
       \/ pc[t] \in AtItem /\ i = item[t]

(***************************************************************************)
(* No discovered vertex is lost.  Until its neighbours have their          *)
(* distance, it has an entry that no thread has declared done and that     *)
(* every thread in its level is still going to take, so whichever thread   *)
(* leaves the level first has covered it.  Skipping a bucket (because of   *)
(* done, of its size, of last_done or of vis) can lose a vertex in many    *)
(* interleavings with a stalled owner if a mark is written too early.      *)
(***************************************************************************)
NoneLost ==
  \A v \in Vertex :
    dist[v] # Unset /\ ~Covered(v) =>
      \E w \in Thread : \E i \in DOMAIN buckets[dist[v]][w] :
        /\ buckets[dist[v]][w][i] = v
        /\ ~done[dist[v]][w]
        /\ \A t \in Thread : curr[t] = dist[v] => WillTake(t, w, i)

(***************************************************************************)
(* A thread appends a vertex at most once in a search, so no bucket gets   *)
(* longer than the number of vertices and a search allocates at most N     *)
(* entries per thread.                                                     *)
(***************************************************************************)
AppendedOnce ==
  \A t \in Thread : \A m, n \in Node :
    \A i \in DOMAIN buckets[m][t], k \in DOMAIN buckets[n][t] :
      buckets[m][t][i] = buckets[n][t][k] => m = n /\ i = k

(***************************************************************************)
(* The nodes form one list in the order they were linked, without a fork:  *)
(* all threads in a level push to the same next node.                      *)
(***************************************************************************)
OneList ==
  \A n \in Node : next[n] = IF n + 1 < linked THEN n + 1 ELSE Null

(***************************************************************************)
(* A call returns at a list with one node per level and an empty one, so a *)
(* search allocates eccentricity + 2 nodes however the threads interleave. *)
(***************************************************************************)
ListComplete ==
  (\E t \in Thread : Returned(t)) =>
    /\ \A v \in Vertex : Delta[v] + 1 < linked
    /\ \E v \in Vertex : Delta[v] + 2 = linked

(***************************************************************************)
(* The search implements LevelOrderBfs.                                    *)
(***************************************************************************)
LevelOrder == INSTANCE LevelOrderBfs WITH
  finished <- {t \in Thread : Returned(t)}

ImplementsLevelOrder == LevelOrder!Spec

(***************************************************************************)
(* Wait-freedom: a call returns by its thread's own steps alone, though    *)
(* every other thread may be stalled or stopped at any point.  To be       *)
(* checked under WF_vars(Step(t)) and no other assumption.                 *)
(***************************************************************************)
WaitFree(t) == ~Returned(t) ~> Returned(t)

=============================================================================
