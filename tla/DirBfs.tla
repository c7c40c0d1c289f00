------------------------------- MODULE DirBfs -------------------------------
(***************************************************************************)
(* The direction-optimizing search the wait-free ones are measured         *)
(* against, DO_BFS/dir-bfs.cpp: a team of OpenMP threads that runs one     *)
(* loop after the other and meets at the end of each.                      *)
(*                                                                         *)
(* Inside a loop there is an action for every access to memory that        *)
(* another thread of the loop may write: dist and the end of the queue in  *)
(* a top-down step, a word of a bitmap in the two others.  An entry of a   *)
(* loop without one is one step.  What runs between the loops is part of   *)
(* the action that joins the team.  The first and the last loop, InitDist  *)
(* and the one that clears what is left of the degrees, write disjoint     *)
(* parts of dist and are one step each.                                    *)
(***************************************************************************)
EXTENDS BfsGraph, FiniteSetsExt

CONSTANTS
  N,          \* the number of vertices
  NumT,       \* the size of the team
  Alphas,     \* what alpha may be, 15
  Betas,      \* what beta may be, 18
  Word,       \* the bits of a word, 64
  Chunk,      \* how many vertices a thread takes at a time, 1024
  LocalSize   \* the capacity of a QueueBuffer, 16384

ASSUME DirAssumption ==
  /\ N \in Nat \ {0} /\ Vertex = 0 .. N - 1
  /\ {NumT, Word, Chunk, LocalSize} \subseteq Nat \ {0}
  /\ Alphas \subseteq Nat \ {0} /\ Betas \subseteq Nat \ {0}
  \* a chunk is made of whole words, as 1024 is
  /\ Chunk % Word = 0

\* in_neigh() and out_neigh() are the same lists: an edge is in those of both its ends.
ASSUME SymmetryAssumption ==
  \A u \in Vertex : \A v \in Neighbors(u) : u \in Neighbors(v)

Thread == 0 .. NumT - 1

VARIABLES
  alpha, beta,      \* they do not change
  dist,             \* minus the degree, or -1, as long as there is no distance
  queue,            \* SlidingQueue: the array and its three positions
  front, curr,      \* Bitmap: the set of the bits that are set
  depth, edges_to_check, scout_count, awake_count,
  loop,             \* the loop the team runs
  chunk,            \* the first vertex no thread of a bottom-up step has taken
  my                \* what each thread has for itself

vars == <<alpha, beta, dist, queue, front, curr, depth, edges_to_check, scout_count,
          awake_count, loop, chunk, my>>
counts == <<depth, edges_to_check, scout_count, awake_count>>
params == <<alpha, beta>>

Degree(v) == Len(adj[v])
Edges == MapThenSumSet(Degree, Vertex)

InitDist == [v \in Vertex |-> IF Degree(v) # 0 THEN -Degree(v) ELSE -1]
QueueSize == queue.out_end - queue.out_start
Window == queue.out_start .. queue.out_end - 1

\* The static schedule: the entries first .. first + n - 1, cut in NumT parts of
\* which the first n % NumT are one longer.
PartStart(t, n) == (n \div NumT) * t + (IF t < n % NumT THEN t ELSE n % NumT)

Idle == [pc |-> "joined", i |-> 0, end |-> 0, j |-> 1, val |-> 0, at |-> 0,
         lqueue |-> <<>>, word |-> {}, count |-> 0]
Team(label, first, n) ==
  [t \in Thread |-> [Idle EXCEPT !.pc = label, !.i = first + PartStart(t, n),
                                 !.end = first + PartStart(t + 1, n)]]

Init ==
  /\ alpha \in Alphas /\ beta \in Betas
  /\ dist = [InitDist EXCEPT ![Root] = 0]
  /\ queue = [shared |-> [p \in Vertex |-> IF p = 0 THEN Root ELSE Unset],
              in |-> 1, out_start |-> 0, out_end |-> 1]
  /\ front = {} /\ curr = {}
  /\ depth = 0
  /\ edges_to_check = Edges
  /\ scout_count = Degree(Root)
  /\ awake_count = 0
  /\ loop = "test" /\ chunk = 0
  /\ my = [t \in Thread |-> Idle]

-----------------------------------------------------------------------------

Joined == \A t \in Thread : my[t].pc = "joined"
\* reduction(+ : ...): the counts of the threads 0 .. t - 1, added up.
Sums ==
  LET sum[t \in 0 .. NumT] == IF t = 0 THEN 0 ELSE sum[t - 1] + my[t - 1].count
  IN sum
Total == Sums[NumT]
At(t, in, label) == loop = in /\ my[t].pc = label
Goto(t, label) == my' = [my EXCEPT ![t].pc = label]

InWord(v) == {w \in Vertex : w \div Word = v \div Word}
\* A bitmap after a word of it has been written.
Stored(bitmap, v, word) == (bitmap \ InWord(v)) \cup word

\* slide_window()
Slide == [queue EXCEPT !.out_start = queue.out_end, !.out_end = queue.in]

\* push_back() of a QueueBuffer: a full one is flushed first.
Push(t, v, next) ==
  my' = [my EXCEPT ![t] = IF Len(@.lqueue) = LocalSize THEN [@ EXCEPT !.pc = "flush"]
                          ELSE [next EXCEPT !.lqueue = Append(@, v)]]

\* fetch_and_add on the end of the queue ...
Flush(t) ==
  /\ my[t].pc = "flush"
  /\ my' = [my EXCEPT ![t].at = queue.in, ![t].pc = "copy"]
  /\ queue' = [queue EXCEPT !.in = @ + Len(my[t].lqueue)]
  /\ UNCHANGED <<params, dist, front, curr, counts, loop, chunk>>

\* ... and the copy to the entries it has reserved; the push that found the
\* buffer full, or the end of the loop, comes next.
Copy(t) ==
  LET mine == my[t].at .. my[t].at + Len(my[t].lqueue) - 1
  IN /\ my[t].pc = "copy"
     /\ queue' = [queue EXCEPT !.shared =
                    [p \in Vertex |-> IF p \in mine THEN my[t].lqueue[p - my[t].at + 1] ELSE @[p]]]
     /\ my' = [my EXCEPT ![t] = IF @.i = @.end THEN [Idle EXCEPT !.count = my[t].count]
                                ELSE [@ EXCEPT !.lqueue = <<>>, !.at = 0, !.pc = "push"]]
     /\ UNCHANGED <<params, dist, front, curr, counts, loop, chunk>>

-----------------------------------------------------------------------------
(***************************************************************************)
(* TDStep(): the entries of the queue, a part for each thread.             *)
(***************************************************************************)
U(t) == queue.shared[my[t].i]
V(t) == adj[U(t)][my[t].j]

FromEdge(t, j) ==
  IF j <= Degree(U(t)) THEN [my[t] EXCEPT !.j = j, !.val = 0, !.pc = "edge"]
  ELSE [my[t] EXCEPT !.i = @ + 1, !.j = 1, !.val = 0, !.pc = "vertex"]
NextEdge(t) == FromEdge(t, my[t].j + 1)

TakeVertex(t) ==
  /\ At(t, "td", "vertex")
  /\ my' = [my EXCEPT ![t] = IF @.i = @.end THEN [@ EXCEPT !.pc = "flush"] ELSE FromEdge(t, 1)]
  /\ UNCHANGED <<params, dist, queue, front, curr, counts, loop, chunk>>

ReadDist(t) ==
  /\ At(t, "td", "edge")
  /\ my' = [my EXCEPT ![t] = IF dist[V(t)] < 0
                             THEN [@ EXCEPT !.val = dist[V(t)], !.pc = "swap"] ELSE NextEdge(t)]
  /\ UNCHANGED <<params, dist, queue, front, curr, counts, loop, chunk>>

\* does not compare
SlipWins(t) == dist[V(t)] \in Int
Wins(t) == dist[V(t)] = my[t].val

CompareAndSwap(t) ==
  /\ At(t, "td", "swap")
  /\ IF Wins(t)
     THEN /\ dist' = [dist EXCEPT ![V(t)] = depth]
          /\ Goto(t, "push")
     ELSE /\ UNCHANGED dist
          /\ my' = [my EXCEPT ![t] = NextEdge(t)]
  /\ UNCHANGED <<params, queue, front, curr, counts, loop, chunk>>

PushVertex(t) ==
  /\ At(t, "td", "push")
  /\ Push(t, V(t), [NextEdge(t) EXCEPT !.count = @ - my[t].val])
  /\ UNCHANGED <<params, dist, queue, front, curr, counts, loop, chunk>>

-----------------------------------------------------------------------------
(***************************************************************************)
(* QueueToBitmap(): set_bit_atomic() reads a word and tries to swap it.    *)
(***************************************************************************)
ReadWord(t) ==
  /\ At(t, "to_bitmap", "read")
  /\ my' = [my EXCEPT ![t] = IF @.i = @.end THEN Idle
                             ELSE [@ EXCEPT !.word = front \cap InWord(U(t)), !.pc = "swap"]]
  /\ UNCHANGED <<params, dist, queue, front, curr, counts, loop, chunk>>

\* stores the word without comparing
SlipSameWord(t) == TRUE
SameWord(t) == front \cap InWord(U(t)) = my[t].word

SwapWord(t) ==
  /\ At(t, "to_bitmap", "swap")
  /\ IF SameWord(t)
     THEN /\ front' = Stored(front, U(t), my[t].word \cup {U(t)})
          /\ my' = [my EXCEPT ![t].pc = "read", ![t].i = @ + 1, ![t].word = {}]
     ELSE /\ UNCHANGED front
          /\ Goto(t, "read")
  /\ UNCHANGED <<params, dist, queue, curr, counts, loop, chunk>>

(***************************************************************************)
(* BUStep(): threads take chunks of the vertices.  set_bit() reads a word  *)
(* and writes it back.                                                     *)
(***************************************************************************)
\* half of a word
SlipTaken == chunk .. Min({chunk + Word \div 2, N}) - 1
Taken == chunk .. Min({chunk + Chunk, N}) - 1

TakeChunk(t) ==
  /\ At(t, "bu", "chunk")
  /\ chunk' = chunk + Cardinality(Taken)
  /\ my' = [my EXCEPT ![t] = IF chunk >= N THEN [Idle EXCEPT !.count = my[t].count]
                             ELSE [@ EXCEPT !.i = chunk, !.end = chunk', !.pc = "test"]]
  /\ UNCHANGED <<params, dist, queue, front, curr, counts, loop>>

NextVertex(me) ==
  IF me.i + 1 = me.end THEN [me EXCEPT !.i = 0, !.end = 0, !.word = {}, !.pc = "chunk"]
  ELSE [me EXCEPT !.i = @ + 1, !.word = {}, !.pc = "test"]

TestVertex(t) ==
  LET u == my[t].i
  IN /\ At(t, "bu", "test")
     /\ IF dist[u] < 0 /\ Neighbors(u) \cap front # {}
        THEN /\ dist' = [dist EXCEPT ![u] = depth]
             /\ my' = [my EXCEPT ![t].count = @ + 1, ![t].word = curr \cap InWord(u),
                                 ![t].pc = "set"]
        ELSE /\ UNCHANGED dist
             /\ my' = [my EXCEPT ![t] = NextVertex(@)]
     /\ UNCHANGED <<params, queue, front, curr, counts, loop, chunk>>

SetBit(t) ==
  /\ At(t, "bu", "set")
  /\ curr' = Stored(curr, my[t].i, my[t].word \cup {my[t].i})
  /\ my' = [my EXCEPT ![t] = NextVertex(@)]
  /\ UNCHANGED <<params, dist, queue, front, counts, loop, chunk>>

(***************************************************************************)
(* BitmapToQueue(): the vertices, a part for each thread.                  *)
(***************************************************************************)
Gather(t) ==
  /\ At(t, "to_queue", "push")
  /\ IF my[t].i = my[t].end THEN Goto(t, "flush")
     ELSE IF my[t].i \in front THEN Push(t, my[t].i, [my[t] EXCEPT !.i = @ + 1])
     ELSE my' = [my EXCEPT ![t].i = @ + 1]
  /\ UNCHANGED <<params, dist, queue, front, curr, counts, loop, chunk>>

-----------------------------------------------------------------------------
(***************************************************************************)
(* DOBFS(), which runs the loops.                                          *)
(***************************************************************************)
\* C++ rounds towards 0.
Quotient(x, y) == IF x >= 0 THEN x \div y ELSE -((-x) \div y)

TestQueue ==
  /\ loop = "test"
  /\ IF QueueSize = 0
     THEN loop' = "clear" /\ UNCHANGED <<depth, edges_to_check, my>>
     ELSE IF scout_count > Quotient(edges_to_check, alpha)
     THEN /\ loop' = "to_bitmap"
          /\ my' = Team("read", queue.out_start, QueueSize)
          /\ UNCHANGED <<depth, edges_to_check>>
     ELSE /\ loop' = "td"
          /\ edges_to_check' = edges_to_check - scout_count
          /\ depth' = depth + 1
          /\ my' = Team("vertex", queue.out_start, QueueSize)
  /\ UNCHANGED <<params, dist, queue, front, curr, scout_count, awake_count, chunk>>

AfterTopDown ==
  /\ loop = "td" /\ Joined
  /\ loop' = "test"
  /\ scout_count' = Total
  /\ queue' = Slide
  /\ my' = [t \in Thread |-> Idle]
  /\ UNCHANGED <<params, dist, front, curr, depth, edges_to_check, awake_count, chunk>>

BottomUpStep ==
  /\ loop' = "bu"
  /\ depth' = depth + 1
  /\ chunk' = 0
  /\ my' = [t \in Thread |-> [Idle EXCEPT !.pc = "chunk"]]

AfterToBitmap ==
  /\ loop = "to_bitmap" /\ Joined
  /\ awake_count' = QueueSize
  /\ queue' = Slide
  /\ curr' = {}
  /\ BottomUpStep
  /\ UNCHANGED <<params, dist, front, edges_to_check, scout_count>>

\* awake_count is what the step before has found, old_awake_count in the code.
GoOn(awake) == awake >= awake_count \/ awake > N \div beta

AfterBottomUp ==
  /\ loop = "bu" /\ Joined
  /\ front' = curr
  /\ IF GoOn(Total)
     THEN /\ awake_count' = Total
          /\ curr' = {}
          /\ BottomUpStep
     ELSE /\ loop' = "to_queue"
          /\ awake_count' = 0
          /\ curr' = front
          /\ my' = Team("push", 0, N)
          /\ chunk' = 0
          /\ UNCHANGED depth
  /\ UNCHANGED <<params, dist, queue, edges_to_check, scout_count>>

AfterToQueue ==
  /\ loop = "to_queue" /\ Joined
  /\ loop' = "test"
  /\ queue' = Slide
  /\ scout_count' = 1
  /\ my' = [t \in Thread |-> Idle]
  /\ UNCHANGED <<params, dist, front, curr, depth, edges_to_check, awake_count, chunk>>

ClearDegrees ==
  /\ loop = "clear"
  /\ loop' = "returned"
  /\ dist' = [v \in Vertex |-> IF dist[v] < -1 THEN -1 ELSE dist[v]]
  /\ UNCHANGED <<params, queue, front, curr, counts, chunk, my>>

Step(t) ==
  \/ TakeVertex(t) \/ ReadDist(t) \/ CompareAndSwap(t) \/ PushVertex(t)
  \/ Flush(t) \/ Copy(t)
  \/ ReadWord(t) \/ SwapWord(t)
  \/ TakeChunk(t) \/ TestVertex(t) \/ SetBit(t)
  \/ Gather(t)

\* DOBFS() has returned.
Exited == loop = "returned" /\ UNCHANGED vars

Next ==
  \/ TestQueue \/ AfterTopDown \/ AfterToBitmap \/ AfterBottomUp \/ AfterToQueue
  \/ ClearDegrees \/ Exited
  \/ \E t \in Thread : Step(t)

Spec == Init /\ [][Next]_vars

-----------------------------------------------------------------------------

(***************************************************************************)
(* Whatever structure holds the frontier holds all of its level: the queue *)
(* in every order but once each, a bitmap perhaps with bits of an earlier  *)
(* time the structure was used, whose vertices have no neighbour left to   *)
(* find.  No step is run on an empty level, so that there are not more of  *)
(* them than levels.                                                       *)
(***************************************************************************)
FrontierExact ==
  LET queued == {queue.shared[p] : p \in Window}
      level == IF loop \in {"td", "bu"} THEN depth - 1 ELSE depth
  IN /\ loop \in {"test", "td", "to_bitmap"} =>
          queued = Level(level) /\ Cardinality(Window) = Cardinality(Level(level))
     /\ loop \in {"td", "bu"} => Level(level) # {}
     /\ loop = "bu" =>
          /\ Level(level) \subseteq front
          /\ \A u \in front \ Level(level) : \A v \in Neighbors(u) : dist[v] \in 0 .. level

(***************************************************************************)
(* The queue, which is never emptied, has room for what is pushed: no      *)
(* vertex is in it twice, whichever of the steps found it.                 *)
(***************************************************************************)
QueueFits ==
  /\ queue.in <= N
  /\ loop = "test" =>
       \A p, q \in 0 .. queue.in - 1 : queue.shared[p] = queue.shared[q] => p = q

(***************************************************************************)
(* The search implements LevelOrderBfs, with one call for the whole team:  *)
(* no step writes a distance of another level, or a second time, and the   *)
(* degrees that are left are gone when it returns.                         *)
(***************************************************************************)
Abstract == INSTANCE LevelOrderBfs WITH
  Thread <- {0},
  dist <- [v \in Vertex |-> IF dist[v] < 0 THEN Unset ELSE dist[v]],
  finished <- IF loop = "returned" /\ \A v \in Vertex : dist[v] >= Unset THEN {0} ELSE {}

ImplementsLevelOrder == Abstract!Spec

=============================================================================
