----------------------------- MODULE WfDir2Inv -----------------------------
(***************************************************************************)
(* The inductive invariant of WfDir2.                                      *)
(*                                                                         *)
(* Goal is what a search ends with.  All that the threads compute from the *)
(* counts is a function of it: Edges and Nodes are the counts of a level   *)
(* by owner, Running what a thread has added up of them, Remaining what is *)
(* left of the edges before each level, and BackAt its direction.          *)
(***************************************************************************)
EXTENDS WfDir2

Goal == IF FirstIsBack THEN [v \in Vertex |-> IF v = Root THEN 0 ELSE Unset] ELSE Delta

InRange(g, d, w) == {u \in Owned(w) : g[u] = d}
Edges(g, d) ==
  [w \in Thread |-> IF d = 0 THEN HeadNode.edges[w] ELSE MapThenSumSet(Degree, InRange(g, d, w))]
Nodes(g, d) ==
  [w \in Thread |-> IF d = 0 THEN HeadNode.nodes[w] ELSE Cardinality(InRange(g, d, w))]

Running(c) ==
  LET sum[i \in 0 .. NumT] == IF i = 0 THEN 0 ELSE sum[i - 1] + c[i - 1] IN sum
EdgesAt(g, d) == Running(Edges(g, d))[NumT]
NodesAt(g, d) == Running(Nodes(g, d))[NumT]

Remaining(g) ==
  LET left[d \in 0 .. MaxDelta + 2] ==
        IF d = 0 THEN Twice_M ELSE left[d - 1] - EdgesAt(g, d - 1)
  IN left

BackAt(d) == Back(EdgesAt(Goal, d), NodesAt(Goal, d), Remaining(Goal)[d + 1])

-----------------------------------------------------------------------------
(***************************************************************************)
(* Where threads are.                                                      *)
(***************************************************************************)
Scanning == {"vertex", "level", "neighbor", "found", "unset", "parent", "found_self", "mark",
             "write_done"}
AtVertex == {"level", "neighbor", "found", "unset", "parent", "found_self", "mark"}
AtNeighbor == {"neighbor", "found", "parent"}
Forward == {"level", "neighbor", "found"}
Backward == {"unset", "parent", "found_self"}
Counting == {"calcs", "count", "write_counts", "read_calcs", "write_calcs"}
Labels == InLevel \cup Counting \cup {"sum", "next", "returned"}

\* Sets the counts are in, so that a thread's record has a type.
EdgeSums == {Running(Edges(Goal, d))[i] : d \in Depth, i \in 0 .. NumT}
NodeSums == {Running(Nodes(Goal, d))[i] : d \in Depth, i \in 0 .. NumT}
Remainders == {Remaining(Goal)[d] : d \in 0 .. MaxDelta + 2}
EdgeCounts == {0} \cup {Edges(Goal, d)[w] : d \in Depth, w \in Thread}
NodeCounts == {0} \cup {Nodes(Goal, d)[w] : d \in Depth, w \in Thread}

ThreadShape ==
  [pc : Labels, depth : Depth, work_on : Thread, turn : Thread, next_is_null : BOOLEAN,
   mf : EdgeSums, nf : NodeSums, imp : BOOLEAN, mu : Remainders, back : BOOLEAN,
   todo : SUBSET Vertex, u : Vertex, j : Nat, word : SUBSET Thread]
NodeShape ==
  [done : SUBSET Thread, done_calcs : SUBSET Thread,
   nodes : [Thread -> NodeCounts], edges : [Thread -> EdgeCounts]]

Shape ==
  /\ a \in Alphas
  /\ dist \in [Vertex -> Unset .. MaxDelta]
  /\ vis \in [Vertex -> {-1} \cup Depth]
  /\ vis_forw \in [Vertex -> Depth]
  /\ nodes \in [Depth -> NodeShape]
  /\ linked \in [Depth -> BOOLEAN]
  /\ my \in [Thread -> ThreadShape]

\* The owner of round k of thread t.
Turn(t, k) == IF t + k < NumT THEN t + k ELSE t + k - NumT
Passed(t) == {Turn(t, k) : k \in 0 .. my[t].turn - 1}

-----------------------------------------------------------------------------
(***************************************************************************)
(* The distances: right, and all there up to the level a thread is in.     *)
(***************************************************************************)
DistSound == \A v \in Vertex : dist[v] \in {Unset, Goal[v]}
Complete(d) == \A v \in Vertex : Goal[v] \in 0 .. d => dist[v] = Goal[v]

HandledForward(d, u) == Goal[u] = d => \A v \in Neighbors(u) : dist[v] # Unset
HandledBack(d, u) == Goal[u] = d + 1 => dist[u] # Unset
Handled(d, u) == IF BackAt(d) THEN HandledBack(d, u) ELSE HandledForward(d, u)
HandledRange(d, w) == \A u \in Owned(w) : Handled(d, u)

MarksSound ==
  \A u \in Vertex :
    /\ vis[u] >= 0 => Complete(vis[u]) /\ HandledForward(vis[u], u)
    /\ vis_forw[u] > 0 => Complete(vis_forw[u]) /\ HandledBack(vis_forw[u], u)

DoneSound ==
  \A d \in Depth : \A w \in nodes[d].done :
    d <= MaxDelta /\ linked[d + 1] /\ Complete(d) /\ HandledRange(d, w)

\* The counts of owner w are there.
Counted(d, w) == nodes[d].edges[w] = Edges(Goal, d)[w] /\ nodes[d].nodes[w] = Nodes(Goal, d)[w]
CountsSound ==
  /\ \A w \in Thread : Counted(0, w)
  /\ \A d \in Depth : \A w \in nodes[d].done_calcs : Counted(d, w)

-----------------------------------------------------------------------------
(***************************************************************************)
(* What a thread has done so far.                                          *)
(***************************************************************************)
Rounds(t) ==
  /\ my[t].pc \in {"sum", "next", "returned"} => my[t].work_on = t
  /\ my[t].pc \notin {"sum", "next", "returned"} => my[t].work_on = Turn(t, my[t].turn)
  /\ my[t].pc \in {"next", "returned"} => my[t].turn = 0

Summing(t) ==
  LET d == my[t].depth
      i == IF my[t].pc = "sum" THEN my[t].turn ELSE 0
  IN /\ my[t].mf = Running(Edges(Goal, d))[i]
     /\ my[t].nf = Running(Nodes(Goal, d))[i]
     /\ my[t].imp <=> \E k \in 0 .. i - 1 : Nodes(Goal, d)[k] # 0
     /\ my[t].pc \in {"sum"} \cup Counting => my[t].mu = Remaining(Goal)[d]
     /\ my[t].pc = "sum" => \A w \in Thread : Counted(d, w)

Counts(t) ==
  LET d == my[t].depth
  IN /\ my[t].pc \in Counting => d > 0 /\ \A w \in Passed(t) : Counted(d, w)
     /\ my[t].pc = "write_counts" => my[t].todo = InRange(Goal, d, my[t].work_on)
     /\ my[t].pc \in {"read_calcs", "write_calcs"} => Counted(d, my[t].work_on)
     /\ my[t].pc = "write_calcs" => \A w \in my[t].word : Counted(d, w)

Directed(t) ==
  LET d == my[t].depth
  IN /\ my[t].pc \in InLevel \cup {"next"} =>
          /\ d <= MaxDelta
          /\ d > 0 => ~FirstIsBack
          /\ my[t].back = BackAt(d) /\ my[t].mu = Remaining(Goal)[d + 1]
     /\ my[t].pc \in Forward => ~my[t].back
     /\ my[t].pc \in Backward => my[t].back /\ d > 0
     /\ my[t].pc = "returned" => \A v \in Vertex : Goal[v] # d

Walks(t) ==
  LET d == my[t].depth
      w == my[t].work_on
  IN /\ Complete(d)
     /\ my[t].pc = "next" => linked[d + 1] /\ Complete(d + 1)
     /\ my[t].pc \in {"sum"} \cup Counting => my[t].next_is_null
     /\ my[t].pc \in InLevel =>
          /\ \A x \in Passed(t) : HandledRange(d, x)
          /\ ~my[t].next_is_null => linked[d + 1]
     /\ my[t].pc \in Scanning => linked[d + 1]
     /\ my[t].pc = "link" => my[t].todo = Owned(w)
     /\ my[t].pc \in Scanning =>
          /\ my[t].todo \subseteq Owned(w)
          /\ \A x \in Owned(w) \ my[t].todo : Handled(d, x) \/ (x = my[t].u /\ my[t].pc \in AtVertex)
     /\ my[t].pc = "write_done" =>
          my[t].todo = {} /\ \A x \in my[t].word : linked[d + 1] /\ HandledRange(d, x)

\* The vertex a thread is at.
View(t) ==
  LET d == my[t].depth
      u == my[t].u
      j == my[t].j
  IN /\ my[t].pc \in AtNeighbor => j \in 1 .. Degree(u)
     /\ my[t].pc \in {"neighbor", "found"} =>
          Goal[u] = d /\ \A k \in 1 .. j - 1 : dist[adj[u][k]] # Unset
     /\ my[t].pc = "found" => Goal[V(t)] = d + 1
     /\ my[t].pc = "parent" => Goal[u] \notin 0 .. d /\ \A k \in 1 .. j - 1 : Goal[adj[u][k]] # d
     /\ my[t].pc = "found_self" => Goal[u] = d + 1
     /\ my[t].pc = "mark" => Handled(d, u)

-----------------------------------------------------------------------------

IInv ==
  /\ Shape
  /\ DistSound /\ MarksSound /\ DoneSound /\ CountsSound
  /\ \A t \in Thread : Rounds(t) /\ Summing(t) /\ Counts(t) /\ Directed(t) /\ Walks(t) /\ View(t)

=============================================================================
