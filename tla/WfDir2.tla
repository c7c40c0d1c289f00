------------------------------- MODULE WfDir2 -------------------------------
(***************************************************************************)
(* The first direction-optimizing search, WF_DO_BFS/wf-dir-2.cpp.  It has  *)
(* no buckets: a thread owns a range of vertices, and a level is found in  *)
(* dist.  The threads do not agree on the direction of a level; each       *)
(* computes it from the counts of all levels so far, which come out the    *)
(* same for all.                                                           *)
(*                                                                         *)
(* done and done_calcs are vector<bool>: a bit is set by reading its word  *)
(* and writing it back, and a bit that another thread sets in between is   *)
(* lost.  Taking a vertex reads its mark.  The scan that counts a range    *)
(* and the writing of its two counts are one step each; all else is an     *)
(* action per access.                                                      *)
(***************************************************************************)
EXTENDS BfsGraph, FiniteSetsExt

CONSTANTS
  N,          \* the number of vertices
  NumT,       \* num_t
  Alphas,     \* what a may be, 14
  B           \* b, 24

ASSUME Dir2Assumption ==
  /\ N \in Nat \ {0} /\ Vertex = 0 .. N - 1 /\ Root = 0
  /\ NumT \in Nat \ {0}
  /\ Alphas \subseteq Nat \ {0} /\ B \in Nat \ {0}

\* a bottom-up step looks for a parent in the list of the vertex
ASSUME SymmetryAssumption ==
  \A u \in Vertex : \A v \in Neighbors(u) : u \in Neighbors(v)

Thread == 0 .. NumT - 1
Depth == 0 .. MaxDelta + 1

VARIABLES
  a,              \* it does not change
  dist, vis, vis_forw,
  nodes,          \* nodes[d], the node of depth d
  linked,         \* whether there is a node of that depth
  my              \* what each thread has for itself

vars == <<a, dist, vis, vis_forw, nodes, linked, my>>

Twice_M == MapThenSumSet(LAMBDA v : Len(adj[v]), Vertex)
Degree(v) == Len(adj[v])

\* The head has a count for thread 0 and -1 for the others.
NewNode == [done |-> {}, done_calcs |-> {}, nodes |-> [t \in Thread |-> 0],
            edges |-> [t \in Thread |-> 0]]
HeadNode == [done |-> {}, done_calcs |-> {},
             nodes |-> [t \in Thread |-> IF t = 0 THEN 1 ELSE -1],
             edges |-> [t \in Thread |-> IF t = 0 THEN Degree(0) ELSE -1]]

Init ==
  /\ a \in Alphas
  /\ dist = [v \in Vertex |-> IF v = Root THEN 0 ELSE Unset]
  /\ vis = [v \in Vertex |-> -1]
  /\ vis_forw = [v \in Vertex |-> 0]
  /\ nodes = [d \in Depth |-> IF d = 0 THEN HeadNode ELSE NewNode]
  /\ linked = [d \in Depth |-> d = 0]
  /\ my = [t \in Thread |->
             [pc |-> "sum", depth |-> 0, work_on |-> t, turn |-> 0, next_is_null |-> TRUE,
              mf |-> 0, nf |-> 0, imp |-> FALSE, mu |-> Twice_M, back |-> FALSE,
              todo |-> {}, u |-> 0, j |-> 0, word |-> {}]]

-----------------------------------------------------------------------------

At(t, label) == my[t].pc = label
Goto(t, label) == my' = [my EXCEPT ![t].pc = label]
Curr(t) == nodes[my[t].depth]

\* leaves the remainder out
SlipOwned(w) == (N \div NumT) * w .. (N \div NumT) * (w + 1) - 1
\* The vertices of owner w; the last one has the remainder.
Owned(w) == (N \div NumT) * w .. (IF w = NumT - 1 THEN N ELSE (N \div NumT) * (w + 1)) - 1

\* What is left of a thread's record when it turns to the next owner or stage.
AtRest(t, label) == [my[t] EXCEPT !.pc = label, !.todo = {}, !.u = 0, !.j = 0, !.word = {}]
NextOwner(t, again, else) ==
  LET last == my[t].turn = NumT - 1
  IN my' = [my EXCEPT ![t] = [AtRest(t, IF last THEN else ELSE again) EXCEPT
                                !.work_on = (@ + 1) % NumT,
                                !.turn = IF last THEN 0 ELSE @ + 1]]

-----------------------------------------------------------------------------
(***************************************************************************)
(* The counts of the level, and the direction.                             *)
(***************************************************************************)

\* C++ rounds towards 0.
Quotient(x, y) == IF x >= 0 THEN x \div y ELSE -((-x) \div y)
Back(mf, nf, mu) == mf > Quotient(mu, a) \/ nf > N \div B

\* The counts of one more owner, and after the last one the direction.
Sum(t) ==
  /\ At(t, "sum")
  /\ LET i == my[t].turn
         mf == my[t].mf + Curr(t).edges[i]
         nf == my[t].nf + Curr(t).nodes[i]
         imp == my[t].imp \/ Curr(t).nodes[i] # 0
         mu == my[t].mu - mf
     IN my' = [my EXCEPT ![t] =
                 IF i < NumT - 1
                 THEN [@ EXCEPT !.turn = i + 1, !.mf = mf, !.nf = nf, !.imp = imp]
                 ELSE [@ EXCEPT !.turn = 0, !.mf = 0, !.nf = 0, !.imp = FALSE, !.mu = mu,
                                !.back = Back(mf, nf, mu), !.work_on = t,
                                !.pc = IF imp THEN "done" ELSE "returned"]]
  /\ UNCHANGED <<a, dist, vis, vis_forw, nodes, linked>>

-----------------------------------------------------------------------------
(***************************************************************************)
(* A level.                                                                *)
(***************************************************************************)

TestDone(t) ==
  /\ At(t, "done")
  /\ IF my[t].work_on \in Curr(t).done THEN NextOwner(t, "done", "next")
     ELSE my' = [my EXCEPT ![t].pc = IF my[t].next_is_null THEN "link" ELSE "vertex",
                           ![t].todo = Owned(my[t].work_on)]
  /\ UNCHANGED <<a, dist, vis, vis_forw, nodes, linked>>

\* add_node(), unless there is one.
LinkNext(t) ==
  /\ At(t, "link")
  /\ linked' = [linked EXCEPT ![my[t].depth + 1] = TRUE]
  /\ my' = [my EXCEPT ![t].pc = "vertex", ![t].next_is_null = FALSE]
  /\ UNCHANGED <<a, dist, vis, vis_forw, nodes>>

Scanned(u, depth) == vis_forw[u] >= depth

\* A vertex is taken, in order by the owner and in any order by a helper, and
\* its mark is read.
TakeVertex(t) ==
  /\ At(t, "vertex")
  /\ \E u \in my[t].todo :
       LET marked == IF my[t].back THEN Scanned(u, my[t].depth) ELSE vis[u] >= my[t].depth
       IN /\ my[t].work_on = t => u = Min(my[t].todo)
          /\ my' = [my EXCEPT ![t].todo = @ \ {u}, ![t].u = IF marked THEN 0 ELSE u,
                              ![t].pc = IF marked THEN "vertex"
                                        ELSE IF my[t].back THEN "unset" ELSE "level"]
  /\ UNCHANGED <<a, dist, vis, vis_forw, nodes, linked>>

Skip(t) == my' = [my EXCEPT ![t].pc = "vertex", ![t].u = 0, ![t].j = 0]
FromNeighbor(t, j, label) ==
  my' = [my EXCEPT ![t].j = j, ![t].pc = IF j <= Degree(my[t].u) THEN label ELSE "mark"]
V(t) == adj[my[t].u][my[t].j]

\* populate_forward()
TestLevel(t) ==
  /\ At(t, "level")
  /\ IF dist[my[t].u] # my[t].depth THEN Skip(t) ELSE FromNeighbor(t, 1, "neighbor")
  /\ UNCHANGED <<a, dist, vis, vis_forw, nodes, linked>>

TestNeighbor(t) ==
  /\ At(t, "neighbor")
  /\ IF dist[V(t)] = Unset THEN Goto(t, "found") ELSE FromNeighbor(t, my[t].j + 1, "neighbor")
  /\ UNCHANGED <<a, dist, vis, vis_forw, nodes, linked>>

Found(t) ==
  /\ At(t, "found")
  /\ dist' = [dist EXCEPT ![V(t)] = dist[my[t].u] + 1]
  /\ FromNeighbor(t, my[t].j + 1, "neighbor")
  /\ UNCHANGED <<a, vis, vis_forw, nodes, linked>>

\* fetch_from_back()
TestUnset(t) ==
  /\ At(t, "unset")
  /\ IF dist[my[t].u] # Unset THEN Skip(t) ELSE FromNeighbor(t, 1, "parent")
  /\ UNCHANGED <<a, dist, vis, vis_forw, nodes, linked>>

TestParent(t) ==
  /\ At(t, "parent")
  /\ IF dist[V(t)] = my[t].depth THEN Goto(t, "found_self")
     ELSE FromNeighbor(t, my[t].j + 1, "parent")
  /\ UNCHANGED <<a, dist, vis, vis_forw, nodes, linked>>

FoundSelf(t) ==
  /\ At(t, "found_self")
  /\ dist' = [dist EXCEPT ![my[t].u] = my[t].depth + 1]
  /\ Goto(t, "mark")
  /\ UNCHANGED <<a, vis, vis_forw, nodes, linked>>

Mark(t) ==
  /\ At(t, "mark")
  /\ IF my[t].back
     THEN vis_forw' = [vis_forw EXCEPT ![my[t].u] = my[t].depth] /\ UNCHANGED vis
     ELSE vis' = [vis EXCEPT ![my[t].u] = my[t].depth] /\ UNCHANGED vis_forw
  /\ Skip(t)
  /\ UNCHANGED <<a, dist, nodes, linked>>

\* The range is at its end.
ReadDone(t) ==
  /\ At(t, "vertex") /\ my[t].todo = {}
  /\ my' = [my EXCEPT ![t].word = Curr(t).done, ![t].pc = "write_done"]
  /\ UNCHANGED <<a, dist, vis, vis_forw, nodes, linked>>

WriteDone(t) ==
  /\ At(t, "write_done")
  /\ nodes' = [nodes EXCEPT ![my[t].depth].done = my[t].word \cup {my[t].work_on}]
  /\ NextOwner(t, "done", "next")
  /\ UNCHANGED <<a, dist, vis, vis_forw, linked>>

\* curr = curr->next, which would be followed if it were null.
Advance(t) ==
  /\ At(t, "next")
  /\ my' = [my EXCEPT ![t].depth = @ + 1, ![t].pc = "calcs", ![t].back = FALSE,
                      ![t].next_is_null = TRUE]
  /\ UNCHANGED <<a, dist, vis, vis_forw, nodes, linked>>

RunLevel(t) ==
  \/ TestDone(t) \/ LinkNext(t) \/ TakeVertex(t)
  \/ TestLevel(t) \/ TestNeighbor(t) \/ Found(t)
  \/ TestUnset(t) \/ TestParent(t) \/ FoundSelf(t)
  \/ Mark(t) \/ ReadDone(t) \/ WriteDone(t) \/ Advance(t)

-----------------------------------------------------------------------------
(***************************************************************************)
(* The counts of the next level, by whoever comes first.                   *)
(***************************************************************************)

\* its own range only
SlipNextCalc(t) == my' = [my EXCEPT ![t] = [AtRest(t, "sum") EXCEPT !.turn = 0]]
\* All ranges, its own or not.
NextCalc(t) == NextOwner(t, "calcs", "sum")

TestCalcs(t) ==
  /\ At(t, "calcs")
  /\ IF my[t].work_on \in Curr(t).done_calcs THEN NextCalc(t) ELSE Goto(t, "count")
  /\ UNCHANGED <<a, dist, vis, vis_forw, nodes, linked>>

CountRange(t) ==
  /\ At(t, "count")
  /\ my' = [my EXCEPT ![t].todo = {u \in Owned(my[t].work_on) : dist[u] = my[t].depth},
                      ![t].pc = "write_counts"]
  /\ UNCHANGED <<a, dist, vis, vis_forw, nodes, linked>>

WriteCounts(t) ==
  /\ At(t, "write_counts")
  /\ nodes' = [nodes EXCEPT
                 ![my[t].depth].nodes[my[t].work_on] = Cardinality(my[t].todo),
                 ![my[t].depth].edges[my[t].work_on] = MapThenSumSet(Degree, my[t].todo)]
  /\ my' = [my EXCEPT ![t].pc = "read_calcs", ![t].todo = {}]
  /\ UNCHANGED <<a, dist, vis, vis_forw, linked>>

ReadCalcs(t) ==
  /\ At(t, "read_calcs")
  /\ my' = [my EXCEPT ![t].word = Curr(t).done_calcs, ![t].pc = "write_calcs"]
  /\ UNCHANGED <<a, dist, vis, vis_forw, nodes, linked>>

WriteCalcs(t) ==
  /\ At(t, "write_calcs")
  /\ nodes' = [nodes EXCEPT ![my[t].depth].done_calcs = my[t].word \cup {my[t].work_on}]
  /\ NextCalc(t)
  /\ UNCHANGED <<a, dist, vis, vis_forw, linked>>

Calcs(t) ==
  \/ TestCalcs(t) \/ CountRange(t) \/ WriteCounts(t) \/ ReadCalcs(t) \/ WriteCalcs(t)

-----------------------------------------------------------------------------

Step(t) == Sum(t) \/ RunLevel(t) \/ Calcs(t)
\* The threads are joined.
Exited == (\A t \in Thread : At(t, "returned")) /\ UNCHANGED vars
Next == Exited \/ \E t \in Thread : Step(t)
Spec == Init /\ [][Next]_vars

-----------------------------------------------------------------------------

InLevel == {"done", "link", "vertex", "level", "neighbor", "found", "unset", "parent",
            "found_self", "mark", "write_done"}

(***************************************************************************)
(* Threads that never meet and agree on nothing run a level the same way,  *)
(* and have a next node to go to when they leave it, also when bits that   *)
(* say a range is done or counted get lost.                                *)
(***************************************************************************)
OneDirection ==
  \A t \in Thread :
    /\ my[t].pc = "next" => linked[my[t].depth + 1]
    /\ \A s \in Thread :
         my[s].pc \in InLevel /\ my[t].pc \in InLevel /\ my[s].depth = my[t].depth =>
           my[s].back = my[t].back /\ my[s].mu = my[t].mu

\* The direction of the first level: its counts have a -1 for every thread but the first.
FirstIsBack ==
  LET mf == Degree(0) - (NumT - 1)
      nf == 1 - (NumT - 1)
  IN Back(mf, nf, Twice_M - mf)

(***************************************************************************)
(* The first call that returns leaves the distances of the graph, if the   *)
(* first level goes top-down.  If it goes bottom-up, as it does from a     *)
(* source with a large share of the edges, every vertex counts as scanned  *)
(* in that level (vis_forw starts with 0, the depth of the level), so that *)
(* the search ends there: no vertex but the source has a distance.         *)
(***************************************************************************)
ReturnedExact ==
  (\E t \in Thread : At(t, "returned")) =>
    dist = IF FirstIsBack THEN [v \in Vertex |-> IF v = Root THEN 0 ELSE Unset] ELSE Delta

=============================================================================
