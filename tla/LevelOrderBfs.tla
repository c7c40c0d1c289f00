---------------------------- MODULE LevelOrderBfs ----------------------------
(***************************************************************************)
(* What a parallel breadth-first search promises, whatever its threads do: *)
(* vertices get their distance in the order of their levels, a distance is *)
(* written once, and no call returns while a vertex is still to be found.  *)
(* This is the sequential search of BFS/seq-bfs.cpp with the order inside  *)
(* a level left open, plus the set of the calls that have returned.        *)
(***************************************************************************)
EXTENDS BfsGraph

CONSTANT Thread

VARIABLES
  dist,       \* dist[v], Unset until v is discovered
  finished    \* the threads whose call has returned

vars == <<dist, finished>>

(***************************************************************************)
(* Every neighbour of u has a distance: the search is done with u.         *)
(***************************************************************************)
Covered(u) == \A v \in Neighbors(u) : dist[v] # Unset

Init ==
  /\ dist = [v \in Vertex |-> IF v = Root THEN 0 ELSE Unset]
  /\ finished = {}

Discover(u, v) ==
  /\ dist[u] # Unset
  /\ v \in Neighbors(u)
  /\ dist[v] = Unset
  \* no vertex closer than u has an undiscovered neighbour
  /\ \A x \in Vertex : dist[x] \in 0 .. dist[u] - 1 => Covered(x)
  /\ dist' = [dist EXCEPT ![v] = dist[u] + 1]
  /\ UNCHANGED finished

Finish(t) ==
  /\ t \notin finished
  /\ \A u \in Vertex : dist[u] # Unset => Covered(u)
  /\ finished' = finished \cup {t}
  /\ UNCHANGED dist

(***************************************************************************)
(* A driver that measures several searches starts over once every call has *)
(* returned.                                                               *)
(***************************************************************************)
StartOver ==
  /\ finished = Thread
  /\ dist' = [v \in Vertex |-> IF v = Root THEN 0 ELSE Unset]
  /\ finished' = {}

Next ==
  \/ \E u, v \in Vertex : Discover(u, v)
  \/ \E t \in Thread : Finish(t)
  \/ StartOver

Spec == Init /\ [][Next]_vars

-----------------------------------------------------------------------------

TypeOK ==
  /\ dist \in [Vertex -> Unset .. MaxDelta]
  /\ finished \subseteq Thread

(***************************************************************************)
(* A call that has returned leaves the true distance of every vertex.      *)
(***************************************************************************)
FinishedExact == finished # {} => dist = Delta

=============================================================================
