------------------------------ MODULE BfsGraph ------------------------------
(***************************************************************************)
(* The graph a search runs on, as every program of the repository sees it: *)
(* adjacency lists adj[0..N-1], filled by read_graph() (or by the CSR      *)
(* builder of Graph_helpers/graph_reader.hpp), and the source vertex 0.    *)
(*                                                                         *)
(* Delta is the distance of every vertex from the source, -1 when there is *)
(* no path: what the array dist has to hold at the end of a search.  It is *)
(* a parameter pinned down by DistanceAssumption, whose conjuncts have     *)
(* exactly one solution.  The MC modules compute it or write it down, and  *)
(* TLC evaluates the assumption for them.                                  *)
(***************************************************************************)
EXTENDS Integers, Sequences

CONSTANTS
  Vertex,     \* 0..N-1 in the code
  Root,       \* the source: vertex 0 in the code
  adj,        \* adj[u] is the adjacency list of u, in the order of the file
  Delta,      \* Delta[v] is the length of a shortest path from Root to v
  MaxDelta    \* an upper bound of the distances, such as N-1

Unset == -1   \* the value dist is filled with before a search

Neighbors(u) == {adj[u][j] : j \in DOMAIN adj[u]}

ASSUME GraphAssumption ==
  /\ Root \in Vertex
  /\ adj \in [Vertex -> Seq(Vertex)]
  /\ MaxDelta \in Nat

ASSUME DistanceAssumption ==
  /\ Delta \in [Vertex -> Unset .. MaxDelta]
  /\ \A v \in Vertex : Delta[v] = 0 <=> v = Root
  \* an edge takes a search at most one step further ...
  /\ \A u \in Vertex : Delta[u] # Unset =>
       \A v \in Neighbors(u) : Delta[v] \in 0 .. Delta[u] + 1
  \* ... and every vertex but the source is reached from one a step closer
  /\ \A v \in Vertex : Delta[v] > 0 =>
       \E u \in Vertex : Delta[u] = Delta[v] - 1 /\ v \in Neighbors(u)

Level(d) == {v \in Vertex : Delta[v] = d}

=============================================================================
