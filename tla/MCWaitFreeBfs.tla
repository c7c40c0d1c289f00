--------------------------- MODULE MCWaitFreeBfs ---------------------------
(***************************************************************************)
(* An instance of WaitFreeBfs for TLC.  Vertices are numbered from 1, as   *)
(* in the input files.  A graph is written down as its edge list,          *)
(* adjacency lists and distances; TLC checks that the lists are what       *)
(* read_graph() makes of the edges and the distances what a breadth-first  *)
(* search finds.                                                           *)
(***************************************************************************)
EXTENDS WaitFreeBfsInv, SequencesExt

CONSTANT Edges      \* the lines of the input file

\* two shortest paths to vertex 4, and a vertex nothing leads to
SquareEdges == << <<1, 2>>, <<1, 3>>, <<2, 4>>, <<3, 4>> >>
SquareAdj == << <<2, 3>>, <<1, 4>>, <<1, 4>>, <<2, 3>>, <<>> >>
SquareDelta == <<0, 1, 1, 2, -1>>

-----------------------------------------------------------------------------

ReadGraph(edges) ==
  [u \in Vertex |->
    FoldLeft(LAMBDA list, e : list \o (IF e[1] = u THEN <<e[2]>> ELSE <<>>)
                                   \o (IF e[2] = u THEN <<e[1]>> ELSE <<>>),
             <<>>, edges)]

ASSUME EdgesAssumption == adj = ReadGraph(Edges)

\* the vertices at most d steps from the source
Within[d \in Nat] ==
  IF d = 0
  THEN {Root}
  ELSE Within[d-1] \cup UNION {Neighbors(u) : u \in Within[d-1]}

ASSUME DeltaAssumption ==
  \A v \in Vertex :
    IF Delta[v] = Unset
    THEN v \notin Within[MaxDelta]
    ELSE v \in Within[Delta[v]] /\ (Delta[v] > 0 => v \notin Within[Delta[v]-1])

ASSUME WithinAssumption == Within[MaxDelta] = Within[MaxDelta + 1]

=============================================================================
