---------------------------- MODULE MCBarrierBfs ----------------------------
(***************************************************************************)
(* An instance of BarrierBfs for TLC: two shortest paths from vertex 0 to  *)
(* vertex 3, an edge from a vertex to itself, and a vertex nothing leads   *)
(* to.                                                                     *)
(***************************************************************************)
EXTENDS BarrierBfs, TLC

SquareAdj == (0 :> <<1, 2>>) @@ (1 :> <<0, 3>>) @@ (2 :> <<2, 2, 0, 3>>)
             @@ (3 :> <<1, 2>>) @@ (4 :> <<>>)
SquareDelta == (0 :> 0) @@ (1 :> 1) @@ (2 :> 1) @@ (3 :> 2) @@ (4 :> -1)

=============================================================================
