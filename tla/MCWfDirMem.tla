----------------------------- MODULE MCWfDirMem -----------------------------
(***************************************************************************)
(* An instance of WfDirMem for TLC.  On a path of four vertices each node  *)
(* is used twice, levels 0 and 2, and 1 and 3; at level 2 there is still a *)
(* vertex to find, and every way to have used the node before.  Levels 0   *)
(* and 1 have codes, which level 0 passes on if it goes bottom-up; level 2 *)
(* has none and tests by distance.                                         *)
(***************************************************************************)
EXTENDS WfDirMem, TLC

PathAdj == (0 :> <<1>>) @@ (1 :> <<2, 0>>) @@ (2 :> <<3, 1>>) @@ (3 :> <<2>>)
PathDelta == (0 :> 0) @@ (1 :> 1) @@ (2 :> 2) @@ (3 :> 3)

Either == {"top_down", "bottom_up"}
ReuseRule == (0 :> Either) @@ (1 :> Either) @@ (2 :> {"bottom_up"}) @@ (3 :> {"top_down"})

=============================================================================
