-------------------------- MODULE MCSearchControl --------------------------
(***************************************************************************)
(* An instance of SearchControl for TLC: a path of three vertices, its     *)
(* first two joined to a fourth, which is in the level of the second, and  *)
(* the source at one end.                                                  *)
(***************************************************************************)
EXTENDS SearchControl, TLC

KiteAdj == (0 :> <<1, 3>>) @@ (1 :> <<0, 2, 3>>) @@ (2 :> <<1>>) @@ (3 :> <<0, 1>>)
KiteDelta == (0 :> 1) @@ (1 :> 1) @@ (2 :> 2) @@ (3 :> 0)

OneThenThree == <<1, 3>>

=============================================================================
