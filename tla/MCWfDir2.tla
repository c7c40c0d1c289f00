------------------------------ MODULE MCWfDir2 ------------------------------
(***************************************************************************)
(* An instance of WfDir2 for TLC.  With a = 1 the levels of this graph go  *)
(* forward, forward, back, forward; with 14 the first goes back.           *)
(***************************************************************************)
EXTENDS WfDir2, TLC

KiteAdj == (0 :> <<1, 2>>) @@ (1 :> <<0, 3>>) @@ (2 :> <<0, 3>>) @@ (3 :> <<1, 2, 4>>)
           @@ (4 :> <<3>>)
KiteDelta == (0 :> 0) @@ (1 :> 1) @@ (2 :> 1) @@ (3 :> 2) @@ (4 :> 3)

=============================================================================
