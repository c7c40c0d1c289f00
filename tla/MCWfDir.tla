------------------------------- MODULE MCWfDir -------------------------------
(***************************************************************************)
(* An instance of WfDir for TLC: a path whose vertices are in blocks of    *)
(* two owners.  The first level goes top-down, the second either way, as   *)
(* each thread likes, the last bottom-up: codes are written for a frontier *)
(* that was pushed top-down, and passed on by one that was found           *)
(* bottom-up.                                                              *)
(***************************************************************************)
EXTENDS WfDir, TLC

PathAdj == (0 :> <<1>>) @@ (1 :> <<2, 0>>) @@ (2 :> <<1>>)
PathDelta == (0 :> 0) @@ (1 :> 1) @@ (2 :> 2)

Turns ==
  [d \in 0 .. MaxNode |->
     IF d = 0 THEN {"top_down"} ELSE IF d = 1 THEN {"top_down", "bottom_up"} ELSE {"bottom_up"}]

=============================================================================
