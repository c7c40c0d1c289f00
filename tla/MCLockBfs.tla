------------------------------ MODULE MCLockBfs ------------------------------
(***************************************************************************)
(* An instance of LockBfs for TLC: two paths of different length from      *)
(* vertex 0 to vertex 3, and a vertex nothing leads to.                    *)
(***************************************************************************)
EXTENDS LockBfs, TLC

RingAdj == (0 :> <<1, 2>>) @@ (1 :> <<0, 3>>) @@ (2 :> <<0, 3>>)
           @@ (3 :> <<1, 2, 4>>) @@ (4 :> <<3>>) @@ (5 :> <<>>)
RingDelta == (0 :> 0) @@ (1 :> 1) @@ (2 :> 1) @@ (3 :> 2) @@ (4 :> 3)
             @@ (5 :> -1)

=============================================================================
