----------------------------- MODULE MCStartup -----------------------------
(***************************************************************************)
(* An instance of Startup for TLC: a node with a core of two CPUs and one  *)
(* of one, and a node with a core of two; up to two thread counts.         *)
(***************************************************************************)
EXTENDS Startup, TLC

Nodes2 == [cpu \in 0 .. 4 |-> IF cpu < 3 THEN 0 ELSE 1]
Cores3 == (0 :> "a") @@ (1 :> "a") @@ (2 :> "b") @@ (3 :> "c") @@ (4 :> "c")
Counts == BoundedSeq(0 .. 4, 2)

=============================================================================
