------------------------------ MODULE MCDirBfs ------------------------------
(***************************************************************************)
(* An instance of DirBfs for TLC: levels of one and of two vertices take   *)
(* turns, and a vertex has no edge.  With alpha = 5 and beta = 9, the      *)
(* search goes top-down, bottom-up, top-down and bottom-up, the second     *)
(* time with the bits of the first in the bitmap; with beta = 18 it stays  *)
(* bottom-up, and with alpha = 15 it starts so.                            *)
(***************************************************************************)
EXTENDS DirBfs, TLC

ChainAdj == (0 :> <<1, 2>>) @@ (1 :> <<0, 3>>) @@ (2 :> <<0, 3>>) @@ (3 :> <<1, 2, 4, 5>>)
            @@ (4 :> <<3, 6>>) @@ (5 :> <<3, 6, 7>>) @@ (6 :> <<4, 5>>) @@ (7 :> <<5>>)
            @@ (8 :> <<>>)
ChainDelta == (0 :> 0) @@ (1 :> 1) @@ (2 :> 1) @@ (3 :> 2) @@ (4 :> 3) @@ (5 :> 3) @@ (6 :> 4)
              @@ (7 :> 4) @@ (8 :> -1)

=============================================================================
