-------------------------- MODULE MCWaitFreeAlone --------------------------
(***************************************************************************)
(* The liveness instances: one thread is scheduled, the others may be      *)
(* stopped at any point of their calls.                                    *)
(***************************************************************************)
EXTENDS MCWaitFreeBfs

CONSTANT Alone      \* the thread that is scheduled

LoneSpec == Spec /\ WF_vars(Step(Alone))

(***************************************************************************)
(* Wait-freedom for this thread: its call returns, whatever the others do  *)
(* or fail to do.                                                          *)
(***************************************************************************)
LoneReturns == WaitFree(Alone)

=============================================================================
