----------------------------- MODULE BarrierBfs -----------------------------
(***************************************************************************)
(* BFS_parallel_frontier_expansion() of Locking_BFS/barrier-bfs.cpp: an    *)
(* OpenMP team expands one level after the other, with a lock per vertex   *)
(* and barriers between the phases.                                        *)
(*                                                                         *)
(* The levels lie one behind the other in the array S, level p in the      *)
(* positions start[p] up to start[p+1].  Which thread gets which iteration *)
(* of the level's loop is up to OpenMP.  What a thread does to a vertex    *)
(* while it holds its lock is one step: vis and dist of a vertex of the    *)
(* next level are used under its lock only.  A resized pS is a longer      *)
(* sequence.                                                               *)
(***************************************************************************)
EXTENDS BfsGraph

CONSTANTS
  N,        \* the number of vertices
  NumT      \* num_t

ASSUME TeamAssumption ==
  /\ N \in Nat /\ Vertex = 0 .. N - 1 /\ MaxDelta <= N
  /\ NumT \in Nat \ {0}

Thread == 0 .. NumT - 1

VARIABLES
  \* shared
  S, start, pSCount, phase_num,
  vLock,          \* the vertices whose lock is held
  vis, dist,
  taken,          \* the iterations of the loop over the level handed out
  \* local to the threads
  pc,
  vert, j,        \* the position of the vertex in S, the neighbour
  pS,             \* the vertices the thread has found in this phase
  k               \* the position it copies next

teamVars == <<S, start, pSCount, phase_num, taken>>
searchVars == <<vLock, vis, dist>>
localVars == <<vert, j, pS, k>>
vars == <<teamVars, searchVars, pc, localVars>>

Free == N         \* what is not written yet holds any value: one of its own

Init ==
  /\ S = [p \in 0 .. N - 1 |-> IF p = 0 THEN Root ELSE Free]
  /\ start = [p \in 0 .. N + 2 |-> IF p = 1 THEN 1 ELSE 0]
  /\ pSCount = [t \in 0 .. NumT |-> 0]
  /\ phase_num = 0
  /\ vLock = {}
  /\ vis = [v \in Vertex |-> v = Root]
  /\ dist = [v \in Vertex |-> IF v = Root THEN 0 ELSE Unset]
  /\ taken = {}
  /\ pc = [t \in Thread |-> "while"]
  /\ vert = [t \in Thread |-> 0]
  /\ j = [t \in Thread |-> 0]
  /\ pS = [t \in Thread |-> <<>>]
  /\ k = [t \in Thread |-> 0]

-----------------------------------------------------------------------------

Goto(t, label) == pc' = [pc EXCEPT ![t] = label]

\* threads for which the level has no iteration leave
SlipMoreToDo(t) == start[phase_num + 1] - start[phase_num] > t
MoreToDo(t) == start[phase_num + 1] - start[phase_num] > 0

\* The condition of the loop, and pCount = 0.
While(t) ==
  /\ pc[t] = "while"
  /\ IF MoreToDo(t)
     THEN Goto(t, "for") /\ pS' = [pS EXCEPT ![t] = <<>>]
     ELSE Goto(t, "left") /\ UNCHANGED pS
  /\ UNCHANGED <<teamVars, searchVars, vert, j, k>>

Iterations == (start[phase_num] .. start[phase_num + 1] - 1) \ taken

\* One iteration of the omp for, or its end, where all threads meet.
For(t) ==
  /\ pc[t] = "for"
  /\ \/ /\ Iterations = {}
        /\ Goto(t, "expanded")
        /\ UNCHANGED <<taken, vert, j>>
     \/ \E p \in Iterations :
          /\ taken' = taken \cup {p}
          /\ vert' = [vert EXCEPT ![t] = p]
          /\ j' = [j EXCEPT ![t] = 1]
          /\ Goto(t, "edge")
  /\ UNCHANGED <<S, start, pSCount, phase_num, searchVars, pS, k>>

V(t) == S[vert[t]]
W(t) == adj[V(t)][j[t]]

\* omp_test_lock(): a thread that does not get the lock skips the neighbour.
TestLock(t) ==
  /\ pc[t] = "edge"
  /\ IF j[t] > Len(adj[V(t)])
     THEN Goto(t, "for") /\ UNCHANGED <<j, vLock>>
     ELSE IF W(t) = V(t) \/ W(t) \in vLock
     THEN j' = [j EXCEPT ![t] = @ + 1] /\ UNCHANGED <<pc, vLock>>
     ELSE vLock' = vLock \cup {W(t)} /\ Goto(t, "visit") /\ UNCHANGED j
  /\ UNCHANGED <<teamVars, vis, dist, vert, pS, k>>

Visit(t) ==
  /\ pc[t] = "visit"
  /\ IF ~vis[W(t)]
     THEN /\ vis' = [vis EXCEPT ![W(t)] = TRUE]
          /\ dist' = [dist EXCEPT ![W(t)] = dist[V(t)] + 1]
          /\ pS' = [pS EXCEPT ![t] = Append(@, W(t))]
     ELSE UNCHANGED <<vis, dist, pS>>
  /\ Goto(t, "unlock")
  /\ UNCHANGED <<teamVars, vLock, vert, j, k>>

Unlock(t) ==
  /\ pc[t] = "unlock"
  /\ vLock' = vLock \ {W(t)}
  /\ j' = [j EXCEPT ![t] = @ + 1]
  /\ Goto(t, "edge")
  /\ UNCHANGED <<teamVars, vis, dist, vert, pS, k>>

\* pSCount[tid+1] = pCount
Count(t) ==
  /\ pc[t] = "count"
  /\ pSCount' = [pSCount EXCEPT ![t + 1] = Len(pS[t])]
  /\ Goto(t, "counted")
  /\ UNCHANGED <<S, start, phase_num, taken, searchVars, localVars>>

\* Where the vertices of each thread go: a running sum.
Sums ==
  LET sum[t \in 0 .. NumT] ==
        IF t = 0 THEN start[phase_num + 1] ELSE sum[t - 1] + pSCount[t]
  IN sum

Sum(t) ==
  /\ pc[t] = "sum"
  /\ IF t = 0
     THEN /\ pSCount' = Sums
          /\ start' = [start EXCEPT ![phase_num + 2] = Sums[NumT]]
          /\ phase_num' = phase_num + 1
     ELSE UNCHANGED <<start, pSCount, phase_num>>
  /\ Goto(t, "summed")
  /\ UNCHANGED <<S, taken, searchVars, localVars>>

\* One element of the copy, or its end.
SlipFrom(t) == pSCount[t + 1]
From(t) == pSCount[t]
Copy(t) ==
  /\ pc[t] = "copy"
  /\ IF From(t) + k[t] < pSCount[t + 1]
     THEN /\ S' = [S EXCEPT ![From(t) + k[t]] = pS[t][k[t] + 1]]
          /\ k' = [k EXCEPT ![t] = @ + 1]
          /\ UNCHANGED pc
     ELSE /\ k' = [k EXCEPT ![t] = 0]
          /\ Goto(t, "copied")
          /\ UNCHANGED S
  /\ UNCHANGED <<start, pSCount, phase_num, taken, searchVars, vert, j, pS>>

(***************************************************************************)
(* The barriers.  A thread waits in a label of the first column until all  *)
(* are there.  The loop is handed out anew in the next phase.              *)
(***************************************************************************)
Barriers ==
  {<<"expanded", "count">>, <<"counted", "sum">>, <<"summed", "copy">>,
   <<"copied", "while">>, <<"left", "returned">>}

\* lets a thread through that does not wait for the others
SlipAllAt(label) == \E t \in Thread : pc[t] = label
AllAt(label) == \A t \in Thread : pc[t] = label

Barrier ==
  \E b \in Barriers :
    /\ AllAt(b[1])
    /\ pc' = [t \in Thread |-> IF pc[t] = b[1] THEN b[2] ELSE pc[t]]
    /\ taken' = IF b[2] = "while" THEN {} ELSE taken
    /\ UNCHANGED <<S, start, pSCount, phase_num, searchVars, localVars>>

Exited == AllAt("returned") /\ UNCHANGED vars

Step(t) ==
  \/ While(t) \/ For(t) \/ TestLock(t) \/ Visit(t) \/ Unlock(t)
  \/ Count(t) \/ Sum(t) \/ Copy(t)

Next == Barrier \/ (\E t \in Thread : Step(t)) \/ Exited

Spec == Init /\ [][Next]_vars

-----------------------------------------------------------------------------

Labels == {"while", "for", "edge", "visit", "unlock", "count", "sum", "copy",
           "returned"} \cup {b[1] : b \in Barriers}

TypeOK ==
  /\ S \in [0 .. N - 1 -> Vertex \cup {Free}]
  /\ start \in [0 .. N + 2 -> 0 .. N]
  /\ pSCount \in [0 .. NumT -> 0 .. N]
  /\ phase_num \in 0 .. N
  /\ vLock \subseteq Vertex
  /\ vis \in [Vertex -> BOOLEAN]
  /\ dist \in [Vertex -> Unset .. MaxDelta]
  /\ taken \subseteq 0 .. N - 1
  /\ pc \in [Thread -> Labels]
  /\ vert \in [Thread -> 0 .. N - 1]
  /\ j \in [Thread -> Nat]
  /\ pS \in [Thread -> Seq(Vertex)]
  /\ k \in [Thread -> 0 .. N]

(***************************************************************************)
(* A phase starts with exactly the vertices of its level between start[p]  *)
(* and start[p+1], each of them once, though threads skip neighbours whose *)
(* lock is taken and write S side by side.                                 *)
(***************************************************************************)
FrontierExact ==
  (\E t \in Thread : pc[t] = "while") =>
    LET frontier == start[phase_num] .. start[phase_num + 1] - 1
    IN /\ {S[p] : p \in frontier} = Level(phase_num)
       /\ \A p, q \in frontier : S[p] = S[q] => p = q

(***************************************************************************)
(* The level-synchronous search implements the same specification as the   *)
(* wait-free one.                                                          *)
(***************************************************************************)
LevelOrder == INSTANCE LevelOrderBfs WITH
  finished <- {t \in Thread : pc[t] \in {"left", "returned"}}

ImplementsLevelOrder == LevelOrder!Spec

(***************************************************************************)
(* The loop test is read by every thread for itself, while barriers inside *)
(* the loop need all of them: either all leave after a level, or none.     *)
(***************************************************************************)
LeaveTogether ==
  (\E t \in Thread : pc[t] \in {"left", "returned"}) =>
    \A t \in Thread : pc[t] \in {"while", "left", "returned"} /\ ~MoreToDo(t)

=============================================================================
