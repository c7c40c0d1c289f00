------------------------------ MODULE LockBfs ------------------------------
(***************************************************************************)
(* lock_bfs() of Locking_BFS/lock-bfs.cpp: threads take vertices from one  *)
(* queue under a semaphore, and test and write dist outside of it.         *)
(*                                                                         *)
(* What happens between sem_wait() and sem_post() is one step: the queue   *)
(* is used nowhere else.  The counts ops are left out.                     *)
(***************************************************************************)
EXTENDS BfsGraph

CONSTANT NumT

ASSUME PoolAssumption == NumT \in Nat \ {0}

Thread == 0 .. NumT - 1

VARIABLES
  dist, q,
  \* local to the threads
  pc, u, d,
  j         \* position in adj[u]

vars == <<dist, q, pc, u, d, j>>

Init ==
  /\ dist = [v \in Vertex |-> IF v = Root THEN 0 ELSE Unset]
  /\ q = <<Root>>
  /\ pc = [t \in Thread |-> "pop"]
  /\ u = [t \in Thread |-> Root]
  /\ d = [t \in Thread |-> 0]
  /\ j = [t \in Thread |-> 1]

V(t) == adj[u[t]][j[t]]
Goto(t, label) == pc' = [pc EXCEPT ![t] = label]

\* The distance is read with the vertex; a thread ends at an empty queue.
Pop(t) ==
  /\ pc[t] = "pop"
  /\ IF q = <<>>
     THEN Goto(t, "returned") /\ UNCHANGED <<q, u, d, j>>
     ELSE /\ u' = [u EXCEPT ![t] = Head(q)]
          /\ d' = [d EXCEPT ![t] = dist[Head(q)]]
          /\ q' = Tail(q)
          /\ j' = [j EXCEPT ![t] = 1]
          /\ Goto(t, "test")
  /\ UNCHANGED dist

\* forgets the last neighbour
SlipAtEnd(t) == j[t] >= Len(adj[u[t]])
AtEnd(t) == j[t] > Len(adj[u[t]])

\* dist[v] == -1
TestDist(t) ==
  /\ pc[t] = "test"
  /\ IF AtEnd(t)
     THEN Goto(t, "pop") /\ UNCHANGED j
     ELSE IF dist[V(t)] = Unset
     THEN Goto(t, "write") /\ UNCHANGED j
     ELSE j' = [j EXCEPT ![t] = @ + 1] /\ UNCHANGED pc
  /\ UNCHANGED <<dist, q, u, d>>

\* gives the vertex the distance of the one it was found from
SlipNewDist(t) == d[t]
NewDist(t) == d[t] + 1

WriteDist(t) ==
  /\ pc[t] = "write"
  /\ dist' = [dist EXCEPT ![V(t)] = NewDist(t)]
  /\ Goto(t, "push")
  /\ UNCHANGED <<q, u, d, j>>

Push(t) ==
  /\ pc[t] = "push"
  /\ q' = Append(q, V(t))
  /\ j' = [j EXCEPT ![t] = @ + 1]
  /\ Goto(t, "test")
  /\ UNCHANGED <<dist, u, d>>

Exited == (\A t \in Thread : pc[t] = "returned") /\ UNCHANGED vars

Next ==
  \/ \E t \in Thread : Pop(t) \/ TestDist(t) \/ WriteDist(t) \/ Push(t)
  \/ Exited

Spec == Init /\ [][Next]_vars

-----------------------------------------------------------------------------

(***************************************************************************)
(* What the search guarantees: no distance is too small, and a vertex gets *)
(* one only if there is a path.  It may be too large, and is in some runs  *)
(* of two threads: a thread that is slow between Pop and WriteDist can be  *)
(* overtaken by a longer path, and two threads can both find dist[v] = -1, *)
(* of which the one that writes last is not the one with the shorter path. *)
(***************************************************************************)
NeverTooSmall ==
  \A v \in Vertex : dist[v] # Unset => Delta[v] # Unset /\ dist[v] >= Delta[v]

(***************************************************************************)
(* Nothing is lost, although a thread returns when it finds the queue      *)
(* empty while another one is about to push: a vertex with a distance and  *)
(* a neighbour without one is in the queue, or in the hands of a thread    *)
(* that has not returned.                                                  *)
(***************************************************************************)
NoneLost ==
  \A v \in Vertex : dist[v] # Unset /\ (\E w \in Neighbors(v) : dist[w] = Unset) =>
    \/ v \in {q[n] : n \in DOMAIN q}
    \/ \E t \in Thread :
         \/ pc[t] = "push" /\ V(t) = v
         \/ pc[t] \in {"test", "write", "push"} /\ u[t] = v

=============================================================================
