--------------------------- MODULE WaitFreeBfsInv ---------------------------
(***************************************************************************)
(* The inductive invariant of WaitFreeBfs: what holds of the control state *)
(* of a thread, and what the threads' view of the shared state has to be   *)
(* for the properties of WaitFreeBfs to survive every step.                *)
(***************************************************************************)
EXTENDS WaitFreeBfs

(***************************************************************************)
(* The bucket a thread looks at after it has dealt with k of them.         *)
(***************************************************************************)
Turn(t, k) == IF t + k < NumT THEN t + k ELSE t + k - NumT

(***************************************************************************)
(* Where a thread is, by the access it performs next.                      *)
(***************************************************************************)
AtLoop(t) ==
  /\ Returned(t) => curr[t] = Null
  /\ ~Returned(t) => curr[t] \in 0 .. linked - 1
  /\ pc[t] = "advance" => tried[t] = NumT
  /\ pc[t] # "advance" => tried[t] < NumT /\ work_on[t] = Turn(t, tried[t])
  /\ pc[t] \in {"next", "link", "load"} => Bucket(t) # <<>>
  /\ ~Returned(t) /\ ~next_is_null[t] => next[curr[t]] # Null
  /\ pc[t] = "load" => next[curr[t]] # Null

AtEntries(t) ==
  /\ pc[t] \in AtBucket =>
       /\ next_node[t] = curr[t] + 1
       /\ curr[t] + 1 < linked
       /\ sz[t] \in 1 .. Len(Bucket(t))
  /\ pc[t] \in AtBucket \ {"start"} => todo[t] \subseteq 1 .. sz[t]
  /\ pc[t] = "entry" => todo[t] # {}
  /\ pc[t] = "finish" => todo[t] = {}
  /\ pc[t] \in AtItem \cup {"progress"} =>
       /\ item[t] \in 1 .. sz[t]
       /\ item[t] \notin todo[t]
       /\ Own(t) => \A x \in todo[t] : item[t] < x
  /\ pc[t] = "progress" => Own(t)
  /\ pc[t] \in {"neighbor", "push", "mark"} => j[t] \in 1 .. Len(adj[U(t)])
  /\ pc[t] = "vis" => j[t] = Len(adj[U(t)]) + 1

Control ==
  /\ OneList
  /\ \A n \in Node, t \in Thread : last_done[n][t] <= Len(buckets[n][t])
  /\ \A t \in Thread : AtLoop(t) /\ AtEntries(t)

-----------------------------------------------------------------------------

(***************************************************************************)
(* What a thread has read, and what it has covered so far.                 *)
(***************************************************************************)
AtVertex == {"neighbor", "push", "mark", "vis"}

VertexView(t) ==
  pc[t] \in AtVertex =>
    /\ du[t] = curr[t]
    /\ pc[t] \in {"push", "mark"} => Delta[V(t)] = curr[t] + 1
    /\ \A p \in 1 .. j[t] - 1 : dist[adj[U(t)][p]] # Unset

EntriesView(t) ==
  pc[t] \in AtBucket \ {"start"} =>
    \A i \in 1 .. sz[t] :
      \/ i \in todo[t]
      \/ pc[t] \in AtItem /\ i = item[t]
      \/ Covered(Bucket(t)[i])

View == \A t \in Thread : VertexView(t) /\ EntriesView(t)

(***************************************************************************)
(* A level in which something is marked is one some thread has entered.    *)
(***************************************************************************)
MarkedReady ==
  \A n \in Node, w \in Thread :
    done[n][w] \/ last_done[n][w] > 0 => \A v \in Level(n) : dist[v] # Unset

(***************************************************************************)
(* A node is linked for a level that has vertices, before a bucket of the  *)
(* level is done and before any thread has gone over all of its buckets.   *)
(***************************************************************************)
LinkedForVertices == \A n \in Node : n + 1 < linked => Level(n) # {}

DoneLinked == \A n \in Node, w \in Thread : done[n][w] => n + 1 < linked

LinkedInTime ==
  \A v \in Vertex : dist[v] # Unset =>
    \/ dist[v] + 1 < linked
    \/ \E w \in Thread :
         /\ \E i \in DOMAIN buckets[dist[v]][w] : buckets[dist[v]][w][i] = v
         /\ \A t \in Thread : curr[t] = dist[v] => ~Visited(t, w)

(***************************************************************************)
(* A vertex is pushed before it is marked, and what a thread has pushed is *)
(* marked before it pushes anything else.                                  *)
(***************************************************************************)
PushedFirst ==
  \A t \in Thread : pc[t] = "mark" =>
    \E i \in DOMAIN buckets[curr[t] + 1][t] : buckets[curr[t] + 1][t][i] = V(t)

PushedIsMarked ==
  \A t \in Thread, n \in Node : \A i \in DOMAIN buckets[n][t] :
    \/ dist[buckets[n][t][i]] # Unset
    \/ pc[t] = "mark" /\ buckets[n][t][i] = V(t)

PushIsNew ==
  \A t \in Thread : pc[t] = "push" =>
    \A n \in Node : \A i \in DOMAIN buckets[n][t] : buckets[n][t][i] # V(t)

-----------------------------------------------------------------------------

(***************************************************************************)
(* The inductive invariant, in the groups it is proved in.                 *)
(***************************************************************************)
ControlInv == TypeOK /\ Control

DataInv ==
  /\ DistSound /\ BucketsSound
  /\ LevelReady /\ FirstReturnExact
  /\ Certificates /\ View
  /\ MarkedReady /\ NoneLost
  /\ LinkedForVertices /\ DoneLinked /\ LinkedInTime /\ ListComplete
  /\ PushedFirst

OnceInv == PushedIsMarked /\ PushIsNew /\ AppendedOnce

IInv == ControlInv /\ DataInv /\ OnceInv

=============================================================================
