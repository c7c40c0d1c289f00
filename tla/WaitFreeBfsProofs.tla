------------------------- MODULE WaitFreeBfsProofs -------------------------
(***************************************************************************)
(* Proofs about WaitFreeBfs, for every graph, every number of threads and  *)
(* every bound.                                                            *)
(***************************************************************************)
EXTENDS WaitFreeBfsInv, BfsGraphProofs

(***************************************************************************)
(* The control state.                                                      *)
(***************************************************************************)
LEMMA InitControl == Init => ControlInv
<1> SUFFICES ASSUME Init PROVE ControlInv OBVIOUS
<1> USE GraphAssumption, ThreadAssumption, NodeAssumption
        DEF Init, InitShared, InitLocal, InitLabel, InitZero, InitUnset,
            InitWorkOn, InitNextIsNull, InitTodo
<1>1. TypeOK
  BY DEF TypeOK, InitDist, InitVis, InitNext, InitBuckets, InitDone, InitLastDone, Thread, Node,
     Null, Unset, Labels
<1>2. OneList BY DEF OneList, InitNext, Node, Null
<1>3. \A n \in Node, t \in Thread : last_done[n][t] <= Len(buckets[n][t])
  BY DEF InitLastDone, InitBuckets
<1>4. \A t \in Thread : AtLoop(t) /\ AtEntries(t)
  BY DEF AtLoop, AtEntries, Returned, Turn, AtBucket, AtItem, Thread
<1> QED BY <1>1, <1>2, <1>3, <1>4 DEF ControlInv, Control

(***************************************************************************)
(* What a step of thread t leaves alone: the locals of the other threads.  *)
(* What it may change of the list of nodes: it grows, at its end, and so   *)
(* does every bucket.                                                      *)
(***************************************************************************)
SameLocals(s) ==
  /\ pc'[s] = pc[s]
  /\ curr'[s] = curr[s] /\ work_on'[s] = work_on[s] /\ tried'[s] = tried[s]
  /\ next_is_null'[s] = next_is_null[s] /\ next_node'[s] = next_node[s]
  /\ sz'[s] = sz[s] /\ todo'[s] = todo[s] /\ item'[s] = item[s]
  /\ du'[s] = du[s] /\ j'[s] = j[s]

ListGrows ==
  /\ linked <= linked'
  /\ \A n \in Node : next[n] # Null => next'[n] = next[n]

BucketsGrow ==
  \A n \in Node, w \in Thread :
    /\ Len(buckets[n][w]) <= Len(buckets'[n][w])
    /\ \A i \in 1 .. Len(buckets[n][w]) : buckets'[n][w][i] = buckets[n][w][i]

LEMMA VertexAtItem ==
  ASSUME ControlInv, NEW t \in Thread, pc[t] \in AtItem
  PROVE  /\ curr[t] \in Node /\ work_on[t] \in Thread
         /\ item[t] \in DOMAIN Bucket(t)
         /\ U(t) \in Vertex
         /\ pc[t] \in {"neighbor", "push", "mark"} => V(t) \in Vertex
         /\ pc[t] # "returned" /\ next_node[t] = curr[t] + 1
         /\ next_node[t] \in Node
<1> USE GraphAssumption, NodeAssumption
        DEF ControlInv, Control, AtLoop, AtEntries, AtBucket, AtItem
<1>1. curr[t] \in Node /\ work_on[t] \in Thread
 <2>1. curr[t] \in 0 .. linked - 1 BY DEF Returned
 <2>2. curr[t] \in Node \cup {Null} /\ work_on[t] \in Thread BY DEF TypeOK
 <2> QED BY <2>1, <2>2 DEF Node, Null
<1>a. Bucket(t) \in Seq(Vertex) BY <1>1 DEF TypeOK, Bucket
<1>b. sz[t] \in 1 .. Len(Bucket(t)) /\ item[t] \in 1 .. sz[t] OBVIOUS
<1>2. item[t] \in 1 .. Len(Bucket(t)) /\ Bucket(t) \in Seq(Vertex) BY <1>a, <1>b
<1>3. U(t) \in Vertex BY <1>2 DEF U
<1>4. pc[t] \in {"neighbor", "push", "mark"} => V(t) \in Vertex
 <2>1. adj[U(t)] \in Seq(Vertex) BY <1>3
 <2> QED BY <2>1 DEF V
<1>5. next_node[t] = curr[t] + 1 /\ next_node[t] \in Node
 <2>1. next_node[t] = curr[t] + 1 /\ curr[t] + 1 < linked OBVIOUS
 <2>2. linked \in 1 .. MaxNode + 1 BY DEF TypeOK
 <2> QED BY <1>1, <2>1, <2>2 DEF Node
<1> QED BY <1>1, <1>2, <1>3, <1>4, <1>5

LEMMA StepFrame ==
  ASSUME ControlInv, NEW t \in Thread, Step(t)
  PROVE  /\ \A s \in Thread \ {t} : SameLocals(s)
         /\ ListGrows
         /\ BucketsGrow
         /\ stage' = stage
<1>0. TypeOK BY DEF ControlInv
<1> USE <1>0, NodeAssumption
        DEF Goto, NextBucket, NextEntry, FromNeighbor,
            shared, bucketLoop, entryLoop
<1>1. ASSUME NEW s \in Thread \ {t} PROVE SameLocals(s)
 <2> USE DEF SameLocals, TypeOK
 <2>1. CASE TestDone(t) BY <2>1 DEF TestDone
 <2>2. CASE TestSize(t) BY <2>2 DEF TestSize
 <2>3. CASE TestNext(t) BY <2>3 DEF TestNext
 <2>4. CASE LinkNext(t) BY <2>4 DEF LinkNext
 <2>5. CASE LoadBucket(t) BY <2>5 DEF LoadBucket
 <2>6. CASE StartHelping(t) BY <2>6 DEF StartHelping
 <2>7. CASE TakeEntry(t) BY <2>7 DEF TakeEntry
 <2>8. CASE ReadDist(t) BY <2>8 DEF ReadDist
 <2>9. CASE TestNeighbor(t) BY <2>9 DEF TestNeighbor
 <2>10. CASE PushVertex(t) BY <2>10 DEF PushVertex
 <2>11. CASE MarkDist(t) BY <2>11 DEF MarkDist
 <2>12. CASE MarkVisited(t) BY <2>12 DEF MarkVisited
 <2>13. CASE Progress(t) BY <2>13 DEF Progress
 <2>14. CASE FinishBucket(t) BY <2>14 DEF FinishBucket
 <2>15. CASE Advance(t) BY <2>15 DEF Advance
 <2> QED
   BY <2>1, <2>2, <2>3, <2>4, <2>5, <2>6, <2>7, <2>8, <2>9, <2>10, <2>11, <2>12, <2>13, <2>14, <2>15 DEF Step
<1>2. ListGrows
 <2>1. CASE LinkNext(t)
  <3>1. linked \in Int /\ next \in [Node -> Node \cup {Null}] BY DEF TypeOK
  <3> QED BY <2>1, <3>1 DEF LinkNext, ListGrows
 <2>2. CASE ~LinkNext(t)
  <3>1. UNCHANGED <<linked, next>>
    BY <2>2 DEF Step, TestDone, TestSize, TestNext, LoadBucket, StartHelping, TakeEntry, ReadDist,
       TestNeighbor, PushVertex, MarkDist, MarkVisited, Progress, FinishBucket, Advance
  <3> QED BY <3>1 DEF ListGrows, TypeOK
 <2> QED BY <2>1, <2>2
<1>3. BucketsGrow
 <2>1. CASE PushVertex(t)
  <3> SUFFICES ASSUME NEW n \in Node, NEW w \in Thread
               PROVE  /\ Len(buckets[n][w]) <= Len(buckets'[n][w])
                      /\ \A i \in 1 .. Len(buckets[n][w]) :
                            buckets'[n][w][i] = buckets[n][w][i]
    BY DEF BucketsGrow
  <3>1. V(t) \in Vertex /\ buckets[n][w] \in Seq(Vertex)
    BY <2>1, VertexAtItem DEF PushVertex, AtItem, TypeOK
  <3>2. CASE n = next_node[t] /\ w = t
   <4>1. buckets'[n][w] = Append(buckets[n][w], V(t)) BY <2>1, <3>2 DEF PushVertex, TypeOK
   <4> QED BY <3>1, <4>1
  <3>3. CASE ~(n = next_node[t] /\ w = t)
   <4>1. buckets'[n][w] = buckets[n][w] BY <2>1, <3>3 DEF PushVertex, TypeOK
   <4> QED BY <3>1, <4>1
  <3> QED BY <3>2, <3>3
 <2>2. CASE ~PushVertex(t)
  <3>1. buckets' = buckets
    BY <2>2 DEF Step, TestDone, TestSize, TestNext, LinkNext, LoadBucket, StartHelping, TakeEntry,
       ReadDist, TestNeighbor, MarkDist, MarkVisited, Progress, FinishBucket, Advance
  <3> QED BY <3>1 DEF BucketsGrow, TypeOK
 <2> QED BY <2>1, <2>2
<1>4. stage' = stage
  BY DEF Step, TestDone, TestSize, TestNext, LinkNext, LoadBucket, StartHelping, TakeEntry,
     ReadDist, TestNeighbor, PushVertex, MarkDist, MarkVisited, Progress, FinishBucket, Advance
<1> QED BY <1>1, <1>2, <1>3, <1>4

(***************************************************************************)
(* Which actions write a variable.                                         *)
(***************************************************************************)
LEMMA Writers ==
  ASSUME NEW t \in Thread, Step(t)
  PROVE  /\ ~MarkDist(t) => dist' = dist
         /\ ~MarkVisited(t) => vis' = vis
         /\ ~LinkNext(t) => linked' = linked
         /\ ~LinkNext(t) => next' = next
         /\ ~PushVertex(t) => buckets' = buckets
         /\ ~FinishBucket(t) => done' = done
         /\ ~Progress(t) => last_done' = last_done
         /\ ~Advance(t) => curr' = curr
         /\ ~(TestDone(t) \/ TestSize(t) \/ FinishBucket(t) \/ Advance(t)) => work_on' = work_on
         /\ ~(TestDone(t) \/ TestSize(t) \/ FinishBucket(t) \/ Advance(t)) => tried' = tried
         /\ ~(LoadBucket(t) \/ Advance(t)) => next_is_null' = next_is_null
         /\ ~(LoadBucket(t) \/ FinishBucket(t)) => next_node' = next_node
         /\ ~(LoadBucket(t) \/ FinishBucket(t)) => sz' = sz
         /\ ~(LoadBucket(t) \/ StartHelping(t) \/ TakeEntry(t) \/ FinishBucket(t)) => todo' = todo
         /\ ~(TakeEntry(t) \/ FinishBucket(t)) => item' = item
         /\ ~(ReadDist(t) \/ MarkVisited(t)) => du' = du
         /\ ~(ReadDist(t) \/ TestNeighbor(t) \/ MarkDist(t) \/ MarkVisited(t)) => j' = j
  BY DEF Step, TestDone, TestSize, TestNext, LinkNext, LoadBucket, StartHelping, TakeEntry,
     ReadDist, TestNeighbor, PushVertex, MarkDist, MarkVisited, Progress, FinishBucket, Advance,
     NextBucket, shared, bucketLoop, entryLoop

LEMMA BucketType ==
  ASSUME ControlInv, NEW t \in Thread, ~Returned(t)
  PROVE  /\ curr[t] \in Node /\ work_on[t] \in Thread
         /\ Bucket(t) \in Seq(Vertex)
<1>1. curr[t] \in 0 .. linked - 1 BY DEF ControlInv, Control, AtLoop
<1>2. curr[t] \in Node \cup {Null} /\ work_on[t] \in Thread BY DEF ControlInv, TypeOK
<1>3. curr[t] \in Node BY <1>1, <1>2 DEF Node, Null
<1> QED BY <1>2, <1>3 DEF Bucket, ControlInv, TypeOK

LEMMA StepType ==
  ASSUME ControlInv, NEW t \in Thread, Step(t)
  PROVE  TypeOK'
<1>0. TypeOK BY DEF ControlInv
<1>1. dist' \in [Vertex -> Int] BY <1>0, Writers DEF TypeOK, MarkDist
<1>2. vis' \in [Vertex -> BOOLEAN]
 <2>1. vis \in [Vertex -> BOOLEAN] BY <1>0 DEF TypeOK
 <2>2. vis' = vis \/ vis' = [vis EXCEPT ![U(t)] = TRUE] BY Writers DEF MarkVisited
 <2> QED BY <2>1, <2>2
<1>3. linked' \in 1 .. MaxNode + 1 /\ next' \in [Node -> Node \cup {Null}]
 <2>1. linked \in 1 .. MaxNode + 1 /\ next \in [Node -> Node \cup {Null}] BY <1>0 DEF TypeOK
 <2>2. \/ linked' = linked /\ next' = next
       \/ /\ linked \in Node /\ linked' = linked + 1
          /\ next' = [next EXCEPT ![curr[t]] = linked]
   BY Writers DEF LinkNext
 <2> QED BY <2>1, <2>2, NodeAssumption DEF Node
<1>4. buckets' \in [Node -> [Thread -> Seq(Vertex)]]
 <2>0. buckets \in [Node -> [Thread -> Seq(Vertex)]] BY <1>0 DEF TypeOK
 <2>1. CASE PushVertex(t)
  <3>1. V(t) \in Vertex /\ next_node[t] \in Node BY <2>1, VertexAtItem DEF PushVertex, AtItem
  <3>2. Append(buckets[next_node[t]][t], V(t)) \in Seq(Vertex) BY <2>0, <3>1
  <3> QED BY <2>0, <2>1, <3>1, <3>2 DEF PushVertex
 <2> QED BY <2>0, <2>1, Writers
<1>5. done' \in [Node -> [Thread -> BOOLEAN]]
 <2>1. done \in [Node -> [Thread -> BOOLEAN]] BY <1>0 DEF TypeOK
 <2>2. CASE FinishBucket(t)
  <3>1. curr[t] \in Node BY <2>2, BucketType DEF FinishBucket, Returned
  <3>2. done[curr[t]] \in [Thread -> BOOLEAN] BY <2>1, <3>1
  <3>3. [done[curr[t]] EXCEPT ![work_on[t]] = TRUE] \in [Thread -> BOOLEAN] BY <3>2
  <3>4. done' = [done EXCEPT ![curr[t]] =
                   [done[curr[t]] EXCEPT ![work_on[t]] = TRUE]]
    BY <2>2 DEF FinishBucket
  <3> QED BY <2>1, <3>3, <3>4
 <2> QED BY <2>1, <2>2, Writers
<1>6. last_done' \in [Node -> [Thread -> Nat]]
 <2>1. last_done \in [Node -> [Thread -> Nat]] /\ item[t] \in Nat BY <1>0 DEF TypeOK
 <2>2. \/ last_done' = last_done
       \/ last_done' = [last_done EXCEPT ![curr[t]][t] = item[t]]
   BY Writers DEF Progress
 <2> QED BY <2>1, <2>2
<1>7. pc' \in [Thread -> Labels]
 <2>1. pc \in [Thread -> Labels] BY <1>0 DEF TypeOK
 <2>2. \E label \in Labels : pc' = [pc EXCEPT ![t] = label]
   BY DEF Step, TestDone, TestSize, TestNext, LinkNext, LoadBucket, StartHelping, TakeEntry,
      ReadDist, TestNeighbor, PushVertex, MarkDist, MarkVisited, Progress, FinishBucket, Advance,
      NextBucket, NextEntry, FromNeighbor, Goto, Labels
 <2> QED BY <2>1, <2>2
<1>8. curr' \in [Thread -> Node \cup {Null}]
 <2>0. curr \in [Thread -> Node \cup {Null}] BY <1>0 DEF TypeOK
 <2>1. CASE Advance(t)
  <3>1. next[curr[t]] \in Node \cup {Null} BY <1>0, <2>1, BucketType DEF Advance, Returned, TypeOK
  <3> QED BY <2>0, <2>1, <3>1 DEF Advance
 <2> QED BY <2>0, <2>1, Writers
<1>9. work_on' \in [Thread -> Thread] /\ tried' \in [Thread -> 0 .. NumT]
 <2>0. work_on \in [Thread -> Thread] /\ tried \in [Thread -> 0 .. NumT] BY <1>0 DEF TypeOK
 <2>1. CASE UNCHANGED <<work_on, tried>> BY <2>0, <2>1
 <2>2. CASE NextBucket(t) /\ pc[t] # "advance"
  <3>1. tried[t] < NumT BY <2>2 DEF ControlInv, Control, AtLoop
  <3>2. tried[t] + 1 \in 0 .. NumT BY <2>0, <3>1, ThreadAssumption
  <3>3. (IF work_on[t] + 1 >= NumT THEN work_on[t] + 1 - NumT
                                   ELSE work_on[t] + 1) \in Thread
   <4>1. work_on[t] \in 0 .. NumT - 1 BY <2>0 DEF Thread
   <4> QED BY <4>1, ThreadAssumption DEF Thread
  <3> QED BY <2>0, <2>2, <3>2, <3>3 DEF NextBucket
 <2>3. CASE Advance(t)
  <3>1. 0 \in 0 .. NumT BY ThreadAssumption
  <3> QED BY <2>0, <2>3, <3>1 DEF Advance
 <2> QED BY <2>1, <2>2, <2>3, Writers DEF TestDone, TestSize, FinishBucket, bucketLoop
<1>10. next_is_null' \in [Thread -> BOOLEAN]
 <2>1. next_is_null \in [Thread -> BOOLEAN] BY <1>0 DEF TypeOK
 <2>2. \/ next_is_null' = next_is_null
       \/ next_is_null' = [next_is_null EXCEPT ![t] = FALSE]
       \/ next_is_null' = [next_is_null EXCEPT ![t] = TRUE]
   BY Writers DEF LoadBucket, Advance
 <2> QED BY <2>1, <2>2
<1>11. /\ next_node' \in [Thread -> Node \cup {Null}]
       /\ sz' \in [Thread -> Nat]
 <2>0. next_node \in [Thread -> Node \cup {Null}] /\ sz \in [Thread -> Nat] BY <1>0 DEF TypeOK
 <2>1. CASE LoadBucket(t)
  <3>1. next[curr[t]] \in Node \cup {Null} /\ Len(Bucket(t)) \in Nat
    BY <1>0, <2>1, BucketType DEF LoadBucket, Returned, TypeOK
  <3> QED BY <2>0, <2>1, <3>1 DEF LoadBucket
 <2>2. CASE FinishBucket(t) BY <2>0, <2>2 DEF FinishBucket
 <2> QED BY <2>0, <2>1, <2>2, Writers
<1>12. todo' \in [Thread -> SUBSET Nat]
 <2>0. todo \in [Thread -> SUBSET Nat] /\ sz \in [Thread -> Nat] BY <1>0 DEF TypeOK
 <2>1. CASE LoadBucket(t)
  <3>1. Len(Bucket(t)) \in Nat BY <2>1, BucketType DEF LoadBucket, Returned
  <3>2. 1 .. Len(Bucket(t)) \in SUBSET Nat BY <3>1
  <3> QED BY <2>0, <2>1, <3>2 DEF LoadBucket
 <2>2. CASE StartHelping(t)
  <3>1. last_done[curr[t]][work_on[t]] \in Nat
    BY <1>0, <2>2, BucketType DEF StartHelping, Returned, TypeOK
  <3>2. (last_done[curr[t]][work_on[t]] + 1) .. sz[t] \in SUBSET Nat BY <2>0, <3>1
  <3> QED BY <2>0, <2>2, <3>2 DEF StartHelping
 <2>3. CASE TakeEntry(t)
  <3>1. \E i : todo' = [todo EXCEPT ![t] = @ \ {i}] BY <2>3 DEF TakeEntry
  <3> QED BY <2>0, <3>1
 <2>4. CASE FinishBucket(t) BY <2>0, <2>4 DEF FinishBucket
 <2> QED BY <2>0, <2>1, <2>2, <2>3, <2>4, Writers
<1>13. item' \in [Thread -> Nat] BY <1>0, Writers DEF TakeEntry, FinishBucket, TypeOK
<1>14. du' \in [Thread -> Int] /\ j' \in [Thread -> Nat]
 <2>0. du \in [Thread -> Int] /\ j \in [Thread -> Nat] BY <1>0 DEF TypeOK
 <2>1. CASE ReadDist(t)
  <3>1. dist[U(t)] \in Int BY <1>0, <2>1, VertexAtItem DEF ReadDist, AtItem, TypeOK
  <3> QED BY <2>0, <2>1, <3>1 DEF ReadDist, FromNeighbor
 <2>2. CASE MarkVisited(t) BY <2>0, <2>2 DEF MarkVisited, Unset
 <2>3. CASE TestNeighbor(t) \/ MarkDist(t)
  <3>1. j' = j \/ j' = [j EXCEPT ![t] = j[t] + 1] BY <2>3 DEF TestNeighbor, MarkDist, FromNeighbor
  <3>2. du' = du BY <2>3 DEF TestNeighbor, MarkDist
  <3> QED BY <2>0, <3>1, <3>2
 <2> QED BY <2>0, <2>1, <2>2, <2>3, Writers
<1>15. stage' \in {"search", "written"} BY <1>0, StepFrame DEF TypeOK
<1> QED BY <1>1, <1>2, <1>3, <1>4, <1>5, <1>6, <1>7, <1>8, <1>9, <1>10, <1>11, <1>12,
     <1>13, <1>14, <1>15 DEF TypeOK

(***************************************************************************)
(* The nodes stay one list: a node is linked behind the last one.          *)
(***************************************************************************)
LEMMA StepOneList ==
  ASSUME ControlInv, NEW t \in Thread, Step(t)
  PROVE  OneList'
<1>0. /\ linked \in 1 .. MaxNode + 1
      /\ next \in [Node -> Node \cup {Null}]
      /\ OneList
  BY DEF ControlInv, Control, TypeOK
<1>1. CASE LinkNext(t) /\ next[curr[t]] = Null
 <2>1. curr[t] \in 0 .. linked - 1 /\ curr[t] \in Node
   BY <1>1, BucketType DEF LinkNext, Returned, ControlInv, Control, AtLoop
 <2>2. linked = curr[t] + 1 BY <1>0, <1>1, <2>1, NodeAssumption DEF OneList, Node, Null
 <2>3. linked' = linked + 1 /\ next' = [next EXCEPT ![curr[t]] = linked] BY <1>1 DEF LinkNext
 <2> QED BY <1>0, <2>1, <2>2, <2>3, NodeAssumption DEF OneList, Node, Null
<1>2. CASE UNCHANGED <<linked, next>> BY <1>0, <1>2 DEF OneList
<1> QED BY <1>1, <1>2, Writers DEF LinkNext

LEMMA StepLastDone ==
  ASSUME ControlInv, NEW t \in Thread, Step(t)
  PROVE  \A n \in Node, w \in Thread : last_done'[n][w] <= Len(buckets'[n][w])
<1> SUFFICES ASSUME NEW n \in Node, NEW w \in Thread PROVE last_done'[n][w] <= Len(buckets'[n][w])
  OBVIOUS
<1>0. /\ last_done \in [Node -> [Thread -> Nat]]
      /\ buckets[n][w] \in Seq(Vertex) /\ buckets'[n][w] \in Seq(Vertex)
 <2>1. TypeOK /\ TypeOK' BY StepType DEF ControlInv
 <2>2. buckets[n][w] \in Seq(Vertex) BY <2>1 DEF TypeOK
 <2>3. buckets'[n][w] \in Seq(Vertex) BY <2>1 DEF TypeOK
 <2> QED BY <2>1, <2>2, <2>3 DEF TypeOK
<1>1. last_done[n][w] <= Len(buckets[n][w]) BY DEF ControlInv, Control
<1>2. Len(buckets[n][w]) <= Len(buckets'[n][w]) BY StepFrame DEF BucketsGrow
<1>3. CASE Progress(t) /\ n = curr[t] /\ w = t
 <2>1. item[t] \in 1 .. sz[t] /\ sz[t] \in 1 .. Len(Bucket(t)) /\ Own(t)
   BY <1>3 DEF Progress, ControlInv, Control, AtEntries, AtBucket
 <2>2. Bucket(t) = buckets[n][w] BY <1>3, <2>1 DEF Bucket, Own
 <2>3. last_done'[n][w] = item[t] BY <1>0, <1>3 DEF Progress
 <2> QED BY <1>0, <1>2, <2>1, <2>2, <2>3
<1>4. CASE ~(Progress(t) /\ n = curr[t] /\ w = t)
 <2>1. last_done'[n][w] = last_done[n][w] BY <1>0, <1>4, Writers DEF Progress
 <2> QED BY <1>0, <1>1, <1>2, <2>1
<1> QED BY <1>3, <1>4

(***************************************************************************)
(* A step of t leaves the other threads where they are.                    *)
(***************************************************************************)
LEMMA OthersControl ==
  ASSUME ControlInv, NEW t \in Thread, Step(t), NEW s \in Thread \ {t}
  PROVE  AtLoop(s)' /\ AtEntries(s)'
<1>t. TypeOK /\ TypeOK' BY StepType DEF ControlInv
<1>0. /\ SameLocals(s) /\ ListGrows /\ BucketsGrow /\ AtLoop(s) /\ AtEntries(s)
      /\ linked \in Int /\ linked' \in Int
 <2>1. linked \in 1 .. MaxNode + 1 BY <1>t DEF TypeOK
 <2>2. linked' \in 1 .. MaxNode + 1 BY <1>t DEF TypeOK
 <2> QED BY <2>1, <2>2, NodeAssumption, StepFrame DEF ControlInv, Control
<1>1. CASE Returned(s) BY <1>0, <1>1 DEF AtLoop, AtEntries, SameLocals, Returned, AtBucket, AtItem
<1>2. CASE ~Returned(s)
 <2>1. /\ curr[s] \in Node /\ work_on[s] \in Thread
       /\ Bucket(s) \in Seq(Vertex) /\ Bucket(s)' \in Seq(Vertex)
  <3>1. /\ curr[s] \in Node /\ work_on[s] \in Thread
        /\ Bucket(s) \in Seq(Vertex)
    BY <1>2, BucketType
  <3>2. Bucket(s)' = buckets'[curr[s]][work_on[s]] BY <1>0 DEF SameLocals, Bucket
  <3>3. buckets'[curr[s]][work_on[s]] \in Seq(Vertex) BY <1>t, <3>1 DEF TypeOK
  <3> QED BY <3>1, <3>2, <3>3
 <2>2. /\ Len(Bucket(s)) <= Len(Bucket(s)')
       /\ \A i \in 1 .. Len(Bucket(s)) : Bucket(s)'[i] = Bucket(s)[i]
   BY SMTT(30), <1>0, <2>1 DEF BucketsGrow, Bucket, SameLocals
 <2>3. AtLoop(s)' BY <1>0, <2>1, <2>2 DEF AtLoop, SameLocals, ListGrows, Returned, Bucket
 <2>4. pc[s] \in AtItem => U(s)' = U(s)
   BY <1>0, <2>1, <2>2 DEF AtEntries, U, SameLocals, AtBucket, AtItem
 <2>5. pc[s] \in AtBucket => curr[s] + 1 < linked' /\ sz[s] \in 1 .. Len(Bucket(s)')
  <3>1. pc[s] \in AtBucket => curr[s] + 1 < linked /\ sz[s] \in 1 .. Len(Bucket(s))
    BY <1>0 DEF AtEntries
  <3>2. Len(Bucket(s)) \in Nat /\ Len(Bucket(s)') \in Nat /\ curr[s] \in Int BY <2>1 DEF Node
  <3> QED BY <1>0, <2>2, <3>1, <3>2 DEF ListGrows
 <2>6. AtEntries(s)' BY <1>0, <2>4, <2>5 DEF AtEntries, SameLocals, Own, AtBucket, AtItem
 <2> QED BY <2>3, <2>6
<1> QED BY <1>1, <1>2

(***************************************************************************)
(* The thread that takes the step: its loop over the buckets.              *)
(***************************************************************************)
LEMMA OwnTypes ==
  ASSUME ControlInv, NEW t \in Thread, Step(t)
  PROVE  /\ ~Returned(t)
         /\ curr[t] \in 0 .. linked - 1 /\ curr[t] \in Node
         /\ t \in 0 .. NumT - 1 /\ work_on[t] \in 0 .. NumT - 1 /\ tried[t] \in 0 .. NumT
         /\ linked \in 1 .. MaxNode + 1
         /\ pc \in [Thread -> Labels] /\ curr \in [Thread -> Node \cup {Null}]
         /\ work_on \in [Thread -> Thread] /\ tried \in [Thread -> 0 .. NumT]
         /\ next_is_null \in [Thread -> BOOLEAN] /\ next \in [Node -> Node \cup {Null}]
         /\ Bucket(t) \in Seq(Vertex)
<1>1. ~Returned(t)
  BY DEF Step, TestDone, TestSize, TestNext, LinkNext, LoadBucket, StartHelping, TakeEntry,
     ReadDist, TestNeighbor, PushVertex, MarkDist, MarkVisited, Progress, FinishBucket, Advance,
     Returned
<1>2. curr[t] \in 0 .. linked - 1 BY <1>1 DEF ControlInv, Control, AtLoop
<1> QED BY <1>1, <1>2, BucketType DEF ControlInv, TypeOK, Thread

LEMMA NextBucketLoop ==
  ASSUME ControlInv, NEW t \in Thread, Step(t), NextBucket(t), pc[t] # "advance",
         linked' = linked, next' = next
  PROVE  AtLoop(t)'
<1>1. tried[t] < NumT /\ work_on[t] = Turn(t, tried[t]) BY DEF ControlInv, Control, AtLoop
<1>2. ~next_is_null[t] => next[curr[t]] # Null BY OwnTypes DEF ControlInv, Control, AtLoop
<1>3. /\ pc'[t] = (IF tried[t] + 1 < NumT THEN "done" ELSE "advance")
      /\ tried'[t] = tried[t] + 1 /\ curr' = curr /\ next_is_null' = next_is_null
      /\ work_on'[t] = IF work_on[t] + 1 >= NumT THEN work_on[t] + 1 - NumT
                                                ELSE work_on[t] + 1
  BY OwnTypes DEF NextBucket, Goto
<1>4. tried[t] + 1 < NumT => work_on'[t] = Turn(t, tried[t] + 1)
 <2>1. tried[t] \in Nat /\ t \in Nat /\ t < NumT /\ NumT \in Nat BY OwnTypes, ThreadAssumption
 <2>2. work_on[t] = IF t + tried[t] < NumT THEN t + tried[t] ELSE t + tried[t] - NumT
   BY <1>1 DEF Turn
 <2>3. work_on'[t] = IF work_on[t] + 1 >= NumT THEN work_on[t] + 1 - NumT
                                              ELSE work_on[t] + 1
   BY <1>3
 <2>4. tried[t] + 1 < NumT =>
         work_on'[t] = IF t + (tried[t] + 1) < NumT THEN t + (tried[t] + 1)
                                                   ELSE t + (tried[t] + 1) - NumT
   BY <2>1, <2>2, <2>3
 <2> QED BY <2>4 DEF Turn
<1> QED BY <1>1, <1>2, <1>3, <1>4, OwnTypes, ThreadAssumption DEF AtLoop, Returned

LEMMA OwnLoop ==
  ASSUME ControlInv, NEW t \in Thread, Step(t)
  PROVE  AtLoop(t)'
<1>0. AtLoop(t) /\ OneList BY DEF ControlInv, Control
<1>1. CASE TestDone(t)
 <2>1. CASE NextBucket(t) BY <1>1, <2>1, NextBucketLoop DEF TestDone, shared
 <2>2. CASE Goto(t, "size") /\ UNCHANGED bucketLoop
   BY <1>0, <1>1, <2>2, OwnTypes DEF AtLoop, TestDone, Goto, Returned, shared, bucketLoop
 <2> QED BY <1>1, <2>1, <2>2 DEF TestDone
<1>2. CASE TestSize(t)
 <2>1. CASE NextBucket(t) BY <1>2, <2>1, NextBucketLoop DEF TestSize, shared
 <2>2. CASE /\ Bucket(t) # <<>> /\ UNCHANGED bucketLoop
            /\ Goto(t, IF next_is_null[t] THEN "next" ELSE "load")
   BY <1>0, <1>2, <2>2, OwnTypes DEF AtLoop, TestSize, Goto, Returned, Bucket, shared, bucketLoop
 <2> QED BY <1>2, <2>1, <2>2 DEF TestSize
<1>3. CASE TestNext(t)
  BY <1>0, <1>3, OwnTypes DEF AtLoop, TestNext, Goto, Returned, Bucket, shared, bucketLoop
<1>4. CASE LinkNext(t)
 <2>1. next'[curr[t]] # Null /\ linked <= linked'
   BY <1>4, OwnTypes, NodeAssumption DEF LinkNext, Null
 <2>2. linked' \in Int BY <1>4, OwnTypes DEF LinkNext
 <2> QED
   BY <1>0, <1>4, <2>1, <2>2, OwnTypes DEF AtLoop, LinkNext, Goto, Returned, Bucket, bucketLoop
<1>5. CASE LoadBucket(t) BY <1>0, <1>5, OwnTypes DEF AtLoop, LoadBucket, Goto, Returned, shared
<1>6. CASE StartHelping(t) \/ TakeEntry(t)
 <2>1. pc'[t] \in {"finish", "entry", "du", "progress"}
   BY <1>6, OwnTypes DEF StartHelping, TakeEntry, Goto
 <2>2. UNCHANGED <<shared, bucketLoop>> BY <1>6 DEF StartHelping, TakeEntry
 <2> QED BY <1>0, <1>6, <2>1, <2>2 DEF AtLoop, StartHelping, TakeEntry, Returned, shared, bucketLoop
<1>7. CASE ReadDist(t) \/ TestNeighbor(t) \/ PushVertex(t) \/ MarkDist(t)
            \/ MarkVisited(t) \/ Progress(t)
 <2>1. pc'[t] \in {"neighbor", "vis", "push", "mark", "progress", "finish", "entry"}
   BY <1>7, OwnTypes DEF ReadDist, TestNeighbor, PushVertex, MarkDist, MarkVisited, Progress,
      FromNeighbor, NextEntry, Goto
 <2>2. UNCHANGED <<linked, next, bucketLoop>>
   BY <1>7 DEF ReadDist, TestNeighbor, PushVertex, MarkDist, MarkVisited, Progress, shared
 <2>3. pc[t] \notin {"advance", "returned"}
   BY <1>7 DEF ReadDist, TestNeighbor, PushVertex, MarkDist, MarkVisited, Progress
 <2> QED BY <1>0, <2>1, <2>2, <2>3 DEF AtLoop, Returned, bucketLoop
<1>8. CASE FinishBucket(t) BY <1>8, NextBucketLoop DEF FinishBucket
<1>9. CASE Advance(t)
 <2>1. next[curr[t]] # Null => next[curr[t]] \in 0 .. linked - 1 BY <1>0, OwnTypes DEF OneList
 <2>2. Turn(t, 0) = t BY OwnTypes, ThreadAssumption DEF Turn
 <2> QED BY <1>9, <2>1, <2>2, OwnTypes, ThreadAssumption DEF AtLoop, Advance, Goto, Returned, shared
<1> QED BY <1>1, <1>2, <1>3, <1>4, <1>5, <1>6, <1>7, <1>8, <1>9 DEF Step

(***************************************************************************)
(* The thread that takes the step: its loop over the entries.              *)
(***************************************************************************)
LEMMA OwnEntries ==
  ASSUME ControlInv, NEW t \in Thread, Step(t)
  PROVE  AtEntries(t)'
<1>0. /\ AtLoop(t) /\ AtEntries(t) /\ OneList
      /\ todo \in [Thread -> SUBSET Nat] /\ sz \in [Thread -> Nat]
      /\ item \in [Thread -> Nat] /\ j \in [Thread -> Nat]
      /\ next_node \in [Thread -> Node \cup {Null}]
  BY DEF ControlInv, Control, TypeOK
<1>1. CASE TestDone(t) \/ TestSize(t) \/ TestNext(t) \/ LinkNext(t) \/ Advance(t)
 <2>1. pc'[t] \in {"done", "advance", "size", "next", "load", "link", "returned"}
   BY <1>1, OwnTypes DEF TestDone, TestSize, TestNext, LinkNext, Advance, NextBucket, Goto
 <2> QED BY <2>1 DEF AtEntries, AtBucket, AtItem
<1>2. CASE LoadBucket(t)
 <2>1. /\ next[curr[t]] = curr[t] + 1 /\ curr[t] + 1 < linked
   BY <1>0, <1>2, OwnTypes DEF LoadBucket, AtLoop, OneList
 <2>2. Bucket(t) # <<>> BY <1>0, <1>2 DEF LoadBucket, AtLoop
 <2>3. Len(Bucket(t)) \in Nat \ {0} BY <2>2, OwnTypes
 <2>4. /\ next_node'[t] = curr[t] + 1 /\ sz'[t] = Len(Bucket(t))
       /\ Bucket(t)' = Bucket(t) /\ curr' = curr /\ linked' = linked
   BY <1>0, <1>2, <2>1 DEF LoadBucket, Bucket, shared
 <2>5. CASE Own(t)
  <3>1. pc'[t] = "entry" /\ todo'[t] = 1 .. Len(Bucket(t))
    BY <1>0, <1>2, <2>5, OwnTypes DEF LoadBucket, Goto
  <3>2. 1 \in todo'[t] BY <2>3, <3>1
  <3> QED BY <2>1, <2>3, <2>4, <3>1, <3>2 DEF AtEntries, AtItem
 <2>6. CASE ~Own(t)
  <3>1. pc'[t] = "start" BY <1>2, <2>6, OwnTypes DEF LoadBucket, Goto
  <3> QED BY <2>1, <2>3, <2>4, <3>1 DEF AtEntries, AtItem
 <2> QED BY <2>5, <2>6
<1>3. CASE StartHelping(t)
 <2>1. last_done[curr[t]][work_on[t]] + 1 \in Nat \ {0}
  <3>1. last_done[curr[t]][work_on[t]] \in Nat BY BucketType, OwnTypes DEF ControlInv, TypeOK
  <3> QED BY <3>1
 <2> DEFINE start == last_done[curr[t]][work_on[t]] + 1
 <2>2. /\ todo'[t] = start .. sz[t]
       /\ pc'[t] = IF start > sz[t] THEN "finish" ELSE "entry"
       /\ UNCHANGED <<shared, bucketLoop, next_node, sz>>
   BY <1>0, <1>3, OwnTypes DEF StartHelping, Goto
 <2>3. todo'[t] \subseteq 1 .. sz[t] /\ (pc'[t] = "finish" <=> todo'[t] = {})
  <3>1. sz[t] \in Nat BY <1>0
  <3>2. start .. sz[t] \subseteq 1 .. sz[t] BY <2>1, <3>1
  <3>3. start > sz[t] <=> start .. sz[t] = {}
   <4>1. start <= sz[t] => start \in start .. sz[t] BY <2>1, <3>1
   <4> QED BY <2>1, <3>1, <4>1
  <3> QED BY <2>2, <3>2, <3>3
 <2>4. Bucket(t)' = Bucket(t) BY <2>2 DEF Bucket, shared, bucketLoop
 <2> QED
   BY <1>0, <1>3, <2>2, <2>3, <2>4 DEF AtEntries, AtBucket, AtItem, StartHelping, shared, bucketLoop
<1>4. CASE TakeEntry(t)
 <2>1. PICK i \in todo[t] :
         /\ Own(t) => \A x \in todo[t] : i <= x
         /\ item' = [item EXCEPT ![t] = i]
         /\ todo' = [todo EXCEPT ![t] = @ \ {i}]
         /\ \/ Goto(t, "du")
            \/ Own(t) /\ Goto(t, "progress")
            \/ Goto(t, IF todo[t] = {i} THEN "finish" ELSE "entry")
   BY <1>4 DEF TakeEntry
 <2>2. /\ item'[t] = i /\ todo'[t] = todo[t] \ {i}
       /\ \/ pc'[t] = "du"
          \/ Own(t) /\ pc'[t] = "progress"
          \/ todo'[t] = {} /\ pc'[t] = "finish"
          \/ todo'[t] # {} /\ pc'[t] = "entry"
   BY <1>0, <2>1, OwnTypes DEF Goto
 <2>3. UNCHANGED <<shared, bucketLoop, next_node, sz>> BY <1>4 DEF TakeEntry
 <2>4. Bucket(t)' = Bucket(t) /\ Own(t)' = Own(t) BY <2>3 DEF Bucket, Own, shared, bucketLoop
 <2>5. todo[t] \subseteq 1 .. sz[t] /\ todo[t] \subseteq Nat
   BY <1>0, <1>4 DEF TakeEntry, AtEntries, AtBucket
 <2>6. Own(t) => \A x \in todo'[t] : i < x BY <2>1, <2>2, <2>5
 <2> QED
   BY <1>0, <1>4, <2>2, <2>3, <2>4, <2>5, <2>6 DEF AtEntries, AtBucket, AtItem, TakeEntry, shared,
      bucketLoop
<1> DEFINE Kept == /\ UNCHANGED <<linked, curr, work_on, next_node, sz, todo, item>>
                   /\ Len(Bucket(t)) <= Len(Bucket(t)')
                   /\ Len(Bucket(t)) \in Nat /\ Len(Bucket(t)') \in Nat
<1>5. ReadDist(t) \/ TestNeighbor(t) \/ PushVertex(t) \/ MarkDist(t)
         \/ MarkVisited(t) \/ Progress(t) => Kept
 <2> SUFFICES ASSUME ReadDist(t) \/ TestNeighbor(t) \/ PushVertex(t) \/ MarkDist(t)
                       \/ MarkVisited(t) \/ Progress(t)
              PROVE  Kept
   OBVIOUS
 <2>1. UNCHANGED <<linked, curr, work_on, next_node, sz, todo, item>>
   BY DEF ReadDist, TestNeighbor, PushVertex, MarkDist, MarkVisited, Progress, shared, bucketLoop,
      entryLoop
 <2>2. Bucket(t)' = buckets'[curr[t]][work_on[t]] BY <2>1 DEF Bucket
 <2>3. Bucket(t)' \in Seq(Vertex)
  <3>1. TypeOK' BY StepType
  <3>2. buckets'[curr[t]][work_on[t]] \in Seq(Vertex) BY <3>1, BucketType, OwnTypes DEF TypeOK
  <3> QED BY <2>2, <3>2
 <2>4. Len(Bucket(t)) <= Len(Bucket(t)')
   BY <2>2, StepFrame, OwnTypes DEF BucketsGrow, Bucket, Thread
 <2> QED BY <2>1, <2>3, <2>4, OwnTypes
<1>6. CASE ReadDist(t) \/ TestNeighbor(t) \/ PushVertex(t) \/ MarkDist(t)
 <2>1. Kept /\ pc[t] \in AtItem
   BY <1>5, <1>6 DEF ReadDist, TestNeighbor, PushVertex, MarkDist, AtItem
 <2>2. U(t)' = U(t) /\ U(t) \in Vertex
  <3>1. /\ U(t) \in Vertex /\ item[t] \in 1 .. Len(Bucket(t))
        /\ curr[t] \in Node /\ work_on[t] \in Thread
    BY <2>1, VertexAtItem, OwnTypes
  <3>2. buckets'[curr[t]][work_on[t]][item[t]] = buckets[curr[t]][work_on[t]][item[t]]
    BY <3>1, StepFrame DEF BucketsGrow, Bucket
  <3> QED BY <2>1, <3>1, <3>2 DEF U, Bucket
 <2>3. Len(adj[U(t)]) \in Nat BY <2>2, GraphAssumption
 <2>4. \/ pc'[t] \in {"neighbor", "push", "mark"} /\ j'[t] \in 1 .. Len(adj[U(t)])
       \/ pc'[t] = "vis" /\ j'[t] = Len(adj[U(t)]) + 1
  <3>1. CASE ReadDist(t) BY SMTT(30), <1>0, <2>3, <3>1, OwnTypes DEF ReadDist, FromNeighbor, Goto
  <3>2. CASE (TestNeighbor(t) \/ MarkDist(t)) /\ FromNeighbor(t, U(t), j[t] + 1)
   <4>1. j[t] \in 1 .. Len(adj[U(t)]) BY <1>0, <3>2 DEF AtEntries, TestNeighbor, MarkDist
   <4>2. /\ j'[t] = j[t] + 1
         /\ pc'[t] = IF j[t] + 1 <= Len(adj[U(t)]) THEN "neighbor" ELSE "vis"
     BY <1>0, <3>2, OwnTypes DEF FromNeighbor, Goto
   <4> QED BY <2>3, <4>1, <4>2
  <3>3. CASE pc[t] \in {"neighbor", "push"} /\ j' = j
               /\ (Goto(t, "push") \/ Goto(t, "mark"))
    BY <1>0, <3>3, OwnTypes DEF AtEntries, Goto
  <3> QED BY <1>6, <3>1, <3>2, <3>3 DEF ReadDist, TestNeighbor, PushVertex, MarkDist, entryLoop
 <2>5. Own(t)' = Own(t) BY <2>1 DEF Own
 <2> QED BY <1>0, <2>1, <2>2, <2>4, <2>5 DEF AtEntries, AtBucket, AtItem
<1>7. CASE MarkVisited(t) \/ Progress(t)
 <2>1. Kept /\ pc[t] \in {"vis", "progress"} BY <1>5, <1>7 DEF MarkVisited, Progress
 <2>2. \/ pc'[t] = "progress" /\ pc[t] = "vis" /\ Own(t)
       \/ pc'[t] = "finish" /\ todo[t] = {}
       \/ pc'[t] = "entry" /\ todo[t] # {}
   BY <1>7, OwnTypes DEF MarkVisited, Progress, NextEntry, Goto
 <2>3. Own(t)' = Own(t) BY <2>1 DEF Own
 <2> QED BY <1>0, <2>1, <2>2, <2>3 DEF AtEntries, AtBucket, AtItem
<1>8. CASE FinishBucket(t)
 <2>1. pc'[t] \in {"done", "advance"} BY <1>8, OwnTypes DEF FinishBucket, NextBucket, Goto
 <2> QED BY <2>1 DEF AtEntries, AtBucket, AtItem
<1> QED BY <1>1, <1>2, <1>3, <1>4, <1>6, <1>7, <1>8 DEF Step

LEMMA StepControl ==
  ASSUME ControlInv, NEW t \in Thread, Step(t)
  PROVE  ControlInv'
<1>1. \A s \in Thread : AtLoop(s)' /\ AtEntries(s)' BY OwnLoop, OwnEntries, OthersControl
<1>2. TypeOK' /\ OneList' BY StepType, StepOneList
<1>3. (\A n \in Node, w \in Thread : last_done[n][w] <= Len(buckets[n][w]))' BY StepLastDone
<1> QED BY <1>1, <1>2, <1>3 DEF ControlInv, Control

(***************************************************************************)
(* The main thread's steps, and the invariant.                             *)
(***************************************************************************)
LEMMA NewSearch ==
  ASSUME SearchAgain
  PROVE  Init'
  BY DEF SearchAgain, Joined, Restart, Init, InitShared, InitLocal, InitDist, InitVis, InitNext,
     InitBuckets, InitDone, InitLastDone, InitLabel, InitZero, InitUnset, InitWorkOn,
     InitNextIsNull, InitTodo

LEMMA InitControlPrime == Init' => ControlInv'
  BY InitControl, PTL

LEMMA UnchangedControl ==
  ASSUME ControlInv, UNCHANGED <<shared, pc, bucketLoop, entryLoop>>,
         stage' \in {"search", "written"}
  PROVE  ControlInv'
<1> USE DEF shared, bucketLoop, entryLoop
<1>1. TypeOK' BY DEF ControlInv, TypeOK
<1>2. Control' BY DEF ControlInv, Control, OneList, AtLoop, AtEntries, Returned, Bucket, Own, U
<1> QED BY <1>1, <1>2 DEF ControlInv

LEMMA NextControl ==
  ASSUME ControlInv, [Next]_vars
  PROVE  ControlInv'
<1>1. CASE \E t \in Thread : Step(t) BY <1>1, StepControl
<1>2. CASE SearchAgain BY <1>2, NewSearch, InitControlPrime
<1>3. CASE WriteOutput BY <1>3, UnchangedControl DEF WriteOutput
<1>4. CASE Exited \/ UNCHANGED vars BY <1>4, UnchangedControl DEF Exited, vars, ControlInv, TypeOK
<1> QED BY <1>1, <1>2, <1>3, <1>4 DEF Next

(***************************************************************************)
(* Type correctness, and the control state: in every execution the locals  *)
(* of a thread stay in step with the access it performs next.              *)
(***************************************************************************)
THEOREM ControlCorrect == Spec => []ControlInv
<1>1. Init => ControlInv BY InitControl
<1>2. ControlInv /\ [Next]_vars => ControlInv' BY NextControl
<1> QED BY <1>1, <1>2, PTL DEF Spec

(***************************************************************************)
(* The type invariant.  Its hard parts: a thread never follows a null next *)
(* pointer, so all of its accesses to a node are to a node of the list;    *)
(* and work_on stays in 0..num_t-1 when it wraps around.                   *)
(***************************************************************************)
THEOREM TypeCorrect == Spec => []TypeOK
<1>1. ControlInv => TypeOK BY DEF ControlInv
<1> QED BY <1>1, ControlCorrect, PTL

(***************************************************************************)
(* The compare-and-swap never forks the list and never loses a node: all   *)
(* threads in a level push to the same next node.                          *)
(***************************************************************************)
THEOREM ListCorrect == Spec => []OneList
<1>1. ControlInv => OneList BY DEF ControlInv, Control
<1> QED BY <1>1, ControlCorrect, PTL

-----------------------------------------------------------------------------
(***************************************************************************)
(* The data: distances, entries of buckets and marks.  First entries: they *)
(* stay, and the only new one is what t pushes.                            *)
(***************************************************************************)
LEMMA EntryType ==
  ASSUME ControlInv, NEW n \in Node, NEW w \in Thread, NEW i \in DOMAIN buckets[n][w]
  PROVE  /\ buckets[n][w] \in Seq(Vertex)
         /\ i \in 1 .. Len(buckets[n][w]) /\ i \in Nat \ {0}
         /\ buckets[n][w][i] \in Vertex
<1>1. buckets[n][w] \in Seq(Vertex) BY DEF ControlInv, TypeOK
<1> QED BY <1>1

LEMMA EntryStays ==
  ASSUME ControlInv, NEW t \in Thread, Step(t),
         NEW n \in Node, NEW w \in Thread, NEW i \in DOMAIN buckets[n][w]
  PROVE  /\ i \in DOMAIN buckets'[n][w]
         /\ buckets'[n][w][i] = buckets[n][w][i]
<1>1. buckets[n][w] \in Seq(Vertex) BY DEF ControlInv, TypeOK
<1>2. buckets'[n][w] \in Seq(Vertex) BY StepType DEF TypeOK
<1>3. /\ Len(buckets[n][w]) <= Len(buckets'[n][w])
      /\ \A k \in 1 .. Len(buckets[n][w]) : buckets'[n][w][k] = buckets[n][w][k]
  BY StepFrame DEF BucketsGrow
<1> QED BY <1>1, <1>2, <1>3

LEMMA EntryNew ==
  ASSUME ControlInv, NEW t \in Thread, Step(t),
         NEW n \in Node, NEW w \in Thread, NEW i \in DOMAIN buckets'[n][w],
         i \notin DOMAIN buckets[n][w]
  PROVE  /\ PushVertex(t) /\ n = curr[t] + 1 /\ w = t
         /\ i = Len(buckets[n][w]) + 1
         /\ buckets'[n][w][i] = V(t)
<1>1. PushVertex(t) BY Writers
<1>2. n = next_node[t] /\ w = t BY <1>1 DEF PushVertex, ControlInv, TypeOK
<1>3. next_node[t] = curr[t] + 1 /\ V(t) \in Vertex BY <1>1, VertexAtItem DEF PushVertex, AtItem
<1>4. buckets[n][w] \in Seq(Vertex) BY DEF ControlInv, TypeOK
<1>5. buckets'[n][w] = Append(buckets[n][w], V(t)) BY <1>1, <1>2 DEF PushVertex, ControlInv, TypeOK
<1>6. i \in 1 .. Len(buckets[n][w]) + 1 /\ i \notin 1 .. Len(buckets[n][w]) BY <1>3, <1>4, <1>5
<1>7. i = Len(buckets[n][w]) + 1 BY <1>4, <1>6
<1> QED BY <1>1, <1>2, <1>3, <1>4, <1>5, <1>7

(***************************************************************************)
(* The vertex a thread is processing, and its bucket, stay.                *)
(***************************************************************************)
LEMMA ItemStays ==
  ASSUME ControlInv, NEW t \in Thread, Step(t), NEW s \in Thread,
         pc[s] \in AtItem, ~MarkVisited(s)
  PROVE  /\ curr'[s] = curr[s] /\ work_on'[s] = work_on[s] /\ item'[s] = item[s]
         /\ sz'[s] = sz[s] /\ todo'[s] = todo[s]
         /\ U(s)' = U(s)
<1>1. /\ curr'[s] = curr[s] /\ work_on'[s] = work_on[s] /\ item'[s] = item[s]
      /\ sz'[s] = sz[s] /\ todo'[s] = todo[s]
 <2>1. CASE s # t BY <2>1, StepFrame DEF SameLocals
 <2>2. CASE s = t
   BY <2>2 DEF AtItem, Step, TestDone, TestSize, TestNext, LinkNext, LoadBucket, StartHelping,
      TakeEntry, ReadDist, TestNeighbor, PushVertex, MarkDist, Progress, FinishBucket, Advance,
      bucketLoop, entryLoop
 <2> QED BY <2>1, <2>2
<1>2. curr[s] \in Node /\ work_on[s] \in Thread /\ item[s] \in DOMAIN Bucket(s) BY VertexAtItem
<1>3. buckets'[curr[s]][work_on[s]][item[s]] = buckets[curr[s]][work_on[s]][item[s]]
  BY <1>2, EntryStays DEF Bucket
<1> QED BY <1>1, <1>3 DEF U, Bucket

(***************************************************************************)
(* Distances: once set they stay, and the one that is set is right.        *)
(***************************************************************************)
LEMMA StepDist ==
  ASSUME ControlInv, DataInv, NEW t \in Thread, Step(t)
  PROVE  /\ \A v \in Vertex : dist[v] # Unset => dist'[v] = dist[v]
         /\ \A v \in Vertex : dist[v] = Unset /\ dist'[v] # Unset =>
              /\ MarkDist(t) /\ v = V(t)
              /\ dist'[v] = curr[t] + 1 /\ Delta[v] = curr[t] + 1
         /\ DistSound'
<1>1. CASE MarkDist(t)
 <2>1. du[t] = curr[t] /\ Delta[V(t)] = curr[t] + 1 /\ V(t) \in Vertex
       /\ curr[t] \in Nat
   BY <1>1, VertexAtItem DEF MarkDist, DataInv, View, VertexView, AtVertex, AtItem, Node
 <2>2. /\ dist'[V(t)] = Delta[V(t)]
       /\ \A v \in Vertex \ {V(t)} : dist'[v] = dist[v]
   BY <1>1, <2>1 DEF MarkDist, ControlInv, TypeOK
 <2> QED BY <1>1, <2>1, <2>2 DEF DataInv, DistSound, Unset
<1>2. CASE ~MarkDist(t) BY <1>2, Writers DEF DataInv, DistSound
<1> QED BY <1>1, <1>2

LEMMA StepCovered ==
  ASSUME ControlInv, DataInv, NEW t \in Thread, Step(t),
         NEW u \in Vertex, Covered(u)
  PROVE  Covered(u)'
<1>1. \A v \in Neighbors(u) : v \in Vertex /\ dist'[v] = dist[v] BY StepDist, GraphTypes DEF Covered
<1> QED BY <1>1 DEF Covered

(***************************************************************************)
(* What is known of the vertex a thread is processing.                     *)
(***************************************************************************)
LEMMA ItemLevel ==
  ASSUME ControlInv, DataInv, NEW t \in Thread, pc[t] \in AtItem
  PROVE  /\ U(t) \in Vertex /\ Delta[U(t)] = curr[t] /\ dist[U(t)] = curr[t]
         /\ curr[t] \in Node /\ curr[t] \in Nat /\ curr[t] + 1 \in Node
<1>1. /\ U(t) \in Vertex /\ curr[t] \in Node /\ curr[t] \in Nat /\ curr[t] + 1 \in Node
      /\ work_on[t] \in Thread /\ item[t] \in DOMAIN Bucket(t)
      /\ ~Returned(t)
  BY VertexAtItem DEF Node, Returned
<1>2. Delta[U(t)] = curr[t] BY <1>1 DEF DataInv, BucketsSound, Bucket, U
<1>3. dist[U(t)] # Unset BY <1>1, <1>2 DEF DataInv, LevelReady
<1> QED BY <1>1, <1>2, <1>3 DEF DataInv, DistSound

LEMMA StepBucketsSound ==
  ASSUME ControlInv, DataInv, NEW t \in Thread, Step(t)
  PROVE  BucketsSound'
<1> SUFFICES ASSUME NEW n \in Node, NEW w \in Thread, NEW i \in DOMAIN buckets'[n][w]
             PROVE  Delta[buckets'[n][w][i]] = n
  BY DEF BucketsSound
<1>1. CASE i \in DOMAIN buckets[n][w] BY <1>1, EntryStays DEF DataInv, BucketsSound
<1>2. CASE i \notin DOMAIN buckets[n][w]
 <2>1. PushVertex(t) /\ n = curr[t] + 1 /\ buckets'[n][w][i] = V(t) BY <1>2, EntryNew
 <2>2. VertexView(t) BY DEF DataInv, View
 <2> QED BY <2>1, <2>2 DEF PushVertex, VertexView, AtVertex
<1> QED BY <1>1, <1>2

(***************************************************************************)
(* Every neighbour the thread has passed has its distance.                 *)
(***************************************************************************)
LEMMA StepVertexView ==
  ASSUME ControlInv, DataInv, NEW t \in Thread, Step(t), NEW s \in Thread
  PROVE  VertexView(s)'
<1> SUFFICES ASSUME pc'[s] \in AtVertex PROVE VertexView(s)' BY DEF VertexView
<1>t. /\ pc \in [Thread -> Labels] /\ j \in [Thread -> Nat] /\ du \in [Thread -> Int]
      /\ dist \in [Vertex -> Int]
  BY DEF ControlInv, TypeOK
<1>1. pc[s] \in AtItem /\ ~MarkVisited(s)
 <2>1. CASE s # t
  <3>1. pc'[s] = pc[s] BY <2>1, StepFrame DEF SameLocals
  <3>2. ~MarkVisited(s)
   <4>1. du'[s] = du[s] BY <2>1, StepFrame DEF SameLocals
   <4>2. pc[s] = "vis" /\ MarkVisited(s) => pc'[s] # "vis" BY <1>t DEF MarkVisited, Goto, NextEntry
   <4> QED BY <3>1, <4>2 DEF MarkVisited
  <3> QED BY <3>1, <3>2 DEF AtVertex, AtItem
 <2>2. CASE s = t
   BY <1>t, <2>2 DEF AtVertex, AtItem, Step, TestDone, TestSize, TestNext, LinkNext, LoadBucket,
      StartHelping, TakeEntry, ReadDist, TestNeighbor, PushVertex, MarkDist, MarkVisited, Progress,
      FinishBucket, Advance, NextBucket, NextEntry, FromNeighbor, Goto
 <2> QED BY <2>1, <2>2
<1>2. /\ U(s)' = U(s) /\ curr'[s] = curr[s] BY <1>1, ItemStays
<1>3. /\ U(s) \in Vertex /\ Delta[U(s)] = curr[s] /\ dist[U(s)] = curr[s]
      /\ curr[s] \in Nat
  BY <1>1, ItemLevel
<1>4. /\ \A p \in 1 .. Len(adj[U(s)]) :
           /\ adj[U(s)][p] \in Vertex
           /\ dist[adj[U(s)][p]] # Unset => dist'[adj[U(s)][p]] # Unset
           /\ Delta[adj[U(s)][p]] \in 0 .. curr[s] + 1
      /\ Len(adj[U(s)]) \in Nat
 <2>1. adj[U(s)] \in Seq(Vertex) BY <1>3, GraphAssumption
 <2>2. \A p \in 1 .. Len(adj[U(s)]) : adj[U(s)][p] \in Neighbors(U(s)) BY <1>3, GraphTypes
 <2>3. Delta[U(s)] # Unset BY <1>3 DEF Unset
 <2>4. \A v \in Neighbors(U(s)) : v \in Vertex /\ Delta[v] \in 0 .. curr[s] + 1
   BY <1>3, <2>3, GraphTypes, DistanceAssumption
 <2> QED BY <2>1, <2>2, <2>4, StepDist
<1>5. pc[s] \in {"neighbor", "push", "mark"} => j[s] \in 1 .. Len(adj[U(s)])
  BY DEF ControlInv, Control, AtEntries
<1>6. pc[s] = "vis" => j[s] = Len(adj[U(s)]) + 1 BY DEF ControlInv, Control, AtEntries
<1>7. CASE s # t
 <2>1. pc'[s] = pc[s] /\ du'[s] = du[s] /\ j'[s] = j[s] BY <1>7, StepFrame DEF SameLocals
 <2>2. VertexView(s) BY DEF DataInv, View
 <2>3. \A p \in 1 .. j[s] - 1 : dist'[adj[U(s)][p]] # Unset
   BY <1>t, <1>1, <1>4, <1>5, <1>6, <2>1, <2>2 DEF VertexView, AtVertex
 <2>4. pc[s] \in {"push", "mark"} => Delta[V(s)'] = curr[s] + 1
   BY <1>2, <2>1, <2>2 DEF VertexView, AtVertex, V
 <2> QED BY <1>2, <2>1, <2>2, <2>3, <2>4 DEF VertexView
<1>8. CASE s = t /\ ReadDist(t)
 <2>1. du'[s] = curr[s] /\ j'[s] = 1 /\ pc'[s] \notin {"push", "mark"}
   BY <1>t, <1>3, <1>8 DEF ReadDist, FromNeighbor, Goto
 <2> QED BY <1>2, <2>1 DEF VertexView
<1>9. CASE s = t /\ (TestNeighbor(t) \/ PushVertex(t) \/ MarkDist(t))
 <2>1. VertexView(s) /\ pc[s] \in AtVertex /\ j[s] \in 1 .. Len(adj[U(s)])
       /\ du' = du
   BY <1>5, <1>9 DEF DataInv, View, AtVertex, TestNeighbor, PushVertex, MarkDist, entryLoop
 <2>2. \A p \in 1 .. j[s] - 1 : dist'[adj[U(s)][p]] # Unset BY <1>4, <2>1 DEF VertexView
 <2>3. CASE j' = j /\ pc'[s] \in {"push", "mark"}
  <3>1. Delta[V(s)] = curr[s] + 1
   <4>1. CASE pc[s] = "neighbor"
    <5>1. dist[V(s)] = Unset
      BY <1>t, <1>9, <2>3, <4>1 DEF TestNeighbor, PushVertex, MarkDist, FromNeighbor, Goto
    <5>2. V(s) \in Vertex /\ Delta[V(s)] \in 0 .. curr[s] + 1 BY <1>4, <2>1 DEF V
    <5>3. Delta[V(s)] \notin 0 .. curr[s] BY <4>1, <5>1, <5>2 DEF DataInv, LevelReady, Returned
    <5> QED BY <1>3, <5>2, <5>3
   <4>2. CASE pc[s] # "neighbor"
     BY <1>9, <2>1, <4>2 DEF VertexView, TestNeighbor, PushVertex, MarkDist
   <4> QED BY <4>1, <4>2
  <3>2. V(s)' = V(s) BY <1>2, <2>3 DEF V
  <3> QED BY <1>2, <2>1, <2>2, <2>3, <3>1, <3>2 DEF VertexView
 <2>4. CASE FromNeighbor(t, U(t), j[t] + 1) /\ dist'[V(s)] # Unset
  <3>1. j'[s] = j[s] + 1 /\ pc'[s] \notin {"push", "mark"}
    BY <1>t, <1>9, <2>4 DEF FromNeighbor, Goto
  <3>2. \A p \in 1 .. j[s] : p = j[s] \/ p \in 1 .. j[s] - 1 BY <2>1
  <3>3. \A p \in 1 .. j[s] : dist'[adj[U(s)][p]] # Unset BY <1>9, <2>2, <2>4, <3>2 DEF V
  <3>4. j'[s] - 1 = j[s] BY <2>1, <3>1
  <3> QED BY <1>2, <2>1, <3>1, <3>3, <3>4 DEF VertexView
 <2>5. CASE TestNeighbor(t) BY <1>t, <1>9, <2>3, <2>4, <2>5 DEF TestNeighbor, Goto, shared
 <2>6. CASE PushVertex(t) BY <1>t, <1>9, <2>3, <2>6 DEF PushVertex, Goto, entryLoop
 <2>7. CASE MarkDist(t)
  <3>1. dist'[V(s)] = curr[s] + 1 BY <1>t, <1>4, <1>9, <2>1, <2>7 DEF MarkDist, VertexView, V
  <3>2. dist'[V(s)] # Unset BY <1>3, <3>1 DEF Unset
  <3> QED BY <2>4, <2>7, <3>2 DEF MarkDist
 <2> QED BY <1>9, <2>5, <2>6, <2>7
<1>10. CASE s = t /\ ~(ReadDist(t) \/ TestNeighbor(t) \/ PushVertex(t) \/ MarkDist(t))
 <2>1. FALSE
   BY <1>t, <1>1, <1>10 DEF AtItem, Step, TestDone, TestSize, TestNext, LinkNext, LoadBucket,
      StartHelping, TakeEntry, Progress, FinishBucket, Advance
 <2> QED BY <2>1
<1> QED BY <1>7, <1>8, <1>9, <1>10

(***************************************************************************)
(* At the end of its adjacency list a vertex is covered.                   *)
(***************************************************************************)
LEMMA ListEndCovered ==
  ASSUME ControlInv, DataInv, NEW t \in Thread, pc[t] = "vis"
  PROVE  U(t) \in Vertex /\ Covered(U(t))
<1>1. U(t) \in Vertex BY VertexAtItem DEF AtItem
<1>2. adj[U(t)] \in Seq(Vertex) BY <1>1, GraphAssumption
<1>3. \A p \in 1 .. Len(adj[U(t)]) : dist[adj[U(t)][p]] # Unset
 <2>1. j[t] = Len(adj[U(t)]) + 1 BY DEF ControlInv, Control, AtEntries
 <2>2. j[t] - 1 = Len(adj[U(t)]) BY <1>2, <2>1
 <2> QED BY <2>2 DEF DataInv, View, VertexView, AtVertex
<1> QED BY <1>1, <1>3, GraphTypes DEF Covered

(***************************************************************************)
(* A step keeps what was covered in a bucket.                              *)
(***************************************************************************)
LEMMA EntryCovered ==
  ASSUME ControlInv, DataInv, NEW t \in Thread, Step(t),
         NEW n \in Node, NEW w \in Thread, NEW i \in 1 .. Len(buckets[n][w]),
         Covered(buckets[n][w][i])
  PROVE  Covered(buckets[n][w][i])'
<1>1. i \in DOMAIN buckets[n][w] BY DEF ControlInv, TypeOK
<1>2. buckets[n][w][i] \in Vertex /\ buckets'[n][w][i] = buckets[n][w][i]
  BY <1>1, EntryType, EntryStays
<1>3. \A v \in Neighbors(buckets[n][w][i]) : dist'[v] # Unset BY <1>2, StepCovered DEF Covered
<1> QED BY <1>2, <1>3 DEF Covered

LEMMA StepEntriesView ==
  ASSUME ControlInv, DataInv, NEW t \in Thread, Step(t), NEW s \in Thread
  PROVE  EntriesView(s)'
<1> SUFFICES ASSUME pc'[s] \in AtBucket \ {"start"}, NEW i \in 1 .. sz'[s],
                    i \notin todo'[s], ~(pc'[s] \in AtItem /\ i = item'[s])
             PROVE  Covered(Bucket(s)[i])'
  BY DEF EntriesView
<1>t. /\ pc \in [Thread -> Labels] /\ todo \in [Thread -> SUBSET Nat]
      /\ sz \in [Thread -> Nat] /\ item \in [Thread -> Nat]
  BY DEF ControlInv, TypeOK
<1>c. AtEntries(s) /\ AtLoop(s) /\ EntriesView(s) BY DEF ControlInv, Control, DataInv, View
<1> DEFINE Same == /\ curr'[s] = curr[s] /\ work_on'[s] = work_on[s]
                   /\ sz'[s] = sz[s] /\ pc[s] \in AtBucket
<1>k. ASSUME Same, Covered(Bucket(s)[i]) PROVE Covered(Bucket(s)[i])'
 <2>1. curr[s] \in Node /\ work_on[s] \in Thread BY <1>k, BucketType DEF Returned, AtBucket
 <2>2. sz[s] \in 1 .. Len(Bucket(s)) /\ i \in 1 .. sz[s] BY <1>c, <1>k DEF AtEntries
 <2>3. i \in 1 .. Len(Bucket(s)) BY <2>2
 <2>4. Covered(buckets[curr[s]][work_on[s]][i])' BY <1>k, <2>1, <2>3, EntryCovered DEF Bucket
 <2> QED BY <1>k, <2>4 DEF Bucket, Covered
<1>1. CASE s # t
 <2>1. SameLocals(s) BY <1>1, StepFrame
 <2>2. Covered(Bucket(s)[i]) BY <1>c, <2>1 DEF SameLocals, EntriesView
 <2> QED BY <1>k, <2>1, <2>2 DEF SameLocals
<1>2. CASE s = t /\ pc[t] = "load"
 <2>1. LoadBucket(t)
   BY <1>2 DEF Step, TestDone, TestSize, TestNext, LinkNext, StartHelping, TakeEntry, ReadDist,
      TestNeighbor, PushVertex, MarkDist, MarkVisited, Progress, FinishBucket, Advance
 <2>2. Own(t) /\ todo'[t] = 1 .. Len(Bucket(t)) /\ sz'[t] = Len(Bucket(t))
   BY <1>t, <1>2, <2>1 DEF LoadBucket, Goto
 <2> QED BY <1>2, <2>2
<1>3. CASE s = t /\ pc[t] \in AtBucket
 <2>1. \/ StartHelping(t) \/ TakeEntry(t) \/ MarkVisited(t) \/ Progress(t)
       \/ ReadDist(t) \/ TestNeighbor(t) \/ PushVertex(t) \/ MarkDist(t)
       \/ FinishBucket(t)
   BY <1>3 DEF AtBucket, Step, TestDone, TestSize, TestNext, LinkNext, LoadBucket, Advance
 <2>2. ~FinishBucket(t) BY <1>t, <1>3 DEF FinishBucket, NextBucket, Goto, AtBucket
 <2>3. Same
   BY <1>3, <2>1, <2>2 DEF StartHelping, TakeEntry, MarkVisited, Progress, ReadDist, TestNeighbor,
      PushVertex, MarkDist, bucketLoop, entryLoop
 <2>4. i \in 1 .. sz[t] BY <1>3, <2>3
 <2>5. CASE StartHelping(t)
  <3>0. curr[t] \in Node /\ work_on[t] \in Thread /\ last_done[curr[t]][work_on[t]] \in Nat
   <4>1. ~Returned(t) BY <1>3 DEF Returned, AtBucket
   <4>2. curr[t] \in Node /\ work_on[t] \in Thread BY <4>1, BucketType
   <4>3. last_done \in [Node -> [Thread -> Nat]] BY DEF ControlInv, TypeOK
   <4> QED BY <4>2, <4>3
  <3>1. todo'[t] = last_done[curr[t]][work_on[t]] + 1 .. sz[t] BY <1>t, <2>5 DEF StartHelping
  <3>2. i \in 1 .. last_done[curr[t]][work_on[t]] BY <1>t, <1>3, <2>4, <3>0, <3>1
  <3>3. Covered(Bucket(t)[i]) BY <3>0, <3>2 DEF DataInv, Certificates, ProgressCertificate, Bucket
  <3> QED BY <1>3, <1>k, <2>3, <3>3
 <2>6. CASE TakeEntry(t)
  <3>1. PICK k \in todo[t] :
          /\ item' = [item EXCEPT ![t] = k]
          /\ todo' = [todo EXCEPT ![t] = @ \ {k}]
          /\ \/ ~vis[Bucket(t)[k]] /\ Goto(t, "du")
             \/ vis[Bucket(t)[k]]
    BY <2>6 DEF TakeEntry
  <3>2. item'[t] = k /\ todo'[t] = todo[t] \ {k} BY <1>t, <3>1
  <3>3. CASE i = k
   <4>1. vis[Bucket(t)[k]] BY <1>t, <1>3, <3>1, <3>2, <3>3 DEF Goto, AtItem
   <4>2. Bucket(t)[k] \in Vertex
    <5>1. Bucket(t) \in Seq(Vertex) BY <1>3, BucketType DEF Returned, AtBucket
    <5>2. sz[t] \in 1 .. Len(Bucket(t)) BY <1>c, <1>3 DEF AtEntries
    <5>3. k \in 1 .. Len(Bucket(t)) BY <2>4, <3>3, <5>1, <5>2
    <5> QED BY <5>1, <5>3
   <4>3. Covered(Bucket(t)[k]) BY <4>1, <4>2 DEF DataInv, Certificates, VisCertificate
   <4> QED BY <1>3, <1>k, <2>3, <3>3, <4>3
  <3>4. CASE i # k
   <4>1. i \notin todo[t] /\ pc[t] = "entry" BY <1>3, <2>6, <3>2, <3>4 DEF TakeEntry
   <4>2. Covered(Bucket(t)[i]) BY <1>c, <1>3, <2>4, <4>1 DEF EntriesView, AtBucket, AtItem
   <4> QED BY <1>3, <1>k, <2>3, <4>2
  <3> QED BY <3>3, <3>4
 <2>7. CASE MarkVisited(t)
  <3>1. i \notin todo[t] /\ pc[t] = "vis" BY <1>3, <2>7 DEF MarkVisited
  <3>2. Covered(Bucket(t)[i])
   <4>1. CASE i = item[t] BY <3>1, <4>1, ListEndCovered DEF U
   <4>2. CASE i # item[t] BY <1>c, <1>3, <2>4, <3>1, <4>2 DEF EntriesView, AtBucket
   <4> QED BY <4>1, <4>2
  <3> QED BY <1>3, <1>k, <2>3, <3>2
 <2>8. CASE Progress(t)
  <3>1. i \notin todo[t] /\ pc[t] = "progress" BY <1>3, <2>8 DEF Progress, entryLoop
  <3>2. Covered(Bucket(t)[i]) BY <1>c, <1>3, <2>4, <3>1 DEF EntriesView, AtBucket, AtItem
  <3> QED BY <1>3, <1>k, <2>3, <3>2
 <2>9. CASE ReadDist(t) \/ TestNeighbor(t) \/ PushVertex(t) \/ MarkDist(t)
  <3>1. /\ i \notin todo[t] /\ item' = item
        /\ pc[t] \in AtItem /\ pc'[t] \in AtItem
    BY <1>t, <1>3, <2>9 DEF ReadDist, TestNeighbor, PushVertex, MarkDist, entryLoop, FromNeighbor,
       Goto, AtItem
  <3>2. Covered(Bucket(t)[i]) BY <1>c, <1>3, <2>4, <3>1 DEF EntriesView, AtBucket, AtItem
  <3> QED BY <1>3, <1>k, <2>3, <3>2
 <2> QED BY <2>1, <2>2, <2>5, <2>6, <2>7, <2>8, <2>9
<1>4. CASE s = t /\ pc[t] \notin AtBucket \cup {"load"}
 <2>1. pc'[t] \notin AtBucket
   BY <1>t, <1>4 DEF AtBucket, Step, TestDone, TestSize, TestNext, LinkNext, LoadBucket,
      StartHelping, TakeEntry, ReadDist, TestNeighbor, PushVertex, MarkDist, MarkVisited, Progress,
      FinishBucket, Advance, NextBucket, Goto
 <2> QED BY <1>4, <2>1
<1> QED BY <1>1, <1>2, <1>3, <1>4

(***************************************************************************)
(* The marks.  The owner takes its entries in order, so at its progress    *)
(* there is nothing left to take before the item.                          *)
(***************************************************************************)
LEMMA StepVisCertificate ==
  ASSUME ControlInv, DataInv, NEW t \in Thread, Step(t)
  PROVE  VisCertificate'
<1> SUFFICES ASSUME NEW u \in Vertex, vis'[u] PROVE Covered(u)' BY DEF VisCertificate
<1>1. CASE vis[u] BY <1>1, StepCovered DEF DataInv, Certificates, VisCertificate
<1>2. CASE ~vis[u]
 <2>1. MarkVisited(t) BY <1>2, Writers
 <2>2. u = U(t) BY <1>2, <2>1 DEF MarkVisited, ControlInv, TypeOK
 <2> QED BY <2>1, <2>2, ListEndCovered, StepCovered DEF MarkVisited
<1> QED BY <1>1, <1>2

LEMMA StepProgressCertificate ==
  ASSUME ControlInv, DataInv, NEW t \in Thread, Step(t)
  PROVE  ProgressCertificate'
<1> SUFFICES ASSUME NEW n \in Node, NEW w \in Thread, NEW i \in 1 .. last_done'[n][w]
             PROVE  Covered(buckets[n][w][i])'
  BY DEF ProgressCertificate
<1>t. /\ last_done \in [Node -> [Thread -> Nat]]
      /\ Len(buckets[n][w]) \in Nat
 <2>1. buckets[n][w] \in Seq(Vertex) BY DEF ControlInv, TypeOK
 <2> QED BY <2>1 DEF ControlInv, TypeOK
<1>1. CASE Progress(t) /\ n = curr[t] /\ w = t
 <2>1. /\ AtEntries(t) /\ EntriesView(t) /\ Own(t) /\ pc[t] = "progress"
   BY <1>1 DEF ControlInv, Control, DataInv, View, AtEntries, Progress
 <2>2. Bucket(t) = buckets[n][w] BY <1>1, <2>1 DEF Bucket, Own
 <2>3. /\ item[t] \in 1 .. sz[t] /\ sz[t] \in 1 .. Len(buckets[n][w])
       /\ \A x \in todo[t] : item[t] < x
       /\ item[t] \notin todo[t]
   BY <2>1, <2>2 DEF AtEntries, AtBucket
 <2>4. last_done'[n][w] = item[t] BY <1>1, <1>t DEF Progress
 <2>5. i \in 1 .. item[t] /\ i \in 1 .. sz[t] /\ i \in 1 .. Len(buckets[n][w]) BY <1>t, <2>3, <2>4
 <2>6. i \notin todo[t] BY <2>3, <2>5
 <2>7. Covered(buckets[n][w][i]) BY <2>1, <2>2, <2>5, <2>6 DEF EntriesView, AtBucket, AtItem
 <2> QED BY <2>5, <2>7, EntryCovered
<1>2. CASE ~(Progress(t) /\ n = curr[t] /\ w = t)
 <2>1. last_done'[n][w] = last_done[n][w] BY <1>2, <1>t, Writers DEF Progress
 <2>2. last_done[n][w] <= Len(buckets[n][w]) BY DEF ControlInv, Control
 <2>3. i \in 1 .. last_done[n][w] /\ i \in 1 .. Len(buckets[n][w]) BY <1>t, <2>1, <2>2
 <2>4. Covered(buckets[n][w][i]) BY <2>3 DEF DataInv, Certificates, ProgressCertificate
 <2> QED BY <2>3, <2>4, EntryCovered
<1> QED BY <1>1, <1>2

LEMMA LevelKnown ==
  ASSUME ControlInv, DataInv, NEW t \in Thread, ~Returned(t)
  PROVE  \A v \in Level(curr[t]) : dist[v] # Unset
<1>1. curr[t] \in Nat BY BucketType DEF Node
<1> QED BY <1>1 DEF Level, DataInv, LevelReady

LEMMA StepMarkedReady ==
  ASSUME ControlInv, DataInv, NEW t \in Thread, Step(t)
  PROVE  MarkedReady'
<1> SUFFICES ASSUME NEW n \in Node, NEW w \in Thread,
                    done'[n][w] \/ last_done'[n][w] > 0,
                    NEW v \in Level(n)
             PROVE  dist'[v] # Unset
  BY DEF MarkedReady, Level
<1>1. dist[v] # Unset
 <2>1. CASE done[n][w] \/ last_done[n][w] > 0 BY <2>1 DEF DataInv, MarkedReady
 <2>2. CASE ~(done[n][w] \/ last_done[n][w] > 0)
  <3>1. FinishBucket(t) \/ Progress(t) BY <2>2, Writers
  <3>2. n = curr[t] BY <2>2, <3>1 DEF FinishBucket, Progress, ControlInv, TypeOK
  <3> QED BY <3>2, LevelKnown, OwnTypes
 <2> QED BY <2>1, <2>2
<1> QED BY <1>1, StepDist DEF Level

(***************************************************************************)
(* The round over the buckets of a level.                                  *)
(***************************************************************************)
LEMMA VisitedAll ==
  ASSUME NEW t \in Thread, NEW w \in Thread, tried[t] = NumT
  PROVE  Visited(t, w)
  BY ThreadAssumption DEF Visited, Thread

LEMMA VisitedNone ==
  ASSUME NEW t \in Thread, NEW w \in Thread, tried[t] = 0
  PROVE  ~Visited(t, w)
  BY ThreadAssumption DEF Visited, Thread

LEMMA VisitedNext ==
  ASSUME ControlInv, NEW t \in Thread, Step(t), NextBucket(t), pc[t] # "advance",
         NEW w \in Thread, ~Visited(t, w), w # work_on[t]
  PROVE  ~Visited(t, w)'
<1>1. tried[t] < NumT /\ work_on[t] = Turn(t, tried[t]) BY DEF ControlInv, Control, AtLoop
<1>2. tried'[t] = tried[t] + 1 BY OwnTypes DEF NextBucket
<1>3. /\ tried[t] \in Nat /\ NumT \in Nat /\ t \in Nat /\ t < NumT
      /\ w \in Nat /\ w < NumT
  BY OwnTypes, ThreadAssumption DEF Thread
<1>4. (IF w >= t THEN w - t ELSE w + NumT - t) # tried[t] BY <1>1, <1>3 DEF Turn
<1>5. ~((IF w >= t THEN w - t ELSE w + NumT - t) < tried[t]) BY DEF Visited
<1>6. ~((IF w >= t THEN w - t ELSE w + NumT - t) < tried[t] + 1) BY <1>3, <1>4, <1>5
<1> QED BY <1>2, <1>6 DEF Visited

(***************************************************************************)
(* A thread that has gone over all buckets of a level has covered it.      *)
(***************************************************************************)
LEMMA RoundCovers ==
  ASSUME ControlInv, DataInv, NEW t \in Thread, pc[t] = "advance",
         NEW u \in Vertex, Delta[u] = curr[t]
  PROVE  Covered(u)
<1>1. curr[t] \in Node /\ curr[t] \in Nat /\ tried[t] = NumT
  BY BucketType DEF Returned, Node, ControlInv, Control, AtLoop
<1>2. dist[u] = curr[t] /\ dist[u] # Unset
  BY <1>1 DEF DataInv, LevelReady, DistSound, Returned, Unset
<1> SUFFICES ASSUME ~Covered(u) PROVE FALSE OBVIOUS
<1>3. PICK w \in Thread : ~Visited(t, w) BY <1>2 DEF DataInv, NoneLost, WillTake
<1> QED BY <1>1, <1>3, VisitedAll

LEMMA StepLevelReady ==
  ASSUME ControlInv, DataInv, NEW t \in Thread, Step(t)
  PROVE  LevelReady'
<1> SUFFICES ASSUME NEW s \in Thread, ~Returned(s)',
                    NEW v \in Vertex, Delta[v] \in 0 .. curr'[s]
             PROVE  dist'[v] # Unset
  BY DEF LevelReady
<1>1. CASE curr'[s] = curr[s] /\ ~Returned(s) BY <1>1, StepDist DEF DataInv, LevelReady
<1>2. CASE s = t /\ Advance(t)
 <2>1. /\ next[curr[t]] = curr'[t] /\ pc[t] = "advance" /\ next[curr[t]] # Null
   BY <1>2, OwnTypes DEF Advance, Goto, Returned
 <2>2. curr'[t] = curr[t] + 1 /\ curr[t] \in Nat
   BY <2>1, OwnTypes DEF ControlInv, Control, OneList, Node
 <2>3. CASE Delta[v] \in 0 .. curr[t] BY <2>1, <2>3, StepDist DEF DataInv, LevelReady, Returned
 <2>4. CASE Delta[v] = curr[t] + 1
  <3>1. PICK u \in Vertex : Delta[u] = curr[t] /\ v \in Neighbors(u)
    BY <2>2, <2>4, DistanceAssumption
  <3>2. Covered(u) BY <2>1, <3>1, RoundCovers
  <3> QED BY <3>1, <3>2, StepDist DEF Covered
 <2> QED BY <1>2, <2>2, <2>3, <2>4
<1>3. CASE s # t BY <1>1, <1>3, StepFrame DEF SameLocals, Returned
<1>4. CASE s = t /\ ~Advance(t) BY <1>1, <1>4, OwnTypes, Writers
<1> QED BY <1>2, <1>3, <1>4
(***************************************************************************)
(* A thread that finds no next node after its round is beyond the last     *)
(* level: had the level a vertex, a node would have been linked for the    *)
(* next one.                                                               *)
(***************************************************************************)
LEMMA LastLevel ==
  ASSUME ControlInv, DataInv, NEW t \in Thread, pc[t] = "advance",
         next[curr[t]] = Null
  PROVE  /\ linked = curr[t] + 1 /\ curr[t] \in Nat \ {0}
         /\ \A v \in Vertex : Delta[v] < curr[t]
<1>1. curr[t] \in Node /\ curr[t] \in Nat /\ curr[t] \in 0 .. linked - 1
      /\ tried[t] = NumT /\ linked \in Nat
 <2>1. linked \in 1 .. MaxNode + 1 BY DEF ControlInv, TypeOK
 <2> QED BY <2>1, BucketType, NodeAssumption DEF Returned, Node, ControlInv, Control, AtLoop
<1>2. linked = curr[t] + 1 BY <1>1 DEF ControlInv, Control, OneList, Null
<1>3. Level(curr[t]) = {}
 <2> SUFFICES ASSUME NEW v \in Level(curr[t]) PROVE FALSE OBVIOUS
 <2>1. v \in Vertex /\ dist[v] = curr[t] /\ dist[v] # Unset
   BY <1>1, LevelKnown DEF Level, DataInv, DistSound, Returned, Unset
 <2>2. PICK w \in Thread : ~Visited(t, w) BY <1>1, <1>2, <2>1 DEF DataInv, LinkedInTime
 <2> QED BY <1>1, <2>2, VisitedAll
<1>4. curr[t] # 0 BY <1>3, GraphAssumption, DistanceAssumption DEF Level
<1> QED BY <1>1, <1>2, <1>3, <1>4, NothingBeyond

LEMMA StepFirstReturnExact ==
  ASSUME ControlInv, DataInv, NEW t \in Thread, Step(t)
  PROVE  FirstReturnExact'
<1> SUFFICES ASSUME NEW s \in Thread, Returned(s)' PROVE dist' = Delta BY DEF FirstReturnExact
<1>1. \A v \in Vertex : Delta[v] # Unset => dist[v] # Unset
 <2>1. CASE Returned(s) BY <2>1 DEF DataInv, FirstReturnExact
 <2>2. CASE ~Returned(s)
  <3>1. s = t BY <2>2, StepFrame DEF SameLocals, Returned
  <3>2. Advance(t) /\ next[curr[t]] = Null /\ pc[t] = "advance"
    BY ZenonT(40), <2>2, <3>1, OwnTypes DEF Returned, Step, TestDone, TestSize, TestNext, LinkNext, LoadBucket,
       StartHelping, TakeEntry, ReadDist, TestNeighbor, PushVertex, MarkDist, MarkVisited, Progress,
       FinishBucket, Advance, NextBucket, NextEntry, FromNeighbor, Goto
  <3>3. \A v \in Vertex : Delta[v] < curr[t] /\ curr[t] \in Nat BY <3>2, LastLevel
  <3>4. \A v \in Vertex : Delta[v] # Unset => Delta[v] \in 0 .. curr[t]
    BY <3>3, GraphTypes DEF Unset
  <3> QED BY <3>2, <3>4 DEF DataInv, LevelReady, Returned
 <2> QED BY <2>1, <2>2
<1>2. \A v \in Vertex : dist'[v] = Delta[v] BY <1>1, StepDist DEF DistSound
<1>3. dist' \in [Vertex -> Int] BY StepType DEF TypeOK
<1> QED BY <1>2, <1>3, DistanceAssumption

(***************************************************************************)
(* The nodes and the levels.                                               *)
(***************************************************************************)
LEMMA StepDoneLinked ==
  ASSUME ControlInv, DataInv, NEW t \in Thread, Step(t)
  PROVE  DoneLinked'
<1> SUFFICES ASSUME NEW n \in Node, NEW w \in Thread, done'[n][w] PROVE n + 1 < linked'
  BY DEF DoneLinked
<1>1. n + 1 < linked
 <2>1. CASE done[n][w] BY <2>1 DEF DataInv, DoneLinked
 <2>2. CASE ~done[n][w]
  <3>1. FinishBucket(t) BY <2>2, Writers
  <3>2. n = curr[t] BY <2>2, <3>1 DEF FinishBucket, ControlInv, TypeOK
  <3> QED BY <3>1, <3>2 DEF FinishBucket, ControlInv, Control, AtEntries, AtBucket
 <2> QED BY <2>1, <2>2
<1>2. linked <= linked' /\ linked \in Int /\ linked' \in Int /\ n \in Int
 <2>1. linked \in 1 .. MaxNode + 1 /\ linked' \in 1 .. MaxNode + 1
   BY StepType DEF ControlInv, TypeOK
 <2> QED BY <2>1, StepFrame DEF ListGrows, Node
<1> QED BY <1>1, <1>2

\* a node is linked when a bucket of the level before has an entry
LEMMA LinkNeeded ==
  ASSUME ControlInv, DataInv, NEW t \in Thread, LinkNext(t)
  PROVE  Level(curr[t]) # {}
<1>1. Bucket(t) # <<>> /\ ~Returned(t) BY DEF LinkNext, Returned, ControlInv, Control, AtLoop
<1>2. Bucket(t) \in Seq(Vertex) /\ curr[t] \in Node /\ work_on[t] \in Thread BY <1>1, BucketType
<1>3. 1 \in DOMAIN Bucket(t) /\ Bucket(t)[1] \in Vertex BY <1>1, <1>2
<1>4. Delta[Bucket(t)[1]] = curr[t] BY <1>2, <1>3 DEF DataInv, BucketsSound, Bucket
<1> QED BY <1>3, <1>4 DEF Level

\* only the last node has no next one
LEMMA LinkLast ==
  ASSUME ControlInv, NEW t \in Thread, LinkNext(t), next[curr[t]] = Null
  PROVE  linked = curr[t] + 1 /\ linked' = linked + 1 /\ curr[t] \in Nat
<1>1. curr[t] \in Node /\ curr[t] \in Nat /\ curr[t] \in 0 .. linked - 1
      /\ linked \in Nat
 <2>1. linked \in 1 .. MaxNode + 1 BY DEF ControlInv, TypeOK
 <2> QED
   BY <2>1, BucketType, NodeAssumption DEF LinkNext, Returned, Node, ControlInv, Control, AtLoop
<1> QED BY <1>1 DEF LinkNext, ControlInv, Control, OneList, Null

LEMMA StepLinkedForVertices ==
  ASSUME ControlInv, DataInv, NEW t \in Thread, Step(t)
  PROVE  LinkedForVertices'
<1> SUFFICES ASSUME NEW n \in Node, n + 1 < linked' PROVE Level(n) # {}
  BY DEF LinkedForVertices, Level
<1>1. CASE linked' = linked BY <1>1 DEF DataInv, LinkedForVertices
<1>2. CASE linked' # linked
 <2>1. LinkNext(t) /\ next[curr[t]] = Null BY <1>2, Writers DEF LinkNext
 <2>2. n = curr[t] \/ n + 1 < linked BY <2>1, LinkLast DEF Node
 <2> QED BY <2>1, <2>2, LinkNeeded DEF DataInv, LinkedForVertices
<1> QED BY <1>1, <1>2

LEMMA StepListComplete ==
  ASSUME ControlInv, DataInv, NEW t \in Thread, Step(t)
  PROVE  ListComplete'
<1> SUFFICES ASSUME NEW s \in Thread, Returned(s)'
             PROVE  /\ \A v \in Vertex : Delta[v] + 1 < linked'
                    /\ \E v \in Vertex : Delta[v] + 2 = linked'
  BY DEF ListComplete
<1>1. CASE Returned(s)
 <2>1. /\ \A v \in Vertex : Delta[v] + 1 < linked
       /\ \E v \in Vertex : Delta[v] + 2 = linked
   BY <1>1 DEF DataInv, ListComplete
 <2>2. linked' = linked
  <3> SUFFICES ASSUME linked' # linked PROVE FALSE OBVIOUS
  <3>1. LinkNext(t) /\ next[curr[t]] = Null BY Writers DEF LinkNext
  <3>2. PICK v \in Vertex : Delta[v] = curr[t] BY <3>1, LinkNeeded DEF Level
  <3> QED BY <2>1, <3>1, <3>2, LinkLast
 <2> QED BY <2>1, <2>2
<1>2. CASE ~Returned(s)
 <2>1. s = t BY <1>2, StepFrame DEF SameLocals, Returned
 <2>2. Advance(t) /\ next[curr[t]] = Null /\ pc[t] = "advance"
   BY ZenonT(40), <1>2, <2>1, OwnTypes DEF Returned, Step, TestDone, TestSize, TestNext, LinkNext, LoadBucket,
      StartHelping, TakeEntry, ReadDist, TestNeighbor, PushVertex, MarkDist, MarkVisited, Progress,
      FinishBucket, Advance, NextBucket, NextEntry, FromNeighbor, Goto
 <2>3. /\ linked = curr[t] + 1 /\ curr[t] \in Nat \ {0}
       /\ \A v \in Vertex : Delta[v] < curr[t]
   BY <2>2, LastLevel
 <2>4. linked' = linked BY <2>2 DEF Advance, shared
 <2>5. \A v \in Vertex : Delta[v] + 1 < linked BY <2>3, GraphTypes
 <2>6. curr[t] - 1 \in Node
  <3>1. curr[t] \in Node BY <2>2, BucketType DEF Returned
  <3> QED BY <2>3, <3>1, NodeAssumption DEF Node
 <2>7. Level(curr[t] - 1) # {} BY <2>3, <2>6 DEF DataInv, LinkedForVertices
 <2>8. \E v \in Vertex : Delta[v] + 2 = linked BY <2>3, <2>7 DEF Level
 <2> QED BY <2>4, <2>5, <2>8
<1> QED BY <1>1, <1>2

(***************************************************************************)
(* A vertex is in a bucket before it gets its distance.                    *)
(***************************************************************************)
LEMMA StepPushedFirst ==
  ASSUME ControlInv, DataInv, NEW t \in Thread, Step(t)
  PROVE  PushedFirst'
<1> SUFFICES ASSUME NEW s \in Thread, pc'[s] = "mark"
             PROVE  \E i \in DOMAIN buckets'[curr'[s] + 1][s] :
                      buckets'[curr'[s] + 1][s][i] = V(s)'
  BY DEF PushedFirst
<1>t. pc \in [Thread -> Labels] BY DEF ControlInv, TypeOK
<1>1. CASE pc[s] = "mark" /\ (s # t \/ ~MarkDist(t))
 <2>1. pc[s] \in AtItem /\ ~MarkVisited(s) BY <1>1 DEF AtItem, MarkVisited
 <2>2. U(s)' = U(s) /\ curr'[s] = curr[s] /\ curr[s] + 1 \in Node BY <2>1, ItemStays, ItemLevel
 <2>3. j'[s] = j[s]
  <3>1. CASE s # t BY <3>1, StepFrame DEF SameLocals
  <3>2. CASE s = t
    BY <1>1, <3>2 DEF Step, TestDone, TestSize, TestNext, LinkNext, LoadBucket, StartHelping,
       TakeEntry, ReadDist, TestNeighbor, PushVertex, MarkVisited, Progress, FinishBucket, Advance
  <3> QED BY <3>1, <3>2
 <2>4. V(s)' = V(s) BY <2>2, <2>3 DEF V
 <2>5. PICK i \in DOMAIN buckets[curr[s] + 1][s] : buckets[curr[s] + 1][s][i] = V(s)
   BY <1>1 DEF DataInv, PushedFirst
 <2>6. /\ i \in DOMAIN buckets'[curr[s] + 1][s]
       /\ buckets'[curr[s] + 1][s][i] = V(s)
   BY <2>2, <2>5, EntryStays
 <2> QED BY <2>2, <2>4, <2>6
<1>2. CASE s = t /\ PushVertex(t)
 <2>1. /\ pc[t] \in AtItem /\ ~MarkVisited(t)
       /\ next_node[t] = curr[t] + 1 /\ next_node[t] \in Node /\ V(t) \in Vertex
   BY <1>2, VertexAtItem DEF PushVertex, AtItem, MarkVisited
 <2>2. U(t)' = U(t) /\ curr'[t] = curr[t] /\ j' = j
   BY <1>2, <2>1, ItemStays DEF PushVertex, entryLoop
 <2>3. V(t)' = V(t) BY <2>2 DEF V
 <2>4. buckets[curr[t] + 1][t] \in Seq(Vertex) BY <2>1 DEF ControlInv, TypeOK
 <2>5. buckets'[curr[t] + 1][t] = Append(buckets[curr[t] + 1][t], V(t))
   BY <1>2, <2>1 DEF PushVertex, ControlInv, TypeOK
 <2> DEFINE last == Len(buckets[curr[t] + 1][t]) + 1
 <2>6. /\ last \in DOMAIN buckets'[curr[t] + 1][t]
       /\ buckets'[curr[t] + 1][t][last] = V(t)
   BY <2>1, <2>4, <2>5
 <2> QED BY <1>2, <2>2, <2>3, <2>6
<1>3. CASE pc[s] # "mark" /\ ~(s = t /\ PushVertex(t))
 <2>1. s = t BY <1>3, StepFrame DEF SameLocals
 <2> QED
   BY <1>t, <1>3, <2>1 DEF Step, TestDone, TestSize, TestNext, LinkNext, LoadBucket, StartHelping,
      TakeEntry, ReadDist, TestNeighbor, MarkDist, MarkVisited, Progress, FinishBucket, Advance,
      NextBucket, NextEntry, FromNeighbor, Goto
<1>4. CASE s = t /\ MarkDist(t) BY <1>t, <1>4 DEF MarkDist, FromNeighbor, Goto
<1> QED BY <1>1, <1>2, <1>3, <1>4

(***************************************************************************)
(* When a vertex gets its distance, its entry is in a bucket that is not   *)
(* done, and nobody is in its level yet.                                   *)
(***************************************************************************)
LEMMA NewlyMarked ==
  ASSUME ControlInv, DataInv, NEW t \in Thread, Step(t),
         NEW v \in Vertex, dist[v] = Unset, dist'[v] # Unset
  PROVE  /\ dist'[v] \in Node
         /\ \E i \in DOMAIN buckets[dist'[v]][t] : buckets[dist'[v]][t][i] = v
         /\ ~done[dist'[v]][t] /\ done' = done
         /\ \A s \in Thread : curr'[s] # dist'[v]
<1>1. /\ MarkDist(t) /\ v = V(t)
      /\ dist'[v] = curr[t] + 1 /\ Delta[v] = curr[t] + 1
  BY StepDist
<1>2. curr[t] \in Nat /\ curr[t] + 1 \in Node BY <1>1, ItemLevel DEF MarkDist, AtItem
<1>3. \E i \in DOMAIN buckets[curr[t] + 1][t] : buckets[curr[t] + 1][t][i] = v
  BY <1>1 DEF DataInv, PushedFirst, MarkDist
<1>4. ~done[curr[t] + 1][t] BY <1>1, <1>2 DEF DataInv, MarkedReady, Level
<1>5. \A s \in Thread : curr[s] # curr[t] + 1
 <2> SUFFICES ASSUME NEW s \in Thread, curr[s] = curr[t] + 1 PROVE FALSE OBVIOUS
 <2>1. ~Returned(s) BY <1>2 DEF ControlInv, Control, AtLoop, Null
 <2> QED BY <1>1, <1>2, <2>1 DEF DataInv, LevelReady
<1>6. curr' = curr /\ done' = done BY <1>1 DEF MarkDist, bucketLoop
<1> QED BY <1>1, <1>2, <1>3, <1>4, <1>5, <1>6

(***************************************************************************)
(* What t will take it still takes after its step, unless the vertex has   *)
(* been covered; and then it does not declare the bucket done.             *)
(***************************************************************************)
LEMMA StillTakes ==
  ASSUME ControlInv, DataInv, NEW t \in Thread, Step(t), NEW s \in Thread,
         NEW n \in Node, NEW w \in Thread, NEW i \in DOMAIN buckets[n][w],
         ~Covered(buckets[n][w][i]), ~done[n][w],
         curr[s] = n => WillTake(s, w, i), curr'[s] = n
  PROVE  WillTake(s, w, i)'
<1>t. /\ pc \in [Thread -> Labels] /\ todo \in [Thread -> SUBSET Nat]
      /\ sz \in [Thread -> Nat] /\ item \in [Thread -> Nat]
      /\ tried \in [Thread -> 0 .. NumT]
      /\ buckets[n][w] \in Seq(Vertex) /\ i \in 1 .. Len(buckets[n][w])
      /\ i \in Nat \ {0} /\ buckets[n][w][i] \in Vertex
 <2>1. TypeOK BY DEF ControlInv
 <2>2. pc \in [Thread -> Labels] /\ todo \in [Thread -> SUBSET Nat]
       /\ sz \in [Thread -> Nat] /\ item \in [Thread -> Nat]
       /\ tried \in [Thread -> 0 .. NumT]
   BY <2>1 DEF TypeOK
 <2> QED BY <2>2, EntryType
<1>1. CASE s # t
 <2>1. SameLocals(s) BY <1>1, StepFrame
 <2> QED BY <2>1 DEF SameLocals, WillTake, Visited
<1>2. CASE s = t /\ Advance(t)
 <2>1. tried'[t] = 0 /\ pc'[t] \notin AtBucket BY <1>t, <1>2 DEF Advance, Goto, AtBucket
 <2>2. ~Visited(t, w)' BY <2>1, ThreadAssumption DEF Visited, Thread
 <2> QED BY <1>2, <2>1, <2>2 DEF WillTake
<1>3. CASE s = t /\ ~Advance(t)
 <2>1. curr' = curr /\ curr[t] = n /\ WillTake(t, w, i) BY <1>3, Writers
 <2>2. AtEntries(t) /\ AtLoop(t) /\ ~Visited(t, w) BY <2>1 DEF ControlInv, Control, WillTake
 <2>3. work_on[t] = w => Bucket(t) = buckets[n][w] BY <2>1 DEF Bucket
 <2>4. CASE TestDone(t) \/ TestSize(t) \/ FinishBucket(t)
  <3>1. CASE NextBucket(t)
   <4>1. w # work_on[t]
    <5>1. CASE TestDone(t) BY <1>t, <2>1, <3>1, <5>1 DEF TestDone, NextBucket, Goto
    <5>2. CASE TestSize(t) BY <1>t, <2>3, <3>1, <5>2 DEF TestSize, NextBucket, Goto
    <5>3. CASE FinishBucket(t)
      BY <2>1, <2>2, <5>3 DEF WillTake, AtEntries, FinishBucket, AtItem, AtBucket
    <5> QED BY <2>4, <5>1, <5>2, <5>3
   <4>2. pc[t] # "advance" /\ pc'[t] \notin AtBucket
     BY <1>t, <2>4, <3>1 DEF TestDone, TestSize, FinishBucket, NextBucket, Goto, AtBucket
   <4>3. ~Visited(t, w)' BY <2>2, <3>1, <4>1, <4>2, VisitedNext
   <4> QED BY <1>3, <4>2, <4>3 DEF WillTake
  <3>2. CASE UNCHANGED bucketLoop /\ pc'[t] \in {"size", "next", "load"}
    BY <1>3, <2>2, <3>2 DEF WillTake, Visited, bucketLoop, AtBucket
  <3> QED BY <1>t, <2>4, <3>1, <3>2 DEF TestDone, TestSize, FinishBucket, Goto
 <2>5. CASE ~(TestDone(t) \/ TestSize(t) \/ FinishBucket(t))
  <3>1. work_on' = work_on /\ tried' = tried BY <1>3, <2>5, Writers
  <3>2. ~Visited(t, w)' BY <2>2, <3>1 DEF Visited
  <3> SUFFICES ASSUME work_on[t] = w, pc'[t] \in AtBucket
               PROVE  \/ pc'[t] = "start" /\ i <= sz'[t]
                      \/ pc'[t] # "start" /\ i \in todo'[t]
                      \/ pc'[t] \in AtItem /\ i = item'[t]
    BY <1>3, <3>1, <3>2 DEF WillTake
  <3>3. pc[t] \in AtBucket =>
          \/ pc[t] = "start" /\ i <= sz[t]
          \/ pc[t] # "start" /\ i \in todo[t]
          \/ pc[t] \in AtItem /\ i = item[t]
    BY <2>1 DEF WillTake
  <3>4. CASE TestNext(t) \/ LinkNext(t) BY <1>t, <3>4 DEF TestNext, LinkNext, Goto, AtBucket
  <3>5. CASE LoadBucket(t)
   <4>1. sz'[t] = Len(buckets[n][w]) BY <1>t, <2>3, <3>5 DEF LoadBucket
   <4>2. CASE Own(t)
    <5>1. pc'[t] = "entry" /\ todo'[t] = 1 .. Len(buckets[n][w])
      BY <1>t, <2>3, <3>5, <4>2 DEF LoadBucket, Goto
    <5> QED BY <1>t, <5>1
   <4>3. CASE ~Own(t)
    <5>1. pc'[t] = "start" BY <1>t, <3>5, <4>3 DEF LoadBucket, Goto
    <5> QED BY <1>t, <4>1, <5>1
   <4> QED BY <4>2, <4>3
  <3>6. CASE StartHelping(t)
   <4>1. i <= sz[t] /\ last_done[n][w] \in Nat
     BY <3>3, <3>6 DEF StartHelping, AtBucket, AtItem, ControlInv, TypeOK
   <4>2. ~(i <= last_done[n][w]) BY <1>t, <4>1 DEF DataInv, Certificates, ProgressCertificate
   <4>3. todo'[t] = last_done[n][w] + 1 .. sz[t] /\ pc'[t] # "start"
     BY <1>t, <2>1, <3>6 DEF StartHelping, Goto
   <4> QED BY <1>t, <4>1, <4>2, <4>3
  <3>7. CASE TakeEntry(t)
   <4>1. PICK k \in todo[t] :
           /\ item' = [item EXCEPT ![t] = k]
           /\ todo' = [todo EXCEPT ![t] = @ \ {k}]
           /\ \/ ~vis[Bucket(t)[k]] /\ Goto(t, "du")
              \/ vis[Bucket(t)[k]]
     BY <3>7 DEF TakeEntry
   <4>2. item'[t] = k /\ todo'[t] = todo[t] \ {k} /\ pc[t] = "entry" /\ i \in todo[t]
     BY <1>t, <3>3, <3>7, <4>1 DEF TakeEntry, AtBucket, AtItem
   <4>3. pc'[t] # "start" BY <1>t, <3>7 DEF TakeEntry, Goto
   <4>4. i = k => ~vis[Bucket(t)[k]] BY <1>t, <2>3 DEF DataInv, Certificates, VisCertificate
   <4> QED BY <1>t, <4>1, <4>2, <4>3, <4>4 DEF Goto, AtItem
  <3>8. CASE ReadDist(t) \/ TestNeighbor(t) \/ PushVertex(t) \/ MarkDist(t)
   <4>1. /\ pc[t] \in AtItem /\ pc'[t] \in AtItem
         /\ UNCHANGED <<sz, todo, item>>
     BY <1>t, <3>8 DEF ReadDist, TestNeighbor, PushVertex, MarkDist, entryLoop, FromNeighbor, Goto,
        AtItem
   <4> QED BY <3>3, <4>1 DEF AtItem, AtBucket
  <3>9. CASE MarkVisited(t) \/ Progress(t)
   <4>1. /\ pc[t] \in {"vis", "progress"} /\ pc'[t] # "start"
         /\ UNCHANGED <<sz, todo, item>>
     BY <1>t, <3>9 DEF MarkVisited, Progress, entryLoop, NextEntry, Goto
   <4>2. pc[t] = "vis" => i # item[t] BY <2>3, ListEndCovered DEF U
   <4> QED BY <3>3, <4>1, <4>2 DEF AtItem, AtBucket
  <3> QED BY <1>3, <2>5, <3>4, <3>5, <3>6, <3>7, <3>8, <3>9 DEF Step
 <2> QED BY <2>4, <2>5
<1> QED BY <1>1, <1>2, <1>3

LEMMA DistNode ==
  ASSUME ControlInv, DataInv, NEW v \in Vertex, dist[v] # Unset
  PROVE  dist[v] \in Node /\ dist[v] = Delta[v]
<1>1. dist[v] = Delta[v] BY DEF DataInv, DistSound
<1> QED BY <1>1, GraphTypes, GraphAssumption, NodeAssumption DEF Node, Unset

LEMMA StepNoneLost ==
  ASSUME ControlInv, DataInv, NEW t \in Thread, Step(t)
  PROVE  NoneLost'
<1> SUFFICES ASSUME NEW v \in Vertex, dist'[v] # Unset, ~Covered(v)'
             PROVE  \E w \in Thread : \E i \in DOMAIN buckets'[dist'[v]][w] :
                      /\ buckets'[dist'[v]][w][i] = v
                      /\ ~done'[dist'[v]][w]
                      /\ \A s \in Thread : curr'[s] = dist'[v] => WillTake(s, w, i)'
  BY DEF NoneLost
<1>1. CASE dist[v] # Unset
 <2>1. dist'[v] = dist[v] /\ dist[v] \in Node BY <1>1, StepDist, DistNode
 <2> DEFINE n == dist[v]
 <2>2. ~Covered(v) BY StepCovered
 <2>a. PICK w \in Thread : \E i \in DOMAIN buckets[n][w] :
         /\ buckets[n][w][i] = v /\ ~done[n][w]
         /\ \A s \in Thread : curr[s] = n => WillTake(s, w, i)
   BY <1>1, <2>2 DEF DataInv, NoneLost
 <2>3. PICK i \in DOMAIN buckets[n][w] :
         /\ buckets[n][w][i] = v /\ ~done[n][w]
         /\ \A s \in Thread : curr[s] = n => WillTake(s, w, i)
   BY <2>a
 <2>4. i \in DOMAIN buckets'[n][w] /\ buckets'[n][w][i] = v BY <2>1, <2>3, EntryStays
 <2>5. \A s \in Thread : curr'[s] = n => WillTake(s, w, i)' BY <2>1, <2>2, <2>3, StillTakes
 <2>6. ~done'[n][w]
  <3> SUFFICES ASSUME done'[n][w] PROVE FALSE OBVIOUS
  <3>1. FinishBucket(t) BY <2>3, Writers
  <3>2. n = curr[t] /\ w = work_on[t] BY <2>3, <3>1 DEF FinishBucket, ControlInv, TypeOK
  <3>3. WillTake(t, w, i) /\ pc[t] = "finish" /\ todo[t] = {}
    BY <2>3, <3>1, <3>2 DEF FinishBucket, ControlInv, Control, AtEntries
  <3> QED BY <3>2, <3>3 DEF WillTake, AtBucket, AtItem
 <2> QED BY <2>1, <2>4, <2>5, <2>6
<1>2. CASE dist[v] = Unset
 <2> DEFINE n == dist'[v]
 <2>1. /\ n \in Node /\ ~done[n][t] /\ done' = done
       /\ \A s \in Thread : curr'[s] # n
   BY <1>2, NewlyMarked
 <2>2. PICK i \in DOMAIN buckets[n][t] : buckets[n][t][i] = v BY <1>2, NewlyMarked
 <2>3. i \in DOMAIN buckets'[n][t] /\ buckets'[n][t][i] = v BY <2>1, <2>2, EntryStays
 <2> QED BY <2>1, <2>3
<1> QED BY <1>1, <1>2

(***************************************************************************)
(* Before all threads of a level have gone over its buckets, the next node *)
(* is linked: a thread passes a bucket without linking one only if the     *)
(* bucket is done, which means that there is one, or empty.                *)
(***************************************************************************)
LEMMA StepLinkedInTime ==
  ASSUME ControlInv, DataInv, NEW t \in Thread, Step(t)
  PROVE  LinkedInTime'
<1> SUFFICES ASSUME NEW v \in Vertex, dist'[v] # Unset, ~(dist'[v] + 1 < linked')
             PROVE  \E w \in Thread :
                      /\ \E i \in DOMAIN buckets'[dist'[v]][w] :
                           buckets'[dist'[v]][w][i] = v
                      /\ \A s \in Thread : curr'[s] = dist'[v] => ~Visited(s, w)'
  BY DEF LinkedInTime
<1>1. CASE dist[v] # Unset
 <2>1. dist'[v] = dist[v] /\ dist[v] \in Node /\ dist[v] \in Int
   BY <1>1, StepDist, DistNode DEF Node
 <2> DEFINE n == dist[v]
 <2>2. ~(n + 1 < linked)
  <3>1. linked <= linked' /\ linked \in Int /\ linked' \in Int
   <4>1. linked \in 1 .. MaxNode + 1 /\ linked' \in 1 .. MaxNode + 1
     BY StepType DEF ControlInv, TypeOK
   <4> QED BY <4>1, StepFrame DEF ListGrows
  <3> QED BY <2>1, <3>1
 <2>3. PICK w \in Thread :
         /\ \E i \in DOMAIN buckets[n][w] : buckets[n][w][i] = v
         /\ \A s \in Thread : curr[s] = n => ~Visited(s, w)
   BY <1>1, <2>2 DEF DataInv, LinkedInTime
 <2>4. PICK i \in DOMAIN buckets[n][w] : buckets[n][w][i] = v BY <2>3
 <2>5. i \in DOMAIN buckets'[n][w] /\ buckets'[n][w][i] = v BY <2>1, <2>4, EntryStays
 <2>6. ASSUME NEW s \in Thread, curr'[s] = n PROVE ~Visited(s, w)'
  <3>1. CASE s # t BY <2>3, <2>6, <3>1, StepFrame DEF SameLocals, Visited
  <3>2. CASE s = t /\ Advance(t)
   <4>1. tried'[t] = 0 BY <3>2 DEF Advance, ControlInv, TypeOK
   <4> QED BY <3>2, <4>1, ThreadAssumption DEF Visited, Thread
  <3>3. CASE s = t /\ ~Advance(t)
   <4>1. curr[t] = n /\ ~Visited(t, w) BY <2>3, <2>6, <3>3, Writers
   <4>2. CASE (TestDone(t) \/ TestSize(t) \/ FinishBucket(t)) /\ NextBucket(t)
    <5>1. ~FinishBucket(t) BY <2>2, <4>1 DEF FinishBucket, ControlInv, Control, AtEntries, AtBucket
    <5>2. w # work_on[t]
     <6>1. buckets[n][w] \in Seq(Vertex) /\ buckets[n][w] # <<>>
      <7>1. buckets[n][w] \in Seq(Vertex) BY <2>1 DEF ControlInv, TypeOK
      <7> QED BY <2>4, <7>1
     <6>2. ~done[n][w] BY <2>1, <2>2 DEF DataInv, DoneLinked
     <6>3. pc'[t] \in {"done", "advance"} BY <4>2 DEF NextBucket, Goto, ControlInv, TypeOK
     <6> QED
       BY <4>1, <4>2, <5>1, <6>1, <6>2, <6>3 DEF TestDone, TestSize, Bucket, Goto, ControlInv,
          TypeOK
    <5>3. pc[t] # "advance" BY <4>2 DEF TestDone, TestSize, FinishBucket
    <5> QED BY <3>3, <4>1, <4>2, <5>2, <5>3, VisitedNext
   <4>3. CASE tried' = tried BY <3>3, <4>1, <4>3 DEF Visited
   <4> QED BY <3>3, <4>2, <4>3, Writers DEF TestDone, TestSize, FinishBucket, bucketLoop
  <3> QED BY <3>1, <3>2, <3>3
 <2> QED BY <2>1, <2>5, <2>6
<1>2. CASE dist[v] = Unset
 <2> DEFINE n == dist'[v]
 <2>1. n \in Node /\ \A s \in Thread : curr'[s] # n BY <1>2, NewlyMarked
 <2>2. PICK i \in DOMAIN buckets[n][t] : buckets[n][t][i] = v BY <1>2, NewlyMarked
 <2>3. i \in DOMAIN buckets'[n][t] /\ buckets'[n][t][i] = v BY <2>1, <2>2, EntryStays
 <2> QED BY <2>1, <2>3
<1> QED BY <1>1, <1>2

(***************************************************************************)
(* A thread pushes a vertex only while it has no distance, and what it has *)
(* pushed before has one.                                                  *)
(***************************************************************************)
LEMMA NeighborStays ==
  ASSUME ControlInv, NEW t \in Thread, Step(t), NEW s \in Thread,
         pc[s] \in {"neighbor", "push", "mark"}, s = t => j'[t] = j[t]
  PROVE  V(s)' = V(s)
<1>1. pc[s] \in AtItem /\ ~MarkVisited(s) BY DEF AtItem, MarkVisited
<1>2. U(s)' = U(s) BY <1>1, ItemStays
<1>3. j'[s] = j[s] BY StepFrame DEF SameLocals
<1> QED BY <1>2, <1>3 DEF V

LEMMA StepPushedIsMarked ==
  ASSUME ControlInv, DataInv, OnceInv, NEW t \in Thread, Step(t)
  PROVE  PushedIsMarked'
<1> SUFFICES ASSUME NEW s \in Thread, NEW n \in Node, NEW i \in DOMAIN buckets'[n][s]
             PROVE  \/ dist'[buckets'[n][s][i]] # Unset
                    \/ pc'[s] = "mark" /\ buckets'[n][s][i] = V(s)'
  BY DEF PushedIsMarked
<1>t. pc \in [Thread -> Labels] BY DEF ControlInv, TypeOK
<1>1. CASE i \in DOMAIN buckets[n][s]
 <2> DEFINE e == buckets[n][s][i]
 <2>1. e \in Vertex /\ buckets'[n][s][i] = e BY <1>1, EntryType, EntryStays
 <2>2. CASE dist[e] # Unset BY <2>1, <2>2, StepDist
 <2>3. CASE pc[s] = "mark" /\ e = V(s)
  <3>1. CASE s = t
   <4>1. MarkDist(t)
     BY <2>3, <3>1 DEF Step, TestDone, TestSize, TestNext, LinkNext, LoadBucket, StartHelping,
        TakeEntry, ReadDist, TestNeighbor, PushVertex, MarkVisited, Progress, FinishBucket, Advance
   <4>2. du[t] = curr[t] /\ curr[t] \in Nat
     BY <4>1, ItemLevel DEF MarkDist, AtItem, DataInv, View, VertexView, AtVertex
   <4>3. dist'[e] = curr[t] + 1 BY <2>1, <2>3, <3>1, <4>1, <4>2 DEF MarkDist, ControlInv, TypeOK
   <4> QED BY <2>1, <4>2, <4>3 DEF Unset
  <3>2. CASE s # t
   <4>1. pc'[s] = pc[s] BY <3>2, StepFrame DEF SameLocals
   <4> QED BY <2>1, <2>3, <3>2, <4>1, NeighborStays
  <3> QED BY <3>1, <3>2
 <2> QED BY <1>1, <2>2, <2>3 DEF OnceInv, PushedIsMarked
<1>2. CASE i \notin DOMAIN buckets[n][s]
 <2>1. PushVertex(t) /\ s = t /\ buckets'[n][s][i] = V(t) BY <1>2, EntryNew
 <2>2. pc'[t] = "mark" /\ V(t)' = V(t)
  <3>1. j' = j BY <2>1 DEF PushVertex, entryLoop
  <3> QED BY <1>t, <2>1, <3>1, NeighborStays DEF PushVertex, Goto
 <2> QED BY <2>1, <2>2
<1> QED BY <1>1, <1>2

LEMMA StepPushIsNew ==
  ASSUME ControlInv, DataInv, OnceInv, NEW t \in Thread, Step(t)
  PROVE  PushIsNew'
<1> SUFFICES ASSUME NEW s \in Thread, pc'[s] = "push",
                    NEW n \in Node, NEW i \in DOMAIN buckets'[n][s]
             PROVE  buckets'[n][s][i] # V(s)'
  BY DEF PushIsNew
<1>t. pc \in [Thread -> Labels] BY DEF ControlInv, TypeOK
<1>1. CASE s # t
 <2>1. pc[s] = "push" /\ V(s)' = V(s) BY <1>1, StepFrame, NeighborStays DEF SameLocals
 <2>2. i \in DOMAIN buckets[n][s] BY <1>1, EntryNew
 <2> QED BY <2>1, <2>2, EntryStays DEF OnceInv, PushIsNew
<1>2. CASE s = t
 <2>1. TestNeighbor(t) /\ dist[V(t)] = Unset /\ j' = j /\ buckets' = buckets
   BY <1>t, <1>2 DEF Step, TestDone, TestSize, TestNext, LinkNext, LoadBucket, StartHelping,
      TakeEntry, ReadDist, TestNeighbor, PushVertex, MarkDist, MarkVisited, Progress, FinishBucket,
      Advance, NextBucket, NextEntry, FromNeighbor, Goto, shared
 <2>2. V(t)' = V(t) BY <2>1, NeighborStays DEF TestNeighbor
 <2>3. dist[buckets[n][t][i]] # Unset BY <1>2, <2>1 DEF TestNeighbor, OnceInv, PushedIsMarked
 <2> QED BY <1>2, <2>1, <2>2, <2>3
<1> QED BY <1>1, <1>2

LEMMA StepAppendedOnce ==
  ASSUME ControlInv, DataInv, OnceInv, NEW t \in Thread, Step(t)
  PROVE  AppendedOnce'
<1> SUFFICES ASSUME NEW s \in Thread, NEW m \in Node, NEW n \in Node,
                    NEW i \in DOMAIN buckets'[m][s], NEW k \in DOMAIN buckets'[n][s],
                    buckets'[m][s][i] = buckets'[n][s][k]
             PROVE  m = n /\ i = k
  BY DEF AppendedOnce
<1>1. CASE i \in DOMAIN buckets[m][s] /\ k \in DOMAIN buckets[n][s]
  BY <1>1, EntryStays DEF OnceInv, AppendedOnce
<1>2. CASE i \notin DOMAIN buckets[m][s] /\ k \notin DOMAIN buckets[n][s]
 <2>1. m = curr[t] + 1 /\ i = Len(buckets[m][s]) + 1 BY <1>2, EntryNew
 <2>2. n = curr[t] + 1 /\ k = Len(buckets[n][s]) + 1 BY <1>2, EntryNew
 <2> QED BY <2>1, <2>2
\* an old entry of t's is not what it pushes
<1>3. ASSUME NEW a \in Node, NEW b \in Node,
             NEW x \in DOMAIN buckets[a][s], NEW y \in DOMAIN buckets'[b][s],
             y \notin DOMAIN buckets[b][s]
      PROVE  buckets'[a][s][x] # buckets'[b][s][y]
 <2>1. PushVertex(t) /\ s = t /\ buckets'[b][s][y] = V(t) BY <1>3, EntryNew
 <2>2. buckets'[a][s][x] = buckets[a][s][x] BY <1>3, EntryStays
 <2>3. buckets[a][s][x] # V(t) BY <1>3, <2>1 DEF PushVertex, OnceInv, PushIsNew
 <2> QED BY <2>1, <2>2, <2>3
<1> QED BY <1>1, <1>2, <1>3

-----------------------------------------------------------------------------
(***************************************************************************)
(* The invariant holds at the start of every search.                       *)
(***************************************************************************)
LEMMA InitData == Init => DataInv /\ OnceInv
<1> SUFFICES ASSUME Init PROVE DataInv /\ OnceInv OBVIOUS
<1>1. /\ dist = InitDist /\ vis = InitVis /\ linked = 1 /\ next = InitNext
      /\ buckets = InitBuckets /\ done = InitDone /\ last_done = InitLastDone
      /\ \A t \in Thread : pc[t] = "done" /\ curr[t] = 0 /\ tried[t] = 0
  BY DEF Init, InitShared, InitLocal, InitLabel, InitZero
<1>2. /\ \A v \in Vertex : dist[v] = IF v = Root THEN 0 ELSE Unset
      /\ \A v \in Vertex : ~vis[v]
      /\ \A n \in Node, t \in Thread : ~done[n][t] /\ last_done[n][t] = 0
      /\ \A n \in Node, t \in Thread :
           buckets[n][t] = IF n = 0 /\ t = 0 THEN <<Root>> ELSE <<>>
      /\ Root \in Vertex /\ Delta[Root] = 0
      /\ 0 \in Node /\ 0 \in Thread
  BY <1>1, GraphAssumption, DistanceAssumption, ThreadAssumption, NodeAssumption DEF InitDist,
     InitVis, InitBuckets, InitDone, InitLastDone, Node, Thread
<1>3. \A n \in Node, t \in Thread : \A i \in DOMAIN buckets[n][t] :
        n = 0 /\ t = 0 /\ i = 1 /\ buckets[n][t][i] = Root
  BY <1>2
<1>4. DistSound /\ BucketsSound BY <1>2, <1>3 DEF DistSound, BucketsSound, Unset
<1>5. LevelReady /\ FirstReturnExact
 <2>1. \A v \in Vertex : Delta[v] \in 0 .. 0 => v = Root BY DistanceAssumption
 <2> QED BY <1>1, <1>2, <2>1 DEF LevelReady, FirstReturnExact, Returned, Unset
<1>6. Certificates BY <1>2 DEF Certificates, VisCertificate, ProgressCertificate
<1>7. View BY <1>1 DEF View, VertexView, EntriesView, AtVertex, AtBucket
<1>8. MarkedReady
 <2>1. \A n \in Node, w \in Thread : ~done[n][w] BY <1>2
 <2>2. \A n \in Node, w \in Thread : ~(last_done[n][w] > 0) BY <1>2
 <2> QED BY <2>1, <2>2 DEF MarkedReady
<1>9. 1 \in DOMAIN buckets[0][0] /\ buckets[0][0][1] = Root /\ ~done[0][0] BY <1>2
<1>10. \A t \in Thread : ~Visited(t, 0) /\ WillTake(t, 0, 1)
  BY <1>1, <1>2, VisitedNone DEF WillTake, AtBucket
<1>11. NoneLost BY <1>2, <1>9, <1>10 DEF NoneLost
<1>12. LinkedForVertices /\ DoneLinked BY <1>1, <1>2 DEF LinkedForVertices, DoneLinked, Node
<1>13. LinkedInTime BY <1>2, <1>9, <1>10 DEF LinkedInTime
<1>14. ListComplete /\ PushedFirst BY <1>1 DEF ListComplete, PushedFirst, Returned
<1>15. OnceInv BY <1>1, <1>2, <1>3 DEF OnceInv, PushedIsMarked, PushIsNew, AppendedOnce, Unset
<1> QED BY <1>4, <1>5, <1>6, <1>7, <1>8, <1>11, <1>12, <1>13, <1>14, <1>15 DEF DataInv

LEMMA InitDataPrime == Init' => DataInv' /\ OnceInv'
  BY InitData, PTL

LEMMA UnchangedData ==
  ASSUME DataInv, OnceInv, UNCHANGED <<shared, pc, bucketLoop, entryLoop>>
  PROVE  DataInv' /\ OnceInv'
<1> USE DEF shared, bucketLoop, entryLoop
<1>1. (DistSound /\ BucketsSound)' BY DEF DataInv, DistSound, BucketsSound
<1>2. (LevelReady /\ FirstReturnExact)' BY DEF DataInv, LevelReady, FirstReturnExact, Returned
<1>3. Certificates' BY DEF DataInv, Certificates, VisCertificate, ProgressCertificate, Covered
<1>4. View'
 <2>1. \A t \in Thread : VertexView(t)'
  <3>1. \A t \in Thread : VertexView(t) BY DEF DataInv, View
  <3>2. UNCHANGED <<pc, curr, work_on, buckets, dist, du, j, item>> OBVIOUS
  <3>3. \A t \in Thread : U(t)' = U(t) /\ V(t)' = V(t) BY <3>2 DEF V, U, Bucket
  <3> QED BY <3>1, <3>2, <3>3 DEF VertexView
 <2>2. \A t \in Thread : EntriesView(t)'
  <3>1. \A t \in Thread : EntriesView(t) BY DEF DataInv, View
  <3>2. UNCHANGED <<pc, curr, work_on, buckets, dist, sz, todo, item>> OBVIOUS
  <3> QED BY <3>1, <3>2 DEF EntriesView, Covered, Bucket
 <2> QED BY <2>1, <2>2 DEF View
<1>5. MarkedReady' BY DEF DataInv, MarkedReady, Level
<1>6. NoneLost' BY DEF DataInv, NoneLost, Covered, WillTake, Visited
<1>7. (LinkedForVertices /\ DoneLinked /\ LinkedInTime)'
  BY DEF DataInv, LinkedForVertices, DoneLinked, LinkedInTime, Level, Visited
<1>8. (ListComplete /\ PushedFirst)'
  BY DEF DataInv, ListComplete, PushedFirst, Returned, V, U, Bucket
<1>9. OnceInv' BY SMTT(30) DEF OnceInv, PushedIsMarked, PushIsNew, AppendedOnce, V, U, Bucket
<1> QED BY <1>1, <1>2, <1>3, <1>4, <1>5, <1>6, <1>7, <1>8, <1>9 DEF DataInv

LEMMA StepData ==
  ASSUME ControlInv, DataInv, NEW t \in Thread, Step(t)
  PROVE  DataInv'
<1>1. DistSound' /\ BucketsSound' BY StepDist, StepBucketsSound
<1>2. LevelReady' /\ FirstReturnExact' BY StepLevelReady, StepFirstReturnExact
<1>3. Certificates' BY StepVisCertificate, StepProgressCertificate DEF Certificates
<1>4. View'
 <2>1. \A s \in Thread : VertexView(s)' /\ EntriesView(s)' BY StepVertexView, StepEntriesView
 <2> QED BY <2>1 DEF View
<1>5. MarkedReady' /\ NoneLost' BY StepMarkedReady, StepNoneLost
<1>6. LinkedForVertices' /\ DoneLinked' /\ LinkedInTime' /\ ListComplete'
  BY StepLinkedForVertices, StepDoneLinked, StepLinkedInTime, StepListComplete
<1>7. PushedFirst' BY StepPushedFirst
<1> QED BY <1>1, <1>2, <1>3, <1>4, <1>5, <1>6, <1>7 DEF DataInv

LEMMA NextInv ==
  ASSUME IInv, [Next]_vars
  PROVE  IInv'
<1>1. ControlInv' BY NextControl DEF IInv
<1>2. CASE \E t \in Thread : Step(t)
  BY <1>1, <1>2, StepData, StepPushedIsMarked, StepPushIsNew, StepAppendedOnce DEF IInv, OnceInv
<1>3. CASE SearchAgain BY <1>1, <1>3, NewSearch, InitDataPrime DEF IInv
<1>4. CASE WriteOutput \/ Exited \/ UNCHANGED vars
  BY <1>1, <1>4, UnchangedData DEF WriteOutput, Exited, vars, IInv
<1> QED BY <1>2, <1>3, <1>4 DEF Next

-----------------------------------------------------------------------------
(***************************************************************************)
(* IInv is an inductive invariant.                                         *)
(***************************************************************************)
THEOREM InvCorrect == Spec => []IInv
<1>1. Init => IInv BY InitControl, InitData DEF IInv
<1>2. IInv /\ [Next]_vars => IInv' BY NextInv
<1> QED BY <1>1, <1>2, PTL DEF Spec

(***************************************************************************)
(* No distance is ever wrong.                                              *)
(***************************************************************************)
THEOREM DistCorrect == Spec => []DistSound
<1>1. IInv => DistSound BY DEF IInv, DataInv
<1> QED BY <1>1, InvCorrect, PTL

(***************************************************************************)
(* No vertex is ever in the bucket of a wrong level, though threads test   *)
(* and write distances without a compare-and-swap.                         *)
(***************************************************************************)
THEOREM BucketsCorrect == Spec => []BucketsSound
<1>1. IInv => BucketsSound BY DEF IInv, DataInv
<1> QED BY <1>1, InvCorrect, PTL

(***************************************************************************)
(* The first call that returns leaves the distances final, wherever the    *)
(* other threads are.                                                      *)
(***************************************************************************)
THEOREM FirstReturnCorrect == Spec => []FirstReturnExact
<1>1. IInv => FirstReturnExact BY DEF IInv, DataInv
<1> QED BY <1>1, InvCorrect, PTL

(***************************************************************************)
(* A vertex that is discovered is not lost, whatever the threads skip.     *)
(***************************************************************************)
THEOREM NothingLost == Spec => []NoneLost
<1>1. IInv => NoneLost BY DEF IInv, DataInv
<1> QED BY <1>1, InvCorrect, PTL

(***************************************************************************)
(* A thread enters a level when all of its vertices have their distance.   *)
(***************************************************************************)
THEOREM LevelsReady == Spec => []LevelReady
<1>1. IInv => LevelReady BY DEF IInv, DataInv
<1> QED BY <1>1, InvCorrect, PTL

(***************************************************************************)
(* The marks certify what they are read for.                               *)
(***************************************************************************)
THEOREM MarksCorrect == Spec => []Certificates
<1>1. IInv => Certificates BY DEF IInv, DataInv
<1> QED BY <1>1, InvCorrect, PTL

(***************************************************************************)
(* A thread pushes a vertex at most once.                                  *)
(***************************************************************************)
THEOREM PushedOnce == Spec => []AppendedOnce
<1>1. IInv => AppendedOnce BY DEF IInv, OnceInv
<1> QED BY <1>1, InvCorrect, PTL

(***************************************************************************)
(* At the end the list has one node per level and an empty one.            *)
(***************************************************************************)
THEOREM OneNodePerLevel == Spec => []ListComplete
<1>1. IInv => ListComplete BY DEF IInv, DataInv
<1> QED BY <1>1, InvCorrect, PTL

-----------------------------------------------------------------------------
(***************************************************************************)
(* The search implements LevelOrderBfs: a write of dist is a stutter or    *)
(* the discovery of a vertex from the first level that is not covered, and *)
(* a call returns when there is nothing left to discover.                  *)
(***************************************************************************)
Finished == {t \in Thread : Returned(t)}

LEMMA RefineGraph ==
  /\ LevelOrder!Unset = Unset
  /\ \A u : LevelOrder!Neighbors(u) = Neighbors(u)
  BY DEF LevelOrder!Unset, Unset, LevelOrder!Neighbors, Neighbors

LEMMA RefineMark ==
  ASSUME IInv, NEW t \in Thread, MarkDist(t)
  PROVE  LevelOrder!Discover(U(t), V(t)) \/ UNCHANGED <<dist, Finished>>
<1>0. ControlInv /\ DataInv /\ Step(t) BY DEF IInv, Step
<1>1. /\ U(t) \in Vertex /\ V(t) \in Vertex /\ dist[U(t)] = curr[t] /\ curr[t] \in Nat
      /\ dist[U(t)] # Unset /\ Delta[V(t)] = curr[t] + 1
 <2>1. pc[t] \in AtItem /\ pc[t] = "mark" BY DEF MarkDist, AtItem
 <2>2. Delta[V(t)] = curr[t] + 1 BY <1>0, <2>1 DEF DataInv, View, VertexView, AtVertex
 <2> QED BY <1>0, <2>1, <2>2, VertexAtItem, ItemLevel DEF Unset
<1>2. V(t) \in Neighbors(U(t))
 <2>1. j[t] \in 1 .. Len(adj[U(t)]) BY <1>0 DEF MarkDist, ControlInv, Control, AtEntries
 <2> QED BY <1>1, <2>1, GraphTypes DEF V
<1>3. UNCHANGED Finished
 <2>1. \A s \in Thread : Returned(s)' <=> Returned(s)
   BY <1>0 DEF MarkDist, FromNeighbor, Goto, Returned, ControlInv, TypeOK
 <2> QED BY <2>1 DEF Finished
<1>4. dist \in [Vertex -> Int] /\ dist' = [dist EXCEPT ![V(t)] = curr[t] + 1]
  BY <1>0 DEF MarkDist, ControlInv, TypeOK, DataInv, View, VertexView, AtVertex
<1>5. CASE dist[V(t)] # Unset
 <2>1. dist[V(t)] = curr[t] + 1 BY <1>0, <1>1, <1>5, DistNode
 <2> QED BY <1>3, <1>4, <2>1
<1>6. CASE dist[V(t)] = Unset
 <2>1. ASSUME NEW x \in Vertex, dist[x] \in 0 .. dist[U(t)] - 1 PROVE LevelOrder!Covered(x)
  <3>1. Delta[x] = dist[x] /\ Delta[x] # Unset BY <1>0, <2>1, DistNode DEF Unset
  <3>2. \A v \in Neighbors(x) : v \in Vertex /\ Delta[v] \in 0 .. Delta[x] + 1
    BY <3>1, GraphTypes, DistanceAssumption
  <3>3. \A v \in Neighbors(x) : Delta[v] \in 0 .. curr[t] BY <1>1, <2>1, <3>1, <3>2
  <3> QED
    BY <1>0, <3>2, <3>3, RefineGraph DEF LevelOrder!Covered, DataInv, LevelReady, Returned, MarkDist
 <2> QED BY <1>1, <1>2, <1>3, <1>4, <1>6, <2>1, RefineGraph DEF LevelOrder!Discover, Finished
<1> QED BY <1>5, <1>6

LEMMA RefineReturn ==
  ASSUME IInv, NEW t \in Thread, Advance(t)
  PROVE  LevelOrder!Finish(t) \/ UNCHANGED <<dist, Finished>>
<1>0. /\ ControlInv /\ DataInv /\ Step(t) /\ pc[t] = "advance" /\ ~Returned(t)
      /\ pc \in [Thread -> Labels] /\ dist' = dist
  BY DEF IInv, Step, Advance, Returned, ControlInv, TypeOK, shared
<1>1. CASE next[curr[t]] = Null
 <2>1. pc' = [pc EXCEPT ![t] = "returned"] BY <1>1 DEF Advance, Goto
 <2>2. Finished' = Finished \cup {t} BY <1>0, <2>1 DEF Finished, Returned
 <2>3. \A v \in Vertex : Delta[v] # Unset => dist[v] # Unset
  <3>1. \A v \in Vertex : Delta[v] < curr[t] /\ curr[t] \in Nat BY <1>0, <1>1, LastLevel
  <3>2. \A v \in Vertex : Delta[v] # Unset => Delta[v] \in 0 .. curr[t]
    BY <3>1, GraphTypes DEF Unset
  <3> QED BY <1>0, <3>2 DEF DataInv, LevelReady
 <2>4. ASSUME NEW u \in Vertex, dist[u] # Unset PROVE LevelOrder!Covered(u)
  <3>1. Delta[u] # Unset BY <1>0, <2>4, DistNode
  <3>2. \A v \in Neighbors(u) : v \in Vertex /\ Delta[v] \in 0 .. Delta[u] + 1
    BY <3>1, GraphTypes, DistanceAssumption
  <3>3. \A v \in Neighbors(u) : v \in Vertex /\ Delta[v] # Unset BY <3>2 DEF Unset
  <3> QED BY <2>3, <3>3, RefineGraph DEF LevelOrder!Covered
 <2>5. t \notin Finished BY <1>0 DEF Finished
 <2> QED BY <1>0, <2>2, <2>4, <2>5, RefineGraph DEF LevelOrder!Finish, Finished
<1>2. CASE next[curr[t]] # Null
 <2>1. pc' = [pc EXCEPT ![t] = "done"] BY <1>2 DEF Advance, Goto
 <2>2. \A s \in Thread : Returned(s)' <=> Returned(s) BY <1>0, <2>1 DEF Returned
 <2> QED BY <1>0, <2>2 DEF Finished
<1> QED BY <1>1, <1>2

LEMMA RefineOther ==
  ASSUME IInv, NEW t \in Thread, Step(t), ~MarkDist(t), ~Advance(t)
  PROVE  UNCHANGED <<dist, Finished>>
<1>0. pc \in [Thread -> Labels] /\ dist' = dist BY Writers DEF IInv, ControlInv, TypeOK
<1>1. pc[t] # "returned" /\ pc'[t] # "returned"
  BY <1>0 DEF Step, TestDone, TestSize, TestNext, LinkNext, LoadBucket, StartHelping, TakeEntry,
     ReadDist, TestNeighbor, PushVertex, MarkVisited, Progress, FinishBucket, NextBucket, NextEntry,
     FromNeighbor, Goto
<1>2. \A s \in Thread \ {t} : pc'[s] = pc[s] BY StepFrame DEF IInv, SameLocals
<1>3. \A s \in Thread : Returned(s)' <=> Returned(s) BY <1>1, <1>2 DEF Returned
<1> QED BY <1>0, <1>3 DEF Finished

LEMMA RefineNext ==
  ASSUME IInv, [Next]_vars
  PROVE  [LevelOrder!Next]_(LevelOrder!vars)
<1> SUFFICES LevelOrder!Next \/ UNCHANGED <<dist, Finished>> BY DEF LevelOrder!vars, Finished
<1>1. ASSUME NEW t \in Thread, Step(t) PROVE LevelOrder!Next \/ UNCHANGED <<dist, Finished>>
 <2>1. CASE MarkDist(t)
  <3>1. U(t) \in Vertex /\ V(t) \in Vertex BY <2>1, VertexAtItem DEF IInv, MarkDist, AtItem
  <3> QED BY <2>1, <3>1, RefineMark DEF LevelOrder!Next
 <2>2. CASE Advance(t) BY <2>2, RefineReturn DEF LevelOrder!Next
 <2> QED BY <1>1, <2>1, <2>2, RefineOther
<1>2. CASE SearchAgain
 <2>1. Finished = Thread BY <1>2 DEF SearchAgain, Joined, Finished, Returned
 <2>2. Finished' = {} BY <1>2 DEF SearchAgain, Restart, InitLabel, Finished, Returned
 <2> QED
   BY <1>2, <2>1, <2>2, RefineGraph DEF SearchAgain, Restart, InitDist, LevelOrder!Next,
      LevelOrder!StartOver, Finished
<1>3. CASE WriteOutput \/ Exited \/ UNCHANGED vars
  BY <1>3 DEF WriteOutput, Exited, vars, shared, Finished, Returned
<1> QED BY <1>1, <1>2, <1>3 DEF Next

(***************************************************************************)
(* The wait-free search implements LevelOrderBfs, from search to search,   *)
(* wherever its threads are or have stopped.                               *)
(***************************************************************************)
THEOREM LevelOrderImplemented == Spec => ImplementsLevelOrder
<1>1. Init => LevelOrder!Init
  BY RefineGraph DEF Init, InitShared, InitLocal, InitDist, InitLabel, LevelOrder!Init, Returned
<1>2. IInv /\ [Next]_vars => [LevelOrder!Next]_(LevelOrder!vars) BY RefineNext
<1> QED BY <1>1, <1>2, InvCorrect, PTL DEF Spec, ImplementsLevelOrder, LevelOrder!Spec

=============================================================================
