----------------------------- MODULE WfDirProofs -----------------------------
(***************************************************************************)
(* Proofs about WfDir, for every undirected graph, every number of         *)
(* threads, every size of a block, every number of codes and every rule    *)
(* for the directions.                                                     *)
(***************************************************************************)
EXTENDS WfDirInv, BfsGraphProofs

-----------------------------------------------------------------------------
(***************************************************************************)
(* Blocks.                                                                 *)
(***************************************************************************)
LEMMA BlocksFacts ==
  /\ Blocks \in Nat /\ Blocks >= 1
  /\ (Blocks - 1) * BlockSize < N
  /\ N <= Blocks * BlockSize
<1>1. N + BlockSize - 1 \in Nat /\ BlockSize \in Nat \ {0} /\ N \in Nat /\ N >= 1 /\ N + BlockSize - 1 >= BlockSize
  BY DirAssumption
<1> DEFINE b == (N + BlockSize - 1) \div BlockSize
<1>2. b \in Nat /\ b * BlockSize <= N + BlockSize - 1 /\ N + BlockSize - 1 < b * BlockSize + BlockSize
  BY <1>1, Quotients
<1> HIDE DEF b
<1>3. b # 0 BY <1>1, <1>2
<1>4. b >= 1 /\ (b - 1) * BlockSize < N /\ N <= b * BlockSize BY <1>1, <1>2, <1>3
<1> QED BY <1>2, <1>4 DEF b, Blocks

LEMMA OwnedFacts ==
  ASSUME NEW o \in Thread
  PROVE /\ Owned(o) \in Nat
        /\ \A k \in 1 .. Owned(o) : o + (k - 1) * NumT \in 0 .. Blocks - 1
        /\ Owned(o) <= Owned(0)
<1>0. o \in Nat /\ NumT \in Nat \ {0} /\ Blocks \in Nat \ {0} /\ 0 \in Thread
  BY BlocksFacts, DirAssumption DEF Thread
<1>1. CASE o < Blocks
 <2> DEFINE q == (Blocks - 1 - o) \div NumT
            q0 == (Blocks - 1 - 0) \div NumT
 <2>1. q \in Nat /\ q * NumT <= Blocks - 1 - o
  <3>1. Blocks - 1 - o \in Nat BY <1>0, <1>1
  <3> QED BY <1>0, <3>1, Quotients
 <2>2. q0 \in Nat /\ Blocks - 1 < q0 * NumT + NumT
  <3>1. Blocks - 1 - 0 \in Nat BY <1>0, <1>1
  <3> QED BY <1>0, <3>1, Quotients
 <2>3. Owned(o) = q + 1 /\ Owned(0) = q0 + 1 BY <1>0, <1>1 DEF Owned
 <2> HIDE DEF q, q0
 <2>4. q <= q0
  <3>1. SUFFICES ASSUME q >= q0 + 1 PROVE FALSE BY <2>1, <2>2
  <3>2. (q0 + 1) * NumT <= q * NumT BY <1>0, <2>1, <2>2, <3>1, Mult
  <3> QED BY <1>0, <2>1, <2>2, <3>2
 <2>5. ASSUME NEW k \in 1 .. q + 1 PROVE o + (k - 1) * NumT \in 0 .. Blocks - 1
  <3>1. k - 1 \in Nat /\ k - 1 <= q BY <2>1
  <3>2. (k - 1) * NumT <= q * NumT BY <1>0, <2>1, <3>1, Mult
  <3>3. (k - 1) * NumT \in Nat /\ q * NumT \in Nat BY <1>0, <2>1, <3>1
  <3> QED BY <1>0, <2>1, <3>2, <3>3
 <2> QED BY <2>1, <2>2, <2>3, <2>4, <2>5
<1>2. CASE ~(o < Blocks)
 <2>1. (Blocks - 1 - 0) \in Nat BY <1>0
 <2>2. (Blocks - 1 - 0) \div NumT \in Nat BY <1>0, <2>1, Quotients
 <2> QED BY <1>0, <1>2, <2>2 DEF Owned
<1> QED BY <1>1, <1>2

LEMMA BlockRange ==
  ASSUME NEW o \in Thread, NEW k \in 1 .. Owned(o)
  PROVE /\ Begin(o, k) \in Nat /\ End(o, k) \in Nat
        /\ Begin(o, k) < End(o, k) /\ End(o, k) <= N
<1> DEFINE b == o + (k - 1) * NumT
<1>0. BlockSize \in Nat \ {0} /\ N \in Nat BY DirAssumption
<1>1. b \in Nat /\ b <= Blocks - 1 /\ Blocks - 1 \in Nat BY OwnedFacts, BlocksFacts
<1>2. Begin(o, k) = b * BlockSize BY DEF Begin
<1> HIDE DEF b
<1>3. b * BlockSize \in Nat /\ b * BlockSize <= (Blocks - 1) * BlockSize BY <1>0, <1>1, Mult
<1>4. (Blocks - 1) * BlockSize \in Nat /\ (Blocks - 1) * BlockSize < N BY <1>0, <1>1, BlocksFacts
<1> QED BY <1>0, <1>2, <1>3, <1>4 DEF End

LEMMA InSomeBlock ==
  ASSUME NEW v \in Vertex
  PROVE  \E o \in Thread : \E k \in 1 .. Owned(o) : v \in Begin(o, k) .. End(o, k) - 1
<1> DEFINE b == v \div BlockSize
           q == b \div NumT
           o == b - q * NumT
<1>0. v \in Nat /\ v < N /\ BlockSize \in Nat \ {0} /\ NumT \in Nat \ {0} /\ N \in Nat
  BY DirAssumption
<1>1. b \in Nat /\ b * BlockSize <= v /\ v < b * BlockSize + BlockSize BY <1>0, Quotients
<1>2. b <= Blocks - 1
 <2> HIDE DEF b
 <2>0. Blocks \in Nat /\ N <= Blocks * BlockSize BY BlocksFacts
 <2>1. SUFFICES ASSUME b >= Blocks PROVE FALSE BY <1>1, <2>0
 <2>2. Blocks * BlockSize <= b * BlockSize BY <1>0, <1>1, <2>0, <2>1, Mult
 <2>3. Blocks * BlockSize \in Nat /\ b * BlockSize \in Nat BY <1>0, <1>1, <2>0
 <2> QED BY <1>0, <1>1, <2>0, <2>2, <2>3
<1>3. q \in Nat /\ q * NumT <= b /\ b < q * NumT + NumT BY <1>0, <1>1, Quotients
<1> HIDE DEF b, q
<1>4. q * NumT \in Nat BY <1>0, <1>3
<1>5. o \in Thread /\ o \in Nat /\ b = o + q * NumT BY <1>0, <1>1, <1>3, <1>4 DEF Thread
<1> HIDE DEF o
<1>6. q + 1 \in 1 .. Owned(o)
 <2>0. Blocks \in Nat BY BlocksFacts
 <2>1. o < Blocks /\ Blocks - 1 - o \in Nat /\ q * NumT <= Blocks - 1 - o
   BY <1>1, <1>2, <1>4, <1>5, <2>0
 <2> DEFINE p == (Blocks - 1 - o) \div NumT
 <2>2. p \in Nat /\ Blocks - 1 - o < p * NumT + NumT BY <1>0, <2>1, Quotients, Zenon
 <2>3. Owned(o) = p + 1 BY <2>1 DEF Owned
 <2> HIDE DEF p
 <2>4. q <= p
  <3>1. SUFFICES ASSUME q >= p + 1 PROVE FALSE BY <1>3, <2>2
  <3>2. (p + 1) * NumT <= q * NumT BY <1>0, <1>3, <2>2, <3>1, Mult
  <3> QED BY <1>0, <1>3, <2>1, <2>2, <3>2
 <2> QED BY <1>3, <2>2, <2>3, <2>4
<1>7. Begin(o, q + 1) = b * BlockSize
 <2>1. (q + 1) - 1 = q BY <1>3
 <2> QED BY <1>5, <2>1 DEF Begin
<1>8. b * BlockSize \in Nat BY <1>0, <1>1
<1>9. v \in Begin(o, q + 1) .. End(o, q + 1) - 1 BY <1>0, <1>1, <1>7, <1>8 DEF End
<1> QED BY <1>5, <1>6, <1>9

-----------------------------------------------------------------------------
(***************************************************************************)
(* Writes to a node.                                                       *)
(***************************************************************************)
LEMMA PushEntry ==
  ASSUME NEW e \in OwnerType, NEW v \in Vertex
  PROVE [e EXCEPT !.bucket = Append(e.bucket, v)] \in OwnerType
<1>1. e.bucket \in Seq(Vertex) BY DEF OwnerType
<1>2. Append(e.bucket, v) \in Seq(Vertex) BY <1>1
<1> QED BY <1>2, Zenon DEF OwnerType

-----------------------------------------------------------------------------
(***************************************************************************)
(* What a step changes of its thread: the other threads stay where they    *)
(* are, and some fields stay as they are.                                  *)
(***************************************************************************)
Moves(t) ==
  /\ my' \in [Thread -> ThreadShape]
  /\ \A s \in Thread \ {t} : my'[s] = my[s]

SameLevel(t) ==
  /\ my'[t].curr = my[t].curr /\ my'[t].plan = my[t].plan
  /\ my'[t].previous = my[t].previous
SameNext(t) == my'[t].next_is_null = my[t].next_is_null
SameOwner(t) == my'[t].owner = my[t].owner /\ my'[t].turn = my[t].turn
SameItems(t) ==
  my'[t].sz = my[t].sz /\ my'[t].todo = my[t].todo /\ my'[t].item = my[t].item
SameVertex(t) ==
  my'[t].du = my[t].du /\ my'[t].j = my[t].j /\ my'[t].cand = my[t].cand
SameRound(t) == SameLevel(t) /\ SameNext(t) /\ SameOwner(t)

LEMMA Update ==
  ASSUME my \in [Thread -> ThreadShape], NEW t \in Thread, NEW r \in ThreadShape,
         my' = [my EXCEPT ![t] = r]
  PROVE  Moves(t) /\ my'[t] = r
<1>1. my' \in [Thread -> ThreadShape] BY Zenon
<1>2. my'[t] = r /\ \A s \in Thread \ {t} : my'[s] = my[s] OBVIOUS
<1> QED BY <1>1, <1>2 DEF Moves

LEMMA GotoMoves ==
  ASSUME my \in [Thread -> ThreadShape], NEW t \in Thread, NEW l \in Labels, Goto(t, l)
  PROVE  /\ Moves(t) /\ my'[t].pc = l
         /\ SameRound(t) /\ SameItems(t) /\ SameVertex(t)
<1> DEFINE r == [my[t] EXCEPT !.pc = l]
<1>0. my[t] \in ThreadShape OBVIOUS
<1>1. my' = [my EXCEPT ![t] = r] BY DEF Goto
<1>2. r \in ThreadShape BY <1>0, Zenon DEF ThreadShape
<1>3. Moves(t) /\ my'[t] = r BY <1>1, <1>2, Update, Zenon
<1> QED
  BY <1>0, <1>3 DEF ThreadShape, SameRound, SameLevel, SameNext, SameOwner, SameItems, SameVertex

LEMMA FollowMoves ==
  ASSUME my \in [Thread -> ThreadShape], NEW t \in Thread, NEW plan \in PlanType, Follow(t, plan)
  PROVE  /\ Moves(t) /\ my'[t].pc = (IF plan.direction = "bottom_up" THEN "next" ELSE "done")
         /\ my'[t].curr = my[t].curr /\ my'[t].plan = plan
         /\ my'[t].previous = my[t].plan.direction /\ my'[t].next_is_null = TRUE
         /\ my'[t].owner = t /\ my'[t].turn = 0
         /\ my'[t].sz = 0 /\ my'[t].todo = my[t].todo /\ my'[t].item = my[t].item
         /\ SameVertex(t)
<1> DEFINE l == IF plan.direction = "bottom_up" THEN "next" ELSE "done"
           before == my[t].plan.direction
           r == [my[t] EXCEPT !.previous = before, !.plan = plan,
                              !.owner = t, !.turn = 0, !.next_is_null = TRUE, !.sz = 0,
                              !.pc = l]
<1>0. my[t] \in ThreadShape /\ 0 \in 0 .. NumT BY DirAssumption
<1>1. my' = [my EXCEPT ![t] = r] BY Zenon DEF Follow
<1>2. l \in Labels /\ before \in {"top_down", "bottom_up"} BY <1>0 DEF Labels, ThreadShape, PlanType
<1> HIDE DEF l, before
<1>3. r \in ThreadShape BY <1>0, <1>2, Zenon DEF ThreadShape
<1>4. Moves(t) /\ my'[t] = r BY <1>1, <1>3, Update, Zenon
<1> QED BY <1>0, <1>4 DEF ThreadShape, SameVertex, l, before

(***************************************************************************)
(* The ring of the owners.                                                 *)
(***************************************************************************)
LEMMA ThreadTypes == NumT \in Nat \ {0} /\ 0 \in Thread /\ NumT - 1 \in Thread
  BY DirAssumption DEF Thread

LEMMA RingNext ==
  ASSUME NEW o \in Thread
  PROVE  (o + 1) % NumT = (IF o + 1 < NumT THEN o + 1 ELSE 0) /\ (o + 1) % NumT \in Thread
  BY ThreadTypes DEF Thread

LEMMA NextOwnerMoves ==
  ASSUME my \in [Thread -> ThreadShape], NEW t \in Thread,
         NEW a \in Labels, NEW b \in Labels, NextOwner(t, a, b), my[t].turn < NumT
  PROVE  /\ Moves(t) /\ my'[t].pc = (IF my[t].turn + 1 < NumT THEN a ELSE b)
         /\ SameLevel(t) /\ SameNext(t) /\ SameVertex(t)
         /\ my'[t].owner = (my[t].owner + 1) % NumT /\ my'[t].turn = my[t].turn + 1
         /\ my'[t].sz = 0 /\ my'[t].todo = {} /\ my'[t].item = 0
<1> DEFINE r == [my[t] EXCEPT !.owner = (my[t].owner + 1) % NumT, !.turn = my[t].turn + 1,
                              !.sz = 0, !.todo = {}, !.item = 0,
                              !.pc = IF my[t].turn + 1 < NumT THEN a ELSE b]
<1>0. my[t] \in ThreadShape OBVIOUS
<1>1. my' = [my EXCEPT ![t] = r] BY Zenon DEF NextOwner
<1>2. r \in ThreadShape
 <2>0. my[t].owner \in Thread /\ my[t].turn \in 0 .. NumT BY <1>0 DEF ThreadShape
 <2>1. (my[t].owner + 1) % NumT \in Thread BY <2>0, RingNext
 <2>2. my[t].turn + 1 \in 0 .. NumT BY <2>0, ThreadTypes
 <2> QED BY <1>0, <2>1, <2>2, Zenon DEF ThreadShape
<1>3. Moves(t) /\ my'[t] = r BY <1>1, <1>2, Update, Zenon
<1> QED BY <1>0, <1>3 DEF ThreadShape, SameLevel, SameNext, SameVertex

LEMMA LinkedMoves ==
  ASSUME my \in [Thread -> ThreadShape], NEW t \in Thread, Linked(t)
  PROVE  /\ Moves(t) /\ SameLevel(t) /\ my'[t].next_is_null = FALSE
         /\ SameOwner(t) /\ SameVertex(t)
         /\ my'[t].sz = my[t].sz /\ my'[t].todo = my[t].todo
         /\ TopDownLevel(t) => my'[t].pc = "load" /\ my'[t].item = 0
         /\ ~TopDownLevel(t) =>
              /\ my'[t].item = 1
              /\ my'[t].pc = IF my[t].previous = "top_down" /\ my[t].plan.code > 0
                             THEN "codes" ELSE "own"
<1> DEFINE l == IF my[t].plan.direction = "top_down" THEN "load"
                ELSE IF my[t].previous = "top_down" /\ my[t].plan.code > 0
                THEN "codes" ELSE "own"
           i == IF my[t].plan.direction = "top_down" THEN 0 ELSE 1
           r == [my[t] EXCEPT !.next_is_null = FALSE, !.pc = l, !.item = i]
<1>0. my[t] \in ThreadShape OBVIOUS
<1>1. my' = [my EXCEPT ![t] = r] BY Zenon DEF Linked
<1>2. l \in Labels /\ i \in Nat BY DEF Labels
<1>3. /\ TopDownLevel(t) => l = "load" /\ i = 0
      /\ ~TopDownLevel(t) =>
           /\ i = 1
           /\ l = IF my[t].previous = "top_down" /\ my[t].plan.code > 0
                  THEN "codes" ELSE "own"
  BY DEF TopDownLevel
<1> HIDE DEF l, i
<1>4. r \in ThreadShape BY <1>0, <1>2, Zenon DEF ThreadShape
<1>5. Moves(t) /\ my'[t] = r BY <1>1, <1>4, Update, Zenon
<1> QED BY <1>0, <1>3, <1>5 DEF ThreadShape, SameLevel, SameOwner, SameVertex

-----------------------------------------------------------------------------
(***************************************************************************)
(* Where a thread is.                                                      *)
(***************************************************************************)
LEMMA ThreadFields ==
  ASSUME my \in [Thread -> ThreadShape], NEW t \in Thread
  PROVE  /\ my[t].pc \in Labels /\ my[t].curr \in Node \cup {None}
         /\ my[t].plan \in PlanType /\ my[t].previous \in {"top_down", "bottom_up"}
         /\ my[t].owner \in Thread /\ my[t].turn \in 0 .. NumT
         /\ my[t].next_is_null \in BOOLEAN /\ my[t].sz \in Nat /\ my[t].todo \in SUBSET Nat
         /\ my[t].item \in Nat /\ my[t].du \in Int /\ my[t].j \in Nat
         /\ my[t].cand \in Seq(Vertex)
<1>1. my[t] \in ThreadShape OBVIOUS
<1> QED BY <1>1 DEF ThreadShape

LEMMA PlanFields ==
  ASSUME NEW p \in PlanType
  PROVE  /\ p.direction \in {"top_down", "bottom_up"}
         /\ p.code \in 0 .. MaxCode /\ p.last_code \in 0 .. MaxCode
  BY DEF PlanType

LEMMA NodeFields ==
  ASSUME node \in [Node -> NodeShape], NEW d \in Node
  PROVE  /\ node[d].next \in Node \cup {None} /\ node[d].plan_owner \in Thread \cup {None}
         /\ \A o \in Thread : node[d].owners[o] \in OwnerType
<1>1. node[d] \in NodeShape OBVIOUS
<1> QED BY <1>1 DEF NodeShape

LEMMA OwnerFields ==
  ASSUME NEW e \in OwnerType
  PROVE  /\ e.bucket \in Seq(Vertex) /\ e.done \in BOOLEAN /\ e.last_done \in Nat
         /\ e.codes_done \in BOOLEAN /\ e.codes_last_done \in Nat /\ e.proposal \in PlanType
  BY DEF OwnerType

LEMMA Here ==
  ASSUME Shape, Control, NEW t \in Thread, ~At(t, "returned")
  PROVE  /\ Depth(t) \in Node /\ Depth(t) \in 0 .. linked - 1
         /\ my[t].owner \in Thread
         /\ Entry(t) \in OwnerType /\ Entry(t).bucket \in Seq(Vertex)
         /\ Curr(t).next = IF Depth(t) + 1 < linked THEN Depth(t) + 1 ELSE None
         /\ Depth(t) + 1 < linked => Depth(t) + 1 \in Node
         /\ \A o \in Thread : Curr(t).owners[o] \in OwnerType
<1>1. MaxNode \in Nat /\ linked \in 1 .. MaxNode + 1 BY DirAssumption DEF Shape
<1>2. Depth(t) \in 0 .. linked - 1 BY DEF Control, AtNode
<1>3. Depth(t) \in Node /\ (Depth(t) + 1 < linked => Depth(t) + 1 \in Node) BY <1>1, <1>2 DEF Node
<1>4. my[t].owner \in Thread BY ThreadFields DEF Shape
<1>5. \A o \in Thread : Curr(t).owners[o] \in OwnerType BY <1>3, NodeFields DEF Shape, Curr
<1>6. Entry(t) \in OwnerType BY <1>4, <1>5 DEF Entry
<1>7. Entry(t).bucket \in Seq(Vertex) BY <1>6, OwnerFields
<1>8. Curr(t).next = IF Depth(t) + 1 < linked THEN Depth(t) + 1 ELSE None
  BY <1>3 DEF Control, OneList, Curr
<1> QED BY <1>2, <1>3, <1>4, <1>5, <1>6, <1>7, <1>8

(***************************************************************************)
(* The vertices a thread has to do with.                                   *)
(***************************************************************************)
LEMMA ItemVertex ==
  ASSUME Shape, Control, NEW t \in Thread
  PROVE  /\ my[t].pc \in AtItem \cup {"code"} =>
              U(t) \in Vertex /\ my[t].item \in 1 .. Len(Entry(t).bucket)
         /\ my[t].pc \in AtItem => adj[U(t)] \in Seq(Vertex)
         /\ my[t].pc \in {"neighbor", "push", "swap"} =>
              V(t) \in Vertex /\ my[t].j \in 1 .. Len(adj[U(t)])
<1>1. ASSUME my[t].pc \in AtItem \cup {"code"}
      PROVE  my[t].item \in 1 .. Len(Entry(t).bucket) /\ U(t) \in Vertex
 <2>1. Entry(t).bucket \in Seq(Vertex) BY <1>1, Here DEF At, AtItem
 <2>2. my[t].item \in 1 .. my[t].sz /\ my[t].sz \in 0 .. Len(Entry(t).bucket)
   BY <1>1 DEF Control, Entries, CodeEntries, AtItem, AtBucket
 <2>3. Len(Entry(t).bucket) \in Nat BY <2>1
 <2>4. my[t].item \in 1 .. Len(Entry(t).bucket) BY <2>2, <2>3
 <2> QED BY <2>1, <2>4 DEF U
<1>2. my[t].pc \in AtItem => adj[U(t)] \in Seq(Vertex) BY <1>1, GraphAssumption
<1>3. ASSUME my[t].pc \in {"neighbor", "push", "swap"}
      PROVE  V(t) \in Vertex /\ my[t].j \in 1 .. Len(adj[U(t)])
 <2>1. my[t].j \in 1 .. Len(adj[U(t)]) /\ adj[U(t)] \in Seq(Vertex)
   BY <1>2, <1>3 DEF Control, Entries, AtItem
 <2> QED BY <2>1 DEF V
<1> QED BY <1>1, <1>2, <1>3

LEMMA BlockVertex ==
  ASSUME Shape, Control, NEW t \in Thread
  PROVE  /\ my[t].pc \in InBlock =>
              /\ my[t].item \in 1 .. Owned(my[t].owner) /\ my[t].owner \in Thread
              /\ \A v : InRange(t, v) => v \in Vertex
         /\ At(t, "gather") => my[t].j \in Vertex
         /\ my[t].pc \in {"test"} \cup Finding =>
              C(t) \in Vertex /\ adj[C(t)] \in Seq(Vertex) /\ Tail(my[t].cand) \in Seq(Vertex)
<1>1. ASSUME my[t].pc \in InBlock
      PROVE  /\ my[t].item \in 1 .. Owned(my[t].owner) /\ my[t].owner \in Thread
             /\ \A v : InRange(t, v) => v \in Vertex
 <2>1. my[t].item \in 1 .. Owned(my[t].owner) /\ my[t].owner \in Thread
   BY <1>1, ThreadFields DEF Control, BlockEntries, Shape
 <2>2. /\ Begin(my[t].owner, my[t].item) \in Nat /\ End(my[t].owner, my[t].item) \in Nat
       /\ End(my[t].owner, my[t].item) <= N
   BY <2>1, BlockRange
 <2> QED BY <2>1, <2>2, DirAssumption DEF InRange
<1>2. At(t, "gather") => my[t].j \in Vertex BY <1>1 DEF At, InBlock, Control, BlockEntries
<1>3. ASSUME my[t].pc \in {"test"} \cup Finding
      PROVE  C(t) \in Vertex /\ adj[C(t)] \in Seq(Vertex) /\ Tail(my[t].cand) \in Seq(Vertex)
 <2>1. my[t].cand \in Seq(Vertex) /\ my[t].cand # <<>>
   BY <1>3, ThreadFields DEF Control, BlockEntries, Shape
 <2>2. C(t) \in Vertex /\ Tail(my[t].cand) \in Seq(Vertex) BY <2>1 DEF C
 <2> QED BY <2>2, GraphAssumption
<1> QED BY <1>1, <1>2, <1>3

-----------------------------------------------------------------------------
(***************************************************************************)
(* What the actions that do more than go to a label do to their thread.    *)
(***************************************************************************)
LEMMA PlanMoves ==
  ASSUME my \in [Thread -> ThreadShape], NEW t \in Thread
  PROVE  /\ LoadPlanOwner(t) /\ Curr(t).plan_owner = None =>
              /\ Moves(t) /\ SameLevel(t) /\ SameNext(t) /\ SameItems(t) /\ SameVertex(t)
              /\ my'[t].pc = "sizes" /\ my'[t].turn = my[t].turn
         /\ ReadSize(t) =>
              /\ Moves(t) /\ SameLevel(t) /\ SameNext(t) /\ SameVertex(t)
              /\ my'[t].pc \in {"sizes", "propose"} /\ my'[t].turn = my[t].turn
<1>0. my[t] \in ThreadShape /\ my[t].owner \in Thread BY ThreadFields
<1>1. ASSUME LoadPlanOwner(t), Curr(t).plan_owner = None
      PROVE  /\ Moves(t) /\ SameLevel(t) /\ SameNext(t) /\ SameItems(t) /\ SameVertex(t)
             /\ my'[t].pc = "sizes" /\ my'[t].turn = my[t].turn
 <2> DEFINE r == [my[t] EXCEPT !.pc = "sizes", !.owner = 0]
 <2>1. my' = [my EXCEPT ![t] = r] BY <1>1, Zenon DEF LoadPlanOwner
 <2>2. "sizes" \in Labels /\ 0 \in Thread BY ThreadTypes DEF Labels
 <2>3. r \in ThreadShape BY <1>0, <2>2, Zenon DEF ThreadShape
 <2>4. Moves(t) /\ my'[t] = r BY <2>1, <2>3, Update, Zenon
 <2> QED BY <1>0, <2>4 DEF ThreadShape, SameLevel, SameNext, SameItems, SameVertex
<1>2. ASSUME ReadSize(t)
      PROVE  /\ Moves(t) /\ SameLevel(t) /\ SameNext(t) /\ SameVertex(t)
             /\ my'[t].pc \in {"sizes", "propose"} /\ my'[t].turn = my[t].turn
 <2>0. "sizes" \in Labels /\ "propose" \in Labels /\ At(t, "sizes") BY <1>2 DEF Labels, ReadSize
 <2>1. CASE Entry(t).bucket # <<>>
  <3> DEFINE r == [my[t] EXCEPT !.sz = 1, !.pc = "propose"]
  <3>1. my' = [my EXCEPT ![t] = r] BY <1>2, <2>1, Zenon DEF ReadSize
  <3>2. r \in ThreadShape BY <1>0, <2>0, Zenon DEF ThreadShape
  <3>3. Moves(t) /\ my'[t] = r BY <3>1, <3>2, Update, Zenon
  <3> QED BY <1>0, <3>3 DEF ThreadShape, SameLevel, SameNext, SameVertex
 <2>2. CASE Entry(t).bucket = <<>> /\ my[t].owner = NumT - 1
  <3>1. Goto(t, "propose") BY <1>2, <2>2 DEF ReadSize
  <3> QED BY <2>0, <3>1, GotoMoves DEF SameRound, SameOwner, SameItems
 <2>3. CASE Entry(t).bucket = <<>> /\ my[t].owner # NumT - 1
  <3> DEFINE r == [my[t] EXCEPT !.owner = my[t].owner + 1]
  <3>1. my' = [my EXCEPT ![t] = r] BY <1>2, <2>3 DEF ReadSize
  <3>2. my[t].owner + 1 \in Thread BY <1>0, <2>3, ThreadTypes DEF Thread
  <3>3. r \in ThreadShape BY <1>0, <3>2, Zenon DEF ThreadShape
  <3>4. Moves(t) /\ my'[t] = r BY <3>1, <3>3, Update, Zenon
  <3> QED BY <1>0, <2>0, <3>4 DEF ThreadShape, SameLevel, SameNext, SameVertex, At
 <2> QED BY <2>1, <2>2, <2>3
<1> QED BY <1>1, <1>2

LEMMA LoadMoves ==
  ASSUME Shape, Control, NEW t \in Thread, LoadBucket(t)
  PROVE  /\ Moves(t) /\ SameRound(t) /\ SameVertex(t) /\ my'[t].item = my[t].item
         /\ my'[t].sz = Len(Entry(t).bucket)
         /\ Own(t) => my'[t].todo = 1 .. Len(Entry(t).bucket) /\ my'[t].pc = "entry"
         /\ ~Own(t) => my'[t].todo = {} /\ my'[t].pc = "start"
<1> DEFINE l == IF Own(t) THEN "entry" ELSE "start"
           todo == IF Own(t) THEN 1 .. Len(Entry(t).bucket) ELSE {}
           r == [my[t] EXCEPT !.sz = Len(Entry(t).bucket), !.todo = todo, !.pc = l]
<1>0. my \in [Thread -> ThreadShape] /\ my[t] \in ThreadShape BY DEF Shape
<1>1. my' = [my EXCEPT ![t] = r] BY Zenon DEF LoadBucket
<1>2. l \in Labels /\ todo \in SUBSET Nat /\ Len(Entry(t).bucket) \in Nat
 <2>1. Entry(t).bucket \in Seq(Vertex) BY Here DEF LoadBucket, At
 <2>2. Len(Entry(t).bucket) \in Nat BY <2>1
 <2> QED BY <2>2 DEF Labels
<1>3. /\ Own(t) => todo = 1 .. Len(Entry(t).bucket) /\ l = "entry"
      /\ ~Own(t) => todo = {} /\ l = "start"
  OBVIOUS
<1> HIDE DEF l, todo
<1>4. r \in ThreadShape BY <1>0, <1>2, Zenon DEF ThreadShape
<1>5. Moves(t) /\ my'[t] = r BY <1>0, <1>1, <1>4, Update, Zenon
<1> QED BY <1>0, <1>3, <1>5 DEF ThreadShape, SameRound, SameLevel, SameNext, SameOwner, SameVertex

LEMMA StartMoves ==
  ASSUME my \in [Thread -> ThreadShape], NEW t \in Thread, StartHelping(t), Entry(t).last_done \in Nat
  PROVE  /\ Moves(t) /\ SameRound(t) /\ SameVertex(t)
         /\ my'[t].sz = my[t].sz /\ my'[t].item = my[t].item
         /\ my'[t].todo = Entry(t).last_done + 1 .. my[t].sz
         /\ my'[t].pc = IF my'[t].todo = {} THEN "finish" ELSE "entry"
<1> DEFINE todo == Entry(t).last_done + 1 .. my[t].sz
           l == IF todo = {} THEN "finish" ELSE "entry"
           r == [my[t] EXCEPT !.todo = todo, !.pc = l]
<1>0. my[t] \in ThreadShape /\ my[t].sz \in Nat BY ThreadFields
<1>1. my' = [my EXCEPT ![t] = r] BY Zenon DEF StartHelping
<1>2. l \in Labels /\ todo \in SUBSET Nat BY <1>0 DEF Labels
<1>3. l = IF todo = {} THEN "finish" ELSE "entry" OBVIOUS
<1>4. todo = Entry(t).last_done + 1 .. my[t].sz OBVIOUS
<1> HIDE DEF l, todo
<1>5. r \in ThreadShape BY <1>0, <1>2, Zenon DEF ThreadShape
<1>6. Moves(t) /\ my'[t] = r BY <1>1, <1>5, Update, Zenon
<1>7. /\ my'[t].todo = todo /\ my'[t].pc = l
      /\ Moves(t) /\ SameRound(t) /\ SameVertex(t)
      /\ my'[t].sz = my[t].sz /\ my'[t].item = my[t].item
  BY <1>0, <1>6 DEF ThreadShape, SameRound, SameLevel, SameNext, SameOwner, SameVertex
<1> QED BY <1>3, <1>4, <1>7

LEMMA TakeMoves ==
  ASSUME my \in [Thread -> ThreadShape], NEW t \in Thread, TakeEntry(t)
  PROVE  /\ Moves(t) /\ SameRound(t) /\ SameVertex(t) /\ my'[t].sz = my[t].sz
         /\ my'[t].item \in my[t].todo /\ my'[t].todo = my[t].todo \ {my'[t].item}
         /\ Own(t) => \A x \in my[t].todo : my'[t].item <= x
         /\ my'[t].pc = IF ~vis[Entry(t).bucket[my'[t].item]] THEN "du"
                        ELSE IF Own(t) THEN "progress"
                        ELSE IF my'[t].todo = {} THEN "finish" ELSE "entry"
<1>0. my[t] \in ThreadShape /\ my[t].todo \in SUBSET Nat BY ThreadFields
<1>1. PICK i \in my[t].todo :
        /\ Own(t) => \A x \in my[t].todo : i <= x
        /\ my' = [my EXCEPT ![t].item = i, ![t].todo = @ \ {i},
                            ![t].pc = IF ~vis[Entry(t).bucket[i]] THEN "du"
                                      ELSE IF Own(t) THEN "progress"
                                      ELSE IF my[t].todo = {i} THEN "finish"
                                      ELSE "entry"]
  BY DEF TakeEntry
<1> DEFINE l == IF ~vis[Entry(t).bucket[i]] THEN "du"
                ELSE IF Own(t) THEN "progress"
                ELSE IF my[t].todo = {i} THEN "finish" ELSE "entry"
           todo == my[t].todo \ {i}
           r == [my[t] EXCEPT !.item = i, !.todo = todo, !.pc = l]
<1>2. my' = [my EXCEPT ![t] = r] BY <1>1, Zenon
<1>3. l \in Labels /\ todo \in SUBSET Nat /\ i \in Nat BY <1>0 DEF Labels
<1>4. /\ l = IF ~vis[Entry(t).bucket[i]] THEN "du"
             ELSE IF Own(t) THEN "progress"
             ELSE IF todo = {} THEN "finish" ELSE "entry"
      /\ todo = my[t].todo \ {i}
  OBVIOUS
<1> HIDE DEF l, todo
<1>5. r \in ThreadShape BY <1>0, <1>3, Zenon DEF ThreadShape
<1>6. Moves(t) /\ my'[t] = r BY <1>2, <1>5, Update, Zenon
<1>7. /\ my'[t].todo = todo /\ my'[t].pc = l /\ my'[t].item = i
      /\ Moves(t) /\ SameRound(t) /\ SameVertex(t) /\ my'[t].sz = my[t].sz
  BY <1>0, <1>6 DEF ThreadShape, SameRound, SameLevel, SameNext, SameOwner, SameVertex
<1> QED BY <1>1, <1>4, <1>7

LEMMA ReadMoves ==
  ASSUME my \in [Thread -> ThreadShape], NEW t \in Thread, ReadDist(t), dist[U(t)] \in Int
  PROVE  /\ Moves(t) /\ SameRound(t) /\ SameItems(t)
         /\ my'[t].du = dist[U(t)] /\ my'[t].j = 1 /\ my'[t].cand = my[t].cand
         /\ my'[t].pc = IF 1 <= Len(adj[U(t)]) THEN "neighbor" ELSE "vis"
<1> DEFINE l == IF 1 <= Len(adj[U(t)]) THEN "neighbor" ELSE "vis"
           d == dist[U(t)]
           p == 1
           r == [my[t] EXCEPT !.j = p, !.pc = l, !.du = d]
<1>0. my[t] \in ThreadShape OBVIOUS
<1>1. my' = [my EXCEPT ![t] = r] BY Zenon DEF ReadDist, FromNeighbor
<1>2. l \in Labels /\ d \in Int /\ p \in Nat BY DEF Labels
<1> HIDE DEF l, d, p
<1>3. r \in ThreadShape BY <1>0, <1>2, Zenon DEF ThreadShape
<1>4. Moves(t) /\ my'[t] = r BY <1>1, <1>3, Update, Zenon
<1>5. SameRound(t) BY <1>0, <1>4 DEF ThreadShape, SameRound, SameLevel, SameNext, SameOwner
<1>6. SameItems(t) BY <1>0, <1>4 DEF ThreadShape, SameItems
<1>7. my'[t].du = d /\ my'[t].j = p /\ my'[t].cand = my[t].cand /\ my'[t].pc = l
  BY <1>0, <1>4 DEF ThreadShape
<1> QED BY <1>4, <1>5, <1>6, <1>7 DEF l, d, p

LEMMA NextNeighborMoves ==
  ASSUME my \in [Thread -> ThreadShape], NEW t \in Thread, NEW p \in Nat, my' = FromNeighbor(t, p)
  PROVE  /\ Moves(t) /\ SameRound(t) /\ SameItems(t)
         /\ my'[t].du = my[t].du /\ my'[t].j = p /\ my'[t].cand = my[t].cand
         /\ my'[t].pc = IF p <= Len(adj[U(t)]) THEN "neighbor" ELSE "vis"
<1> DEFINE l == IF p <= Len(adj[U(t)]) THEN "neighbor" ELSE "vis"
           r == [my[t] EXCEPT !.j = p, !.pc = l]
<1>0. my[t] \in ThreadShape OBVIOUS
<1>1. my' = [my EXCEPT ![t] = r] BY Zenon DEF FromNeighbor
<1>2. l \in Labels BY DEF Labels
<1> HIDE DEF l
<1>3. r \in ThreadShape BY <1>0, <1>2, Zenon DEF ThreadShape
<1>4. Moves(t) /\ my'[t] = r BY <1>1, <1>3, Update, Zenon
<1> QED BY <1>0, <1>4 DEF ThreadShape, SameRound, SameLevel, SameNext, SameOwner, SameItems, l

LEMMA MarkMoves ==
  ASSUME my \in [Thread -> ThreadShape], NEW t \in Thread, MarkVisited(t)
  PROVE  /\ Moves(t) /\ SameRound(t) /\ SameItems(t) /\ my'[t].cand = my[t].cand
         /\ my'[t].pc = IF Own(t) THEN "progress"
                        ELSE IF my[t].todo = {} THEN "finish" ELSE "entry"
<1> DEFINE l == IF Own(t) THEN "progress"
                ELSE IF my[t].todo = {} THEN "finish" ELSE "entry"
           zero == 0
           r == [my[t] EXCEPT !.du = zero, !.j = zero, !.pc = l]
<1>0. my[t] \in ThreadShape OBVIOUS
<1>1. my' = [my EXCEPT ![t] = r] BY Zenon DEF MarkVisited
<1>2. l \in Labels /\ zero \in Int /\ zero \in Nat BY DEF Labels
<1> HIDE DEF l, zero
<1>3. r \in ThreadShape BY <1>0, <1>2, Zenon DEF ThreadShape
<1>4. Moves(t) /\ my'[t] = r BY <1>1, <1>3, Update, Zenon
<1> QED BY <1>0, <1>4 DEF ThreadShape, SameRound, SameLevel, SameNext, SameOwner, SameItems, l

LEMMA NextCodesMoves ==
  ASSUME my \in [Thread -> ThreadShape], NEW t \in Thread, NextCodes(t), my[t].turn < NumT
  PROVE  /\ Moves(t) /\ SameLevel(t) /\ SameNext(t) /\ SameVertex(t)
         /\ my[t].turn + 1 < NumT =>
              /\ my'[t].pc = "codes"
              /\ my'[t].owner = (my[t].owner + 1) % NumT /\ my'[t].turn = my[t].turn + 1
         /\ my[t].turn + 1 >= NumT =>
              /\ my'[t].pc = "own" /\ my'[t].owner = t /\ my'[t].turn = 0
              /\ my'[t].item = 1 /\ my'[t].sz = 0
<1>0. my[t] \in ThreadShape /\ my[t].turn + 1 \in Int /\ NumT \in Int /\ 0 \in 0 .. NumT
  BY ThreadFields, ThreadTypes
<1>1. CASE my[t].turn + 1 < NumT
 <2>1. NextOwner(t, "codes", "codes") BY <1>1 DEF NextCodes
 <2>2. "codes" \in Labels BY DEF Labels
 <2> QED BY <1>0, <1>1, <2>1, <2>2, NextOwnerMoves
<1>2. CASE ~(my[t].turn + 1 < NumT)
 <2> DEFINE r == [my[t] EXCEPT !.owner = t, !.turn = 0, !.sz = 0, !.item = 1, !.pc = "own"]
 <2>1. my' = [my EXCEPT ![t] = r] BY <1>2, Zenon DEF NextCodes
 <2>2. "own" \in Labels BY DEF Labels
 <2>3. r \in ThreadShape BY <1>0, <2>2, Zenon DEF ThreadShape
 <2>4. Moves(t) /\ my'[t] = r BY <2>1, <2>3, Update, Zenon
 <2> QED BY <1>0, <1>2, <2>4 DEF ThreadShape, SameLevel, SameNext, SameVertex
<1> QED BY <1>1, <1>2

LEMMA EntryMoves ==
  ASSUME my \in [Thread -> ThreadShape], NEW t \in Thread, NEW i \in Nat, NEW sz \in Nat,
         my' = FromEntry(t, i, sz)
  PROVE  /\ Moves(t) /\ SameRound(t) /\ SameVertex(t)
         /\ my'[t].item = i /\ my'[t].sz = sz /\ my'[t].todo = my[t].todo
         /\ my'[t].pc = IF i <= sz THEN "code" ELSE "codes_finish"
<1> DEFINE l == IF i <= sz THEN "code" ELSE "codes_finish"
           r == [my[t] EXCEPT !.item = i, !.sz = sz, !.pc = l]
<1>0. my[t] \in ThreadShape OBVIOUS
<1>1. my' = [my EXCEPT ![t] = r] BY Zenon DEF FromEntry
<1>2. l \in Labels BY DEF Labels
<1> HIDE DEF l
<1>3. r \in ThreadShape BY <1>0, <1>2, Zenon DEF ThreadShape
<1>4. Moves(t) /\ my'[t] = r BY <1>1, <1>3, Update, Zenon
<1> QED BY <1>0, <1>4 DEF ThreadShape, SameRound, SameLevel, SameNext, SameOwner, SameVertex, l

LEMMA CodesSizeMoves ==
  ASSUME Shape, Control, NEW t \in Thread, CodesSize(t)
  PROVE  /\ Moves(t) /\ SameRound(t) /\ SameVertex(t)
         /\ my'[t].sz = Len(Entry(t).bucket) /\ my'[t].todo = my[t].todo
         /\ Own(t) => /\ my'[t].item = 1
                      /\ my'[t].pc = IF 1 <= my'[t].sz THEN "code" ELSE "codes_finish"
         /\ ~Own(t) => my'[t].pc = "codes_start"
<1>0. my \in [Thread -> ThreadShape] /\ my[t] \in ThreadShape BY DEF Shape
<1>1. Len(Entry(t).bucket) \in Nat
 <2>1. Entry(t).bucket \in Seq(Vertex) BY Here DEF CodesSize, At
 <2> QED BY <2>1
<1>2. CASE Own(t)
 <2>1. my' = FromEntry(t, 1, Len(Entry(t).bucket)) BY <1>2 DEF CodesSize
 <2> QED BY <1>0, <1>1, <1>2, <2>1, EntryMoves
<1>3. CASE ~Own(t)
 <2> DEFINE r == [my[t] EXCEPT !.sz = Len(Entry(t).bucket), !.pc = "codes_start"]
 <2>1. my' = [my EXCEPT ![t] = r] BY <1>3, Zenon DEF CodesSize
 <2>2. "codes_start" \in Labels BY DEF Labels
 <2>3. r \in ThreadShape BY <1>0, <1>1, <2>2, Zenon DEF ThreadShape
 <2>4. Moves(t) /\ my'[t] = r BY <1>0, <2>1, <2>3, Update, Zenon
 <2> QED BY <1>0, <1>3, <2>4 DEF ThreadShape, SameRound, SameLevel, SameNext, SameOwner, SameVertex
<1> QED BY <1>2, <1>3

LEMMA ScanMoves ==
  ASSUME my \in [Thread -> ThreadShape], NEW t \in Thread, Scan(t),
         Begin(my[t].owner, my[t].item) \in Nat
  PROVE  /\ Moves(t) /\ SameRound(t) /\ SameItems(t)
         /\ my'[t].pc = "gather" /\ my'[t].j = Begin(my[t].owner, my[t].item)
         /\ my'[t].du = my[t].du /\ my'[t].cand = my[t].cand
<1> DEFINE b == Begin(my[t].owner, my[t].item)
           r == [my[t] EXCEPT !.pc = "gather", !.j = b]
<1>0. my[t] \in ThreadShape OBVIOUS
<1>1. my' = [my EXCEPT ![t] = r] BY Zenon DEF Scan
<1>2. "gather" \in Labels BY DEF Labels
<1>3. b \in Nat OBVIOUS
<1> HIDE DEF b
<1>4. r \in ThreadShape BY <1>0, <1>2, <1>3, Zenon DEF ThreadShape
<1>5. Moves(t) /\ my'[t] = r BY <1>1, <1>4, Update, Zenon
<1> QED BY <1>0, <1>5 DEF ThreadShape, SameRound, SameLevel, SameNext, SameOwner, SameItems, b

LEMMA TestMoves ==
  ASSUME my \in [Thread -> ThreadShape], NEW t \in Thread, NEW cand \in Seq(Vertex), Test(t, cand)
  PROVE  /\ Moves(t) /\ SameRound(t) /\ SameItems(t) /\ my'[t].du = my[t].du
         /\ my'[t].cand = cand /\ my'[t].j = (IF cand = <<>> THEN 0 ELSE 1)
         /\ my'[t].pc = IF cand # <<>> THEN "test"
                        ELSE IF Own(t) THEN "own_progress" ELSE "stamp"
<1> DEFINE l == IF cand # <<>> THEN "test" ELSE IF Own(t) THEN "own_progress" ELSE "stamp"
           p == IF cand = <<>> THEN 0 ELSE 1
           r == [my[t] EXCEPT !.cand = cand, !.j = p, !.pc = l]
<1>0. my[t] \in ThreadShape OBVIOUS
<1>1. my' = [my EXCEPT ![t] = r] BY Zenon DEF Test
<1>2. l \in Labels /\ p \in Nat BY DEF Labels
<1> HIDE DEF l, p
<1>3. r \in ThreadShape BY <1>0, <1>2, Zenon DEF ThreadShape
<1>4. Moves(t) /\ my'[t] = r BY <1>1, <1>3, Update, Zenon
<1> QED BY <1>0, <1>4 DEF ThreadShape, SameRound, SameLevel, SameNext, SameOwner, SameItems, l, p

LEMMA GatherMoves ==
  ASSUME my \in [Thread -> ThreadShape], NEW t \in Thread, NEW cand \in Seq(Vertex),
         my' = [my EXCEPT ![t].cand = cand, ![t].j = @ + 1]
  PROVE  /\ Moves(t) /\ SameRound(t) /\ SameItems(t) /\ my'[t].du = my[t].du
         /\ my'[t].pc = my[t].pc /\ my'[t].cand = cand /\ my'[t].j = my[t].j + 1
<1> DEFINE r == [my[t] EXCEPT !.cand = cand, !.j = my[t].j + 1]
<1>0. my[t] \in ThreadShape /\ my[t].j + 1 \in Nat BY ThreadFields
<1>1. my' = [my EXCEPT ![t] = r] OBVIOUS
<1>2. r \in ThreadShape BY <1>0, Zenon DEF ThreadShape
<1>3. Moves(t) /\ my'[t] = r BY <1>1, <1>2, Update, Zenon
<1> QED BY <1>0, <1>3 DEF ThreadShape, SameRound, SameLevel, SameNext, SameOwner, SameItems

LEMMA CandidateMoves ==
  ASSUME my \in [Thread -> ThreadShape], NEW t \in Thread, my' = [my EXCEPT ![t].j = @ + 1]
  PROVE  /\ Moves(t) /\ SameRound(t) /\ SameItems(t) /\ my'[t].du = my[t].du
         /\ my'[t].pc = my[t].pc /\ my'[t].cand = my[t].cand /\ my'[t].j = my[t].j + 1
<1> DEFINE r == [my[t] EXCEPT !.j = my[t].j + 1]
<1>0. my[t] \in ThreadShape /\ my[t].j + 1 \in Nat BY ThreadFields
<1>1. my' = [my EXCEPT ![t] = r] OBVIOUS
<1>2. r \in ThreadShape BY <1>0, Zenon DEF ThreadShape
<1>3. Moves(t) /\ my'[t] = r BY <1>1, <1>2, Update, Zenon
<1> QED BY <1>0, <1>3 DEF ThreadShape, SameRound, SameLevel, SameNext, SameOwner, SameItems

LEMMA OwnProgressMoves ==
  ASSUME my \in [Thread -> ThreadShape], NEW t \in Thread, OwnProgress(t)
  PROVE  /\ Moves(t) /\ SameRound(t) /\ SameVertex(t)
         /\ my'[t].sz = my[t].sz /\ my'[t].todo = my[t].todo
         /\ my'[t].item = my[t].item + 1 /\ my'[t].pc = "own"
<1> DEFINE r == [my[t] EXCEPT !.item = my[t].item + 1, !.pc = "own"]
<1>0. my[t] \in ThreadShape /\ my[t].item + 1 \in Nat BY ThreadFields
<1>1. my' = [my EXCEPT ![t] = r] BY Zenon DEF OwnProgress
<1>2. "own" \in Labels BY DEF Labels
<1>3. r \in ThreadShape BY <1>0, <1>2, Zenon DEF ThreadShape
<1>4. Moves(t) /\ my'[t] = r BY <1>1, <1>3, Update, Zenon
<1> QED BY <1>0, <1>4 DEF ThreadShape, SameRound, SameLevel, SameNext, SameOwner, SameVertex

LEMMA HelpStartMoves ==
  ASSUME my \in [Thread -> ThreadShape], NEW t \in Thread, HelpStart(t),
         Entry(t).last_done \in Nat, Owned(my[t].owner) \in Nat
  PROVE  /\ Moves(t) /\ SameRound(t) /\ SameVertex(t)
         /\ my'[t].sz = my[t].sz /\ my'[t].item = my[t].item
         /\ my'[t].todo = Entry(t).last_done + 1 .. Owned(my[t].owner)
         /\ my'[t].pc = IF my'[t].todo = {} THEN "blocks_done" ELSE "block"
<1> DEFINE todo == Entry(t).last_done + 1 .. Owned(my[t].owner)
           l == IF todo = {} THEN "blocks_done" ELSE "block"
           r == [my[t] EXCEPT !.todo = todo, !.pc = l]
<1>0. my[t] \in ThreadShape OBVIOUS
<1>1. my' = [my EXCEPT ![t] = r] BY Zenon DEF HelpStart
<1>2. l \in Labels /\ todo \in SUBSET Nat BY DEF Labels
<1>3. l = (IF todo = {} THEN "blocks_done" ELSE "block")
      /\ todo = Entry(t).last_done + 1 .. Owned(my[t].owner)
  OBVIOUS
<1> HIDE DEF l, todo
<1>4. r \in ThreadShape BY <1>0, <1>2, Zenon DEF ThreadShape
<1>5. Moves(t) /\ my'[t] = r BY <1>1, <1>4, Update, Zenon
<1>6. /\ my'[t].todo = todo /\ my'[t].pc = l
      /\ Moves(t) /\ SameRound(t) /\ SameVertex(t)
      /\ my'[t].sz = my[t].sz /\ my'[t].item = my[t].item
  BY <1>0, <1>5 DEF ThreadShape, SameRound, SameLevel, SameNext, SameOwner, SameVertex
<1> QED BY <1>3, <1>6

LEMMA HelpBlockMoves ==
  ASSUME my \in [Thread -> ThreadShape], NEW t \in Thread, HelpBlock(t), ~Entry(t).done
  PROVE  /\ Moves(t) /\ SameRound(t) /\ SameVertex(t) /\ my'[t].sz = my[t].sz
         /\ my'[t].item \in my[t].todo /\ my'[t].todo = my[t].todo \ {my'[t].item}
         /\ my'[t].pc = "block_progress"
<1>0. my[t] \in ThreadShape /\ my[t].todo \in SUBSET Nat BY ThreadFields
<1>1. PICK k \in my[t].todo :
        my' = [my EXCEPT ![t].item = k, ![t].todo = @ \ {k}, ![t].pc = "block_progress"]
  BY DEF HelpBlock
<1> DEFINE todo == my[t].todo \ {k}
           r == [my[t] EXCEPT !.item = k, !.todo = todo, !.pc = "block_progress"]
<1>2. my' = [my EXCEPT ![t] = r] BY <1>1, Zenon
<1>3. "block_progress" \in Labels /\ todo \in SUBSET Nat /\ k \in Nat BY <1>0 DEF Labels
<1>4. todo = my[t].todo \ {k} OBVIOUS
<1> HIDE DEF todo
<1>5. r \in ThreadShape BY <1>0, <1>3, Zenon DEF ThreadShape
<1>6. Moves(t) /\ my'[t] = r BY <1>2, <1>5, Update, Zenon
<1>7. /\ my'[t].todo = todo /\ my'[t].item = k /\ my'[t].pc = "block_progress"
      /\ Moves(t) /\ SameRound(t) /\ SameVertex(t) /\ my'[t].sz = my[t].sz
  BY <1>0, <1>6 DEF ThreadShape, SameRound, SameLevel, SameNext, SameOwner, SameVertex
<1> QED BY <1>4, <1>7

LEMMA AdvanceMoves ==
  ASSUME Shape, Control, NEW t \in Thread, Advance(t)
  PROVE  /\ Moves(t) /\ my'[t].curr = Curr(t).next
         /\ my'[t].plan = my[t].plan /\ my'[t].previous = my[t].previous
         /\ my'[t].next_is_null = TRUE /\ my'[t].turn = 0
         /\ SameItems(t) /\ SameVertex(t)
         /\ my'[t].pc = IF Curr(t).next = None THEN "returned" ELSE "plan"
<1> DEFINE next == Curr(t).next
           l == IF next = None THEN "returned" ELSE "plan"
           r == [my[t] EXCEPT !.curr = next, !.owner = t, !.turn = 0,
                              !.next_is_null = TRUE, !.pc = l]
<1>0. my \in [Thread -> ThreadShape] /\ my[t] \in ThreadShape /\ 0 \in 0 .. NumT
  BY DirAssumption DEF Shape
<1>1. my' = [my EXCEPT ![t] = r] BY Zenon DEF Advance
<1>2. l \in Labels /\ next \in Node \cup {None} BY Here DEF Labels, Advance, At
<1>3. next = Curr(t).next /\ l = IF next = None THEN "returned" ELSE "plan" OBVIOUS
<1> HIDE DEF l, next
<1>4. r \in ThreadShape BY <1>0, <1>2, Zenon DEF ThreadShape
<1>5. Moves(t) /\ my'[t] = r BY <1>0, <1>1, <1>4, Update, Zenon
<1> QED BY <1>0, <1>3, <1>5 DEF ThreadShape, SameItems, SameVertex

-----------------------------------------------------------------------------
(***************************************************************************)
(* What the actions write to a node: to one entry of one owner, but for    *)
(* the link and the owner of the plan.                                     *)
(***************************************************************************)
OnlyEntry(d, o, e) ==
  /\ node' \in [Node -> NodeShape]
  /\ \A c \in Node : node'[c].next = node[c].next /\ node'[c].plan_owner = node[c].plan_owner
  /\ node'[d].owners[o] = e
  /\ \A c \in Node, p \in Thread : c # d \/ p # o => node'[c].owners[p] = node[c].owners[p]

SameMarks(f, e) ==
  /\ f.done = e.done /\ f.last_done = e.last_done
  /\ f.codes_done = e.codes_done /\ f.codes_last_done = e.codes_last_done

LEMMA EntrySet ==
  ASSUME node \in [Node -> NodeShape], NEW d \in Node, NEW o \in Thread, NEW e \in OwnerType,
         node' = [node EXCEPT ![d].owners[o] = e]
  PROVE  OnlyEntry(d, o, e)
<1> DEFINE w == [node[d].owners EXCEPT ![o] = e]
           n == [node[d] EXCEPT !.owners = w]
<1>0. node[d] \in NodeShape OBVIOUS
<1>1. node' = [node EXCEPT ![d] = n] OBVIOUS
<1>2. node[d].owners \in [Thread -> OwnerType] BY <1>0 DEF NodeShape
<1>3. w \in [Thread -> OwnerType] /\ w[o] = e /\ \A p \in Thread : p # o => w[p] = node[d].owners[p]
  BY <1>2
<1> HIDE DEF w
<1>4. n \in NodeShape /\ n.owners = w /\ n.next = node[d].next /\ n.plan_owner = node[d].plan_owner
  BY <1>0, <1>3 DEF NodeShape
<1> HIDE DEF n
<1>5. node'[d] = n /\ \A c \in Node : c # d => node'[c] = node[c] BY <1>1
<1>6. node' \in [Node -> NodeShape] BY <1>1, <1>4, Zenon
<1>7. node'[d].owners[o] = e BY <1>3, <1>4, <1>5, Zenon
<1>8. \A c \in Node : node'[c].next = node[c].next /\ node'[c].plan_owner = node[c].plan_owner
  BY <1>4, <1>5
<1>9. \A c \in Node, p \in Thread : c # d \/ p # o => node'[c].owners[p] = node[c].owners[p]
  BY <1>3, <1>4, <1>5
<1> QED BY <1>6, <1>7, <1>8, <1>9 DEF OnlyEntry

LEMMA AssignCodeType ==
  ASSUME NEW before \in PlanType, NEW direction \in {"top_down", "bottom_up"}
  PROVE  /\ AssignCode(before, direction) \in PlanType
         /\ AssignCode(before, direction).direction = direction
<1> DEFINE c == IF before.direction = "bottom_up" /\ before.code > 0
                THEN before.code + 1 ELSE before.last_code + 1
           last == IF c < MaxCode THEN c + 1 ELSE MaxCode
<1>1. /\ before.code \in 0 .. MaxCode /\ before.last_code \in 0 .. MaxCode /\ MaxCode \in Nat
  BY PlanFields, DirAssumption
<1>2. c \in Nat BY <1>1
<1>3. CASE direction = "bottom_up" /\ c <= MaxCode
 <2>1. AssignCode(before, direction) = [direction |-> direction, code |-> c, last_code |-> last]
   BY <1>3 DEF AssignCode
 <2>2. c \in 0 .. MaxCode /\ last \in 0 .. MaxCode BY <1>1, <1>2, <1>3
 <2> HIDE DEF c, last
 <2> QED BY <2>1, <2>2 DEF PlanType
<1>4. CASE ~(direction = "bottom_up" /\ c <= MaxCode)
 <2>1. AssignCode(before, direction) =
         [direction |-> direction, code |-> 0, last_code |-> before.last_code]
   BY <1>4 DEF AssignCode
 <2>2. 0 \in 0 .. MaxCode BY <1>1
 <2> QED BY <1>1, <2>1, <2>2 DEF PlanType
<1> QED BY <1>3, <1>4

LEMMA FirstPlanType == FirstPlan \in PlanType
  BY DirAssumption DEF FirstPlan, PlanType

LEMMA DirectionsType ==
  ASSUME NEW t \in Thread, Depth(t) \in Node
  PROVE  Directions(t) \subseteq {"top_down", "bottom_up"}
  BY DirAssumption DEF Directions, Node

LEMMA ProposeWrites ==
  ASSUME Shape, Control, NEW t \in Thread, Propose(t)
  PROVE  \E direction \in Directions(t) :
           /\ OnlyEntry(Depth(t), t,
                [Curr(t).owners[t] EXCEPT !.proposal = AssignCode(my[t].plan, direction)])
           /\ AssignCode(my[t].plan, direction) \in PlanType
           /\ direction \in {"top_down", "bottom_up"}
<1>0. Depth(t) \in Node /\ Curr(t).owners[t] \in OwnerType BY Here DEF Propose, At
<1>1. PICK direction \in Directions(t) :
        node' = [node EXCEPT ![Depth(t)].owners[t].proposal = AssignCode(my[t].plan, direction)]
  BY Zenon DEF Propose
<1>2. direction \in {"top_down", "bottom_up"} BY <1>0, DirectionsType
<1> DEFINE p == AssignCode(my[t].plan, direction)
           e == [Curr(t).owners[t] EXCEPT !.proposal = p]
<1>3. p \in PlanType BY <1>2, ThreadFields, AssignCodeType DEF Shape
<1> HIDE DEF p
<1>4. e \in OwnerType BY <1>0, <1>3 DEF OwnerType
<1>5. node' = [node EXCEPT ![Depth(t)].owners[t] = e] BY <1>1 DEF p, Curr
<1>6. OnlyEntry(Depth(t), t, e) BY <1>0, <1>4, <1>5, EntrySet, Zenon DEF Shape
<1> QED BY <1>2, <1>3, <1>6 DEF p

LEMMA LoserWrites ==
  ASSUME Shape, Control, NEW t \in Thread, Claim(t), Curr(t).plan_owner # None
  PROVE  OnlyEntry(Depth(t), t, [Curr(t).owners[t] EXCEPT !.proposal = FirstPlan])
<1>0. Depth(t) \in Node /\ Curr(t).owners[t] \in OwnerType BY Here DEF Claim, At
<1> DEFINE e == [Curr(t).owners[t] EXCEPT !.proposal = FirstPlan]
<1>1. e \in OwnerType BY <1>0, FirstPlanType DEF OwnerType
<1>2. node' = [node EXCEPT ![Depth(t)].owners[t] = e] BY DEF Claim, Curr
<1> QED BY <1>0, <1>1, <1>2, EntrySet, Zenon DEF Shape

LEMMA WinnerWrites ==
  ASSUME Shape, Control, NEW t \in Thread, Claim(t), Curr(t).plan_owner = None
  PROVE  /\ node' \in [Node -> NodeShape]
         /\ \A d \in Node : node'[d].next = node[d].next /\ node'[d].owners = node[d].owners
         /\ \A d \in Node : d # Depth(t) => node'[d].plan_owner = node[d].plan_owner
         /\ node'[Depth(t)].plan_owner = t
<1>0. Depth(t) \in Node /\ node \in [Node -> NodeShape] BY Here DEF Claim, At, Shape
<1> DEFINE n == [node[Depth(t)] EXCEPT !.plan_owner = t]
<1>1. node' = [node EXCEPT ![Depth(t)] = n] BY DEF Claim
<1>2. node[Depth(t)] \in NodeShape BY <1>0
<1>3. n \in NodeShape /\ n.plan_owner = t
      /\ n.next = node[Depth(t)].next /\ n.owners = node[Depth(t)].owners
  BY <1>2 DEF NodeShape
<1> HIDE DEF n
<1>4. node' \in [Node -> NodeShape] BY <1>0, <1>1, <1>3, Zenon
<1>5. node'[Depth(t)] = n /\ \A d \in Node : d # Depth(t) => node'[d] = node[d] BY <1>0, <1>1
<1> QED BY <1>3, <1>4, <1>5

LEMMA LinkWrites ==
  ASSUME Shape, Control, NEW t \in Thread, AddNode(t), Curr(t).next = None
  PROVE  /\ node' \in [Node -> NodeShape] /\ linked' = linked + 1 /\ linked = Depth(t) + 1
         /\ linked' \in 1 .. MaxNode + 1
         /\ \A d \in Node : /\ node'[d].plan_owner = node[d].plan_owner
                            /\ node'[d].owners = node[d].owners
         /\ \A d \in Node : d # Depth(t) => node'[d].next = node[d].next
         /\ node'[Depth(t)].next = linked
<1>0. /\ Depth(t) \in Node /\ node \in [Node -> NodeShape]
      /\ Depth(t) \in 0 .. linked - 1 /\ linked \in 1 .. MaxNode + 1
      /\ Curr(t).next = IF Depth(t) + 1 < linked THEN Depth(t) + 1 ELSE None
  BY Here DEF AddNode, At, Shape
<1>1. linked \in Node /\ linked' = linked + 1 /\ node' = [node EXCEPT ![Depth(t)].next = linked]
  BY DEF AddNode
<1> DEFINE n == [node[Depth(t)] EXCEPT !.next = linked]
<1>2. node' = [node EXCEPT ![Depth(t)] = n] BY <1>1
<1>3. node[Depth(t)] \in NodeShape BY <1>0
<1>4. n \in NodeShape /\ n.next = linked
      /\ n.plan_owner = node[Depth(t)].plan_owner /\ n.owners = node[Depth(t)].owners
  BY <1>1, <1>3 DEF NodeShape
<1> HIDE DEF n
<1>5. node' \in [Node -> NodeShape] BY <1>0, <1>2, <1>4, Zenon
<1>6. node'[Depth(t)] = n /\ \A d \in Node : d # Depth(t) => node'[d] = node[d] BY <1>0, <1>2
<1>7. linked = Depth(t) + 1 /\ linked' \in 1 .. MaxNode + 1
 <2>1. MaxNode \in Nat /\ linked \in 0 .. MaxNode BY <1>1, DirAssumption DEF Node
 <2>2. ~(Depth(t) + 1 < linked) BY <1>0 DEF Node, None
 <2> QED BY <1>0, <1>1, <2>1, <2>2
<1> QED BY <1>1, <1>4, <1>5, <1>6, <1>7

LEMMA PushWrites ==
  ASSUME Shape, Control, NEW t \in Thread, NEW v \in Vertex, Push(t, v),
         ~At(t, "returned"), Depth(t) + 1 < linked
  PROVE  /\ Depth(t) + 1 \in Node
         /\ LET e == node[Depth(t) + 1].owners[t]
            IN OnlyEntry(Depth(t) + 1, t, [e EXCEPT !.bucket = Append(e.bucket, v)])
<1>0. /\ Depth(t) + 1 \in Node /\ Curr(t).next = Depth(t) + 1 BY Here
<1> DEFINE d == Depth(t) + 1
           e == node[d].owners[t]
           f == [e EXCEPT !.bucket = Append(e.bucket, v)]
<1>1. node' = [node EXCEPT ![d].owners[t].bucket = Append(@, v)] BY <1>0 DEF Push
<1>2. node' = [node EXCEPT ![d].owners[t] = f] BY <1>1
<1>3. d \in Node BY <1>0
<1> HIDE DEF d
<1>4. e \in OwnerType BY <1>3, NodeFields DEF Shape
<1> HIDE DEF e
<1>5. f \in OwnerType BY <1>4, PushEntry
<1>6. OnlyEntry(d, t, f) BY <1>2, <1>3, <1>5, EntrySet, Zenon DEF e, Shape
<1> QED BY <1>0, <1>6 DEF d, e

LEMMA EntryWrites ==
  ASSUME Shape, Control, NEW t \in Thread, ~At(t, "returned"), NEW e \in OwnerType, SetEntry(t, e)
  PROVE  OnlyEntry(Depth(t), my[t].owner, e)
<1>1. Depth(t) \in Node /\ my[t].owner \in Thread BY Here
<1> QED BY <1>1, EntrySet, Zenon DEF SetEntry, Shape

LEMMA EntryTypes ==
  ASSUME NEW e \in OwnerType, NEW n \in Nat
  PROVE  /\ [e EXCEPT !.last_done = n] \in OwnerType
         /\ [e EXCEPT !.done = TRUE] \in OwnerType
         /\ [e EXCEPT !.codes_last_done = n] \in OwnerType
         /\ [e EXCEPT !.codes_done = TRUE] \in OwnerType
  BY Zenon DEF OwnerType

-----------------------------------------------------------------------------
(***************************************************************************)
(* Control: a step leaves its thread where a thread can be.                *)
(***************************************************************************)
Fine(t) ==
  /\ AtNode(t) /\ NextKnown(t) /\ Directed(t) /\ Rounds(t)
  /\ Entries(t) /\ CodeEntries(t) /\ BlockEntries(t)

\* The buckets of the level a thread is in are not those it pushes to.
BucketsStay(t) ==
  /\ \A o \in Thread : node'[Depth(t)].owners[o].bucket = Curr(t).owners[o].bucket
  /\ linked' \in Int /\ linked' >= linked

LEMMA SamePlace ==
  ASSUME Shape, Control, NEW t \in Thread, ~At(t, "returned"), BucketsStay(t),
         my'[t].curr = my[t].curr, my'[t].owner = my[t].owner
  PROVE  /\ Depth(t)' = Depth(t) /\ Entry(t)'.bucket = Entry(t).bucket
         /\ Own(t)' = Own(t)
         /\ my'[t].item = my[t].item => U(t)' = U(t)
         /\ my'[t].item = my[t].item /\ my'[t].j = my[t].j => V(t)' = V(t)
<1>1. my[t].owner \in Thread BY Here
<1>2. Depth(t)' = Depth(t) /\ Own(t)' = Own(t) BY DEF Depth, Own
<1>3. Entry(t)' = node'[Depth(t)].owners[my[t].owner] BY <1>2 DEF Entry, Curr
<1>4. Entry(t)'.bucket = Entry(t).bucket BY <1>1, <1>3 DEF BucketsStay, Entry
<1>5. my'[t].item = my[t].item => U(t)' = U(t) BY <1>4 DEF U
<1>6. my'[t].item = my[t].item /\ my'[t].j = my[t].j => V(t)' = V(t) BY <1>5 DEF V
<1> QED BY <1>2, <1>4, <1>5, <1>6

LEMMA TurnNext ==
  ASSUME NEW t \in Thread, NEW k \in 0 .. NumT, k < NumT
  PROVE  /\ Turn(t, k) \in Thread
         /\ k + 1 < NumT => Turn(t, k + 1) = (Turn(t, k) + 1) % NumT
         /\ Turn(t, 0) = t
         /\ Turn(t, k) = t => k = 0
<1>1. t \in Nat /\ t < NumT /\ k \in Nat /\ NumT \in Nat \ {0} BY ThreadTypes DEF Thread
<1>2. Turn(t, k) \in Thread BY <1>1 DEF Turn, Thread
<1>3. (Turn(t, k) + 1) % NumT = IF Turn(t, k) + 1 < NumT THEN Turn(t, k) + 1 ELSE 0
  BY <1>2, RingNext
<1>4. k + 1 < NumT => Turn(t, k + 1) = IF Turn(t, k) + 1 < NumT THEN Turn(t, k) + 1 ELSE 0
  BY <1>1 DEF Turn
<1>5. Turn(t, 0) = t /\ (Turn(t, k) = t => k = 0) BY <1>1 DEF Turn
<1> QED BY <1>2, <1>3, <1>4, <1>5

LEMMA NextOwnerFine ==
  ASSUME Shape, Control, NEW t \in Thread, ~At(t, "returned"), BucketsStay(t),
         NEW a \in {"done", "help", "codes"}, NEW b \in {"advance", "codes"},
         NextOwner(t, a, b), my[t].turn < NumT, my[t].owner = Turn(t, my[t].turn),
         my[t].cand = <<>>,
         b = "codes" => my[t].turn + 1 < NumT /\ a = "codes",
         a = "done" => TopDownLevel(t), a = "help" => ~TopDownLevel(t) /\ Depth(t) + 1 < linked,
         a = "codes" => /\ ~TopDownLevel(t) /\ my[t].previous = "top_down" /\ my[t].plan.code > 0
                        /\ Depth(t) + 1 < linked
  PROVE  Moves(t) /\ Fine(t)'
<1>0. a \in Labels /\ b \in Labels /\ my \in [Thread -> ThreadShape] BY DEF Labels, Shape
<1>1. /\ Moves(t) /\ my'[t].pc = (IF my[t].turn + 1 < NumT THEN a ELSE b)
      /\ SameLevel(t) /\ SameNext(t) /\ SameVertex(t)
      /\ my'[t].owner = (my[t].owner + 1) % NumT /\ my'[t].turn = my[t].turn + 1
      /\ my'[t].sz = 0 /\ my'[t].todo = {} /\ my'[t].item = 0
  BY <1>0, NextOwnerMoves
<1>2. Depth(t)' = Depth(t) /\ Depth(t) \in 0 .. linked - 1 /\ linked' >= linked
      /\ linked \in Int /\ linked' \in Int
  BY <1>1, Here DEF SameLevel, Depth, BucketsStay, Shape
<1>3. /\ my'[t].pc \in {a, b}
      /\ my'[t].pc = "advance" => my'[t].turn = NumT
      /\ my'[t].pc # "advance" => my'[t].turn < NumT /\ my'[t].turn > 0 /\ my'[t].pc = a
 <2>1. my[t].turn \in 0 .. NumT /\ NumT \in Nat BY <1>0, ThreadFields, ThreadTypes
 <2> QED BY <1>1, <2>1
<1>4. my'[t].turn < NumT => my'[t].owner = Turn(t, my'[t].turn)
 <2>1. my[t].turn \in 0 .. NumT BY <1>0, ThreadFields
 <2>2. my[t].turn + 1 < NumT => my'[t].owner = Turn(t, my[t].turn + 1) BY <1>1, <2>1, TurnNext
 <2> QED BY <1>1, <2>2
<1>5. AtNode(t)' BY <1>2, <1>3 DEF AtNode, At
<1>6. NextKnown(t)'
 <2>1. ~my[t].next_is_null => Depth(t) + 1 < linked BY DEF Control, NextKnown
 <2>2. a = "done" \/ Depth(t) + 1 < linked OBVIOUS
 <2> QED
   BY <1>1, <1>2, <1>3, <2>1, <2>2 DEF NextKnown, SameNext, SameLevel, TopDownLevel, At, AtBucket,
      AtItem, InCodes, InBottomUp, InBlock, Finding, Owning, Helping
<1>7. Directed(t)'
  BY <1>1, <1>3 DEF Directed, SameLevel, TopDownLevel, InTopDown, AtBucket, AtItem, InCodes,
     InBottomUp, InBlock, Finding, Owning, Helping
<1>8. Rounds(t)' BY <1>1, <1>3, <1>4 DEF Rounds, At, Deciding, Owning, Linking, Helping
<1>9. Entries(t)' /\ CodeEntries(t)' BY <1>3 DEF Entries, CodeEntries, At, AtBucket, AtItem, Linking
<1>10. BlockEntries(t)' BY <1>1, <1>3 DEF BlockEntries, At, InBlock, Finding, Helping, SameVertex
<1> QED BY <1>1, <1>5, <1>6, <1>7, <1>8, <1>9, <1>10 DEF Fine

(***************************************************************************)
(* The steps that only go to another label.                                *)
(***************************************************************************)
GoesOn(t, l) ==
  \/ At(t, "sizes") /\ l = "propose"
  \/ At(t, "propose") /\ l = "claim"
  \/ At(t, "done") /\ l = "size"
  \/ At(t, "size") /\ l = "next" /\ Entry(t).bucket # <<>>
  \/ At(t, "size") /\ l = "load" /\ Entry(t).bucket # <<>> /\ ~my[t].next_is_null
  \/ At(t, "next") /\ l = "link"
  \/ At(t, "neighbor") /\ l = "push"
  \/ At(t, "push") /\ l = "swap"
  \/ At(t, "progress") /\ l = "finish" /\ my[t].todo = {}
  \/ At(t, "progress") /\ l = "entry" /\ my[t].todo # {}
  \/ At(t, "codes") /\ l = "codes_size"
  \/ At(t, "code") /\ l = "codes_progress" /\ Own(t)
  \/ At(t, "test") /\ l = "found" /\ ~(my[t].j > Len(adj[C(t)]))
  \/ At(t, "found") /\ l = "next_code"
  \/ At(t, "next_code") /\ l = "mark"
  \/ At(t, "own") /\ l = "blocks_done"
  \/ At(t, "own") /\ l = "own_stamp" /\ ~(my[t].item > Owned(my[t].owner))
  \/ At(t, "own_stamp") /\ l = "own_progress"
  \/ At(t, "help") /\ l = "help_start"
  \/ At(t, "block_progress") /\ l = "block_stamp"
  \/ my[t].pc \in {"block_progress", "block_stamp", "stamp"} /\ l = "blocks_done"
  \/ my[t].pc \in {"block_progress", "block_stamp", "stamp"} /\ l = "block" /\ my[t].todo # {}

LEMMA GotoFine ==
  ASSUME Shape, Control, NEW t \in Thread, BucketsStay(t), NEW l, Goto(t, l), GoesOn(t, l)
  PROVE  Moves(t) /\ Fine(t)'
<1> USE DEF AtBucket, AtItem, InTopDown, InCodes, InBottomUp, InBlock, Finding, Owning,
            Helping, Linking, Deciding
<1>0. l \in Labels /\ my \in [Thread -> ThreadShape] /\ ~At(t, "returned")
  BY DEF Labels, Shape, GoesOn, At
<1>1. /\ Moves(t) /\ my'[t].pc = l
      /\ my'[t].curr = my[t].curr /\ my'[t].plan = my[t].plan
      /\ my'[t].previous = my[t].previous /\ my'[t].next_is_null = my[t].next_is_null
      /\ my'[t].owner = my[t].owner /\ my'[t].turn = my[t].turn
      /\ my'[t].sz = my[t].sz /\ my'[t].todo = my[t].todo /\ my'[t].item = my[t].item
      /\ my'[t].du = my[t].du /\ my'[t].j = my[t].j /\ my'[t].cand = my[t].cand
  BY <1>0, GotoMoves DEF SameRound, SameLevel, SameNext, SameOwner, SameItems, SameVertex
<1>2. /\ Depth(t)' = Depth(t) /\ Entry(t)'.bucket = Entry(t).bucket
      /\ Own(t)' = Own(t) /\ U(t)' = U(t)
  BY <1>0, <1>1, SamePlace
<1>3. Depth(t) \in 0 .. linked - 1 /\ linked' >= linked /\ linked \in Int /\ linked' \in Int
  BY <1>0, Here DEF BucketsStay, Shape
<1>4. C(t)' = C(t) /\ TopDownLevel(t)' = TopDownLevel(t) BY <1>1 DEF C, TopDownLevel
<1>5. AtNode(t)' BY <1>1, <1>2, <1>3 DEF AtNode, At, GoesOn
<1>6. NextKnown(t)'
 <2>1. NextKnown(t) BY DEF Control
 <2> QED BY <1>1, <1>2, <1>3, <1>4, <2>1 DEF NextKnown, GoesOn, At
<1>7. Directed(t)'
 <2>1. Directed(t) BY DEF Control
 <2> QED BY <1>1, <1>4, <2>1 DEF Directed, GoesOn, At
<1>8. Rounds(t)'
 <2>0. Rounds(t) BY DEF Control
 <2>1. my'[t].pc \in Deciding \cup Owning => my'[t].turn = 0 BY <1>1, <2>0 DEF Rounds, GoesOn, At
 <2>2. my'[t].pc \in Linking /\ ~TopDownLevel(t)' => my'[t].turn = 0
  <3>1. my[t].pc = "size" => TopDownLevel(t) BY DEF Control, Directed
  <3> QED BY <1>1, <1>4, <2>0, <3>1 DEF Rounds, GoesOn, At
 <2>3. l # "advance" /\ (my'[t].pc \in Helping => my'[t].turn > 0)
   BY <1>1, <2>0 DEF Rounds, GoesOn, At
 <2>4. my'[t].pc \notin Deciding \cup {"advance", "returned"} =>
         my'[t].turn < NumT /\ my'[t].owner = Turn(t, my'[t].turn)
   BY <1>1, <2>0 DEF Rounds, GoesOn, At
 <2> QED BY <1>1, <2>1, <2>2, <2>3, <2>4 DEF Rounds, At
<1>9. Entries(t)'
 <2>1. Entries(t) BY DEF Control
 <2> QED BY <1>1, <1>2, <1>4, <2>1 DEF Entries, GoesOn, At
<1>10. CodeEntries(t)'
 <2>1. CodeEntries(t) BY DEF Control
 <2> QED BY <1>1, <1>2, <1>4, <2>1 DEF CodeEntries, GoesOn, At
<1>11. BlockEntries(t)'
 <2>1. BlockEntries(t) BY DEF Control
 <2>2. InRange(t, my[t].j)' = InRange(t, my[t].j)
       /\ \A i \in 1 .. Len(my[t].cand) : InRange(t, my[t].cand[i])' = InRange(t, my[t].cand[i])
   BY <1>1 DEF InRange
 <2>3. /\ my'[t].pc = "own" => my'[t].item \in 1 .. Owned(my'[t].owner) + 1
       /\ my'[t].pc \in {"own_stamp", "own_progress", "block_progress", "block_stamp", "stamp"}
                        \cup InBlock =>
            my'[t].item \in 1 .. Owned(my'[t].owner)
  <3>1. Owned(my[t].owner) \in Nat /\ my[t].item \in Nat BY <1>0, ThreadFields, OwnedFacts
  <3> QED BY <1>1, <2>1, <3>1 DEF BlockEntries, GoesOn, At
 <2>4. /\ my'[t].pc \in Helping \cup InBlock /\ my'[t].turn > 0 =>
            my'[t].pc \in {"help", "help_start"} \/ my'[t].todo \subseteq 1 .. Owned(my'[t].owner)
       /\ my'[t].pc = "block" => my'[t].todo # {}
   BY <1>1, <2>1 DEF BlockEntries, GoesOn, At
 <2>5. /\ my'[t].pc \notin InBlock => my'[t].cand = <<>>
       /\ my'[t].pc \in {"test"} \cup Finding => my'[t].cand # <<>>
   BY <1>1, <2>1 DEF BlockEntries, GoesOn, At
 <2>6. l \notin {"gather", "test"} BY DEF GoesOn
 <2>7. my'[t].pc \in Finding => my'[t].j \in 1 .. Len(adj[C(t)'])
  <3>1. CASE At(t, "test")
   <4>1. my[t].j \in 1 .. Len(adj[C(t)]) + 1 /\ Len(adj[C(t)]) \in Nat
    <5>1. adj[C(t)] \in Seq(Vertex) BY <3>1, BlockVertex DEF At
    <5> QED BY <2>1, <3>1, <5>1 DEF BlockEntries
   <4> QED BY <1>1, <1>4, <3>1, <4>1 DEF GoesOn, At
  <3>2. CASE ~At(t, "test") BY <1>1, <1>4, <2>1, <3>2 DEF BlockEntries, GoesOn, At
  <3> QED BY <3>1, <3>2
 <2>8. \A i \in 1 .. Len(my'[t].cand) : InRange(t, my[t].cand[i])'
   BY <1>1, <2>1, <2>2 DEF BlockEntries
 <2> QED BY <1>1, <2>3, <2>4, <2>5, <2>6, <2>7, <2>8 DEF BlockEntries, At
<1> QED BY <1>1, <1>5, <1>6, <1>7, <1>8, <1>9, <1>10, <1>11 DEF Fine

LEMMA FineNow ==
  ASSUME Control, NEW t \in Thread
  PROVE  Fine(t)
  BY DEF Control, Fine

LEMMA FollowFine ==
  ASSUME Shape, Control, NEW t \in Thread, BucketsStay(t), NEW plan \in PlanType, Follow(t, plan),
         my[t].pc \in Deciding
  PROVE  Moves(t) /\ Fine(t)'
<1> USE DEF AtBucket, AtItem, InTopDown, InCodes, InBottomUp, InBlock, Finding, Owning,
            Helping, Linking, Deciding
<1>0. my \in [Thread -> ThreadShape] /\ ~At(t, "returned") /\ Fine(t) BY FineNow DEF Shape, At
<1>1. /\ Moves(t) /\ my'[t].pc = (IF plan.direction = "bottom_up" THEN "next" ELSE "done")
      /\ my'[t].curr = my[t].curr /\ my'[t].plan = plan
      /\ my'[t].next_is_null = TRUE /\ my'[t].owner = t /\ my'[t].turn = 0
      /\ my'[t].cand = my[t].cand
  BY ZenonT(40), <1>0, FollowMoves DEF SameVertex
<1>2. Depth(t)' = Depth(t) /\ Depth(t) \in 0 .. linked - 1 /\ linked' >= linked
      /\ linked \in Int /\ linked' \in Int
 <2>1. Depth(t)' = Depth(t) BY <1>1 DEF Depth
 <2>2. Depth(t) \in 0 .. linked - 1 BY <1>0, Here
 <2>3. linked \in Int /\ linked' >= linked /\ linked' \in Int BY DEF BucketsStay, Shape
 <2> QED BY <2>1, <2>2, <2>3
<1>3. plan.direction \in {"top_down", "bottom_up"} BY PlanFields
<1>4. AtNode(t)' /\ NextKnown(t)' BY <1>1, <1>2 DEF AtNode, NextKnown, At
<1>5. Directed(t)' BY <1>1, <1>3 DEF Directed, TopDownLevel
<1>6. Rounds(t)'
 <2>1. Turn(t, 0) = t /\ 0 < NumT BY TurnNext, ThreadTypes
 <2> QED BY <1>1, <1>3, <2>1 DEF Rounds, TopDownLevel, At
<1>7. Entries(t)' /\ CodeEntries(t)' BY <1>1, <1>3 DEF Entries, CodeEntries, TopDownLevel, At
<1>8. BlockEntries(t)' BY <1>0, <1>1 DEF Fine, BlockEntries, At
<1> QED BY <1>1, <1>4, <1>5, <1>6, <1>7, <1>8 DEF Fine

LEMMA PlanFine ==
  ASSUME Shape, Control, NEW t \in Thread, BucketsStay(t),
         (LoadPlanOwner(t) /\ Curr(t).plan_owner = None) \/ ReadSize(t)
  PROVE  Moves(t) /\ Fine(t)'
<1> USE DEF AtBucket, AtItem, InTopDown, InCodes, InBottomUp, InBlock, Finding, Owning,
            Helping, Linking, Deciding
<1>0. /\ my \in [Thread -> ThreadShape] /\ ~At(t, "returned") /\ Fine(t)
      /\ my[t].pc \in {"plan", "sizes"}
  BY FineNow DEF Shape, At, LoadPlanOwner, ReadSize
<1>1. /\ Moves(t) /\ my'[t].pc \in {"sizes", "propose"} /\ my'[t].turn = my[t].turn
      /\ my'[t].curr = my[t].curr /\ my'[t].plan = my[t].plan
      /\ my'[t].next_is_null = my[t].next_is_null /\ my'[t].cand = my[t].cand
  BY <1>0, PlanMoves DEF SameLevel, SameNext, SameVertex
<1>2. Depth(t)' = Depth(t) /\ Depth(t) \in 0 .. linked - 1 /\ linked' >= linked
      /\ linked \in Int /\ linked' \in Int
  BY <1>0, <1>1, Here DEF Depth, BucketsStay, Shape
<1>3. AtNode(t)' /\ NextKnown(t)' BY <1>0, <1>1, <1>2 DEF Fine, AtNode, NextKnown, At
<1>4. Directed(t)' /\ Rounds(t)' BY <1>0, <1>1 DEF Fine, Directed, Rounds, At
<1>5. Entries(t)' /\ CodeEntries(t)' /\ BlockEntries(t)'
  BY <1>0, <1>1 DEF Fine, Entries, CodeEntries, BlockEntries, At
<1> QED BY <1>1, <1>3, <1>4, <1>5 DEF Fine

LEMMA LinkedFine ==
  ASSUME Shape, Control, NEW t \in Thread, BucketsStay(t), Linked(t), my[t].pc \in Linking,
         Depth(t) + 1 < linked'
  PROVE  Moves(t) /\ Fine(t)'
<1> USE DEF AtBucket, AtItem, InTopDown, InCodes, InBottomUp, InBlock, Finding, Owning,
            Helping, Linking, Deciding
<1>0. my \in [Thread -> ThreadShape] /\ ~At(t, "returned") /\ Fine(t) BY FineNow DEF Shape, At
<1>1. /\ Moves(t) /\ my'[t].next_is_null = FALSE
      /\ my'[t].curr = my[t].curr /\ my'[t].plan = my[t].plan /\ my'[t].previous = my[t].previous
      /\ my'[t].owner = my[t].owner /\ my'[t].turn = my[t].turn /\ my'[t].cand = my[t].cand
      /\ TopDownLevel(t) => my'[t].pc = "load"
      /\ ~TopDownLevel(t) =>
           /\ my'[t].item = 1
           /\ my'[t].pc = IF my[t].previous = "top_down" /\ my[t].plan.code > 0
                          THEN "codes" ELSE "own"
  BY <1>0, LinkedMoves, Zenon DEF SameLevel, SameOwner, SameVertex
<1>2. /\ Depth(t)' = Depth(t) /\ Depth(t) \in 0 .. linked - 1 /\ linked' >= linked
      /\ linked \in Int /\ linked' \in Int
      /\ Entry(t)'.bucket = Entry(t).bucket
  BY <1>0, <1>1, Here, SamePlace DEF BucketsStay, Shape
<1>3. TopDownLevel(t)' = TopDownLevel(t) /\ my'[t].pc \in {"load", "codes", "own"}
  BY <1>1 DEF TopDownLevel
<1>4. AtNode(t)' /\ NextKnown(t)' BY <1>1, <1>2, <1>3 DEF AtNode, NextKnown, At
<1>5. Directed(t)' BY <1>1, <1>3 DEF Directed
<1>6. Rounds(t)' BY <1>0, <1>1, <1>3 DEF Fine, Rounds, At
<1>7. Entries(t)' /\ CodeEntries(t)' BY <1>0, <1>1, <1>2, <1>3 DEF Fine, Entries, CodeEntries, At
<1>8. BlockEntries(t)'
 <2>1. Owned(my[t].owner) \in Nat BY <1>0, ThreadFields, OwnedFacts
 <2> QED BY <1>0, <1>1, <1>3, <2>1 DEF Fine, BlockEntries, At
<1> QED BY <1>1, <1>4, <1>5, <1>6, <1>7, <1>8 DEF Fine

LEMMA LoadFine ==
  ASSUME Shape, Control, NEW t \in Thread, BucketsStay(t), LoadBucket(t)
  PROVE  Moves(t) /\ Fine(t)'
<1> USE DEF AtBucket, AtItem, InTopDown, InCodes, InBottomUp, InBlock, Finding, Owning,
            Helping, Linking, Deciding
<1>0. /\ my \in [Thread -> ThreadShape] /\ ~At(t, "returned") /\ Fine(t) /\ my[t].pc = "load"
      /\ Len(Entry(t).bucket) \in Nat /\ Len(Entry(t).bucket) > 0
 <2>1. my[t].pc = "load" /\ Fine(t) BY FineNow DEF At, LoadBucket
 <2>2. Entry(t).bucket \in Seq(Vertex) /\ Entry(t).bucket # <<>> BY <2>1, Here DEF At, Fine, Entries
 <2> QED BY <2>1, <2>2 DEF Shape, At
<1>1. /\ Moves(t)
      /\ my'[t].curr = my[t].curr /\ my'[t].plan = my[t].plan /\ my'[t].previous = my[t].previous
      /\ my'[t].owner = my[t].owner /\ my'[t].turn = my[t].turn /\ my'[t].cand = my[t].cand
      /\ my'[t].next_is_null = my[t].next_is_null
      /\ my'[t].sz = Len(Entry(t).bucket)
      /\ Own(t) => my'[t].todo = 1 .. Len(Entry(t).bucket) /\ my'[t].pc = "entry"
      /\ ~Own(t) => my'[t].todo = {} /\ my'[t].pc = "start"
  BY LoadMoves DEF SameRound, SameLevel, SameNext, SameOwner, SameVertex
<1>2. /\ Depth(t)' = Depth(t) /\ Depth(t) \in 0 .. linked - 1 /\ linked' >= linked
      /\ linked \in Int /\ linked' \in Int
      /\ Entry(t)'.bucket = Entry(t).bucket
  BY <1>0, <1>1, Here, SamePlace DEF BucketsStay, Shape
<1>3. TopDownLevel(t)' = TopDownLevel(t) /\ my'[t].pc \in {"entry", "start"}
  BY <1>1 DEF TopDownLevel
<1>4. AtNode(t)' /\ NextKnown(t)' BY <1>0, <1>1, <1>2, <1>3 DEF Fine, AtNode, NextKnown, At
<1>5. Directed(t)' /\ Rounds(t)' BY <1>0, <1>1, <1>3, Zenon DEF Fine, Directed, Rounds, At
<1>6. Entries(t)'
 <2>1. /\ Entry(t)'.bucket # <<>>
       /\ my'[t].sz \in 1 .. Len(Entry(t)'.bucket)
   BY <1>0, <1>1, <1>2
 <2>2. /\ my'[t].pc = "entry" => my'[t].todo = 1 .. my'[t].sz
       /\ my'[t].pc \in {"entry", "start"}
   BY <1>1
 <2>3. my'[t].pc = "entry" => my'[t].todo # {} /\ my'[t].todo \subseteq 1 .. my'[t].sz
  <3>1. 1 \in 1 .. my'[t].sz BY <1>0, <1>1
  <3> QED BY <2>2, <3>1, Zenon
 <2> QED BY <2>1, <2>2, <2>3 DEF Entries, At
<1>7. CodeEntries(t)' /\ BlockEntries(t)'
  BY <1>0, <1>1, <1>3 DEF Fine, CodeEntries, BlockEntries, At
<1> QED BY <1>1, <1>4, <1>5, <1>6, <1>7 DEF Fine

LEMMA StartFine ==
  ASSUME Shape, Control, NEW t \in Thread, BucketsStay(t), StartHelping(t)
  PROVE  Moves(t) /\ Fine(t)'
<1> USE DEF AtBucket, AtItem, InTopDown, InCodes, InBottomUp, InBlock, Finding, Owning,
            Helping, Linking, Deciding
<1>0. /\ my \in [Thread -> ThreadShape] /\ ~At(t, "returned") /\ Fine(t) /\ my[t].pc = "start"
      /\ Entry(t).last_done \in Nat /\ my[t].sz \in Nat
 <2>1. my[t].pc = "start" /\ Fine(t) /\ my \in [Thread -> ThreadShape]
   BY FineNow DEF At, StartHelping, Shape
 <2> QED BY <2>1, Here, OwnerFields, ThreadFields DEF At
<1>1. /\ Moves(t)
      /\ my'[t].curr = my[t].curr /\ my'[t].plan = my[t].plan /\ my'[t].previous = my[t].previous
      /\ my'[t].owner = my[t].owner /\ my'[t].turn = my[t].turn /\ my'[t].cand = my[t].cand
      /\ my'[t].next_is_null = my[t].next_is_null
      /\ my'[t].sz = my[t].sz /\ my'[t].todo = Entry(t).last_done + 1 .. my[t].sz
      /\ my'[t].pc = IF my'[t].todo = {} THEN "finish" ELSE "entry"
  BY <1>0, StartMoves DEF SameRound, SameLevel, SameNext, SameOwner, SameVertex
<1>2. /\ Depth(t)' = Depth(t) /\ Depth(t) \in 0 .. linked - 1 /\ linked' >= linked
      /\ linked \in Int /\ linked' \in Int
      /\ Entry(t)'.bucket = Entry(t).bucket
  BY <1>0, <1>1, Here, SamePlace DEF BucketsStay, Shape
<1>3. TopDownLevel(t)' = TopDownLevel(t) /\ my'[t].pc \in {"entry", "finish"}
      /\ my'[t].todo \subseteq 1 .. my'[t].sz
  BY <1>0, <1>1 DEF TopDownLevel
<1>4. AtNode(t)' /\ NextKnown(t)' BY <1>0, <1>1, <1>2, <1>3 DEF Fine, AtNode, NextKnown, At
<1>5. Directed(t)' /\ Rounds(t)' BY <1>0, <1>1, <1>3, Zenon DEF Fine, Directed, Rounds, At
<1>6. Entries(t)' BY <1>0, <1>1, <1>2, <1>3 DEF Fine, Entries, At
<1>7. CodeEntries(t)' /\ BlockEntries(t)'
  BY <1>0, <1>1, <1>3 DEF Fine, CodeEntries, BlockEntries, At
<1> QED BY <1>1, <1>4, <1>5, <1>6, <1>7 DEF Fine

LEMMA TakeFine ==
  ASSUME Shape, Control, NEW t \in Thread, BucketsStay(t), TakeEntry(t)
  PROVE  Moves(t) /\ Fine(t)'
<1> USE DEF AtBucket, AtItem, InTopDown, InCodes, InBottomUp, InBlock, Finding, Owning,
            Helping, Linking, Deciding
<1>0. /\ my \in [Thread -> ThreadShape] /\ ~At(t, "returned") /\ Fine(t) /\ my[t].pc = "entry"
  BY FineNow DEF At, TakeEntry, Shape
<1>1. /\ Moves(t)
      /\ my'[t].curr = my[t].curr /\ my'[t].plan = my[t].plan /\ my'[t].previous = my[t].previous
      /\ my'[t].owner = my[t].owner /\ my'[t].turn = my[t].turn /\ my'[t].cand = my[t].cand
      /\ my'[t].next_is_null = my[t].next_is_null /\ my'[t].sz = my[t].sz
      /\ my'[t].item \in my[t].todo /\ my'[t].todo = my[t].todo \ {my'[t].item}
      /\ Own(t) => \A x \in my[t].todo : my'[t].item <= x
      /\ my'[t].pc = IF ~vis[Entry(t).bucket[my'[t].item]] THEN "du"
                     ELSE IF Own(t) THEN "progress"
                     ELSE IF my'[t].todo = {} THEN "finish" ELSE "entry"
  BY <1>0, TakeMoves DEF SameRound, SameLevel, SameNext, SameOwner, SameVertex
<1>2. /\ Depth(t)' = Depth(t) /\ Depth(t) \in 0 .. linked - 1 /\ linked' >= linked
      /\ linked \in Int /\ linked' \in Int
      /\ Entry(t)'.bucket = Entry(t).bucket /\ Own(t)' = Own(t)
  BY <1>0, <1>1, Here, SamePlace DEF BucketsStay, Shape
<1>3. /\ TopDownLevel(t)' = TopDownLevel(t)
      /\ my'[t].pc \in {"du", "progress", "finish", "entry"}
      /\ my'[t].pc = "progress" => Own(t)
      /\ my'[t].pc = "finish" => my'[t].todo = {}
      /\ my'[t].pc = "entry" => my'[t].todo # {}
  BY <1>1 DEF TopDownLevel
<1>4. AtNode(t)' /\ NextKnown(t)' BY <1>0, <1>1, <1>2, <1>3 DEF Fine, AtNode, NextKnown, At
<1>5. Directed(t)' /\ Rounds(t)' BY <1>0, <1>1, <1>3, Zenon DEF Fine, Directed, Rounds, At
<1>6. Entries(t)'
 <2>1. /\ my[t].todo \subseteq 1 .. my[t].sz /\ my[t].sz \in 1 .. Len(Entry(t).bucket)
       /\ Entry(t).bucket # <<>>
   BY <1>0 DEF Fine, Entries
 <2>2. /\ my'[t].item \in 1 .. my'[t].sz /\ my'[t].item \notin my'[t].todo
       /\ my'[t].todo \subseteq 1 .. my'[t].sz
   BY <1>1, <2>1
 <2>3. Own(t) => \A x \in my'[t].todo : my'[t].item < x
  <3>1. \A x \in my'[t].todo : x \in my[t].todo /\ x # my'[t].item /\ x \in Int BY <1>1, <2>1
  <3>2. my'[t].item \in Int BY <2>2
  <3> QED BY <1>1, <3>1, <3>2
 <2> QED BY <1>1, <1>2, <1>3, <2>1, <2>2, <2>3 DEF Entries, At
<1>7. CodeEntries(t)' /\ BlockEntries(t)'
  BY <1>0, <1>1, <1>3 DEF Fine, CodeEntries, BlockEntries, At
<1> QED BY <1>1, <1>4, <1>5, <1>6, <1>7 DEF Fine

(***************************************************************************)
(* The steps within a bucket, within the codes and within the blocks.      *)
(***************************************************************************)
LEMMA OwnTurn ==
  ASSUME Shape, Control, NEW t \in Thread, my[t].pc \notin Deciding \cup {"advance", "returned"}
  PROVE  /\ my[t].turn \in 0 .. NumT /\ my[t].turn < NumT
         /\ my[t].owner = Turn(t, my[t].turn)
         /\ Own(t) <=> my[t].turn = 0
<1>1. my[t].turn \in 0 .. NumT BY ThreadFields DEF Shape
<1>2. my[t].turn < NumT /\ my[t].owner = Turn(t, my[t].turn) BY DEF Control, Rounds
<1> QED BY <1>1, <1>2, TurnNext DEF Own

LEMMA RoundFine ==
  ASSUME Shape, Control, NEW t \in Thread, BucketsStay(t), SameRound(t),
         \/ my[t].pc \in AtBucket /\ my'[t].pc \in AtBucket
         \/ my[t].pc \in InCodes /\ my'[t].pc \in InCodes
         \/ /\ my[t].pc \in InBottomUp /\ my'[t].pc \in InBottomUp
            /\ my'[t].pc \in Owning => Own(t)
            /\ my'[t].pc \in Helping => ~Own(t)
  PROVE  /\ AtNode(t)' /\ NextKnown(t)' /\ Directed(t)' /\ Rounds(t)'
         /\ Fine(t) /\ ~At(t, "returned")
         /\ Entry(t)'.bucket = Entry(t).bucket /\ Own(t)' = Own(t)
         /\ my'[t].owner = my[t].owner /\ my'[t].turn = my[t].turn
         /\ my'[t].item = my[t].item => U(t)' = U(t)
<1> USE DEF AtBucket, AtItem, InTopDown, InCodes, InBottomUp, InBlock, Finding, Owning,
            Helping, Linking, Deciding
<1>0. ~At(t, "returned") /\ Fine(t) /\ my[t].pc \notin Deciding \cup {"advance", "returned"}
  BY FineNow DEF At
<1>1. /\ my'[t].curr = my[t].curr /\ my'[t].plan = my[t].plan
      /\ my'[t].previous = my[t].previous
      /\ my'[t].owner = my[t].owner /\ my'[t].turn = my[t].turn
      /\ my'[t].next_is_null = my[t].next_is_null
  BY DEF SameRound, SameLevel, SameNext, SameOwner
<1>2. /\ Depth(t)' = Depth(t) /\ Depth(t) \in 0 .. linked - 1 /\ linked' >= linked
      /\ linked \in Int /\ linked' \in Int
      /\ Entry(t)'.bucket = Entry(t).bucket /\ Own(t)' = Own(t)
      /\ my'[t].item = my[t].item => U(t)' = U(t)
  BY <1>0, <1>1, Here, SamePlace DEF BucketsStay, Shape
<1>3. TopDownLevel(t)' = TopDownLevel(t) BY <1>1 DEF TopDownLevel
<1>4. Depth(t) + 1 < linked BY <1>0 DEF Fine, NextKnown
<1>5. AtNode(t)' /\ NextKnown(t)' BY <1>1, <1>2, <1>4 DEF AtNode, NextKnown, At
<1>6. Directed(t)' BY <1>0, <1>1, <1>3 DEF Fine, Directed
<1>7. Rounds(t)'
 <2>1. /\ my[t].turn \in 0 .. NumT /\ my[t].turn < NumT
       /\ my[t].owner = Turn(t, my[t].turn)
       /\ Own(t) <=> my[t].turn = 0
   BY <1>0, OwnTurn
 <2> QED BY <1>1, <2>1 DEF Rounds, At
<1> QED BY <1>0, <1>1, <1>2, <1>5, <1>6, <1>7

LEMMA NeighborFine ==
  ASSUME Shape, Control, NEW t \in Thread, BucketsStay(t), my[t].pc \in AtItem,
         SameRound(t), SameItems(t), my'[t].cand = my[t].cand,
         NEW p \in 1 .. Len(adj[U(t)]) + 1, my'[t].j = p,
         my'[t].pc = IF p <= Len(adj[U(t)]) THEN "neighbor" ELSE "vis"
  PROVE  Fine(t)'
<1> USE DEF AtBucket, AtItem, InTopDown, InCodes, InBottomUp, InBlock, Finding, Owning,
            Helping, Linking, Deciding
<1>1. /\ AtNode(t)' /\ NextKnown(t)' /\ Directed(t)' /\ Rounds(t)' /\ Fine(t)
      /\ Entry(t)'.bucket = Entry(t).bucket /\ Own(t)' = Own(t)
      /\ my'[t].item = my[t].item => U(t)' = U(t)
  BY RoundFine
<1>2. my'[t].sz = my[t].sz /\ my'[t].todo = my[t].todo /\ my'[t].item = my[t].item BY DEF SameItems
<1>3. Len(adj[U(t)]) \in Nat
 <2>1. adj[U(t)] \in Seq(Vertex) BY ItemVertex
 <2> QED BY <2>1
<1>4. my'[t].pc \in {"neighbor", "vis"} OBVIOUS
<1>5. /\ my'[t].pc = "neighbor" => my'[t].j \in 1 .. Len(adj[U(t)'])
      /\ my'[t].pc = "vis" => my'[t].j = Len(adj[U(t)']) + 1
  BY <1>1, <1>2, <1>3
<1>6. Entries(t)' BY <1>1, <1>2, <1>4, <1>5 DEF Fine, Entries, At
<1>7. CodeEntries(t)' /\ BlockEntries(t)' BY <1>1, <1>4 DEF Fine, CodeEntries, BlockEntries, At
<1> QED BY <1>1, <1>6, <1>7 DEF Fine

LEMMA MarkFine ==
  ASSUME Shape, Control, NEW t \in Thread, BucketsStay(t), MarkVisited(t)
  PROVE  Moves(t) /\ Fine(t)'
<1> USE DEF AtBucket, AtItem, InTopDown, InCodes, InBottomUp, InBlock, Finding, Owning,
            Helping, Linking, Deciding
<1>0. my \in [Thread -> ThreadShape] /\ my[t].pc = "vis" BY DEF Shape, MarkVisited, At
<1>1. /\ Moves(t) /\ SameRound(t) /\ SameItems(t) /\ my'[t].cand = my[t].cand
      /\ my'[t].pc = IF Own(t) THEN "progress"
                     ELSE IF my[t].todo = {} THEN "finish" ELSE "entry"
  BY <1>0, MarkMoves
<1>2. my'[t].sz = my[t].sz /\ my'[t].todo = my[t].todo /\ my'[t].item = my[t].item
  BY <1>1 DEF SameItems
<1>3. /\ my'[t].pc \in {"progress", "finish", "entry"}
      /\ my'[t].pc = "progress" => Own(t)
      /\ my'[t].pc = "finish" => my[t].todo = {}
      /\ my'[t].pc = "entry" => my[t].todo # {}
  BY <1>1
<1>4. /\ AtNode(t)' /\ NextKnown(t)' /\ Directed(t)' /\ Rounds(t)' /\ Fine(t)
      /\ Entry(t)'.bucket = Entry(t).bucket /\ Own(t)' = Own(t)
  BY <1>0, <1>1, <1>3, RoundFine
<1>5. Entries(t)' BY <1>0, <1>2, <1>3, <1>4 DEF Fine, Entries, At
<1>6. CodeEntries(t)' /\ BlockEntries(t)'
  BY <1>0, <1>1, <1>3, <1>4 DEF Fine, CodeEntries, BlockEntries, At
<1> QED BY <1>1, <1>4, <1>5, <1>6 DEF Fine

LEMMA NextCodesFine ==
  ASSUME Shape, Control, NEW t \in Thread, BucketsStay(t), NextCodes(t), my[t].pc \in InCodes
  PROVE  Moves(t) /\ Fine(t)'
<1> USE DEF AtBucket, AtItem, InTopDown, InCodes, InBottomUp, InBlock, Finding, Owning,
            Helping, Linking, Deciding
<1>0. /\ my \in [Thread -> ThreadShape] /\ ~At(t, "returned") /\ Fine(t)
      /\ my[t].turn \in 0 .. NumT /\ my[t].turn < NumT /\ my[t].owner = Turn(t, my[t].turn)
      /\ NumT \in Nat \ {0}
  BY FineNow, OwnTurn, ThreadTypes, Zenon DEF Shape, At
<1>1. /\ my[t].cand = <<>> /\ ~TopDownLevel(t) /\ my[t].previous = "top_down"
      /\ my[t].plan.code > 0 /\ Depth(t) + 1 < linked
  BY <1>0 DEF Fine, BlockEntries, Directed, NextKnown
<1>2. CASE my[t].turn + 1 < NumT
 <2>1. NextOwner(t, "codes", "codes") BY <1>2 DEF NextCodes
 <2> DEFINE a == "codes"
 <2>2. a \in {"done", "help", "codes"} /\ a \in {"advance", "codes"} /\ a # "done" /\ a # "help"
   OBVIOUS
 <2>3. NextOwner(t, a, a) /\ a = "codes" BY <2>1
 <2> HIDE DEF a
 <2> QED BY <1>0, <1>1, <1>2, <2>2, <2>3, NextOwnerFine
<1>3. CASE my[t].turn + 1 >= NumT
 <2>1. /\ Moves(t) /\ my'[t].curr = my[t].curr /\ my'[t].plan = my[t].plan
       /\ my'[t].next_is_null = my[t].next_is_null /\ my'[t].cand = my[t].cand
       /\ my'[t].pc = "own" /\ my'[t].owner = t /\ my'[t].turn = 0 /\ my'[t].item = 1
   BY <1>0, <1>3, NextCodesMoves DEF SameLevel, SameNext, SameVertex
 <2>2. Depth(t)' = Depth(t) /\ Depth(t) \in 0 .. linked - 1 /\ linked' >= linked
       /\ linked \in Int /\ linked' \in Int
   BY <1>0, <2>1, Here DEF Depth, BucketsStay, Shape
 <2>3. AtNode(t)' /\ NextKnown(t)' /\ Directed(t)'
   BY <1>1, <2>1, <2>2 DEF AtNode, NextKnown, Directed, TopDownLevel, At
 <2>4. Rounds(t)'
  <3>1. Turn(t, 0) = t /\ 0 < NumT BY TurnNext, ThreadTypes
  <3> QED BY <2>1, <3>1 DEF Rounds, At
 <2>5. Entries(t)' /\ CodeEntries(t)' BY <2>1 DEF Entries, CodeEntries, At
 <2>6. BlockEntries(t)'
  <3>1. Owned(t) \in Nat BY OwnedFacts
  <3> QED BY <1>1, <2>1, <3>1 DEF BlockEntries, At
 <2> QED BY <2>1, <2>3, <2>4, <2>5, <2>6 DEF Fine
<1> QED BY <1>0, <1>2, <1>3

LEMMA EntryFine ==
  ASSUME Shape, Control, NEW t \in Thread, BucketsStay(t), my[t].pc \in InCodes,
         NEW i \in Nat, i > 0, NEW sz \in 0 .. Len(Entry(t).bucket), my' = FromEntry(t, i, sz)
  PROVE  Moves(t) /\ Fine(t)'
<1> USE DEF AtBucket, AtItem, InTopDown, InCodes, InBottomUp, InBlock, Finding, Owning,
            Helping, Linking, Deciding
<1>0. my \in [Thread -> ThreadShape] /\ sz \in Nat BY DEF Shape
<1>1. /\ Moves(t) /\ SameRound(t) /\ my'[t].cand = my[t].cand
      /\ my'[t].item = i /\ my'[t].sz = sz
      /\ my'[t].pc = IF i <= sz THEN "code" ELSE "codes_finish"
  BY <1>0, EntryMoves DEF SameVertex
<1>2. my'[t].pc \in {"code", "codes_finish"} /\ (my'[t].pc = "code" => i \in 1 .. sz) BY <1>0, <1>1
<1>3. /\ AtNode(t)' /\ NextKnown(t)' /\ Directed(t)' /\ Rounds(t)' /\ Fine(t)
      /\ Entry(t)'.bucket = Entry(t).bucket
  BY <1>1, <1>2, RoundFine
<1>4. Entries(t)' /\ CodeEntries(t)' BY <1>1, <1>2, <1>3 DEF Entries, CodeEntries, At
<1>5. BlockEntries(t)' BY <1>1, <1>2, <1>3 DEF Fine, BlockEntries, At
<1> QED BY <1>1, <1>3, <1>4, <1>5 DEF Fine

LEMMA CodesSizeFine ==
  ASSUME Shape, Control, NEW t \in Thread, BucketsStay(t), CodesSize(t)
  PROVE  Moves(t) /\ Fine(t)'
<1> USE DEF AtBucket, AtItem, InTopDown, InCodes, InBottomUp, InBlock, Finding, Owning,
            Helping, Linking, Deciding
<1>0. my[t].pc = "codes_size" /\ Len(Entry(t).bucket) \in Nat
 <2>1. my[t].pc = "codes_size" BY DEF CodesSize, At
 <2>2. Entry(t).bucket \in Seq(Vertex) BY <2>1, Here DEF At
 <2> QED BY <2>1, <2>2
<1>1. /\ Moves(t) /\ SameRound(t) /\ my'[t].cand = my[t].cand
      /\ my'[t].sz = Len(Entry(t).bucket)
      /\ Own(t) => /\ my'[t].item = 1
                   /\ my'[t].pc = IF 1 <= my'[t].sz THEN "code" ELSE "codes_finish"
      /\ ~Own(t) => my'[t].pc = "codes_start"
  BY CodesSizeMoves DEF SameVertex
<1>2. /\ my'[t].pc \in {"code", "codes_finish", "codes_start"}
      /\ my'[t].pc = "code" => my'[t].item \in 1 .. my'[t].sz
  BY <1>0, <1>1
<1>3. /\ AtNode(t)' /\ NextKnown(t)' /\ Directed(t)' /\ Rounds(t)' /\ Fine(t)
      /\ Entry(t)'.bucket = Entry(t).bucket
  BY <1>0, <1>1, <1>2, RoundFine
<1>4. Entries(t)' /\ CodeEntries(t)' BY <1>0, <1>1, <1>2, <1>3 DEF Entries, CodeEntries, At
<1>5. BlockEntries(t)' BY <1>0, <1>1, <1>2, <1>3 DEF Fine, BlockEntries, At
<1> QED BY <1>1, <1>3, <1>4, <1>5 DEF Fine

LEMMA ScanFine ==
  ASSUME Shape, Control, NEW t \in Thread, BucketsStay(t), Scan(t),
         my[t].pc \in {"own_stamp", "block_stamp"}
  PROVE  Moves(t) /\ Fine(t)'
<1> USE DEF AtBucket, AtItem, InTopDown, InCodes, InBottomUp, InBlock, Finding, Owning,
            Helping, Linking, Deciding
<1>0. /\ my \in [Thread -> ThreadShape] /\ Fine(t)
      /\ my[t].owner \in Thread /\ my[t].item \in 1 .. Owned(my[t].owner)
      /\ my[t].cand = <<>>
 <2>1. my \in [Thread -> ThreadShape] /\ Fine(t) BY FineNow DEF Shape
 <2> QED BY <2>1, ThreadFields DEF Fine, BlockEntries
<1>1. /\ Begin(my[t].owner, my[t].item) \in Nat /\ End(my[t].owner, my[t].item) \in Nat
      /\ Begin(my[t].owner, my[t].item) < End(my[t].owner, my[t].item)
  BY <1>0, BlockRange
<1>2. /\ Moves(t) /\ SameRound(t) /\ SameItems(t) /\ my'[t].pc = "gather"
      /\ my'[t].j = Begin(my[t].owner, my[t].item) /\ my'[t].cand = my[t].cand
  BY <1>0, <1>1, ScanMoves
<1>3. /\ AtNode(t)' /\ NextKnown(t)' /\ Directed(t)' /\ Rounds(t)'
      /\ my'[t].owner = my[t].owner /\ my'[t].turn = my[t].turn
  BY <1>2, RoundFine
<1>4. my'[t].todo = my[t].todo /\ my'[t].item = my[t].item BY <1>2 DEF SameItems
<1>5. Entries(t)' /\ CodeEntries(t)' BY <1>2 DEF Entries, CodeEntries, At
<1>6. BlockEntries(t)'
 <2>1. InRange(t, my[t].j)' BY <1>1, <1>2, <1>3, <1>4 DEF InRange
 <2>2. my[t].turn > 0 => my[t].todo \subseteq 1 .. Owned(my[t].owner)
   BY <1>0 DEF Fine, BlockEntries, Rounds
 <2>3. \A i \in 1 .. Len(my'[t].cand) : FALSE BY <1>0, <1>2
 <2> QED BY <1>0, <1>2, <1>3, <1>4, <2>1, <2>2, <2>3 DEF BlockEntries, At
<1> QED BY <1>2, <1>3, <1>5, <1>6 DEF Fine

LEMMA TestFine ==
  ASSUME Shape, Control, NEW t \in Thread, BucketsStay(t), NEW cand \in Seq(Vertex),
         Test(t, cand), my[t].pc \in InBlock, \A i \in 1 .. Len(cand) : InRange(t, cand[i])
  PROVE  Moves(t) /\ Fine(t)'
<1> USE DEF AtBucket, AtItem, InTopDown, InCodes, InBottomUp, InBlock, Finding, Owning,
            Helping, Linking, Deciding
<1>0. /\ my \in [Thread -> ThreadShape] /\ Fine(t)
      /\ my[t].item \in 1 .. Owned(my[t].owner)
      /\ my[t].turn > 0 => my[t].todo \subseteq 1 .. Owned(my[t].owner)
      /\ my[t].turn \in 0 .. NumT /\ (Own(t) <=> my[t].turn = 0)
 <2>1. my \in [Thread -> ThreadShape] /\ Fine(t) BY FineNow DEF Shape
 <2>2. my[t].turn \in 0 .. NumT /\ (Own(t) <=> my[t].turn = 0) BY OwnTurn
 <2> QED BY <2>1, <2>2 DEF Fine, BlockEntries
<1>1. /\ Moves(t) /\ SameRound(t) /\ SameItems(t)
      /\ my'[t].cand = cand /\ my'[t].j = (IF cand = <<>> THEN 0 ELSE 1)
      /\ my'[t].pc = IF cand # <<>> THEN "test"
                     ELSE IF Own(t) THEN "own_progress" ELSE "stamp"
  BY <1>0, TestMoves
<1>2. /\ my'[t].pc \in {"test", "own_progress", "stamp"}
      /\ my'[t].pc = "test" <=> cand # <<>>
      /\ my'[t].pc = "test" => my'[t].j = 1
      /\ my'[t].pc = "own_progress" => Own(t)
      /\ my'[t].pc = "stamp" => ~Own(t)
  BY <1>1
<1>3. /\ AtNode(t)' /\ NextKnown(t)' /\ Directed(t)' /\ Rounds(t)'
      /\ my'[t].owner = my[t].owner /\ my'[t].turn = my[t].turn
  BY <1>1, <1>2, RoundFine
<1>4. my'[t].todo = my[t].todo /\ my'[t].item = my[t].item BY <1>1 DEF SameItems
<1>5. Entries(t)' /\ CodeEntries(t)' BY <1>2 DEF Entries, CodeEntries, At
<1>6. BlockEntries(t)'
 <2>1. \A i \in 1 .. Len(my'[t].cand) : InRange(t, my[t].cand[i])' BY <1>1, <1>3, <1>4 DEF InRange
 <2>2. my'[t].pc = "test" => my'[t].j \in 1 .. Len(adj[C(t)']) + 1
  <3>1. SUFFICES ASSUME my'[t].pc = "test" PROVE Len(adj[C(t)']) \in Nat BY <1>2
  <3>2. C(t)' = Head(cand) /\ cand # <<>> BY <1>1, <1>2, <3>1 DEF C
  <3>3. C(t)' \in Vertex BY <3>2
  <3> QED BY <3>3, GraphAssumption
 <2>3. my'[t].item \in 1 .. Owned(my'[t].owner)
       /\ (my'[t].turn > 0 => my'[t].todo \subseteq 1 .. Owned(my'[t].owner))
   BY <1>0, <1>3, <1>4
 <2>4. my'[t].pc # "test" => my'[t].cand = <<>> BY <1>1, <1>2
 <2> QED BY <1>1, <1>2, <2>1, <2>2, <2>3, <2>4 DEF BlockEntries, At
<1> QED BY <1>1, <1>3, <1>5, <1>6 DEF Fine

LEMMA TailRange ==
  ASSUME Shape, Control, NEW t \in Thread, my[t].pc \in {"test"} \cup Finding
  PROVE  /\ Tail(my[t].cand) \in Seq(Vertex)
         /\ \A i \in 1 .. Len(Tail(my[t].cand)) : InRange(t, Tail(my[t].cand)[i])
<1>1. /\ my[t].cand \in Seq(Vertex) /\ my[t].cand # <<>>
      /\ \A i \in 1 .. Len(my[t].cand) : InRange(t, my[t].cand[i])
  BY ThreadFields DEF Shape, Control, BlockEntries
<1>2. /\ Tail(my[t].cand) \in Seq(Vertex)
      /\ \A i \in 1 .. Len(Tail(my[t].cand)) :
           i + 1 \in 1 .. Len(my[t].cand) /\ Tail(my[t].cand)[i] = my[t].cand[i + 1]
  BY <1>1
<1> QED BY <1>1, <1>2

LEMMA GatherFine ==
  ASSUME Shape, Control, NEW t \in Thread, BucketsStay(t), Gather(t)
  PROVE  Moves(t) /\ Fine(t)'
<1> USE DEF AtBucket, AtItem, InTopDown, InCodes, InBottomUp, InBlock, Finding, Owning,
            Helping, Linking, Deciding
<1> DEFINE u == my[t].j
           cand == IF dist[u] = Unset THEN Append(my[t].cand, u) ELSE my[t].cand
<1>0. /\ my \in [Thread -> ThreadShape] /\ Fine(t) /\ my[t].pc = "gather"
      /\ my[t].cand \in Seq(Vertex) /\ u \in Vertex /\ u \in Nat /\ InRange(t, u)
      /\ \A i \in 1 .. Len(my[t].cand) : InRange(t, my[t].cand[i])
 <2>1. my \in [Thread -> ThreadShape] /\ Fine(t) /\ my[t].pc = "gather"
   BY FineNow DEF Shape, Gather, At
 <2> QED BY <2>1, BlockVertex, ThreadFields DEF Fine, BlockEntries, At
<1>1. cand \in Seq(Vertex) /\ \A i \in 1 .. Len(cand) : InRange(t, cand[i])
 <2>1. CASE dist[u] = Unset
  <3>1. /\ cand = Append(my[t].cand, u) /\ cand \in Seq(Vertex)
        /\ Len(my[t].cand) \in Nat /\ Len(cand) = Len(my[t].cand) + 1
        /\ \A i \in 1 .. Len(my[t].cand) : cand[i] = my[t].cand[i]
        /\ cand[Len(my[t].cand) + 1] = u
    BY <1>0, <2>1
  <3> HIDE DEF cand
  <3> QED BY <1>0, <3>1
 <2>2. CASE dist[u] # Unset BY <1>0, <2>2
 <2> QED BY <2>1, <2>2
<1>2. \/ u + 1 < End(my[t].owner, my[t].item) /\ my' = [my EXCEPT ![t].cand = cand, ![t].j = @ + 1]
      \/ Test(t, cand)
  BY DEF Gather
<1> HIDE DEF cand
<1>3. CASE u + 1 < End(my[t].owner, my[t].item) /\ my' = [my EXCEPT ![t].cand = cand, ![t].j = @ + 1]
 <2>1. /\ Moves(t) /\ SameRound(t) /\ SameItems(t)
       /\ my'[t].pc = my[t].pc /\ my'[t].cand = cand /\ my'[t].j = my[t].j + 1
   BY <1>0, <1>1, <1>3, GatherMoves
 <2>2. /\ AtNode(t)' /\ NextKnown(t)' /\ Directed(t)' /\ Rounds(t)'
       /\ my'[t].owner = my[t].owner /\ my'[t].turn = my[t].turn
   BY <1>0, <2>1, RoundFine
 <2>3. my'[t].todo = my[t].todo /\ my'[t].item = my[t].item BY <2>1 DEF SameItems
 <2>4. Entries(t)' /\ CodeEntries(t)' BY <1>0, <2>1 DEF Entries, CodeEntries, At
 <2>5. BlockEntries(t)'
  <3>1. \A i \in 1 .. Len(my'[t].cand) : InRange(t, my[t].cand[i])'
    BY <1>1, <2>1, <2>2, <2>3 DEF InRange
  <3>2. InRange(t, my[t].j)'
   <4>1. my[t].owner \in Thread /\ my[t].item \in 1 .. Owned(my[t].owner) BY <1>0, BlockVertex
   <4>2. Begin(my[t].owner, my[t].item) \in Nat /\ End(my[t].owner, my[t].item) \in Nat
     BY <4>1, BlockRange
   <4>3. u + 1 \in Begin(my[t].owner, my[t].item) .. End(my[t].owner, my[t].item) - 1
     BY <1>0, <1>3, <4>2 DEF InRange
   <4> QED BY <2>1, <2>2, <2>3, <4>3 DEF InRange
  <3> QED BY <1>0, <2>1, <2>2, <2>3, <3>1, <3>2 DEF Fine, BlockEntries, At
 <2> QED BY <2>1, <2>2, <2>4, <2>5 DEF Fine
<1>4. CASE Test(t, cand) BY <1>0, <1>1, <1>4, TestFine
<1> QED BY <1>2, <1>3, <1>4

LEMMA CandidateFine ==
  ASSUME Shape, Control, NEW t \in Thread, BucketsStay(t), TestCandidate(t)
  PROVE  Moves(t) /\ Fine(t)'
<1> USE DEF AtBucket, AtItem, InTopDown, InCodes, InBottomUp, InBlock, Finding, Owning,
            Helping, Linking, Deciding
<1>0. /\ my \in [Thread -> ThreadShape] /\ Fine(t) /\ my[t].pc = "test"
      /\ adj[C(t)] \in Seq(Vertex) /\ my[t].j \in Nat
 <2>1. my \in [Thread -> ThreadShape] /\ Fine(t) /\ my[t].pc = "test"
   BY FineNow DEF Shape, TestCandidate, At
 <2> QED BY <2>1, BlockVertex, ThreadFields
<1>1. \/ my[t].j > Len(adj[C(t)]) /\ Test(t, Tail(my[t].cand))
      \/ ~(my[t].j > Len(adj[C(t)])) /\ Goto(t, "found")
      \/ ~(my[t].j > Len(adj[C(t)])) /\ my' = [my EXCEPT ![t].j = @ + 1]
  BY DEF TestCandidate
<1>2. CASE Test(t, Tail(my[t].cand))
 <2>1. /\ Tail(my[t].cand) \in Seq(Vertex)
       /\ \A i \in 1 .. Len(Tail(my[t].cand)) : InRange(t, Tail(my[t].cand)[i])
   BY <1>0, TailRange
 <2> QED BY <1>0, <1>2, <2>1, TestFine, Zenon
<1>3. CASE ~(my[t].j > Len(adj[C(t)])) /\ Goto(t, "found")
 <2>1. GoesOn(t, "found") BY <1>0, <1>3 DEF GoesOn, At
 <2> QED BY <1>3, <2>1, GotoFine
<1>4. CASE ~(my[t].j > Len(adj[C(t)])) /\ my' = [my EXCEPT ![t].j = @ + 1]
 <2>1. /\ Moves(t) /\ SameRound(t) /\ SameItems(t)
       /\ my'[t].pc = my[t].pc /\ my'[t].cand = my[t].cand /\ my'[t].j = my[t].j + 1
   BY <1>0, <1>4, CandidateMoves, Zenon
 <2>2. /\ AtNode(t)' /\ NextKnown(t)' /\ Directed(t)' /\ Rounds(t)'
       /\ my'[t].owner = my[t].owner /\ my'[t].turn = my[t].turn
   BY <1>0, <2>1, RoundFine
 <2>3. my'[t].todo = my[t].todo /\ my'[t].item = my[t].item /\ C(t)' = C(t) BY <2>1 DEF SameItems, C
 <2>4. Entries(t)' /\ CodeEntries(t)' BY <1>0, <2>1 DEF Entries, CodeEntries, At
 <2>5. my'[t].j \in 1 .. Len(adj[C(t)']) + 1 BY <1>0, <1>4, <2>1, <2>3
 <2>6. BlockEntries(t)'
  <3>1. \A i \in 1 .. Len(my'[t].cand) : InRange(t, my[t].cand[i])'
    BY <1>0, <2>1, <2>2, <2>3 DEF Fine, BlockEntries, InRange
  <3> QED BY <1>0, <2>1, <2>2, <2>3, <2>5, <3>1 DEF Fine, BlockEntries, At
 <2> QED BY <2>1, <2>2, <2>4, <2>6 DEF Fine
<1> QED BY <1>1, <1>2, <1>3, <1>4

LEMMA OwnProgressFine ==
  ASSUME Shape, Control, NEW t \in Thread, BucketsStay(t), OwnProgress(t)
  PROVE  Moves(t) /\ Fine(t)'
<1> USE DEF AtBucket, AtItem, InTopDown, InCodes, InBottomUp, InBlock, Finding, Owning,
            Helping, Linking, Deciding
<1>0. my \in [Thread -> ThreadShape] /\ my[t].pc = "own_progress" /\ Fine(t)
  BY FineNow DEF Shape, OwnProgress, At
<1>1. /\ Moves(t) /\ SameRound(t) /\ my'[t].cand = my[t].cand
      /\ my'[t].item = my[t].item + 1 /\ my'[t].pc = "own"
  BY <1>0, OwnProgressMoves DEF SameVertex
<1>2. Own(t)
 <2>1. my[t].turn = 0 BY <1>0 DEF Fine, Rounds
 <2> QED BY <1>0, <2>1, OwnTurn
<1>3. /\ AtNode(t)' /\ NextKnown(t)' /\ Directed(t)' /\ Rounds(t)'
      /\ my'[t].owner = my[t].owner
  BY <1>0, <1>1, <1>2, RoundFine
<1>4. my'[t].item \in 1 .. Owned(my'[t].owner) + 1
 <2>1. Owned(my[t].owner) \in Nat /\ my[t].item \in 1 .. Owned(my[t].owner)
   BY <1>0, ThreadFields, OwnedFacts DEF Fine, BlockEntries
 <2> QED BY <1>1, <1>3, <2>1
<1>5. Entries(t)' /\ CodeEntries(t)' BY <1>1 DEF Entries, CodeEntries, At
<1>6. BlockEntries(t)' BY <1>0, <1>1, <1>3, <1>4 DEF Fine, BlockEntries, At
<1> QED BY <1>1, <1>3, <1>5, <1>6 DEF Fine

LEMMA HelpStartFine ==
  ASSUME Shape, Control, NEW t \in Thread, BucketsStay(t), HelpStart(t)
  PROVE  Moves(t) /\ Fine(t)'
<1> USE DEF AtBucket, AtItem, InTopDown, InCodes, InBottomUp, InBlock, Finding, Owning,
            Helping, Linking, Deciding
<1>0. /\ my \in [Thread -> ThreadShape] /\ my[t].pc = "help_start" /\ Fine(t)
      /\ Entry(t).last_done \in Nat /\ Owned(my[t].owner) \in Nat
 <2>1. my \in [Thread -> ThreadShape] /\ my[t].pc = "help_start" /\ Fine(t)
   BY FineNow DEF Shape, HelpStart, At
 <2>2. Entry(t) \in OwnerType /\ my[t].owner \in Thread BY <2>1, Here DEF At
 <2> QED BY <2>1, <2>2, OwnerFields, OwnedFacts
<1>1. /\ Moves(t) /\ SameRound(t) /\ my'[t].cand = my[t].cand
      /\ my'[t].todo = Entry(t).last_done + 1 .. Owned(my[t].owner)
      /\ my'[t].pc = IF my'[t].todo = {} THEN "blocks_done" ELSE "block"
  BY <1>0, HelpStartMoves DEF SameVertex
<1>2. ~Own(t)
 <2>1. my[t].turn > 0 BY <1>0 DEF Fine, Rounds
 <2> QED BY <1>0, <2>1, OwnTurn
<1>3. my'[t].pc \in {"blocks_done", "block"} /\ (my'[t].pc = "block" => my'[t].todo # {}) BY <1>1
<1>4. /\ AtNode(t)' /\ NextKnown(t)' /\ Directed(t)' /\ Rounds(t)'
      /\ my'[t].owner = my[t].owner
  BY <1>0, <1>1, <1>2, <1>3, RoundFine
<1>5. my'[t].todo \subseteq 1 .. Owned(my'[t].owner) BY <1>0, <1>1, <1>4
<1>6. Entries(t)' /\ CodeEntries(t)' BY <1>3 DEF Entries, CodeEntries, At
<1>7. BlockEntries(t)' BY <1>0, <1>1, <1>3, <1>5 DEF Fine, BlockEntries, At
<1> QED BY <1>1, <1>4, <1>6, <1>7 DEF Fine

LEMMA HelpBlockFine ==
  ASSUME Shape, Control, NEW t \in Thread, BucketsStay(t), HelpBlock(t), ~Entry(t).done
  PROVE  Moves(t) /\ Fine(t)'
<1> USE DEF AtBucket, AtItem, InTopDown, InCodes, InBottomUp, InBlock, Finding, Owning,
            Helping, Linking, Deciding
<1>0. /\ my \in [Thread -> ThreadShape] /\ my[t].pc = "block" /\ Fine(t)
  BY FineNow DEF Shape, HelpBlock, At
<1>1. /\ Moves(t) /\ SameRound(t) /\ my'[t].cand = my[t].cand
      /\ my'[t].item \in my[t].todo /\ my'[t].todo = my[t].todo \ {my'[t].item}
      /\ my'[t].pc = "block_progress"
  BY <1>0, HelpBlockMoves DEF SameVertex
<1>2. ~Own(t) /\ my[t].todo \subseteq 1 .. Owned(my[t].owner)
 <2>1. my[t].turn > 0 /\ my[t].todo \subseteq 1 .. Owned(my[t].owner)
   BY <1>0 DEF Fine, Rounds, BlockEntries
 <2> QED BY <1>0, <2>1, OwnTurn
<1>3. /\ AtNode(t)' /\ NextKnown(t)' /\ Directed(t)' /\ Rounds(t)'
      /\ my'[t].owner = my[t].owner
  BY <1>0, <1>1, <1>2, RoundFine
<1>4. my'[t].todo \subseteq 1 .. Owned(my'[t].owner) /\ my'[t].item \in 1 .. Owned(my'[t].owner)
  BY <1>1, <1>2, <1>3
<1>5. Entries(t)' /\ CodeEntries(t)' BY <1>1 DEF Entries, CodeEntries, At
<1>6. BlockEntries(t)' BY <1>0, <1>1, <1>4 DEF Fine, BlockEntries, At
<1> QED BY <1>1, <1>3, <1>5, <1>6 DEF Fine

LEMMA AdvanceFine ==
  ASSUME Shape, Control, NEW t \in Thread, BucketsStay(t), Advance(t)
  PROVE  Moves(t) /\ Fine(t)'
<1> USE DEF AtBucket, AtItem, InTopDown, InCodes, InBottomUp, InBlock, Finding, Owning,
            Helping, Linking, Deciding
<1>0. my[t].pc = "advance" /\ Fine(t) /\ ~At(t, "returned") BY FineNow DEF Advance, At
<1>1. /\ Moves(t) /\ my'[t].curr = Curr(t).next
      /\ my'[t].next_is_null = TRUE /\ my'[t].turn = 0 /\ my'[t].cand = my[t].cand
      /\ my'[t].pc = IF Curr(t).next = None THEN "returned" ELSE "plan"
  BY AdvanceMoves, Zenon DEF SameVertex
<1>2. /\ Curr(t).next = IF Depth(t) + 1 < linked THEN Depth(t) + 1 ELSE None
      /\ Depth(t) \in 0 .. linked - 1 /\ linked' >= linked
      /\ linked \in Int /\ linked' \in Int
  BY <1>0, Here DEF BucketsStay, Shape
<1>3. AtNode(t)' /\ my'[t].pc \in {"returned", "plan"} BY <1>1, <1>2 DEF AtNode, At, Depth, None
<1>4. NextKnown(t)' /\ Directed(t)' BY <1>1, <1>3 DEF NextKnown, Directed, At
<1>5. Rounds(t)' /\ Entries(t)' /\ CodeEntries(t)'
  BY <1>1, <1>3 DEF Rounds, Entries, CodeEntries, At
<1>6. BlockEntries(t)' BY <1>0, <1>1, <1>3 DEF Fine, BlockEntries, At
<1> QED BY <1>1, <1>3, <1>4, <1>5, <1>6 DEF Fine

-----------------------------------------------------------------------------
(***************************************************************************)
(* What a step does to the nodes: the list and the buckets only grow, and  *)
(* the buckets of the level its thread is in stay.                         *)
(***************************************************************************)
Grows ==
  /\ node' \in [Node -> NodeShape]
  /\ linked' \in 1 .. MaxNode + 1 /\ linked <= linked'
  /\ \A d \in Node, o \in Thread :
       /\ Len(Bucket(d, o)) <= Len(Bucket(d, o)')
       /\ \A i \in 1 .. Len(Bucket(d, o)) : Bucket(d, o)'[i] = Bucket(d, o)[i]
  /\ OneList'

\* Proposals and decisions stay.
PlansKept ==
  \A d \in Node :
    /\ node'[d].plan_owner = node[d].plan_owner
    /\ \A o \in Thread : node'[d].owners[o].proposal = node[d].owners[o].proposal

LEMMA BucketType ==
  ASSUME Shape, NEW d \in Node, NEW o \in Thread
  PROVE  Bucket(d, o) \in Seq(Vertex) /\ Len(Bucket(d, o)) \in Nat
<1>1. node[d].owners[o] \in OwnerType BY NodeFields DEF Shape
<1>2. Bucket(d, o) \in Seq(Vertex) BY <1>1, OwnerFields DEF Bucket
<1> QED BY <1>2

LEMMA NodesSame ==
  ASSUME Shape, Control, UNCHANGED <<linked, node>>
  PROVE  Grows /\ PlansKept /\ \A t \in Thread : BucketsStay(t)
<1>1. linked \in 1 .. MaxNode + 1 /\ linked' = linked /\ node' = node /\ OneList /\ MaxNode \in Nat
  BY DirAssumption DEF Shape, Control
<1>2. linked \in Int /\ linked <= linked' BY <1>1
<1>3. OneList' BY <1>1 DEF OneList
<1>4. \A d \in Node, o \in Thread : Bucket(d, o)' = Bucket(d, o) /\ Len(Bucket(d, o)) \in Nat
  BY <1>1, BucketType DEF Bucket
<1>5. Grows
 <2>1. node' \in [Node -> NodeShape] BY <1>1 DEF Shape
 <2> QED BY <1>1, <1>2, <1>3, <1>4, <2>1 DEF Grows
<1>6. PlansKept BY <1>1 DEF PlansKept
<1>7. \A t \in Thread : BucketsStay(t) BY <1>1, <1>2 DEF BucketsStay, Curr
<1> QED BY <1>5, <1>6, <1>7

LEMMA OneEntry ==
  ASSUME Shape, Control, NEW d \in Node, NEW o \in Thread, NEW e \in OwnerType,
         OnlyEntry(d, o, e), UNCHANGED linked, e.bucket = Bucket(d, o)
  PROVE  /\ Grows
         /\ \A c \in Node, p \in Thread : Bucket(c, p)' = Bucket(c, p)
         /\ \A t \in Thread : ~At(t, "returned") => BucketsStay(t)
         /\ e.proposal = node[d].owners[o].proposal => PlansKept
<1>1. linked \in 1 .. MaxNode + 1 /\ linked' = linked /\ OneList /\ MaxNode \in Nat
  BY DirAssumption DEF Shape, Control
<1>2. linked \in Int /\ linked <= linked' BY <1>1
<1>3. OneList' BY <1>1 DEF OneList, OnlyEntry
<1>4. \A c \in Node, p \in Thread : Bucket(c, p)' = Bucket(c, p) /\ Len(Bucket(c, p)) \in Nat
  BY BucketType DEF Bucket, OnlyEntry
<1>5. Grows BY <1>1, <1>2, <1>3, <1>4 DEF Grows, OnlyEntry
<1>6. ASSUME NEW t \in Thread, ~At(t, "returned") PROVE BucketsStay(t)
 <2>1. Depth(t) \in Node BY <1>6, Here
 <2> QED BY <1>1, <1>2, <1>4, <2>1 DEF BucketsStay, Curr, Bucket
<1>7. ASSUME e.proposal = node[d].owners[o].proposal PROVE PlansKept
  BY <1>7 DEF PlansKept, OnlyEntry
<1> QED BY <1>4, <1>5, <1>6, <1>7

LEMMA EntryGrows ==
  ASSUME Shape, Control, NEW t \in Thread, ~At(t, "returned"), NEW e \in OwnerType, SetEntry(t, e),
         e.bucket = Entry(t).bucket, e.proposal = Entry(t).proposal, UNCHANGED linked
  PROVE  Grows /\ PlansKept /\ BucketsStay(t)
<1>1. Depth(t) \in Node /\ my[t].owner \in Thread BY Here
<1>2. OnlyEntry(Depth(t), my[t].owner, e) BY EntryWrites
<1>3. e.bucket = Bucket(Depth(t), my[t].owner)
      /\ e.proposal = node[Depth(t)].owners[my[t].owner].proposal
  BY DEF Bucket, Entry, Curr
<1> QED BY <1>1, <1>2, <1>3, OneEntry

LEMMA PushGrows ==
  ASSUME Shape, Control, NEW t \in Thread, NEW v \in Vertex, Push(t, v),
         ~At(t, "returned"), Depth(t) + 1 < linked, UNCHANGED linked
  PROVE  /\ Grows /\ PlansKept /\ BucketsStay(t) /\ Depth(t) + 1 \in Node
         /\ \A c \in Node, p \in Thread :
              IF c = Depth(t) + 1 /\ p = t
              THEN Bucket(c, p)' = Append(Bucket(c, p), v)
              ELSE Bucket(c, p)' = Bucket(c, p)
         /\ \A c \in Node, p \in Thread : SameMarks(node'[c].owners[p], node[c].owners[p])
<1>1. PICK d \in Node : d = Depth(t) + 1 BY PushWrites, Zenon
<1> DEFINE e == node[d].owners[t]
           f == [e EXCEPT !.bucket = Append(e.bucket, v)]
<1>2. OnlyEntry(d, t, f) /\ d # Depth(t) /\ Depth(t) \in Node
 <2>1. OnlyEntry(d, t, f) BY <1>1, PushWrites, Zenon
 <2>2. Depth(t) \in Node /\ Depth(t) \in Int BY Here DEF Node
 <2> QED BY <1>1, <2>1, <2>2
<1>3. f.bucket = Append(Bucket(d, t), v) /\ f.proposal = e.proposal /\ SameMarks(f, e)
 <2>1. e \in OwnerType BY NodeFields DEF Shape
 <2> QED BY <2>1, Zenon DEF OwnerType, Bucket, SameMarks
<1> HIDE DEF f
<1>4. linked \in 1 .. MaxNode + 1 /\ linked' = linked /\ OneList /\ MaxNode \in Nat
  BY DirAssumption DEF Shape, Control
<1>5. linked \in Int /\ linked <= linked' BY <1>4
<1>6. OneList' BY <1>2, <1>4 DEF OneList, OnlyEntry
<1>7. /\ Bucket(d, t)' = Append(Bucket(d, t), v)
      /\ \A c \in Node, p \in Thread : c # d \/ p # t => Bucket(c, p)' = Bucket(c, p)
 <2>1. node'[d].owners[t] = f BY <1>2 DEF OnlyEntry
 <2>2. Bucket(d, t)' = Append(Bucket(d, t), v) BY <1>3, <2>1 DEF Bucket
 <2>3. \A c \in Node, p \in Thread : c # d \/ p # t => Bucket(c, p)' = Bucket(c, p)
   BY <1>2 DEF Bucket, OnlyEntry
 <2> QED BY <2>2, <2>3
<1>8. \A c \in Node, p \in Thread :
        /\ Len(Bucket(c, p)) <= Len(Bucket(c, p)')
        /\ \A i \in 1 .. Len(Bucket(c, p)) : Bucket(c, p)'[i] = Bucket(c, p)[i]
 <2>1. TAKE c \in Node, p \in Thread
 <2>2. Bucket(c, p) \in Seq(Vertex) /\ Len(Bucket(c, p)) \in Nat BY BucketType
 <2>3. CASE c = d /\ p = t
  <3>1. Bucket(c, p)' = Append(Bucket(c, p), v) BY <1>7, <2>3
  <3>2. /\ Len(Bucket(c, p)) <= Len(Append(Bucket(c, p), v))
        /\ \A i \in 1 .. Len(Bucket(c, p)) : Append(Bucket(c, p), v)[i] = Bucket(c, p)[i]
    BY <2>2
  <3> QED BY <3>1, <3>2
 <2>4. CASE c # d \/ p # t BY <1>7, <2>2, <2>4
 <2> QED BY <2>3, <2>4
<1>9. Grows BY <1>2, <1>4, <1>5, <1>6, <1>8 DEF Grows, OnlyEntry
<1>10. PlansKept BY <1>2, <1>3 DEF PlansKept, OnlyEntry
<1>11. BucketsStay(t) BY <1>2, <1>4, <1>5, <1>7 DEF BucketsStay, Curr, Bucket
<1>12. \A c \in Node, p \in Thread : SameMarks(node'[c].owners[p], node[c].owners[p])
  BY <1>2, <1>3 DEF OnlyEntry, SameMarks
<1> QED BY <1>1, <1>7, <1>9, <1>10, <1>11, <1>12

LEMMA LinkGrows ==
  ASSUME Shape, Control, NEW t \in Thread, AddNode(t)
  PROVE  /\ Grows /\ PlansKept /\ BucketsStay(t) /\ Depth(t) + 1 < linked'
         /\ \A c \in Node, p \in Thread : node'[c].owners[p] = node[c].owners[p]
<1>0. /\ Depth(t) \in Node /\ Depth(t) \in 0 .. linked - 1 /\ linked \in 1 .. MaxNode + 1
      /\ Curr(t).next = IF Depth(t) + 1 < linked THEN Depth(t) + 1 ELSE None
      /\ MaxNode \in Nat /\ OneList
  BY Here, DirAssumption DEF AddNode, At, Shape, Control
<1>1. CASE Curr(t).next = None
 <2>1. /\ node' \in [Node -> NodeShape] /\ linked' = linked + 1 /\ linked = Depth(t) + 1
       /\ linked' \in 1 .. MaxNode + 1
       /\ \A d \in Node : /\ node'[d].plan_owner = node[d].plan_owner
                          /\ node'[d].owners = node[d].owners
       /\ \A d \in Node : d # Depth(t) => node'[d].next = node[d].next
       /\ node'[Depth(t)].next = linked
   BY <1>1, LinkWrites
 <2>2. \A c \in Node, p \in Thread : Bucket(c, p)' = Bucket(c, p) /\ Len(Bucket(c, p)) \in Nat
   BY <2>1, BucketType DEF Bucket
 <2>3. OneList'
  <3>1. ASSUME NEW d \in Node PROVE node'[d].next = IF d + 1 < linked' THEN d + 1 ELSE None
   <4>1. CASE d = Depth(t) BY <1>0, <2>1, <4>1
   <4>2. CASE d # Depth(t)
    <5>1. node'[d].next = IF d + 1 < linked THEN d + 1 ELSE None BY <1>0, <2>1, <4>2 DEF OneList
    <5>2. d \in Int /\ (d + 1 < linked <=> d + 1 < linked') BY <1>0, <2>1, <4>2 DEF Node
    <5> QED BY <5>1, <5>2
   <4> QED BY <4>1, <4>2
  <3> QED BY <3>1 DEF OneList
 <2>4. linked \in Int /\ linked' \in Int /\ linked <= linked' /\ Depth(t) + 1 < linked'
   BY <1>0, <2>1
 <2>5. Grows BY <2>1, <2>2, <2>3, <2>4 DEF Grows
 <2>6. PlansKept BY <2>1 DEF PlansKept
 <2>7. BucketsStay(t) BY <1>0, <2>1, <2>4 DEF BucketsStay, Curr
 <2> QED BY <2>1, <2>4, <2>5, <2>6, <2>7
<1>2. CASE Curr(t).next # None
 <2>1. UNCHANGED <<node, linked>> BY <1>2 DEF AddNode
 <2>2. Depth(t) + 1 < linked' BY <1>0, <1>2, <2>1
 <2> QED BY <2>1, <2>2, NodesSame
<1> QED BY <1>1, <1>2

LEMMA ProposeGrows ==
  ASSUME Shape, Control, NEW t \in Thread, Propose(t)
  PROVE  /\ Grows /\ BucketsStay(t)
         /\ \A d \in Node : node'[d].plan_owner = node[d].plan_owner
         /\ \A d \in Node, o \in Thread : d # Depth(t) \/ o # t =>
              node'[d].owners[o].proposal = node[d].owners[o].proposal
         /\ \E direction \in {"top_down", "bottom_up"} :
              node'[Depth(t)].owners[t].proposal = AssignCode(my[t].plan, direction)
         /\ \A d \in Node, o \in Thread : SameMarks(node'[d].owners[o], node[d].owners[o])
         /\ \A d \in Node, o \in Thread : Bucket(d, o)' = Bucket(d, o)
<1>0. Depth(t) \in Node /\ ~At(t, "returned") /\ Curr(t).owners[t] \in OwnerType
      /\ UNCHANGED linked
  BY Here DEF Propose, At
<1>1. PICK direction \in Directions(t) :
         /\ OnlyEntry(Depth(t), t,
              [Curr(t).owners[t] EXCEPT !.proposal = AssignCode(my[t].plan, direction)])
         /\ AssignCode(my[t].plan, direction) \in PlanType
         /\ direction \in {"top_down", "bottom_up"}
  BY ProposeWrites
<1> DEFINE p == AssignCode(my[t].plan, direction)
           f == Curr(t).owners[t]
           e == [f EXCEPT !.proposal = p]
<1>2. OnlyEntry(Depth(t), t, e) /\ p \in PlanType BY <1>1
<1> HIDE DEF p
<1>3. e \in OwnerType /\ e.bucket = f.bucket /\ e.proposal = p /\ SameMarks(e, f)
  BY <1>0, <1>2 DEF OwnerType, SameMarks
<1> HIDE DEF e
<1>4. e.bucket = Bucket(Depth(t), t) BY <1>3 DEF Bucket, Curr
<1>5. Grows /\ BucketsStay(t) /\ \A d \in Node, o \in Thread : Bucket(d, o)' = Bucket(d, o)
  BY <1>0, <1>2, <1>3, <1>4, OneEntry
<1>6. \A d \in Node, o \in Thread : SameMarks(node'[d].owners[o], node[d].owners[o])
 <2>1. SUFFICES ASSUME NEW d \in Node, NEW o \in Thread
                PROVE  SameMarks(node'[d].owners[o], node[d].owners[o])
   OBVIOUS
 <2>2. CASE d = Depth(t) /\ o = t BY <1>2, <1>3, <2>2 DEF OnlyEntry, Curr
 <2>3. CASE d # Depth(t) \/ o # t BY <1>2, <2>3 DEF OnlyEntry, SameMarks
 <2> QED BY <2>2, <2>3
<1> QED BY <1>1, <1>2, <1>3, <1>5, <1>6 DEF OnlyEntry, p

LEMMA ClaimGrows ==
  ASSUME Shape, Control, NEW t \in Thread, Claim(t)
  PROVE  /\ Grows /\ BucketsStay(t)
         /\ \A d \in Node, o \in Thread : SameMarks(node'[d].owners[o], node[d].owners[o])
         /\ \A d \in Node, o \in Thread : Bucket(d, o)' = Bucket(d, o)
         /\ \A d \in Node : d # Depth(t) => node'[d].plan_owner = node[d].plan_owner
         /\ \A d \in Node, o \in Thread : d # Depth(t) \/ o # t =>
              node'[d].owners[o].proposal = node[d].owners[o].proposal
         /\ Curr(t).plan_owner = None =>
              /\ node'[Depth(t)].plan_owner = t
              /\ node'[Depth(t)].owners[t].proposal = Curr(t).owners[t].proposal
         /\ Curr(t).plan_owner # None => node'[Depth(t)].plan_owner = Curr(t).plan_owner
<1>0. Depth(t) \in Node /\ ~At(t, "returned") /\ Curr(t).owners[t] \in OwnerType
      /\ UNCHANGED linked
  BY Here DEF Claim, At
<1>1. CASE Curr(t).plan_owner = None
 <2>1. /\ node' \in [Node -> NodeShape]
       /\ \A d \in Node : node'[d].next = node[d].next /\ node'[d].owners = node[d].owners
       /\ \A d \in Node : d # Depth(t) => node'[d].plan_owner = node[d].plan_owner
       /\ node'[Depth(t)].plan_owner = t
   BY <1>1, WinnerWrites
 <2>2. \A d \in Node, o \in Thread : Bucket(d, o)' = Bucket(d, o) /\ Len(Bucket(d, o)) \in Nat
   BY <2>1, BucketType DEF Bucket
 <2>3. OneList' /\ linked \in 1 .. MaxNode + 1 /\ MaxNode \in Nat /\ linked' = linked
   BY <1>0, <2>1, DirAssumption DEF Control, OneList, Shape
 <2>4. linked \in Int /\ linked <= linked' BY <2>3
 <2>5. Grows BY <2>1, <2>2, <2>3, <2>4 DEF Grows
 <2>6. BucketsStay(t) BY <1>0, <2>1, <2>3, <2>4 DEF BucketsStay, Curr
 <2>7. \A d \in Node, o \in Thread : SameMarks(node'[d].owners[o], node[d].owners[o])
   BY <2>1 DEF SameMarks
 <2> QED BY <1>0, <1>1, <2>1, <2>2, <2>5, <2>6, <2>7 DEF Curr
<1>2. CASE Curr(t).plan_owner # None
 <2> DEFINE f == Curr(t).owners[t]
            e == [f EXCEPT !.proposal = FirstPlan]
 <2>1. OnlyEntry(Depth(t), t, e) BY <1>2, LoserWrites
 <2>2. e \in OwnerType /\ e.bucket = f.bucket /\ SameMarks(e, f)
   BY <1>0, FirstPlanType DEF OwnerType, SameMarks
 <2> HIDE DEF e
 <2>3. e.bucket = Bucket(Depth(t), t) BY <2>2 DEF Bucket, Curr
 <2>4. Grows /\ BucketsStay(t) /\ \A d \in Node, o \in Thread : Bucket(d, o)' = Bucket(d, o)
   BY <1>0, <2>1, <2>2, <2>3, OneEntry
 <2>5. \A d \in Node, o \in Thread : SameMarks(node'[d].owners[o], node[d].owners[o])
  <3>1. SUFFICES ASSUME NEW d \in Node, NEW o \in Thread
                 PROVE  SameMarks(node'[d].owners[o], node[d].owners[o])
    OBVIOUS
  <3>2. CASE d = Depth(t) /\ o = t BY <2>1, <2>2, <3>2 DEF OnlyEntry, Curr
  <3>3. CASE d # Depth(t) \/ o # t BY <2>1, <3>3 DEF OnlyEntry, SameMarks
  <3> QED BY <3>2, <3>3
 <2> QED BY <1>0, <1>2, <2>1, <2>4, <2>5 DEF OnlyEntry, Curr
<1> QED BY <1>1, <1>2

-----------------------------------------------------------------------------
(***************************************************************************)
(* What a step within a level does.                                        *)
(***************************************************************************)
Work(t) ==
  /\ Moves(t) /\ Fine(t)' /\ Grows /\ BucketsStay(t) /\ PlansKept /\ SameLevel(t)
  /\ my[t].pc \notin Deciding \cup {"returned"}
  /\ my'[t].pc \notin Deciding \cup {"returned"}

LEMMA GotoWork ==
  ASSUME Shape, Control, NEW t \in Thread, Grows, BucketsStay(t), PlansKept,
         NEW l, Goto(t, l), GoesOn(t, l), my[t].pc \notin Deciding
  PROVE  Work(t)
<1>1. /\ l \in Labels /\ l \notin Deciding \cup {"returned"} /\ my[t].pc # "returned"
      /\ my \in [Thread -> ThreadShape]
  BY DEF GoesOn, At, Labels, Deciding, Shape
<1>2. Moves(t) /\ Fine(t)' BY GotoFine
<1>3. SameLevel(t) /\ my'[t].pc = l BY <1>1, GotoMoves DEF SameRound
<1> QED BY <1>1, <1>2, <1>3 DEF Work

LEMMA NextOwnerWork ==
  ASSUME Shape, Control, NEW t \in Thread, Grows, BucketsStay(t), PlansKept,
         \/ my[t].pc \in InTopDown /\ NextOwner(t, "done", "advance")
         \/ my[t].pc \in Helping \cup {"blocks_done"} /\ NextOwner(t, "help", "advance")
  PROVE  Work(t)
<1> USE DEF AtBucket, AtItem, InTopDown, InCodes, InBottomUp, InBlock, Finding, Owning,
            Helping, Linking, Deciding
<1>1. /\ my \in [Thread -> ThreadShape] /\ ~At(t, "returned") /\ Fine(t)
      /\ my[t].pc \notin Deciding \cup {"returned", "advance"}
      /\ my[t].turn < NumT /\ my[t].owner = Turn(t, my[t].turn)
  BY FineNow, OwnTurn DEF Shape, At
<1>2. my[t].cand = <<>> BY <1>1 DEF Fine, BlockEntries
<1>3. PICK a \in {"done", "help"} :
        /\ NextOwner(t, a, "advance")
        /\ a = "done" => my[t].pc \in InTopDown
        /\ a = "help" => my[t].pc \in Helping \cup {"blocks_done"}
  OBVIOUS
<1>4. /\ a = "done" => TopDownLevel(t)
      /\ a = "help" => ~TopDownLevel(t) /\ Depth(t) + 1 < linked
  BY <1>1, <1>3 DEF Fine, Directed, NextKnown
<1>5. Moves(t) /\ Fine(t)'
 <2> DEFINE b == "advance"
 <2>1. /\ a \in {"done", "help", "codes"} /\ b \in {"advance", "codes"}
       /\ NextOwner(t, a, b) /\ b # "codes" /\ a # "codes"
   BY <1>3
 <2> HIDE DEF b
 <2> QED BY <1>1, <1>2, <1>4, <2>1, NextOwnerFine
<1>6. SameLevel(t) /\ my'[t].pc \in {a, "advance"}
 <2>1. a \in Labels /\ "advance" \in Labels BY DEF Labels
 <2> QED BY <1>1, <1>3, <2>1, NextOwnerMoves
<1> QED BY <1>1, <1>5, <1>6 DEF Work

LEMMA FinishedEntry ==
  ASSUME Shape, Control, NEW t \in Thread, ~At(t, "returned"), UNCHANGED linked,
         \/ SetEntry(t, [Entry(t) EXCEPT !.last_done = my[t].item])
         \/ SetEntry(t, [Entry(t) EXCEPT !.done = TRUE])
         \/ SetEntry(t, [Entry(t) EXCEPT !.codes_last_done = my[t].item])
         \/ SetEntry(t, [Entry(t) EXCEPT !.codes_done = TRUE])
  PROVE  Grows /\ PlansKept /\ BucketsStay(t)
<1>1. Entry(t) \in OwnerType /\ my[t].item \in Nat BY Here, ThreadFields DEF Shape
<1>2. PICK e \in OwnerType :
        SetEntry(t, e) /\ e.bucket = Entry(t).bucket /\ e.proposal = Entry(t).proposal
 <2> DEFINE f == Entry(t)
            i == my[t].item
 <2>1. f \in OwnerType /\ i \in Nat BY <1>1
 <2>2. \/ SetEntry(t, [f EXCEPT !.last_done = i])
       \/ SetEntry(t, [f EXCEPT !.done = TRUE])
       \/ SetEntry(t, [f EXCEPT !.codes_last_done = i])
       \/ SetEntry(t, [f EXCEPT !.codes_done = TRUE])
   OBVIOUS
 <2> SUFFICES \E e \in OwnerType :
                SetEntry(t, e) /\ e.bucket = f.bucket /\ e.proposal = f.proposal
   OBVIOUS
 <2> HIDE DEF f, i
 <2>3. ASSUME NEW e, e \in {[f EXCEPT !.last_done = i], [f EXCEPT !.done = TRUE],
                            [f EXCEPT !.codes_last_done = i], [f EXCEPT !.codes_done = TRUE]}
       PROVE  e \in OwnerType /\ e.bucket = f.bucket /\ e.proposal = f.proposal
   BY <2>1, <2>3, Zenon DEF OwnerType
 <2> QED BY <2>2, <2>3
<1> QED BY <1>2, EntryGrows

-----------------------------------------------------------------------------

LEMMA LookWork ==
  ASSUME Shape, Control, NEW t \in Thread, UNCHANGED memory,
         \/ TestDone(t) \/ TestSize(t) \/ TestCodesDone(t) \/ OwnBlock(t) \/ Help(t)
         \/ TestProgress(t) \/ TestStamp(t) \/ OwnStamp(t)
  PROVE  Work(t)
<1> USE DEF AtBucket, AtItem, InTopDown, InCodes, InBottomUp, InBlock, Finding, Owning,
            Helping, Linking, Deciding
<1>0. Grows /\ BucketsStay(t) /\ PlansKept /\ my \in [Thread -> ThreadShape]
  BY NodesSame DEF memory, Shape
<1>1. CASE TestDone(t)
 <2>0. my[t].pc = "done" BY <1>1 DEF TestDone, At
 <2>1. CASE NextOwner(t, "done", "advance") BY <1>0, <2>0, <2>1, NextOwnerWork
 <2>2. CASE Goto(t, "size")
  <3>1. GoesOn(t, "size") BY <2>0 DEF GoesOn, At
  <3> QED BY <1>0, <2>0, <2>2, <3>1, GotoWork
 <2> QED BY <1>1, <2>1, <2>2 DEF TestDone
<1>2. CASE TestSize(t)
 <2>0. my[t].pc = "size" BY <1>2 DEF TestSize, At
 <2>1. CASE NextOwner(t, "done", "advance") BY <1>0, <2>0, <2>1, NextOwnerWork
 <2>2. CASE Entry(t).bucket # <<>> /\ Goto(t, IF my[t].next_is_null THEN "next" ELSE "load")
  <3> DEFINE l == IF my[t].next_is_null THEN "next" ELSE "load"
  <3>0. l = "next" \/ (l = "load" /\ ~my[t].next_is_null) OBVIOUS
  <3>1. Goto(t, l) BY <2>2
  <3> HIDE DEF l
  <3>2. GoesOn(t, l) BY <2>0, <2>2, <3>0 DEF GoesOn, At
  <3> QED BY <1>0, <2>0, <3>1, <3>2, GotoWork
 <2> QED BY <1>2, <2>1, <2>2 DEF TestSize
<1>3. CASE TestCodesDone(t)
 <2>0. my[t].pc = "codes" BY <1>3 DEF TestCodesDone, At
 <2>1. CASE NextCodes(t)
  <3>1. Moves(t) /\ Fine(t)' BY <1>0, <2>0, <2>1, NextCodesFine
  <3>2. SameLevel(t) /\ my'[t].pc \in {"codes", "own"}
   <4>1. my[t].turn \in 0 .. NumT /\ my[t].turn < NumT /\ NumT \in Nat BY <2>0, OwnTurn, ThreadTypes
   <4> QED BY <1>0, <2>1, <4>1, NextCodesMoves
  <3> QED BY <1>0, <2>0, <3>1, <3>2 DEF Work
 <2>2. CASE Goto(t, "codes_size")
  <3>1. GoesOn(t, "codes_size") BY <2>0 DEF GoesOn, At
  <3> QED BY <1>0, <2>0, <2>2, <3>1, GotoWork
 <2> QED BY <1>3, <2>1, <2>2 DEF TestCodesDone
<1>4. CASE OwnBlock(t)
 <2>0. my[t].pc = "own" BY <1>4 DEF OwnBlock, At
 <2>1. my[t].owner = t
  <3>1. my[t].turn = 0 BY <2>0 DEF Control, Rounds
  <3> QED BY <2>0, <3>1, OwnTurn DEF Own
 <2> DEFINE l == IF my[t].item > Owned(t) \/ Entry(t).done THEN "blocks_done" ELSE "own_stamp"
 <2>2. Goto(t, l) BY <1>4 DEF OwnBlock
 <2>4. l = "blocks_done" \/ (l = "own_stamp" /\ ~(my[t].item > Owned(t))) OBVIOUS
 <2> HIDE DEF l
 <2>3. GoesOn(t, l) BY <2>0, <2>1, <2>4 DEF GoesOn, At
 <2> QED BY <1>0, <2>0, <2>2, <2>3, GotoWork
<1>5. CASE Help(t)
 <2>0. my[t].pc = "help" BY <1>5 DEF Help, At
 <2>1. CASE NextOwner(t, "help", "advance") BY <1>0, <2>0, <2>1, NextOwnerWork
 <2>2. CASE Goto(t, "help_start")
  <3>1. GoesOn(t, "help_start") BY <2>0 DEF GoesOn, At
  <3> QED BY <1>0, <2>0, <2>2, <3>1, GotoWork
 <2> QED BY <1>5, <2>1, <2>2 DEF Help
<1>6. CASE TestProgress(t)
 <2>0. my[t].pc = "block_progress" BY <1>6 DEF TestProgress, At
 <2> DEFINE l == IF my[t].todo = {} THEN "blocks_done" ELSE "block"
 <2>1. Goto(t, "block_stamp") \/ Goto(t, l) BY <1>6 DEF TestProgress, NextBlock
 <2>2. l = "blocks_done" \/ (l = "block" /\ my[t].todo # {}) OBVIOUS
 <2> HIDE DEF l
 <2>3. GoesOn(t, l) /\ GoesOn(t, "block_stamp") BY <2>0, <2>2 DEF GoesOn, At
 <2>4. ASSUME NEW m \in {l, "block_stamp"}, Goto(t, m) PROVE Work(t)
  <3>1. GoesOn(t, m) BY <2>3
  <3> QED BY <1>0, <2>0, <2>4, <3>1, GotoWork
 <2> QED BY <2>1, <2>4
<1>7. CASE TestStamp(t) \/ OwnStamp(t)
 <2>0. my[t].pc \in {"block_stamp", "own_stamp"} BY <1>7 DEF TestStamp, OwnStamp, At
 <2>1. CASE Scan(t)
  <3>1. Moves(t) /\ Fine(t)' BY <1>0, <2>0, <2>1, ScanFine
  <3>2. Begin(my[t].owner, my[t].item) \in Nat
   <4>1. my[t].owner \in Thread /\ my[t].item \in 1 .. Owned(my[t].owner)
     BY <1>0, <2>0, ThreadFields DEF Control, BlockEntries
   <4> QED BY <4>1, BlockRange
  <3>3. SameLevel(t) /\ my'[t].pc = "gather" BY <1>0, <2>1, <3>2, ScanMoves DEF SameRound
  <3> QED BY <1>0, <2>0, <3>1, <3>3 DEF Work
 <2>2. CASE my[t].pc = "block_stamp" /\ NextBlock(t)
  <3> DEFINE l == IF my[t].todo = {} THEN "blocks_done" ELSE "block"
  <3>0. l = "blocks_done" \/ (l = "block" /\ my[t].todo # {}) OBVIOUS
  <3>1. Goto(t, l) BY <2>2 DEF NextBlock
  <3> HIDE DEF l
  <3>2. GoesOn(t, l) BY <2>0, <2>2, <3>0 DEF GoesOn, At
  <3> QED BY <1>0, <2>0, <3>1, <3>2, GotoWork
 <2>3. CASE my[t].pc = "own_stamp" /\ Goto(t, "own_progress")
  <3>1. GoesOn(t, "own_progress") BY <2>0, <2>3 DEF GoesOn, At
  <3> QED BY <1>0, <2>0, <2>3, <3>1, GotoWork
 <2> QED BY <1>7, <2>1, <2>2, <2>3 DEF TestStamp, OwnStamp, At
<1> QED BY <1>1, <1>2, <1>3, <1>4, <1>5, <1>6, <1>7

LEMMA ReadWork ==
  ASSUME Shape, Control, NEW t \in Thread, UNCHANGED memory,
         \/ TestNext(t) \/ LoadBucket(t) \/ StartHelping(t) \/ TakeEntry(t) \/ ReadDist(t)
         \/ TestNeighbor(t) \/ CodesSize(t) \/ CodesStart(t) \/ HelpStart(t) \/ HelpBlock(t)
  PROVE  Work(t)
<1> USE DEF AtBucket, AtItem, InTopDown, InCodes, InBottomUp, InBlock, Finding, Owning,
            Helping, Linking, Deciding
<1>0. Grows /\ BucketsStay(t) /\ PlansKept /\ my \in [Thread -> ThreadShape] /\ linked' = linked
      /\ Fine(t)
  BY NodesSame, FineNow DEF memory, Shape
<1>1. CASE TestNext(t)
 <2>0. my[t].pc = "next" BY <1>1 DEF TestNext, At
 <2>1. CASE Goto(t, "link")
  <3>1. GoesOn(t, "link") BY <2>0 DEF GoesOn, At
  <3> QED BY <1>0, <2>0, <2>1, <3>1, GotoWork
 <2>2. CASE Curr(t).next # None /\ Linked(t)
  <3>1. Depth(t) + 1 < linked' BY <1>0, <2>0, <2>2, Here DEF At
  <3>2. Moves(t) /\ Fine(t)' BY <1>0, <2>0, <2>2, <3>1, LinkedFine
  <3>3. SameLevel(t) /\ my'[t].pc \in {"load", "codes", "own"} BY <1>0, <2>2, LinkedMoves, Zenon
  <3> QED BY <1>0, <2>0, <3>2, <3>3 DEF Work
 <2> QED BY <1>1, <2>1, <2>2 DEF TestNext
<1>2. CASE LoadBucket(t)
 <2>1. Moves(t) /\ Fine(t)' BY <1>0, <1>2, LoadFine
 <2>2. SameLevel(t) /\ my[t].pc = "load" /\ my'[t].pc \in {"entry", "start"}
   BY <1>2, LoadMoves DEF LoadBucket, At, SameRound
 <2> QED BY <1>0, <2>1, <2>2 DEF Work
<1>3. CASE StartHelping(t)
 <2>0. my[t].pc = "start" /\ Entry(t).last_done \in Nat
  <3>1. my[t].pc = "start" BY <1>3 DEF StartHelping, At
  <3>2. Entry(t) \in OwnerType BY <3>1, Here DEF At
  <3> QED BY <3>1, <3>2, OwnerFields
 <2>1. Moves(t) /\ Fine(t)' BY <1>0, <1>3, StartFine
 <2>2. SameLevel(t) /\ my'[t].pc \in {"entry", "finish"}
   BY <1>0, <1>3, <2>0, StartMoves DEF SameRound
 <2> QED BY <1>0, <2>0, <2>1, <2>2 DEF Work
<1>4. CASE TakeEntry(t)
 <2>1. Moves(t) /\ Fine(t)' BY <1>0, <1>4, TakeFine
 <2>2. /\ SameLevel(t) /\ my[t].pc = "entry"
       /\ my'[t].pc \in {"du", "progress", "entry", "finish"}
   BY <1>0, <1>4, TakeMoves DEF TakeEntry, At, SameRound
 <2> QED BY <1>0, <2>1, <2>2 DEF Work
<1>5. CASE ReadDist(t)
 <2>0. my[t].pc = "du" /\ dist[U(t)] \in Int /\ Len(adj[U(t)]) \in Nat
  <3>1. my[t].pc = "du" BY <1>5 DEF ReadDist, At
  <3>2. U(t) \in Vertex BY <3>1, ItemVertex
  <3> QED BY <3>1, <3>2, GraphAssumption DEF Shape
 <2>1. /\ Moves(t) /\ SameRound(t) /\ SameItems(t)
       /\ my'[t].j = 1 /\ my'[t].cand = my[t].cand
       /\ my'[t].pc = IF 1 <= Len(adj[U(t)]) THEN "neighbor" ELSE "vis"
   BY <1>0, <1>5, <2>0, ReadMoves
 <2>2. Fine(t)'
  <3> DEFINE p == 1
  <3>1. /\ p \in 1 .. Len(adj[U(t)]) + 1 /\ my'[t].j = p
        /\ my'[t].pc = IF p <= Len(adj[U(t)]) THEN "neighbor" ELSE "vis"
    BY <2>0, <2>1
  <3> HIDE DEF p
  <3> QED BY <1>0, <2>0, <2>1, <3>1, NeighborFine
 <2> QED BY <1>0, <2>0, <2>1, <2>2 DEF Work, SameRound
<1>6. CASE TestNeighbor(t)
 <2>0. my[t].pc = "neighbor" BY <1>6 DEF TestNeighbor, At
 <2>1. CASE Goto(t, "push")
  <3>1. GoesOn(t, "push") BY <2>0 DEF GoesOn, At
  <3> QED BY <1>0, <2>0, <2>1, <3>1, GotoWork
 <2>2. CASE my' = FromNeighbor(t, my[t].j + 1)
  <3>1. my[t].j \in 1 .. Len(adj[U(t)]) /\ Len(adj[U(t)]) \in Nat
   <4>1. my[t].j \in 1 .. Len(adj[U(t)]) /\ adj[U(t)] \in Seq(Vertex) BY <2>0, ItemVertex
   <4> QED BY <4>1
  <3> DEFINE p == my[t].j + 1
  <3>2. p \in 1 .. Len(adj[U(t)]) + 1 /\ p \in Nat /\ my' = FromNeighbor(t, p) BY <2>2, <3>1
  <3> HIDE DEF p
  <3>3. /\ Moves(t) /\ SameRound(t) /\ SameItems(t)
        /\ my'[t].j = p /\ my'[t].cand = my[t].cand
        /\ my'[t].pc = IF p <= Len(adj[U(t)]) THEN "neighbor" ELSE "vis"
    BY <1>0, <3>2, NextNeighborMoves
  <3>4. Fine(t)' BY <1>0, <2>0, <3>2, <3>3, NeighborFine
  <3> QED BY <1>0, <2>0, <3>3, <3>4 DEF Work, SameRound
 <2> QED BY <1>6, <2>1, <2>2 DEF TestNeighbor
<1>7. CASE CodesSize(t)
 <2>1. Moves(t) /\ Fine(t)' BY <1>0, <1>7, CodesSizeFine
 <2>2. /\ SameLevel(t) /\ my[t].pc = "codes_size"
       /\ my'[t].pc \in {"code", "codes_finish", "codes_start"}
   BY <1>7, CodesSizeMoves DEF CodesSize, At, SameRound
 <2> QED BY <1>0, <2>1, <2>2 DEF Work
<1>8. CASE CodesStart(t)
 <2>0. /\ my[t].pc = "codes_start" /\ Entry(t).codes_last_done \in Nat
       /\ my[t].sz \in 0 .. Len(Entry(t).bucket)
  <3>1. my[t].pc = "codes_start" BY <1>8 DEF CodesStart, At
  <3>2. Entry(t) \in OwnerType BY <3>1, Here DEF At
  <3> QED BY <1>0, <3>1, <3>2, OwnerFields DEF Fine, CodeEntries
 <2> DEFINE i == Entry(t).codes_last_done + 1
            sz == my[t].sz
 <2>1. i \in Nat /\ i > 0 /\ sz \in Nat /\ sz \in 0 .. Len(Entry(t).bucket)
       /\ my' = FromEntry(t, i, sz)
   BY <1>8, <2>0 DEF CodesStart
 <2> HIDE DEF i, sz
 <2>2. Moves(t) /\ Fine(t)' BY <1>0, <2>0, <2>1, EntryFine
 <2>3. SameLevel(t) /\ my'[t].pc \in {"code", "codes_finish"}
   BY <1>0, <2>1, EntryMoves DEF SameRound
 <2> QED BY <1>0, <2>0, <2>2, <2>3 DEF Work
<1>9. CASE HelpStart(t)
 <2>0. my[t].pc = "help_start" /\ Entry(t).last_done \in Nat /\ Owned(my[t].owner) \in Nat
  <3>1. my[t].pc = "help_start" BY <1>9 DEF HelpStart, At
  <3>2. Entry(t) \in OwnerType /\ my[t].owner \in Thread BY <3>1, Here DEF At
  <3> QED BY <3>1, <3>2, OwnerFields, OwnedFacts
 <2>1. Moves(t) /\ Fine(t)' BY <1>0, <1>9, HelpStartFine
 <2>2. SameLevel(t) /\ my'[t].pc \in {"blocks_done", "block"}
   BY <1>0, <1>9, <2>0, HelpStartMoves DEF SameRound
 <2> QED BY <1>0, <2>0, <2>1, <2>2 DEF Work
<1>10. CASE HelpBlock(t)
 <2>0. my[t].pc = "block" BY <1>10 DEF HelpBlock, At
 <2>1. CASE NextOwner(t, "help", "advance") BY <1>0, <2>0, <2>1, NextOwnerWork
 <2>2. CASE ~Entry(t).done
  <3>1. Moves(t) /\ Fine(t)' BY <1>0, <1>10, <2>2, HelpBlockFine
  <3>2. SameLevel(t) /\ my'[t].pc = "block_progress"
    BY <1>0, <1>10, <2>2, HelpBlockMoves DEF SameRound
  <3> QED BY <1>0, <2>0, <3>1, <3>2 DEF Work
 <2> QED BY <1>10, <2>1, <2>2 DEF HelpBlock
<1> QED BY <1>1, <1>2, <1>3, <1>4, <1>5, <1>6, <1>7, <1>8, <1>9, <1>10

LEMMA BlockWork ==
  ASSUME Shape, Control, NEW t \in Thread, UNCHANGED <<linked, node>>,
         \/ Gather(t) \/ TestCandidate(t) \/ WriteNextCode(t) \/ MarkFound(t) \/ Stamp(t)
  PROVE  Work(t)
<1> USE DEF AtBucket, AtItem, InTopDown, InCodes, InBottomUp, InBlock, Finding, Owning,
            Helping, Linking, Deciding
<1>0. Grows /\ BucketsStay(t) /\ PlansKept /\ my \in [Thread -> ThreadShape] /\ Fine(t)
  BY NodesSame, FineNow DEF Shape
<1>1. ASSUME NEW cand \in Seq(Vertex), Test(t, cand), my[t].pc \in InBlock,
             \A i \in 1 .. Len(cand) : InRange(t, cand[i])
      PROVE  Work(t)
 <2>1. Moves(t) /\ Fine(t)' BY <1>0, <1>1, TestFine
 <2>2. SameLevel(t) /\ my'[t].pc \in {"test", "own_progress", "stamp"}
   BY <1>0, <1>1, TestMoves DEF SameRound
 <2> QED BY <1>0, <1>1, <2>1, <2>2 DEF Work
<1>2. CASE Gather(t)
 <2>1. Moves(t) /\ Fine(t)' BY <1>0, <1>2, GatherFine
 <2> DEFINE u == my[t].j
            cand == IF dist[u] = Unset THEN Append(my[t].cand, u) ELSE my[t].cand
 <2>2. my[t].pc = "gather" /\ my[t].cand \in Seq(Vertex) /\ u \in Vertex
   BY <1>0, <1>2, BlockVertex, ThreadFields DEF Gather, At
 <2>3. cand \in Seq(Vertex) BY <2>2
 <2>4. Test(t, cand) \/ my' = [my EXCEPT ![t].cand = cand, ![t].j = @ + 1] BY <1>2, Zenon DEF Gather
 <2> HIDE DEF cand
 <2>5. SameLevel(t) /\ my'[t].pc \in {"gather", "test", "own_progress", "stamp"}
  <3>1. CASE Test(t, cand) BY <1>0, <2>3, <3>1, TestMoves DEF SameRound
  <3>2. CASE my' = [my EXCEPT ![t].cand = cand, ![t].j = @ + 1]
    BY <1>0, <2>2, <2>3, <3>2, GatherMoves DEF SameRound
  <3> QED BY <2>4, <3>1, <3>2
 <2> QED BY <1>0, <2>1, <2>2, <2>5 DEF Work
<1>3. CASE TestCandidate(t)
 <2>1. Moves(t) /\ Fine(t)' BY <1>0, <1>3, CandidateFine
 <2>2. my[t].pc = "test" /\ Tail(my[t].cand) \in Seq(Vertex)
   BY <1>3, TailRange DEF TestCandidate, At
 <2>3. SameLevel(t) /\ my'[t].pc \in {"test", "found", "own_progress", "stamp"}
  <3>1. CASE Test(t, Tail(my[t].cand)) BY <1>0, <2>2, <3>1, TestMoves, Zenon DEF SameRound
  <3>2. CASE Goto(t, "found")
   <4>1. "found" \in Labels BY DEF Labels
   <4> QED BY <1>0, <3>2, <4>1, GotoMoves DEF SameRound
  <3>3. CASE my' = [my EXCEPT ![t].j = @ + 1]
    BY <1>0, <2>2, <3>3, CandidateMoves, Zenon DEF SameRound
  <3> QED BY <1>3, <3>1, <3>2, <3>3 DEF TestCandidate
 <2> QED BY <1>0, <2>1, <2>2, <2>3 DEF Work
<1>4. CASE WriteNextCode(t)
 <2>1. my[t].pc = "next_code" /\ Goto(t, "mark") BY <1>4 DEF WriteNextCode, At
 <2>2. GoesOn(t, "mark") BY <2>1 DEF GoesOn, At
 <2> QED BY <1>0, <2>1, <2>2, GotoWork
<1>5. CASE MarkFound(t)
 <2>1. my[t].pc = "mark" /\ Test(t, Tail(my[t].cand)) BY <1>5 DEF MarkFound, At
 <2>2. /\ Tail(my[t].cand) \in Seq(Vertex)
       /\ \A i \in 1 .. Len(Tail(my[t].cand)) : InRange(t, Tail(my[t].cand)[i])
   BY <2>1, TailRange
 <2> QED BY <1>1, <2>1, <2>2, Zenon
<1>6. CASE Stamp(t)
 <2> DEFINE l == IF my[t].todo = {} THEN "blocks_done" ELSE "block"
 <2>1. my[t].pc = "stamp" /\ Goto(t, l) BY <1>6 DEF Stamp, NextBlock, At
 <2>2. l = "blocks_done" \/ (l = "block" /\ my[t].todo # {}) OBVIOUS
 <2> HIDE DEF l
 <2>3. GoesOn(t, l) BY <2>1, <2>2 DEF GoesOn, At
 <2> QED BY <1>0, <2>1, <2>3, GotoWork
<1> QED BY <1>2, <1>3, <1>4, <1>5, <1>6

LEMMA WriteWork ==
  ASSUME Shape, Control, NEW t \in Thread,
         \/ PushVertex(t) \/ SwapDist(t) \/ MarkVisited(t) \/ WriteCode(t) \/ PushFound(t)
  PROVE  Work(t)
<1> USE DEF AtBucket, AtItem, InTopDown, InCodes, InBottomUp, InBlock, Finding, Owning,
            Helping, Linking, Deciding
<1>0. my \in [Thread -> ThreadShape] /\ Fine(t) BY FineNow DEF Shape
<1>1. CASE PushVertex(t)
 <2>1. my[t].pc = "push" /\ Push(t, V(t)) /\ Goto(t, "swap") /\ UNCHANGED linked
   BY <1>1 DEF PushVertex, At
 <2>2. V(t) \in Vertex /\ ~At(t, "returned") /\ Depth(t) + 1 < linked
   BY <1>0, <2>1, ItemVertex DEF Fine, NextKnown, At
 <2>3. Grows /\ PlansKept /\ BucketsStay(t) BY <2>1, <2>2, PushGrows
 <2>4. GoesOn(t, "swap") BY <2>1 DEF GoesOn, At
 <2> QED BY <2>1, <2>3, <2>4, GotoWork
<1>2. CASE PushFound(t)
 <2>1. my[t].pc = "found" /\ Push(t, C(t)) /\ Goto(t, "next_code") /\ UNCHANGED linked
   BY <1>2 DEF PushFound, At
 <2>2. C(t) \in Vertex /\ ~At(t, "returned") /\ Depth(t) + 1 < linked
   BY <1>0, <2>1, BlockVertex DEF Fine, NextKnown, At
 <2>3. Grows /\ PlansKept /\ BucketsStay(t) BY <2>1, <2>2, PushGrows
 <2>4. GoesOn(t, "next_code") BY <2>1 DEF GoesOn, At
 <2> QED BY <2>1, <2>3, <2>4, GotoWork
<1>3. CASE SwapDist(t)
 <2>0. Grows /\ BucketsStay(t) /\ PlansKept /\ my[t].pc = "swap" /\ my' = FromNeighbor(t, my[t].j + 1)
   BY <1>3, NodesSame DEF SwapDist, At
 <2>1. my[t].j \in 1 .. Len(adj[U(t)]) /\ Len(adj[U(t)]) \in Nat
  <3>1. my[t].j \in 1 .. Len(adj[U(t)]) /\ adj[U(t)] \in Seq(Vertex) BY <2>0, ItemVertex
  <3> QED BY <3>1
 <2> DEFINE p == my[t].j + 1
 <2>2. p \in 1 .. Len(adj[U(t)]) + 1 /\ p \in Nat /\ my' = FromNeighbor(t, p) BY <2>0, <2>1
 <2> HIDE DEF p
 <2>3. /\ Moves(t) /\ SameRound(t) /\ SameItems(t)
       /\ my'[t].j = p /\ my'[t].cand = my[t].cand
       /\ my'[t].pc = IF p <= Len(adj[U(t)]) THEN "neighbor" ELSE "vis"
   BY <1>0, <2>2, NextNeighborMoves
 <2>4. Fine(t)' BY <1>0, <2>0, <2>2, <2>3, NeighborFine
 <2> QED BY <1>0, <2>0, <2>3, <2>4 DEF Work, SameRound
<1>4. CASE MarkVisited(t)
 <2>0. Grows /\ BucketsStay(t) /\ PlansKept /\ my[t].pc = "vis"
   BY <1>4, NodesSame DEF MarkVisited, At
 <2>1. Moves(t) /\ Fine(t)' BY <1>4, <2>0, MarkFine
 <2>2. SameLevel(t) /\ my'[t].pc \in {"progress", "finish", "entry"}
   BY <1>0, <1>4, MarkMoves DEF SameRound
 <2> QED BY <2>0, <2>1, <2>2 DEF Work
<1>5. CASE WriteCode(t)
 <2>0. Grows /\ BucketsStay(t) /\ PlansKept /\ my[t].pc = "code"
   BY <1>5, NodesSame DEF WriteCode, At
 <2>1. CASE Own(t) /\ Goto(t, "codes_progress")
  <3>1. GoesOn(t, "codes_progress") BY <2>0, <2>1 DEF GoesOn, At
  <3> QED BY <2>0, <2>1, <3>1, GotoWork
 <2>2. CASE my' = FromEntry(t, my[t].item + 1, my[t].sz)
  <3> DEFINE i == my[t].item + 1
             sz == my[t].sz
  <3>1. i \in Nat /\ i > 0 /\ sz \in Nat /\ sz \in 0 .. Len(Entry(t).bucket)
        /\ my' = FromEntry(t, i, sz)
    BY <1>0, <2>0, <2>2, ThreadFields DEF Fine, CodeEntries
  <3> HIDE DEF i, sz
  <3>2. Moves(t) /\ Fine(t)' BY <2>0, <3>1, EntryFine, Zenon
  <3>3. SameLevel(t) /\ my'[t].pc \in {"code", "codes_finish"}
    BY <1>0, <3>1, EntryMoves, Zenon DEF SameRound
  <3> QED BY <2>0, <3>2, <3>3 DEF Work
 <2> QED BY <1>5, <2>1, <2>2 DEF WriteCode
<1> QED BY <1>1, <1>2, <1>3, <1>4, <1>5

LEMMA FinishWork ==
  ASSUME Shape, Control, NEW t \in Thread,
         \/ Progress(t) \/ FinishBucket(t) \/ CodesProgress(t) \/ CodesFinish(t)
         \/ OwnProgress(t) \/ FinishBlocks(t)
  PROVE  Work(t)
<1> USE DEF AtBucket, AtItem, InTopDown, InCodes, InBottomUp, InBlock, Finding, Owning,
            Helping, Linking, Deciding
<1>0. my \in [Thread -> ThreadShape] /\ Fine(t) BY FineNow DEF Shape
<1>1. CASE Progress(t)
 <2>0. /\ my[t].pc = "progress" /\ Goto(t, IF my[t].todo = {} THEN "finish" ELSE "entry")
       /\ Grows /\ PlansKept /\ BucketsStay(t)
   BY <1>1, FinishedEntry, Zenon DEF Progress, At
 <2> DEFINE l == IF my[t].todo = {} THEN "finish" ELSE "entry"
 <2>1. Goto(t, l) BY <2>0
 <2>2. (l = "finish" /\ my[t].todo = {}) \/ (l = "entry" /\ my[t].todo # {}) OBVIOUS
 <2> HIDE DEF l
 <2>3. GoesOn(t, l) BY <2>0, <2>2 DEF GoesOn, At
 <2> QED BY <2>0, <2>1, <2>3, GotoWork
<1>2. CASE FinishBucket(t)
 <2>0. /\ my[t].pc = "finish" /\ NextOwner(t, "done", "advance")
       /\ Grows /\ PlansKept /\ BucketsStay(t)
   BY <1>2, FinishedEntry, Zenon DEF FinishBucket, At
 <2> QED BY <2>0, NextOwnerWork
<1>3. CASE CodesProgress(t)
 <2>0. /\ my[t].pc = "codes_progress" /\ my' = FromEntry(t, my[t].item + 1, my[t].sz)
       /\ Grows /\ PlansKept /\ BucketsStay(t)
   BY <1>3, FinishedEntry, Zenon DEF CodesProgress, At
 <2> DEFINE i == my[t].item + 1
            sz == my[t].sz
 <2>1. i \in Nat /\ i > 0 /\ sz \in Nat /\ sz \in 0 .. Len(Entry(t).bucket)
       /\ my' = FromEntry(t, i, sz)
   BY <1>0, <2>0, ThreadFields DEF Fine, CodeEntries
 <2> HIDE DEF i, sz
 <2>2. Moves(t) /\ Fine(t)' BY <2>0, <2>1, EntryFine
 <2>3. SameLevel(t) /\ my'[t].pc \in {"code", "codes_finish"}
   BY <1>0, <2>1, EntryMoves, Zenon DEF SameRound
 <2> QED BY <2>0, <2>2, <2>3 DEF Work
<1>4. CASE CodesFinish(t)
 <2>0. /\ my[t].pc = "codes_finish" /\ NextCodes(t)
       /\ Grows /\ PlansKept /\ BucketsStay(t)
   BY <1>4, FinishedEntry, Zenon DEF CodesFinish, At
 <2>1. Moves(t) /\ Fine(t)' BY <2>0, NextCodesFine
 <2>2. SameLevel(t) /\ my'[t].pc \in {"codes", "own"}
  <3>1. my[t].turn \in 0 .. NumT /\ my[t].turn < NumT /\ NumT \in Nat BY <2>0, OwnTurn, ThreadTypes
  <3> QED BY <1>0, <2>0, <3>1, NextCodesMoves
 <2> QED BY <2>0, <2>1, <2>2 DEF Work
<1>5. CASE OwnProgress(t)
 <2>0. /\ my[t].pc = "own_progress"
       /\ Grows /\ PlansKept /\ BucketsStay(t)
   BY <1>5, FinishedEntry, Zenon DEF OwnProgress, At
 <2>1. Moves(t) /\ Fine(t)' BY <1>5, <2>0, OwnProgressFine
 <2>2. SameLevel(t) /\ my'[t].pc = "own" BY <1>0, <1>5, OwnProgressMoves DEF SameRound
 <2> QED BY <2>0, <2>1, <2>2 DEF Work
<1>6. CASE FinishBlocks(t)
 <2>0. /\ my[t].pc = "blocks_done" /\ NextOwner(t, "help", "advance")
       /\ Grows /\ PlansKept /\ BucketsStay(t)
   BY <1>6, FinishedEntry, Zenon DEF FinishBlocks, At
 <2> QED BY <2>0, NextOwnerWork
<1> QED BY <1>1, <1>2, <1>3, <1>4, <1>5, <1>6

LEMMA LinkWork ==
  ASSUME Shape, Control, NEW t \in Thread, AddNode(t)
  PROVE  Work(t)
<1>0. my \in [Thread -> ThreadShape] /\ my[t].pc = "link" /\ Linked(t) BY DEF Shape, AddNode, At
<1>1. Grows /\ PlansKept /\ BucketsStay(t) /\ Depth(t) + 1 < linked' BY LinkGrows
<1>2. Moves(t) /\ Fine(t)' BY <1>0, <1>1, LinkedFine DEF Linking
<1>3. SameLevel(t) /\ my'[t].pc \in {"load", "codes", "own"} BY <1>0, LinkedMoves, Zenon
<1> QED BY <1>0, <1>1, <1>2, <1>3 DEF Work, Deciding

\* Every step that neither decides nor leaves a level.
LEMMA StepWork ==
  ASSUME Shape, Control, NEW t \in Thread, Step(t), ~Plan(t), ~Advance(t)
  PROVE  Work(t)
<1>1. CASE \/ TestDone(t) \/ TestSize(t) \/ TestCodesDone(t) \/ OwnBlock(t) \/ Help(t)
           \/ TestProgress(t) \/ TestStamp(t) \/ OwnStamp(t)
  BY <1>1, LookWork DEF TestDone, TestSize, TestCodesDone, OwnBlock, Help, TestProgress, TestStamp,
     OwnStamp
<1>2. CASE \/ TestNext(t) \/ LoadBucket(t) \/ StartHelping(t) \/ TakeEntry(t) \/ ReadDist(t)
           \/ TestNeighbor(t) \/ CodesSize(t) \/ CodesStart(t) \/ HelpStart(t) \/ HelpBlock(t)
  BY <1>2, ReadWork DEF TestNext, LoadBucket, StartHelping, TakeEntry, ReadDist, TestNeighbor,
     CodesSize, CodesStart, HelpStart, HelpBlock
<1>3. CASE Gather(t) \/ TestCandidate(t) \/ WriteNextCode(t) \/ MarkFound(t) \/ Stamp(t)
  BY <1>3, BlockWork, Zenon DEF Gather, TestCandidate, WriteNextCode, MarkFound, Stamp, memory
<1>4. CASE PushVertex(t) \/ SwapDist(t) \/ MarkVisited(t) \/ WriteCode(t) \/ PushFound(t)
  BY <1>4, WriteWork
<1>5. CASE \/ Progress(t) \/ FinishBucket(t) \/ CodesProgress(t) \/ CodesFinish(t)
           \/ OwnProgress(t) \/ FinishBlocks(t)
  BY <1>5, FinishWork
<1>6. CASE AddNode(t) BY <1>6, LinkWork
<1> QED BY <1>1, <1>2, <1>3, <1>4, <1>5, <1>6, Zenon DEF Step, TopDown, Codes, ScanBlock, BottomUp

-----------------------------------------------------------------------------
(***************************************************************************)
(* The steps that decide a level, and the one that leaves it.              *)
(***************************************************************************)
LEMMA LoadPlanStep ==
  ASSUME Shape, Control, NEW t \in Thread, LoadPlanOwner(t) \/ ReadSize(t)
  PROVE  /\ Moves(t) /\ Fine(t)' /\ Grows /\ PlansKept /\ UNCHANGED node
         /\ my'[t].curr = my[t].curr /\ my[t].pc \in {"plan", "sizes"}
         /\ \/ /\ my'[t].pc \in {"sizes", "propose"} /\ my'[t].plan = my[t].plan
            \/ /\ Curr(t).plan_owner # None
               /\ my'[t].pc \in {"next", "done"} /\ my'[t].previous = my[t].plan.direction
               /\ my'[t].plan = Curr(t).owners[Curr(t).plan_owner].proposal
<1>0. /\ Grows /\ PlansKept /\ BucketsStay(t) /\ UNCHANGED node
      /\ my[t].pc \in {"plan", "sizes"} /\ my \in [Thread -> ThreadShape]
  BY NodesSame DEF LoadPlanOwner, ReadSize, memory, At, Shape
<1>1. CASE LoadPlanOwner(t) /\ Curr(t).plan_owner # None
 <2> DEFINE plan == Curr(t).owners[Curr(t).plan_owner].proposal
 <2>1. Follow(t, plan) BY <1>1 DEF LoadPlanOwner
 <2>2. plan \in PlanType
  <3>1. Depth(t) \in Node BY <1>0, Here DEF At
  <3>2. Curr(t).plan_owner \in Thread BY <1>1, <3>1, NodeFields DEF Curr, Shape
  <3>3. Curr(t).owners[Curr(t).plan_owner] \in OwnerType BY <3>1, <3>2, NodeFields DEF Curr, Shape
  <3> QED BY <3>3, OwnerFields
 <2> HIDE DEF plan
 <2>3. Moves(t) /\ Fine(t)' BY <1>0, <2>1, <2>2, FollowFine DEF Deciding
 <2>4. /\ my'[t].curr = my[t].curr /\ my'[t].plan = plan
       /\ my'[t].previous = my[t].plan.direction /\ my'[t].pc \in {"next", "done"}
   BY <1>0, <2>1, <2>2, FollowMoves, Zenon
 <2> QED BY <1>0, <1>1, <2>3, <2>4 DEF plan
<1>2. CASE (LoadPlanOwner(t) /\ Curr(t).plan_owner = None) \/ ReadSize(t)
 <2>1. Moves(t) /\ Fine(t)' BY <1>0, <1>2, PlanFine
 <2>2. my'[t].curr = my[t].curr /\ my'[t].pc \in {"sizes", "propose"} /\ my'[t].plan = my[t].plan
   BY <1>0, <1>2, PlanMoves DEF SameLevel
 <2> QED BY <1>0, <2>1, <2>2
<1> QED BY <1>1, <1>2

LEMMA ProposeStep ==
  ASSUME Shape, Control, NEW t \in Thread, Propose(t)
  PROVE  /\ Moves(t) /\ Fine(t)' /\ my'[t].pc = "claim" /\ my[t].pc = "propose"
         /\ my'[t].curr = my[t].curr /\ my'[t].plan = my[t].plan
<1>0. my \in [Thread -> ThreadShape] /\ Goto(t, "claim") /\ GoesOn(t, "claim")
      /\ my[t].pc = "propose"
  BY DEF Shape, Propose, GoesOn, At
<1>1. BucketsStay(t) BY ProposeGrows
<1>2. Moves(t) /\ Fine(t)' BY <1>0, <1>1, GotoFine
<1>3. "claim" \in Labels BY DEF Labels
<1> QED BY <1>0, <1>2, <1>3, GotoMoves DEF SameRound, SameLevel

LEMMA ClaimStep ==
  ASSUME Shape, Control, NEW t \in Thread, Claim(t)
  PROVE  /\ Moves(t) /\ Fine(t)' /\ my[t].pc = "claim" /\ my'[t].pc \in {"next", "done"}
         /\ my'[t].curr = my[t].curr /\ my'[t].previous = my[t].plan.direction
         /\ Curr(t).plan_owner = None => my'[t].plan = Curr(t).owners[t].proposal
         /\ Curr(t).plan_owner # None =>
              my'[t].plan = Curr(t).owners[Curr(t).plan_owner].proposal
<1> DEFINE o == IF Curr(t).plan_owner = None THEN t ELSE Curr(t).plan_owner
           plan == Curr(t).owners[o].proposal
<1>0. my \in [Thread -> ThreadShape] /\ my[t].pc = "claim" /\ Follow(t, plan)
  BY DEF Shape, Claim, At
<1>1. BucketsStay(t) BY ClaimGrows
<1>2. plan \in PlanType
 <2>1. Depth(t) \in Node BY <1>0, Here DEF At
 <2>2. o \in Thread BY <2>1, NodeFields DEF Curr, Shape
 <2> HIDE DEF o
 <2>3. Curr(t).owners[o] \in OwnerType BY <2>1, <2>2, NodeFields DEF Curr, Shape
 <2> QED BY <2>3, OwnerFields
<1>3. /\ Curr(t).plan_owner = None => plan = Curr(t).owners[t].proposal
      /\ Curr(t).plan_owner # None => plan = Curr(t).owners[Curr(t).plan_owner].proposal
  OBVIOUS
<1> HIDE DEF o, plan
<1>4. Moves(t) /\ Fine(t)' BY <1>0, <1>1, <1>2, FollowFine DEF Deciding
<1>5. /\ my'[t].curr = my[t].curr /\ my'[t].plan = plan
      /\ my'[t].previous = my[t].plan.direction /\ my'[t].pc \in {"next", "done"}
  BY <1>0, <1>2, FollowMoves, Zenon
<1> QED BY <1>0, <1>3, <1>4, <1>5

LEMMA AdvanceStep ==
  ASSUME Shape, Control, NEW t \in Thread, Advance(t)
  PROVE  /\ Moves(t) /\ Fine(t)' /\ Grows /\ PlansKept /\ UNCHANGED node
         /\ my[t].pc = "advance" /\ my'[t].plan = my[t].plan
         /\ \/ my'[t].pc = "returned" /\ my'[t].curr = None
            \/ my'[t].pc = "plan" /\ my'[t].curr = Depth(t) + 1 /\ Depth(t) + 1 < linked
<1>0. Grows /\ PlansKept /\ BucketsStay(t) /\ my[t].pc = "advance" /\ UNCHANGED node
  BY NodesSame DEF Advance, memory, At
<1>1. Moves(t) /\ Fine(t)' BY <1>0, AdvanceFine
<1>2. /\ my'[t].curr = Curr(t).next /\ my'[t].plan = my[t].plan
      /\ my'[t].pc = IF Curr(t).next = None THEN "returned" ELSE "plan"
  BY AdvanceMoves, Zenon
<1>3. Curr(t).next = IF Depth(t) + 1 < linked THEN Depth(t) + 1 ELSE None BY <1>0, Here DEF At
<1>4. Depth(t) + 1 < linked => Depth(t) + 1 # None
 <2>1. Depth(t) \in Node BY <1>0, Here DEF At
 <2> QED BY <2>1 DEF Node, None
<1> QED BY <1>0, <1>1, <1>2, <1>3, <1>4

(***************************************************************************)
(* The other threads stay where they can be, since what they have read     *)
(* only grows.                                                             *)
(***************************************************************************)
LEMMA OtherFine ==
  ASSUME Shape, Control, Grows, NEW t \in Thread, Moves(t), NEW s \in Thread, s # t
  PROVE  Fine(s)'
<1>0. my'[s] = my[s] /\ Fine(s) BY FineNow DEF Moves
<1>1. CASE At(s, "returned")
 <2> USE DEF AtBucket, AtItem, InTopDown, InCodes, InBottomUp, InBlock, Finding, Owning,
             Helping, Linking, Deciding
 <2>1. my[s].pc = "returned" BY <1>1 DEF At
 <2>2. AtNode(s)' /\ NextKnown(s)' /\ Directed(s)' /\ Rounds(s)'
   BY <1>0, <2>1 DEF Fine, AtNode, NextKnown, Directed, Rounds, At, Depth
 <2>3. Entries(s)' /\ CodeEntries(s)' /\ BlockEntries(s)'
   BY <1>0, <2>1 DEF Fine, Entries, CodeEntries, BlockEntries, At, InRange
 <2> QED BY <2>2, <2>3 DEF Fine
<1>2. CASE ~At(s, "returned")
 <2>1. /\ Depth(s)' = Depth(s) /\ Depth(s) \in Node /\ Depth(s) \in 0 .. linked - 1
       /\ my[s].owner \in Thread /\ Own(s)' = Own(s) /\ TopDownLevel(s)' = TopDownLevel(s)
       /\ C(s)' = C(s)
   BY <1>0, <1>2, Here DEF Depth, Own, TopDownLevel, C
 <2>2. linked \in Int /\ linked' \in Int /\ linked <= linked' BY DEF Grows, Shape
 <2> DEFINE b == Entry(s).bucket
            n == Len(b)
            m == Len(Entry(s)'.bucket)
 <2>3. /\ n \in Nat /\ m \in Nat /\ n <= m
       /\ b # <<>> => Entry(s)'.bucket # <<>>
       /\ \A i \in 1 .. n : Entry(s)'.bucket[i] = b[i]
  <3>1. PICK d \in Node, o \in Thread : d = Depth(s) /\ o = my[s].owner BY <2>1
  <3>2. b = Bucket(d, o) /\ Entry(s)'.bucket = Bucket(d, o)'
    BY <1>0, <2>1, <3>1 DEF Entry, Curr, Bucket
  <3>3. Bucket(d, o) \in Seq(Vertex) /\ Bucket(d, o)' \in Seq(Vertex)
   <4>1. node'[d].owners[o] \in OwnerType BY DEF Grows, NodeShape
   <4> QED BY <4>1, BucketType, OwnerFields DEF Bucket
  <3>4. /\ Len(Bucket(d, o)) <= Len(Bucket(d, o)')
        /\ \A i \in 1 .. Len(Bucket(d, o)) : Bucket(d, o)'[i] = Bucket(d, o)[i]
    BY DEF Grows
  <3> DEFINE x == Bucket(d, o)
             y == Bucket(d, o)'
  <3>5. Len(x) \in Nat /\ Len(y) \in Nat /\ (x # <<>> => y # <<>>)
   <4>1. x \in Seq(Vertex) /\ y \in Seq(Vertex) /\ Len(x) <= Len(y) BY <3>3, <3>4
   <4> HIDE DEF x, y
   <4> QED BY <4>1
  <3> QED BY <3>2, <3>4, <3>5
 <2>4. my[s].pc \in AtItem \cup {"code"} => U(s)' = U(s)
  <3>1. SUFFICES ASSUME my[s].pc \in AtItem \cup {"code"} PROVE U(s)' = U(s) OBVIOUS
  <3>2. my[s].item \in 1 .. n BY <3>1, ItemVertex
  <3> QED BY <1>0, <2>3, <3>2 DEF U
 <2> HIDE DEF b, n, m
 <2>5. AtNode(s)' /\ NextKnown(s)' BY <1>0, <2>1, <2>2 DEF Fine, AtNode, NextKnown, At
 <2>6. Directed(s)' /\ Rounds(s)' BY <1>0, <2>1 DEF Fine, Directed, Rounds, At
 <2>7. Entries(s)'
  <3>0. Entries(s) BY <1>0 DEF Fine
  <3>1. /\ my[s].pc \in {"load"} \cup AtBucket => Entry(s)'.bucket # <<>>
        /\ my[s].pc \in Linking /\ TopDownLevel(s) => Entry(s)'.bucket # <<>>
    BY <2>3, <3>0 DEF Entries, b
  <3>2. my[s].pc \in AtBucket => my[s].sz \in 1 .. m BY <2>3, <3>0 DEF Entries, b, n
  <3>3. /\ my[s].pc \in {"neighbor", "push", "swap"} => my[s].j \in 1 .. Len(adj[U(s)'])
        /\ my[s].pc = "vis" => my[s].j = Len(adj[U(s)']) + 1
    BY <2>4, <3>0 DEF Entries, AtItem, At
  <3> QED BY <1>0, <2>1, <3>0, <3>1, <3>2, <3>3 DEF Entries, At, m
 <2>8. CodeEntries(s)'
  <3>0. CodeEntries(s) BY <1>0 DEF Fine
  <3>1. my[s].pc \in {"codes_start", "code", "codes_progress", "codes_finish"} =>
          my[s].sz \in 0 .. m
    BY <2>3, <3>0 DEF CodeEntries, n, b
  <3> QED BY <1>0, <2>1, <3>0, <3>1 DEF CodeEntries, At, m
 <2>9. BlockEntries(s)' BY <1>0, <2>1 DEF Fine, BlockEntries, InRange, At
 <2> QED BY <2>5, <2>6, <2>7, <2>8, <2>9 DEF Fine
<1> QED BY <1>1, <1>2

LEMMA ControlNext ==
  ASSUME Shape, Control, NEW t \in Thread, Step(t)
  PROVE  Moves(t) /\ Grows /\ Control'
<1>1. Moves(t) /\ Fine(t)' /\ Grows
 <2>1. CASE LoadPlanOwner(t) \/ ReadSize(t) BY <2>1, LoadPlanStep
 <2>2. CASE Propose(t) BY <2>2, ProposeStep, ProposeGrows
 <2>3. CASE Claim(t) BY <2>3, ClaimStep, ClaimGrows
 <2>4. CASE Advance(t) BY <2>4, AdvanceStep
 <2>5. CASE ~Plan(t) /\ ~Advance(t) BY <2>5, StepWork DEF Work
 <2> QED BY <2>1, <2>2, <2>3, <2>4, <2>5 DEF Plan
<1>2. \A s \in Thread : Fine(s)' BY <1>1, OtherFine
<1>3. OneList' BY <1>1 DEF Grows
<1> QED BY <1>1, <1>2, <1>3 DEF Control, Fine

-----------------------------------------------------------------------------
(***************************************************************************)
(* The other variables.  What is written, and by which steps.              *)
(***************************************************************************)
LEMMA NextCodeType ==
  ASSUME NEW t \in Thread, my[t].plan \in PlanType
  PROVE  NextCode(t) \in 0 .. MaxCode
<1>1. my[t].plan.code \in 0 .. MaxCode /\ MaxCode \in Nat BY PlanFields, DirAssumption
<1>2. CASE my[t].plan.code > 0 /\ my[t].plan.code < MaxCode BY <1>1, <1>2 DEF NextCode
<1>3. CASE ~(my[t].plan.code > 0 /\ my[t].plan.code < MaxCode) BY <1>1, <1>3 DEF NextCode
<1> QED BY <1>2, <1>3

LEMMA DistWrites ==
  ASSUME Shape, Control, NEW t \in Thread, Step(t)
  PROVE  \/ UNCHANGED dist
         \/ SwapDist(t) \/ MarkFound(t)
  BY Zenon DEF Step, Plan, TopDown, Codes, ScanBlock, BottomUp, memory, LoadPlanOwner, ReadSize,
     Propose, Claim, TestNext, AddNode, TestDone, TestSize, LoadBucket, StartHelping, TakeEntry,
     ReadDist, TestNeighbor, PushVertex, MarkVisited, Progress, FinishBucket, TestCodesDone,
     CodesSize, CodesStart, WriteCode, CodesProgress, CodesFinish, Gather, TestCandidate, PushFound,
     WriteNextCode, OwnBlock, OwnStamp, OwnProgress, FinishBlocks, Help, HelpStart, HelpBlock,
     TestProgress, TestStamp, Stamp, Advance

LEMMA CodeWrites ==
  ASSUME Shape, Control, NEW t \in Thread, Step(t)
  PROVE  \/ UNCHANGED dist8
         \/ WriteCode(t) \/ WriteNextCode(t)
  BY Zenon DEF Step, Plan, TopDown, Codes, ScanBlock, BottomUp, memory, LoadPlanOwner, ReadSize,
     Propose, Claim, TestNext, AddNode, TestDone, TestSize, LoadBucket, StartHelping, TakeEntry,
     ReadDist, TestNeighbor, PushVertex, SwapDist, MarkVisited, Progress, FinishBucket,
     TestCodesDone, CodesSize, CodesStart, CodesProgress, CodesFinish, Gather, TestCandidate,
     PushFound, MarkFound, OwnBlock, OwnStamp, OwnProgress, FinishBlocks, Help, HelpStart,
     HelpBlock, TestProgress, TestStamp, Stamp, Advance

LEMMA VisWrites ==
  ASSUME Shape, Control, NEW t \in Thread, Step(t)
  PROVE  UNCHANGED vis \/ MarkVisited(t)
  BY Zenon DEF Step, Plan, TopDown, Codes, ScanBlock, BottomUp, memory, LoadPlanOwner, ReadSize,
     Propose, Claim, TestNext, AddNode, TestDone, TestSize, LoadBucket, StartHelping, TakeEntry,
     ReadDist, TestNeighbor, PushVertex, SwapDist, Progress, FinishBucket, TestCodesDone, CodesSize,
     CodesStart, WriteCode, CodesProgress, CodesFinish, Gather, TestCandidate, PushFound,
     WriteNextCode, MarkFound, OwnBlock, OwnStamp, OwnProgress, FinishBlocks, Help, HelpStart,
     HelpBlock, TestProgress, TestStamp, Stamp, Advance

LEMMA StampWrites ==
  ASSUME Shape, Control, NEW t \in Thread, Step(t)
  PROVE  UNCHANGED helped_at \/ Stamp(t)
  BY Zenon DEF Step, Plan, TopDown, Codes, ScanBlock, BottomUp, memory, LoadPlanOwner, ReadSize,
     Propose, Claim, TestNext, AddNode, TestDone, TestSize, LoadBucket, StartHelping, TakeEntry,
     ReadDist, TestNeighbor, PushVertex, SwapDist, MarkVisited, Progress, FinishBucket,
     TestCodesDone, CodesSize, CodesStart, WriteCode, CodesProgress, CodesFinish, Gather,
     TestCandidate, PushFound, WriteNextCode, MarkFound, OwnBlock, OwnStamp, OwnProgress,
     FinishBlocks, Help, HelpStart, HelpBlock, TestProgress, TestStamp, Advance

LEMMA SwapWrites ==
  ASSUME Shape, Control, NEW t \in Thread, SwapDist(t)
  PROVE  /\ V(t) \in Vertex /\ dist' \in [Vertex -> Int]
         /\ \A x \in Vertex : dist'[x] = IF x = V(t) /\ dist[x] = Unset THEN my[t].du + 1
                                         ELSE dist[x]
<1>1. V(t) \in Vertex /\ dist \in [Vertex -> Int] /\ my[t].du \in Int
  BY ItemVertex, ThreadFields DEF SwapDist, At, Shape
<1>2. dist' = [dist EXCEPT ![V(t)] = IF @ = Unset THEN my[t].du + 1 ELSE @] BY DEF SwapDist
<1> DEFINE v == V(t)
           d == IF dist[v] = Unset THEN my[t].du + 1 ELSE dist[v]
<1>3. v \in Vertex /\ d \in Int /\ dist' = [dist EXCEPT ![v] = d] BY <1>1, <1>2
<1>4. d = IF dist[v] = Unset THEN my[t].du + 1 ELSE dist[v] OBVIOUS
<1> HIDE DEF d
<1>5. dist' \in [Vertex -> Int] /\ dist'[v] = d /\ \A x \in Vertex : x # v => dist'[x] = dist[x]
  BY <1>1, <1>3
<1> QED BY <1>1, <1>4, <1>5

LEMMA MarkWrites ==
  ASSUME Shape, Control, NEW t \in Thread, MarkFound(t)
  PROVE  /\ C(t) \in Vertex /\ dist' \in [Vertex -> Int]
         /\ \A x \in Vertex : dist'[x] = IF x = C(t) THEN Depth(t) + 1 ELSE dist[x]
<1>1. /\ C(t) \in Vertex /\ dist \in [Vertex -> Int] /\ Depth(t) + 1 \in Int
 <2>1. my[t].pc = "mark" BY DEF MarkFound, At
 <2>2. Depth(t) \in Node BY <2>1, Here DEF At
 <2> QED BY <2>1, <2>2, BlockVertex DEF Finding, Shape, Node
<1>2. dist' = [dist EXCEPT ![C(t)] = Depth(t) + 1] BY DEF MarkFound
<1> DEFINE v == C(t)
           d == Depth(t) + 1
<1>3. v \in Vertex /\ d \in Int /\ dist' = [dist EXCEPT ![v] = d] BY <1>1, <1>2
<1> HIDE DEF d, v
<1>4. dist' \in [Vertex -> Int] /\ dist'[v] = d /\ \A x \in Vertex : x # v => dist'[x] = dist[x]
  BY <1>1, <1>3
<1> QED BY <1>1, <1>4 DEF d, v

\* The code a step writes, and at which vertex.
LEMMA CodeValues ==
  ASSUME Shape, Control, NEW t \in Thread, WriteCode(t) \/ WriteNextCode(t)
  PROVE  \E v \in Vertex, c \in 0 .. MaxCode :
           /\ dist8' \in [Vertex -> 0 .. MaxCode]
           /\ \A x \in Vertex : dist8'[x] = IF x = v THEN c ELSE dist8[x]
           /\ WriteCode(t) => v = U(t) /\ c = my[t].plan.code
           /\ WriteNextCode(t) => v = C(t) /\ c = NextCode(t)
<1>0. dist8 \in [Vertex -> 0 .. MaxCode] /\ my[t].plan \in PlanType BY ThreadFields DEF Shape
<1>1. PICK v \in Vertex, c \in 0 .. MaxCode :
         /\ dist8' = [dist8 EXCEPT ![v] = c]
         /\ WriteCode(t) => v = U(t) /\ c = my[t].plan.code
         /\ WriteNextCode(t) => v = C(t) /\ c = NextCode(t)
 <2>1. CASE WriteCode(t)
  <3>1. /\ U(t) \in Vertex /\ my[t].plan.code \in 0 .. MaxCode
        /\ dist8' = [dist8 EXCEPT ![U(t)] = my[t].plan.code] /\ ~WriteNextCode(t)
    BY <1>0, <2>1, ItemVertex, PlanFields DEF WriteCode, WriteNextCode, At
  <3> QED BY <3>1, Zenon
 <2>2. CASE WriteNextCode(t)
  <3>1. /\ C(t) \in Vertex /\ NextCode(t) \in 0 .. MaxCode
        /\ dist8' = [dist8 EXCEPT ![C(t)] = NextCode(t)] /\ ~WriteCode(t)
    BY <1>0, <2>2, BlockVertex, NextCodeType DEF WriteCode, WriteNextCode, At, Finding
  <3> QED BY <3>1, Zenon
 <2> QED BY <2>1, <2>2
<1>2. dist8' \in [Vertex -> 0 .. MaxCode] /\ \A x \in Vertex : dist8'[x] = IF x = v THEN c ELSE dist8[x]
  BY <1>0, <1>1
<1> QED BY <1>1, <1>2

LEMMA VisValues ==
  ASSUME Shape, Control, NEW t \in Thread, MarkVisited(t)
  PROVE  /\ U(t) \in Vertex /\ vis' \in [Vertex -> BOOLEAN]
         /\ \A x \in Vertex : vis'[x] = IF x = U(t) THEN TRUE ELSE vis[x]
<1>1. U(t) \in Vertex /\ vis \in [Vertex -> BOOLEAN] /\ vis' = [vis EXCEPT ![U(t)] = TRUE]
  BY ItemVertex DEF MarkVisited, At, AtItem, Shape
<1> QED BY <1>1

LEMMA StampValues ==
  ASSUME Shape, Control, NEW t \in Thread, Stamp(t)
  PROVE  /\ helped_at' \in [Thread -> [1 .. Owned(0) -> Node \cup {None}]]
         /\ my[t].owner \in Thread /\ my[t].item \in 1 .. Owned(my[t].owner) /\ Depth(t) \in Node
         /\ \A o \in Thread, k \in 1 .. Owned(0) :
              helped_at'[o][k] = IF o = my[t].owner /\ k = my[t].item THEN Depth(t)
                                 ELSE helped_at[o][k]
<1>1. /\ helped_at \in [Thread -> [1 .. Owned(0) -> Node \cup {None}]] /\ Depth(t) \in Node
      /\ my[t].owner \in Thread /\ my[t].item \in 1 .. Owned(my[t].owner)
      /\ helped_at' = [helped_at EXCEPT ![my[t].owner][my[t].item] = Depth(t)]
 <2>1. my[t].pc = "stamp" BY DEF Stamp, At
 <2> QED BY <2>1, Here DEF Stamp, At, Shape, Control, BlockEntries
<1>2. my[t].item \in 1 .. Owned(0)
 <2>1. Owned(my[t].owner) \in Nat /\ Owned(0) \in Nat /\ Owned(my[t].owner) <= Owned(0)
   BY <1>1, OwnedFacts, ThreadTypes
 <2> QED BY <1>1, <2>1
<1> DEFINE o == my[t].owner
           k == my[t].item
           d == Depth(t)
           f == [helped_at[o] EXCEPT ![k] = d]
<1>3. helped_at' = [helped_at EXCEPT ![o] = f] /\ o \in Thread BY <1>1
<1>4. helped_at[o] \in [1 .. Owned(0) -> Node \cup {None}] BY <1>1
<1>5. f \in [1 .. Owned(0) -> Node \cup {None}]
      /\ \A j \in 1 .. Owned(0) : f[j] = IF j = k THEN d ELSE helped_at[o][j]
  BY <1>1, <1>2, <1>4, Zenon
<1> HIDE DEF o, k, d, f
<1>6. helped_at' \in [Thread -> [1 .. Owned(0) -> Node \cup {None}]]
      /\ \A p \in Thread : helped_at'[p] = IF p = o THEN f ELSE helped_at[p]
  BY <1>1, <1>3, <1>5, Zenon
<1> QED BY <1>1, <1>5, <1>6, Zenon DEF o, k, d

LEMMA ShapeNext ==
  ASSUME Shape, Control, NEW t \in Thread, Step(t)
  PROVE  Shape'
<1>1. dist' \in [Vertex -> Int] BY DistWrites, SwapWrites, MarkWrites DEF Shape
<1>2. dist8' \in [Vertex -> 0 .. MaxCode] BY CodeWrites, CodeValues DEF Shape
<1>3. vis' \in [Vertex -> BOOLEAN] BY VisWrites, VisValues, Zenon DEF Shape
<1>4. helped_at' \in [Thread -> [1 .. Owned(0) -> Node \cup {None}]]
  BY StampWrites, StampValues DEF Shape
<1>5. my' \in [Thread -> ThreadShape] /\ linked' \in 1 .. MaxNode + 1 /\ node' \in [Node -> NodeShape]
  BY ControlNext DEF Moves, Grows
<1> QED BY <1>1, <1>2, <1>3, <1>4, <1>5 DEF Shape

-----------------------------------------------------------------------------
(***************************************************************************)
(* The start of a search.                                                  *)
(***************************************************************************)
LEMMA FirstNodes ==
  ASSUME Init
  PROVE  /\ node \in [Node -> NodeShape]
         /\ \A d \in Node : node[d].next = None /\ node[d].plan_owner = None
         /\ \A d \in Node, o \in Thread :
              /\ node[d].owners[o] = NewOwner(Bucket(d, o))
              /\ Bucket(d, o) = IF d = 0 /\ o = 0 THEN <<Root>> ELSE <<>>
<1>1. node = [d \in Node |-> NewNode(d)] BY DEF Init, FreshNodes
<1>2. ASSUME NEW d \in Node
      PROVE  /\ node[d].next = None /\ node[d].plan_owner = None
             /\ \A o \in Thread : node[d].owners[o] = NewOwner(IF d = 0 /\ o = 0 THEN <<Root>> ELSE <<>>)
             /\ node[d] = [next |-> None, plan_owner |-> None, owners |-> node[d].owners]
             /\ DOMAIN node[d].owners = Thread
             /\ node[d].owners = [o \in Thread |-> node[d].owners[o]]
  BY <1>1 DEF NewNode
<1>3. ASSUME NEW d \in Node, NEW o \in Thread
      PROVE  /\ node[d].owners[o] = NewOwner(Bucket(d, o)) /\ node[d].owners[o] \in OwnerType
             /\ Bucket(d, o) = IF d = 0 /\ o = 0 THEN <<Root>> ELSE <<>>
 <2> DEFINE b == IF d = 0 /\ o = 0 THEN <<Root>> ELSE <<>>
 <2>1. node[d].owners[o] = NewOwner(b) BY <1>2, Zenon
 <2>2. b \in Seq(Vertex) BY GraphAssumption
 <2>3. b = IF d = 0 /\ o = 0 THEN <<Root>> ELSE <<>> OBVIOUS
 <2> HIDE DEF b
 <2>4. Bucket(d, o) = b BY <2>1 DEF Bucket, NewOwner
 <2>5. NewOwner(b) \in OwnerType BY <2>2, FirstPlanType DEF NewOwner, OwnerType
 <2> QED BY <2>1, <2>3, <2>4, <2>5
<1>4. ASSUME NEW d \in Node PROVE node[d] \in NodeShape
 <2> DEFINE w == node[d].owners
 <2>1. w \in [Thread -> OwnerType] /\ node[d] = [next |-> None, plan_owner |-> None, owners |-> w]
   BY <1>2, <1>3, Zenon
 <2> HIDE DEF w
 <2> QED BY <2>1 DEF NodeShape
<1> QED BY <1>1, <1>2, <1>3, <1>4, Zenon

LEMMA FirstThreads ==
  ASSUME Init, NEW t \in Thread
  PROVE  /\ my \in [Thread -> ThreadShape]
         /\ my[t].pc = "plan" /\ my[t].curr = 0 /\ my[t].plan = FirstPlan
         /\ my[t].owner = t /\ my[t].turn = 0 /\ my[t].next_is_null = TRUE
         /\ my[t].cand = <<>>
<1> DEFINE r(s) == [pc |-> "plan", curr |-> 0, plan |-> FirstPlan, previous |-> "top_down",
                    owner |-> s, turn |-> 0, next_is_null |-> TRUE,
                    sz |-> 0, todo |-> {}, item |-> 0, du |-> 0, j |-> 0, cand |-> <<>>]
<1>1. my = [s \in Thread |-> r(s)] BY DEF Init, FreshThreads
<1>2. \A s \in Thread : r(s) \in ThreadShape
 <2>1. /\ "plan" \in Labels /\ 0 \in Node \cup {None} /\ 0 \in 0 .. NumT
       /\ {} \in SUBSET Nat /\ <<>> \in Seq(Vertex)
   BY DirAssumption DEF Labels, Node
 <2> QED BY <2>1, FirstPlanType DEF ThreadShape
<1>3. my \in [Thread -> ThreadShape] BY <1>1, <1>2, Zenon
<1>4. my[t] = r(t) BY <1>1
<1> QED BY <1>3, <1>4

LEMMA FirstShape == Init => Shape /\ Control
<1> SUFFICES ASSUME Init PROVE Shape /\ Control OBVIOUS
<1>1. /\ dist \in [Vertex -> Int] /\ dist8 \in [Vertex -> 0 .. MaxCode]
      /\ vis \in [Vertex -> BOOLEAN]
      /\ helped_at \in [Thread -> [1 .. Owned(0) -> Node \cup {None}]]
      /\ linked = 1 /\ linked \in 1 .. MaxNode + 1
 <2>1. MaxNode \in Nat /\ MaxCode \in Nat BY DirAssumption
 <2>2. dist \in [Vertex -> Int] BY DEF Init, FreshDist, Unset
 <2>3. helped_at \in [Thread -> [1 .. Owned(0) -> Node \cup {None}]] BY DEF Init, FreshStamps
 <2> QED BY <2>1, <2>2, <2>3 DEF Init, FreshCodes, FreshVis
<1>2. my \in [Thread -> ThreadShape] BY FirstThreads, ThreadTypes, Zenon
<1>3. Shape BY <1>1, <1>2, FirstNodes DEF Shape
<1>4. OneList BY <1>1, FirstNodes DEF OneList, Node, None
<1>5. ASSUME NEW t \in Thread PROVE Fine(t)
 <2> USE DEF AtBucket, AtItem, InTopDown, InCodes, InBottomUp, InBlock, Finding, Owning,
             Helping, Linking, Deciding
 <2>1. /\ my[t].pc = "plan" /\ my[t].curr = 0 /\ my[t].turn = 0
       /\ my[t].next_is_null = TRUE /\ my[t].cand = <<>>
   BY FirstThreads, Zenon
 <2>2. AtNode(t) /\ NextKnown(t) /\ Directed(t) /\ Rounds(t)
   BY <1>1, <2>1 DEF AtNode, NextKnown, Directed, Rounds, At, Depth
 <2>3. Entries(t) /\ CodeEntries(t) /\ BlockEntries(t)
   BY <2>1 DEF Entries, CodeEntries, BlockEntries, At
 <2> QED BY <2>2, <2>3 DEF Fine
<1> QED BY <1>3, <1>4, <1>5 DEF Control, Fine

-----------------------------------------------------------------------------
(***************************************************************************)
(* The plans.                                                              *)
(***************************************************************************)
LEMMA DecisionsStay ==
  ASSUME Shape, Control, PlansInv, NEW t \in Thread, Step(t), NEW d \in Node, Decided(d)
  PROVE  /\ Decided(d)' /\ node'[d].plan_owner = node[d].plan_owner
         /\ Decision(d)' = Decision(d)
<1> DEFINE o == node[d].plan_owner
<1>0. o \in Thread /\ o # None BY NodeFields DEF Decided, Shape
<1>1. CASE PlansKept BY <1>0, <1>1 DEF PlansKept, Decided, Decision
<1>2. ASSUME my[t].pc \in Deciding, ~At(t, "returned"),
             \A c \in Node, p \in Thread : c # Depth(t) \/ p # t =>
                node'[c].owners[p].proposal = node[c].owners[p].proposal,
             node'[d].plan_owner = node[d].plan_owner
      PROVE  /\ Decided(d)' /\ node'[d].plan_owner = node[d].plan_owner
             /\ Decision(d)' = Decision(d)
 <2>1. d # Depth(t) \/ o # t BY <1>2 DEF PlansInv, OwnerHasLeft, Decided
 <2> QED BY <1>0, <1>2, <2>1 DEF Decided, Decision
<1>3. CASE Propose(t) BY <1>2, <1>3, ProposeGrows DEF Propose, At, Deciding
<1>4. CASE Claim(t)
 <2>1. node'[d].plan_owner = node[d].plan_owner
  <3>1. CASE d = Depth(t) BY <1>4, <3>1, ClaimGrows DEF Decided, Curr
  <3>2. CASE d # Depth(t) BY <1>4, <3>2, ClaimGrows
  <3> QED BY <3>1, <3>2
 <2> QED BY <1>2, <1>4, <2>1, ClaimGrows DEF Claim, At, Deciding
<1>5. CASE ~Propose(t) /\ ~Claim(t)
 <2>1. PlansKept BY <1>5, LoadPlanStep, AdvanceStep, StepWork DEF Work, Plan
 <2> QED BY <1>1, <2>1
<1> QED BY <1>3, <1>4, <1>5

\* Where a step takes its thread, as far as the plans are concerned.
LEMMA PlanSteps ==
  ASSUME Shape, Control, NEW t \in Thread, Step(t)
  PROVE  /\ ~At(t, "returned")
         /\ \/ /\ my[t].pc \notin Deciding /\ my'[t].pc \notin Deciding \cup {"returned"}
               /\ SameLevel(t) /\ PlansKept
            \/ my[t].pc = "advance" /\ my'[t].pc = "returned" /\ PlansKept
            \/ /\ my[t].pc = "advance" /\ my'[t].pc = "plan" /\ my'[t].plan = my[t].plan
               /\ my'[t].curr = Depth(t) + 1 /\ PlansKept
            \/ /\ my[t].pc \in {"plan", "sizes"} /\ my'[t].pc \in {"sizes", "propose"}
               /\ my'[t].plan = my[t].plan /\ my'[t].curr = my[t].curr /\ PlansKept
            \/ Propose(t)
            \/ /\ my[t].pc \in {"plan", "sizes"} /\ my'[t].pc \in {"next", "done"}
               /\ my'[t].previous = my[t].plan.direction /\ my'[t].curr = my[t].curr
               /\ PlansKept /\ Decided(Depth(t)) /\ my'[t].plan = Decision(Depth(t))
            \/ Claim(t)
<1>1. CASE Propose(t) \/ Claim(t) BY <1>1 DEF Propose, Claim, At
<1>2. CASE LoadPlanOwner(t) \/ ReadSize(t) BY <1>2, LoadPlanStep DEF At, Decided, Decision, Curr
<1>3. CASE Advance(t) BY <1>3, AdvanceStep DEF At
<1>4. CASE ~Plan(t) /\ ~Advance(t) BY <1>4, StepWork DEF Work, At
<1> QED BY <1>1, <1>2, <1>3, <1>4 DEF Plan

\* The plan the winner of a level makes for all.
LEMMA NewDecision ==
  ASSUME Shape, Control, PlansInv, NEW t \in Thread, Step(t), NEW d \in Node,
         ~Decided(d), Decided(d)'
  PROVE  /\ Claim(t) /\ d = Depth(t) /\ node'[d].plan_owner = t
         /\ Decision(d)' = node[d].owners[t].proposal
         /\ my[t].pc = "claim"
<1>1. Claim(t) BY PlanSteps, ProposeGrows DEF PlansKept, Decided
<1>2. d = Depth(t) BY <1>1, ClaimGrows DEF Decided
<1>3. node'[d].plan_owner = t /\ node'[d].owners[t].proposal = node[d].owners[t].proposal
  BY <1>1, <1>2, ClaimGrows DEF Decided, Curr
<1> QED BY <1>1, <1>2, <1>3, ClaimStep DEF Decision

\* A thread that has entered a level has the plan of the level.
LEMMA OnePlanNext ==
  ASSUME Shape, Control, PlansInv, NEW t \in Thread, Step(t)
  PROVE  OnePlan'
<1>0. Moves(t) BY ControlNext
<1>1. SUFFICES ASSUME NEW s \in Thread, my'[s].pc \notin Deciding \cup {"returned"}
               PROVE  \E d \in Node : d = my'[s].curr /\ Decided(d)' /\ my'[s].plan = Decision(d)'
  BY DEF OnePlan, Decided, Decision, Curr, Depth
<1>2. ASSUME my[s].pc \notin Deciding \cup {"returned"},
             my'[s].curr = my[s].curr, my'[s].plan = my[s].plan
      PROVE  \E d \in Node : d = my'[s].curr /\ Decided(d)' /\ my'[s].plan = Decision(d)'
 <2>1. Depth(s) \in Node /\ Decided(Depth(s)) /\ my[s].plan = Decision(Depth(s))
   BY <1>2, Here DEF At, PlansInv, OnePlan, Decided, Decision, Curr
 <2>2. PICK d \in Node : d = Depth(s) BY <2>1
 <2>3. Decided(d)' /\ Decision(d)' = Decision(d) BY <2>1, <2>2, DecisionsStay
 <2> QED BY <1>2, <2>1, <2>2, <2>3 DEF Depth
<1>3. CASE s # t BY <1>0, <1>1, <1>2, <1>3 DEF Moves
<1>4. CASE s = t
 <2>0. Depth(t) \in Node /\ ~At(t, "returned") BY PlanSteps, Here
 <2>1. PICK d \in Node : d = Depth(t) BY <2>0
 <2>2. CASE /\ my[t].pc \notin Deciding /\ SameLevel(t) BY <1>2, <1>4, <2>0, <2>2 DEF At, SameLevel
 <2>3. CASE /\ my'[t].curr = my[t].curr /\ Decided(Depth(t)) /\ my'[t].plan = Decision(Depth(t))
  <3>1. Decided(d)' /\ Decision(d)' = Decision(d) BY <2>1, <2>3, DecisionsStay
  <3> QED BY <1>4, <2>1, <2>3, <3>1 DEF Depth
 <2>4. CASE Claim(t)
  <3>1. CASE Decided(d)
   <4>1. Decided(d)' /\ Decision(d)' = Decision(d) BY <3>1, DecisionsStay
   <4>2. my'[t].plan = Decision(d) /\ my'[t].curr = d
     BY <2>1, <2>4, <3>1, ClaimStep DEF Decided, Decision, Curr, Depth
   <4> QED BY <1>4, <4>1, <4>2
  <3>2. CASE ~Decided(d)
   <4>1. node'[d].plan_owner = t /\ node'[d].owners[t].proposal = node[d].owners[t].proposal
     BY <2>1, <2>4, <3>2, ClaimGrows DEF Decided, Curr
   <4>2. t # None BY DEF Thread, None
   <4>3. my'[t].plan = node[d].owners[t].proposal /\ my'[t].curr = d
     BY <2>1, <2>4, <3>2, ClaimStep DEF Decided, Curr, Depth
   <4> QED BY <1>4, <4>1, <4>2, <4>3 DEF Decided, Decision
  <3> QED BY <3>1, <3>2
 <2>5. ~Propose(t) /\ my'[t].pc \notin {"plan", "sizes", "propose", "returned"}
   BY <1>1, <1>4, ProposeStep DEF Deciding
 <2> QED BY <2>2, <2>3, <2>4, <2>5, PlanSteps
<1> QED BY <1>3, <1>4

\* The thread whose proposal a level follows does not come back to it.
LEMMA OwnerHasLeftNext ==
  ASSUME Shape, Control, PlansInv, NEW t \in Thread, Step(t)
  PROVE  OwnerHasLeft'
<1>0. Moves(t) /\ ~At(t, "returned") /\ Depth(t) \in Node /\ Depth(t) \in Int
  BY ControlNext, PlanSteps, Here DEF Node
<1>1. SUFFICES ASSUME NEW d \in Node, Decided(d)', NEW o \in Thread, o = node'[d].plan_owner,
                      my'[o].pc # "returned"
               PROVE  my'[o].curr >= d /\ (my'[o].curr = d => my'[o].pc \notin Deciding)
 <2>1. \A d \in Node : Decided(d)' => node'[d].plan_owner \in Thread
   BY ShapeNext DEF Decided, Shape, NodeShape
 <2> QED BY <2>1 DEF OwnerHasLeft, At, Depth
<1>2. CASE Decided(d)
 <2>1. node[d].plan_owner = o BY <1>1, <1>2, DecisionsStay
 <2>2. ~At(o, "returned") => Depth(o) >= d /\ (Depth(o) = d => my[o].pc \notin Deciding)
   BY <1>2, <2>1 DEF PlansInv, OwnerHasLeft
 <2>3. CASE o # t BY <1>0, <1>1, <2>2, <2>3 DEF Moves, At, Depth
 <2>4. CASE o = t
  <3>1. Depth(t) >= d /\ (Depth(t) = d => my[t].pc \notin Deciding) BY <1>0, <2>2, <2>4
  <3>2. CASE my[t].pc \notin Deciding /\ my'[t].pc \notin Deciding /\ SameLevel(t)
    BY <2>4, <3>1, <3>2 DEF SameLevel, Depth
  <3>3. CASE my'[t].curr = Depth(t) + 1
   <4>1. d \in Int BY DEF Node
   <4> QED BY <1>0, <2>4, <3>1, <3>3, <4>1
  <3>4. CASE my[t].pc \in Deciding /\ my'[t].curr = my[t].curr BY <2>4, <3>1, <3>4 DEF Depth
  <3> QED BY <1>1, <2>4, <3>2, <3>3, <3>4, PlanSteps, ProposeStep, ClaimStep DEF Deciding
 <2> QED BY <2>3, <2>4
<1>3. CASE ~Decided(d)
 <2>1. Claim(t) /\ d = Depth(t) /\ o = t BY <1>1, <1>3, NewDecision
 <2>2. my'[t].curr = d /\ my'[t].pc \notin Deciding /\ d \in Int
   BY <2>1, ClaimStep DEF Depth, Deciding, Node
 <2> QED BY <2>1, <2>2
<1> QED BY <1>2, <1>3

\* The chain of the plans.
LEMMA BeforeStays ==
  ASSUME Shape, Control, PlansInv, NEW t \in Thread, Step(t), NEW d \in Node,
         d > 0 => Decided(d - 1)
  PROVE  Before(d)' = Before(d)
<1>1. CASE d = 0 BY <1>1 DEF Before
<1>2. CASE d # 0
 <2>1. d > 0 /\ d - 1 \in Node BY <1>2, DirAssumption DEF Node
 <2>2. PICK c \in Node : c = d - 1 BY <2>1
 <2>3. Decision(c)' = Decision(c) BY <2>1, <2>2, DecisionsStay
 <2> QED BY <1>2, <2>2, <2>3 DEF Before
<1> QED BY <1>1, <1>2

LEMMA PlanOrderNext ==
  ASSUME Shape, Control, PlansInv, NEW t \in Thread, Step(t)
  PROVE  PlansInOrder'
<1>0. Moves(t) /\ ~At(t, "returned") /\ Depth(t) \in Node BY ControlNext, PlanSteps, Here
<1>9. \A d \in Node : d \in Int /\ MaxNode \in Nat /\ d >= 0 /\ d <= MaxNode
  BY DirAssumption DEF Node
<1>1. ASSUME NEW d \in Node, \A c \in 0 .. d - 1 : Decided(c)
      PROVE  (\A c \in 0 .. d - 1 : Decided(c)') /\ Before(d)' = Before(d)
 <2>1. \A c \in 0 .. d - 1 : c \in Node BY <1>9 DEF Node
 <2>2. d > 0 => Decided(d - 1) BY <1>1, <1>9
 <2> QED BY <1>1, <2>1, <2>2, DecisionsStay, BeforeStays
<1>2. ASSUME NEW d \in Node, Decided(d)'
      PROVE  /\ \A c \in 0 .. d - 1 : Decided(c)'
             /\ \E direction \in {"top_down", "bottom_up"} :
                  Decision(d)' = AssignCode(Before(d)', direction)
 <2>1. CASE Decided(d) BY <1>1, <2>1, DecisionsStay DEF PlansInv, PlansInOrder
 <2>2. CASE ~Decided(d)
  <3>1. Claim(t) /\ d = Depth(t) /\ Decision(d)' = node[d].owners[t].proposal /\ my[t].pc = "claim"
    BY <1>2, <2>2, NewDecision
  <3>2. /\ \A c \in 0 .. d - 1 : Decided(c)
        /\ \E direction \in {"top_down", "bottom_up"} :
             node[d].owners[t].proposal = AssignCode(Before(d), direction)
    BY <1>0, <3>1 DEF PlansInv, PlansInOrder, At, Curr
  <3> QED BY <1>1, <3>1, <3>2
 <2> QED BY <2>1, <2>2
<1>3. ASSUME NEW s \in Thread, my'[s].pc # "returned"
      PROVE  \E d \in Node :
               /\ d = my'[s].curr
               /\ \A c \in 0 .. d - 1 : Decided(c)'
               /\ my'[s].pc \in Deciding => my'[s].plan = Before(d)'
               /\ my'[s].pc \notin Deciding => my'[s].previous = Before(d)'.direction
               /\ my'[s].pc = "claim" =>
                    \E direction \in {"top_down", "bottom_up"} :
                      node'[d].owners[s].proposal = AssignCode(Before(d)', direction)
 <2>1. ASSUME my[s].pc # "returned"
       PROVE  \E d \in Node :
              /\ d = my[s].curr
              /\ \A c \in 0 .. d - 1 : Decided(c)'
              /\ Before(d)' = Before(d)
              /\ my[s].pc \in Deciding => my[s].plan = Before(d)
              /\ my[s].pc \notin Deciding => my[s].previous = Before(d).direction
              /\ my[s].pc = "claim" =>
                   \E direction \in {"top_down", "bottom_up"} :
                     node[d].owners[s].proposal = AssignCode(Before(d), direction)
  <3>1. PICK d \in Node : d = Depth(s) BY <2>1, Here DEF At
  <3>2. /\ \A c \in 0 .. d - 1 : Decided(c)
        /\ my[s].pc \in Deciding => my[s].plan = Before(d)
        /\ my[s].pc \notin Deciding => my[s].previous = Before(d).direction
        /\ my[s].pc = "claim" =>
             \E direction \in {"top_down", "bottom_up"} :
               node[d].owners[s].proposal = AssignCode(Before(d), direction)
    BY <2>1, <3>1 DEF PlansInv, PlansInOrder, At, Curr
  <3> QED BY <1>1, <3>1, <3>2 DEF Depth
 <2>2. CASE s # t
  <3>1. my'[s] = my[s] BY <1>0, <2>2 DEF Moves
  <3>2. \A d \in Node : node'[d].owners[s].proposal = node[d].owners[s].proposal
    BY <2>2, PlanSteps, ProposeGrows, ClaimGrows DEF PlansKept
  <3> QED BY <1>3, <2>1, <3>1, <3>2
 <2>3. CASE s = t
  <3>1. PICK d \in Node :
          /\ d = my[t].curr
          /\ \A c \in 0 .. d - 1 : Decided(c)'
          /\ Before(d)' = Before(d)
          /\ my[t].pc \in Deciding => my[t].plan = Before(d)
          /\ my[t].pc \notin Deciding => my[t].previous = Before(d).direction
    BY <1>0, <2>1, <2>3 DEF At
  <3>2. CASE my[t].pc \notin Deciding /\ my'[t].pc \notin Deciding /\ SameLevel(t)
    BY <2>3, <3>1, <3>2 DEF SameLevel, Deciding
  <3>3. CASE /\ my[t].pc = "advance" /\ my'[t].pc = "plan" /\ my'[t].plan = my[t].plan
             /\ my'[t].curr = Depth(t) + 1
   <4>1. PICK e \in Node : e = my'[t].curr
    <5>1. my'[t].curr \in Node
     <6>1. Fine(t)' /\ linked' \in 1 .. MaxNode + 1
       BY ControlNext, ShapeNext DEF Control, Fine, Shape
     <6> QED BY <1>9, <3>3, <6>1 DEF Fine, AtNode, At, Depth, Node
    <5> QED BY <5>1
   <4>2. Decided(d) /\ my[t].plan = Decision(d)
     BY <3>1, <3>3 DEF PlansInv, OnePlan, Deciding, Decided, Decision, Curr, Depth
   <4>3. Decided(d)' /\ Decision(d)' = Decision(d) BY <4>2, DecisionsStay
   <4>4. e = d + 1 /\ e > 0 /\ e - 1 = d BY <1>9, <3>1, <3>3, <4>1 DEF Depth
   <4>5. \A c \in 0 .. e - 1 : Decided(c)' BY <1>9, <3>1, <4>3, <4>4
   <4>6. Before(e)' = Decision(d)' BY <4>4 DEF Before
   <4> QED BY <2>3, <3>3, <4>1, <4>2, <4>3, <4>5, <4>6 DEF Deciding
  <3>4. CASE /\ my[t].pc \in {"plan", "sizes"} /\ my'[t].pc \in {"sizes", "propose"}
             /\ my'[t].plan = my[t].plan /\ my'[t].curr = my[t].curr
    BY <2>3, <3>1, <3>4 DEF Deciding
  <3>5. CASE Propose(t)
   <4>1. /\ my'[t].pc = "claim" /\ my[t].pc = "propose"
         /\ my'[t].curr = my[t].curr /\ my'[t].plan = my[t].plan
     BY <3>5, ProposeStep
   <4>2. \E direction \in {"top_down", "bottom_up"} :
           node'[d].owners[t].proposal = AssignCode(my[t].plan, direction)
     BY <3>1, <3>5, ProposeGrows DEF Depth
   <4> QED BY <2>3, <3>1, <4>1, <4>2 DEF Deciding
  <3>6. CASE /\ my[t].pc \in {"plan", "sizes", "claim"} /\ my'[t].pc \in {"next", "done"}
             /\ my'[t].previous = my[t].plan.direction /\ my'[t].curr = my[t].curr
    BY <2>3, <3>1, <3>6 DEF Deciding
  <3> QED BY <1>3, <2>3, <3>2, <3>3, <3>4, <3>5, <3>6, PlanSteps, ClaimStep
 <2> QED BY <2>2, <2>3
<1> QED BY <1>2, <1>3 DEF PlansInOrder, At, Depth, Curr

LEMMA FirstPlans == Init => PlansInv
<1> SUFFICES ASSUME Init PROVE PlansInv OBVIOUS
<1>1. \A d \in Node : ~Decided(d) BY FirstNodes DEF Decided
<1>2. \A t \in Thread : my[t].pc = "plan" /\ my[t].plan = FirstPlan /\ my[t].curr = 0
  BY FirstThreads, Zenon
<1>3. OnePlan /\ OwnerHasLeft BY <1>1, <1>2 DEF OnePlan, OwnerHasLeft, Deciding
<1>4. PlansInOrder BY <1>1, <1>2 DEF PlansInOrder, At, Depth, Before, Deciding
<1> QED BY <1>3, <1>4 DEF PlansInv

(***************************************************************************)
(* Wherever a search is, and however often one has been made.              *)
(***************************************************************************)
LEMMA PlanInvNext == PlanInv /\ [Next]_vars => PlanInv'
<1> SUFFICES ASSUME PlanInv, [Next]_vars PROVE PlanInv' OBVIOUS
<1>1. ASSUME NEW t \in Thread, Step(t) PROVE PlanInv'
  BY <1>1, ShapeNext, ControlNext, OnePlanNext, OwnerHasLeftNext, PlanOrderNext DEF PlanInv,
     PlansInv
<1>2. CASE SearchAgain
 <2>1. Init'
   BY <1>2 DEF SearchAgain, Init, FreshDist, FreshCodes, FreshVis, FreshStamps, FreshNodes,
      FreshThreads, NewNode, NewOwner
 <2>2. Init' => (Shape /\ Control)' BY FirstShape, PTL
 <2>3. Init' => PlansInv' BY FirstPlans, PTL
 <2> QED BY <2>1, <2>2, <2>3 DEF PlanInv
<1>3. CASE UNCHANGED vars
 <2> USE DEF vars, memory
 <2>1. Shape' BY <1>3 DEF PlanInv, Shape
 <2>2. node' = node /\ linked' = linked /\ my' = my BY <1>3
 <2>3. OneList' BY <2>2 DEF PlanInv, Control, OneList
 <2>4. ASSUME NEW t \in Thread PROVE (AtNode(t) /\ NextKnown(t) /\ Directed(t) /\ Rounds(t))'
  <3>1. AtNode(t)' BY <2>2 DEF PlanInv, Control, AtNode, At, Depth
  <3>2. NextKnown(t)' BY <2>2 DEF PlanInv, Control, NextKnown, At, Depth, TopDownLevel
  <3>3. Directed(t)' BY <2>2 DEF PlanInv, Control, Directed, TopDownLevel
  <3>4. Rounds(t)' BY <2>2 DEF PlanInv, Control, Rounds, At, TopDownLevel
  <3> QED BY <3>1, <3>2, <3>3, <3>4
 <2>5. ASSUME NEW t \in Thread PROVE (Entries(t) /\ CodeEntries(t) /\ BlockEntries(t))'
  <3>1. Entry(t)' = Entry(t) /\ U(t)' = U(t) /\ C(t)' = C(t) BY <2>2 DEF Entry, Curr, Depth, U, C
  <3>2. /\ \A l : At(t, l)' = At(t, l)
        /\ Own(t)' = Own(t)
        /\ TopDownLevel(t)' = TopDownLevel(t)
        /\ \A v : InRange(t, v)' = InRange(t, v)
    BY <2>2, Zenon DEF At, Own, TopDownLevel, InRange
  <3>3. Entries(t)' BY <2>2, <3>1, <3>2 DEF PlanInv, Control, Entries
  <3>4. CodeEntries(t)' BY <2>2, <3>1, <3>2 DEF PlanInv, Control, CodeEntries
  <3>5. BlockEntries(t)' BY <2>2, <3>1, <3>2 DEF PlanInv, Control, BlockEntries
  <3> QED BY <3>3, <3>4, <3>5
 <2>6. Control' BY <2>3, <2>4, <2>5 DEF Control
 <2>7. PlansInv'
   BY <1>3 DEF PlanInv, PlansInv, OnePlan, OwnerHasLeft, PlansInOrder, Decided, Decision, Before,
      Curr, Depth, At
 <2> QED BY <2>1, <2>6, <2>7 DEF PlanInv
<1> QED BY <1>1, <1>2, <1>3 DEF Next

(***************************************************************************)
(* The control state of wf_bfs (851-868) and what it calls: no thread      *)
(* follows a null pointer or leaves a bucket, its blocks or the list, and  *)
(* levels are decided in order, each from the plan of the one before.      *)
(***************************************************************************)
THEOREM PlansCorrect == Spec => []PlanInv
<1>1. Init => PlanInv BY FirstShape, FirstPlans DEF PlanInv
<1> QED BY <1>1, PlanInvNext, PTL DEF Spec

(***************************************************************************)
(* All threads expand a level by the plan that was decided for it.  In the *)
(* code, plan_level (827-849) lets every thread propose a plan from what   *)
(* it sees of the frontier, and a compare-and-swap of plan_owner decides;  *)
(* a thread that loses it, or comes later, takes the plan of the winner.   *)
(***************************************************************************)
THEOREM PlansAgree == Spec => []OnePlan
<1>1. PlanInv => OnePlan BY DEF PlanInv, PlansInv
<1> QED BY <1>1, PlansCorrect, PTL

-----------------------------------------------------------------------------
(***************************************************************************)
(* What a step writes into the buckets, and into the entries of owners.    *)
(***************************************************************************)
Done(d, o) == node[d].owners[o].done
Last(d, o) == node[d].owners[o].last_done
CodesDone(d, o) == node[d].owners[o].codes_done
CodesLast(d, o) == node[d].owners[o].codes_last_done

\* The steps that write into a node.
LEMMA NodeWriters ==
  ASSUME NEW t \in Thread, Step(t)
  PROVE  \/ UNCHANGED node
         \/ Propose(t) \/ Claim(t) \/ AddNode(t) \/ PushVertex(t) \/ PushFound(t)
         \/ Progress(t) \/ FinishBucket(t) \/ CodesProgress(t) \/ CodesFinish(t)
         \/ OwnProgress(t) \/ FinishBlocks(t)
  BY Zenon DEF Step, Plan, TopDown, Codes, ScanBlock, BottomUp, memory, LoadPlanOwner, ReadSize,
     TestNext, TestDone, TestSize, LoadBucket, StartHelping, TakeEntry, ReadDist, TestNeighbor,
     SwapDist, MarkVisited, TestCodesDone, CodesSize, CodesStart, WriteCode, Gather, TestCandidate,
     WriteNextCode, MarkFound, OwnBlock, OwnStamp, Help, HelpStart, HelpBlock, TestProgress,
     TestStamp, Stamp, Advance

\* A write into the entry of the owner t is at.
LEMMA MarkedEntry ==
  ASSUME Shape, Control, NEW t \in Thread, ~At(t, "returned"),
         NEW e \in OwnerType, SetEntry(t, e), e.bucket = Entry(t).bucket,
         e.proposal = Entry(t).proposal, UNCHANGED linked
  PROVE  /\ \A d \in Node, o \in Thread : Bucket(d, o)' = Bucket(d, o)
         /\ \A d \in Node, o \in Thread : d # Depth(t) \/ o # my[t].owner =>
              SameMarks(node'[d].owners[o], node[d].owners[o])
         /\ node'[Depth(t)].owners[my[t].owner] = e
<1>1. /\ Depth(t) \in Node /\ my[t].owner \in Thread
      /\ OnlyEntry(Depth(t), my[t].owner, e)
  BY Here, EntryWrites
<1>2. e.bucket = Bucket(Depth(t), my[t].owner) BY DEF Bucket, Entry, Curr
<1>3. \A d \in Node, o \in Thread : Bucket(d, o)' = Bucket(d, o) BY <1>1, <1>2, OneEntry
<1>4. \A d \in Node, o \in Thread : d # Depth(t) \/ o # my[t].owner =>
            SameMarks(node'[d].owners[o], node[d].owners[o])
  BY <1>1 DEF OnlyEntry, SameMarks
<1> QED BY <1>1, <1>3, <1>4 DEF OnlyEntry

(***************************************************************************)
(* Buckets change by pushes.                                               *)
(***************************************************************************)
LEMMA BucketWrites ==
  ASSUME Shape, Control, NEW t \in Thread, Step(t)
  PROVE  \/ \A d \in Node, o \in Thread : Bucket(d, o)' = Bucket(d, o)
         \/ /\ PushVertex(t) \/ PushFound(t)
            /\ Depth(t) + 1 \in Node
            /\ \E v \in Vertex :
                 /\ PushVertex(t) => v = V(t)
                 /\ PushFound(t) => v = C(t)
                 /\ \A d \in Node, o \in Thread :
                      Bucket(d, o)' = IF d = Depth(t) + 1 /\ o = t
                                      THEN Append(Bucket(d, o), v) ELSE Bucket(d, o)
<1>0. ~At(t, "returned") BY PlanSteps
<1>1. CASE UNCHANGED node BY <1>1 DEF Bucket
<1>2. CASE Propose(t) BY <1>2, ProposeGrows
<1>3. CASE Claim(t) BY <1>3, ClaimGrows
<1>4. CASE AddNode(t) BY <1>4, LinkGrows DEF Bucket
<1>5. CASE PushVertex(t)
 <2>1. /\ my[t].pc = "push" /\ V(t) \in Vertex /\ Depth(t) + 1 < linked
       /\ Push(t, V(t)) /\ UNCHANGED linked /\ ~PushFound(t)
   BY <1>5, ItemVertex DEF PushVertex, PushFound, At, AtItem, AtBucket, Control, NextKnown
 <2> DEFINE v == V(t)
 <2>2. v \in Vertex /\ Push(t, v) BY <2>1
 <2>3. PushVertex(t) => v = V(t) OBVIOUS
 <2> HIDE DEF v
 <2>4. /\ Depth(t) + 1 \in Node
       /\ \A d \in Node, o \in Thread :
                   Bucket(d, o)' = IF d = Depth(t) + 1 /\ o = t
                                   THEN Append(Bucket(d, o), v) ELSE Bucket(d, o)
   BY <1>0, <2>1, <2>2, PushGrows
 <2> QED BY <1>5, <2>1, <2>2, <2>3, <2>4
<1>6. CASE PushFound(t)
 <2>1. /\ my[t].pc = "found" /\ C(t) \in Vertex /\ Depth(t) + 1 < linked
       /\ Push(t, C(t)) /\ UNCHANGED linked /\ ~PushVertex(t)
   BY <1>6, BlockVertex DEF PushVertex, PushFound, At, Finding, InBlock, InBottomUp, Control,
      NextKnown
 <2> DEFINE v == C(t)
 <2>2. v \in Vertex /\ Push(t, v) BY <2>1
 <2>3. PushFound(t) => v = C(t) OBVIOUS
 <2> HIDE DEF v
 <2>4. /\ Depth(t) + 1 \in Node
       /\ \A d \in Node, o \in Thread :
                   Bucket(d, o)' = IF d = Depth(t) + 1 /\ o = t
                                   THEN Append(Bucket(d, o), v) ELSE Bucket(d, o)
   BY <1>0, <2>1, <2>2, PushGrows
 <2> QED BY <1>6, <2>1, <2>2, <2>3, <2>4
<1>7. CASE \/ Progress(t) \/ FinishBucket(t) \/ CodesProgress(t) \/ CodesFinish(t)
           \/ OwnProgress(t) \/ FinishBlocks(t)
 <2>1. PICK e : /\ SetEntry(t, e)
                /\ \/ e = [Entry(t) EXCEPT !.last_done = my[t].item]
                   \/ e = [Entry(t) EXCEPT !.done = TRUE]
                   \/ e = [Entry(t) EXCEPT !.codes_last_done = my[t].item]
                   \/ e = [Entry(t) EXCEPT !.codes_done = TRUE]
   BY <1>7 DEF Progress, FinishBucket, CodesProgress, CodesFinish, OwnProgress, FinishBlocks
 <2>2. Entry(t) \in OwnerType /\ my[t].item \in Nat /\ UNCHANGED linked
   BY <1>0, <1>7, Here, ThreadFields DEF Progress, FinishBucket, CodesProgress, CodesFinish,
      OwnProgress, FinishBlocks, Shape
 <2>3. e \in OwnerType BY <2>1, <2>2, EntryTypes, Zenon
 <2>4. e.bucket = Entry(t).bucket /\ e.proposal = Entry(t).proposal BY <2>1, <2>2 DEF OwnerType
 <2> QED BY <1>0, <2>1, <2>2, <2>3, <2>4, MarkedEntry
<1> QED BY <1>1, <1>2, <1>3, <1>4, <1>5, <1>6, <1>7, NodeWriters

(***************************************************************************)
(* Progress and flags change by the steps that are named for it, in the    *)
(* entry of the owner the thread is at.                                    *)
(***************************************************************************)
LEMMA MarksWritten ==
  ASSUME Shape, Control, NEW t \in Thread, Step(t), NEW d \in Node, NEW o \in Thread
  PROVE  /\ \/ Done(d, o)' = Done(d, o)
            \/ /\ d = Depth(t) /\ o = my[t].owner /\ Done(d, o)' = TRUE
               /\ FinishBucket(t) \/ FinishBlocks(t)
         /\ \/ Last(d, o)' = Last(d, o)
            \/ /\ d = Depth(t) /\ o = my[t].owner /\ Last(d, o)' = my[t].item
               /\ Progress(t) \/ OwnProgress(t)
         /\ \/ CodesDone(d, o)' = CodesDone(d, o)
            \/ d = Depth(t) /\ o = my[t].owner /\ CodesDone(d, o)' = TRUE /\ CodesFinish(t)
         /\ \/ CodesLast(d, o)' = CodesLast(d, o)
            \/ d = Depth(t) /\ o = my[t].owner /\ CodesLast(d, o)' = my[t].item /\ CodesProgress(t)
<1> DEFINE Same == /\ Done(d, o)' = Done(d, o) /\ Last(d, o)' = Last(d, o)
                   /\ CodesDone(d, o)' = CodesDone(d, o) /\ CodesLast(d, o)' = CodesLast(d, o)
<1>0. ~At(t, "returned") BY PlanSteps
<1>a. SameMarks(node'[d].owners[o], node[d].owners[o]) => Same
  BY DEF SameMarks, Done, Last, CodesDone, CodesLast
<1>1. CASE UNCHANGED node BY <1>1 DEF Done, Last, CodesDone, CodesLast
<1>2. CASE Propose(t)
 <2>1. Same BY <1>2, <1>a, ProposeGrows
 <2> QED BY <2>1
<1>3. CASE Claim(t)
 <2>1. Same BY <1>3, <1>a, ClaimGrows
 <2> QED BY <2>1
<1>4. CASE AddNode(t)
 <2>1. Same BY <1>4, LinkGrows DEF Done, Last, CodesDone, CodesLast
 <2> QED BY <2>1
<1>5. CASE PushVertex(t) \/ PushFound(t)
 <2>1. Depth(t) + 1 < linked /\ UNCHANGED linked
   BY <1>5 DEF PushVertex, PushFound, At, AtItem, AtBucket, Finding, InBlock, InBottomUp, Control,
      NextKnown
 <2>2. PICK v \in Vertex : Push(t, v)
  <3>1. PushVertex(t) => V(t) \in Vertex /\ Push(t, V(t)) BY ItemVertex DEF PushVertex, At
  <3>2. PushFound(t) => C(t) \in Vertex /\ Push(t, C(t)) BY BlockVertex DEF PushFound, At, Finding
  <3> QED BY <1>5, <3>1, <3>2
 <2>3. SameMarks(node'[d].owners[o], node[d].owners[o]) BY <1>0, <2>1, <2>2, PushGrows
 <2> QED BY <1>a, <2>3
<1>6. CASE \/ Progress(t) \/ FinishBucket(t) \/ CodesProgress(t) \/ CodesFinish(t)
           \/ OwnProgress(t) \/ FinishBlocks(t)
 <2>1. PICK e : /\ SetEntry(t, e)
                /\ \/ /\ e = [Entry(t) EXCEPT !.last_done = my[t].item]
                      /\ Progress(t) \/ OwnProgress(t)
                   \/ /\ e = [Entry(t) EXCEPT !.done = TRUE]
                      /\ FinishBucket(t) \/ FinishBlocks(t)
                   \/ /\ e = [Entry(t) EXCEPT !.codes_last_done = my[t].item]
                      /\ CodesProgress(t)
                   \/ /\ e = [Entry(t) EXCEPT !.codes_done = TRUE]
                      /\ CodesFinish(t)
   BY <1>6 DEF Progress, FinishBucket, CodesProgress, CodesFinish, OwnProgress, FinishBlocks
 <2>2. Entry(t) \in OwnerType /\ my[t].item \in Nat /\ UNCHANGED linked
   BY <1>0, <1>6, Here, ThreadFields DEF Progress, FinishBucket, CodesProgress, CodesFinish,
      OwnProgress, FinishBlocks, Shape
 <2>3. e \in OwnerType BY <2>1, <2>2, EntryTypes, Zenon
 <2>4. e.bucket = Entry(t).bucket /\ e.proposal = Entry(t).proposal BY <2>1, <2>2 DEF OwnerType
 <2>5. /\ d # Depth(t) \/ o # my[t].owner => SameMarks(node'[d].owners[o], node[d].owners[o])
       /\ d = Depth(t) /\ o = my[t].owner => node'[d].owners[o] = e /\ Entry(t) = node[d].owners[o]
   BY <1>0, <2>1, <2>2, <2>3, <2>4, MarkedEntry DEF Entry, Curr
 <2>6. CASE d # Depth(t) \/ o # my[t].owner BY <1>a, <2>5, <2>6
 <2>7. CASE d = Depth(t) /\ o = my[t].owner
  <3> DEFINE f == node[d].owners[o]
             f1 == node'[d].owners[o]
  <3>1. f1 = e /\ Entry(t) = f /\ f \in OwnerType BY <2>2, <2>5, <2>7
  <3>2. /\ Done(d, o) = f.done /\ Last(d, o) = f.last_done
        /\ CodesDone(d, o) = f.codes_done /\ CodesLast(d, o) = f.codes_last_done
        /\ Done(d, o)' = f1.done /\ Last(d, o)' = f1.last_done
        /\ CodesDone(d, o)' = f1.codes_done /\ CodesLast(d, o)' = f1.codes_last_done
    BY DEF Done, Last, CodesDone, CodesLast
  <3> HIDE DEF f, f1
  <3>3. \/ /\ f1.last_done = my[t].item /\ f1.done = f.done
           /\ f1.codes_done = f.codes_done /\ f1.codes_last_done = f.codes_last_done
           /\ Progress(t) \/ OwnProgress(t)
        \/ /\ f1.last_done = f.last_done /\ f1.done = TRUE
           /\ f1.codes_done = f.codes_done /\ f1.codes_last_done = f.codes_last_done
           /\ FinishBucket(t) \/ FinishBlocks(t)
        \/ /\ f1.last_done = f.last_done /\ f1.done = f.done
           /\ f1.codes_done = f.codes_done /\ f1.codes_last_done = my[t].item
           /\ CodesProgress(t)
        \/ /\ f1.last_done = f.last_done /\ f1.done = f.done
           /\ f1.codes_done = TRUE /\ f1.codes_last_done = f.codes_last_done
           /\ CodesFinish(t)
    BY <2>1, <3>1 DEF OwnerType
  <3> QED BY <2>7, <3>2, <3>3
 <2> QED BY <2>6, <2>7, Zenon
<1> QED BY <1>1, <1>2, <1>3, <1>4, <1>5, <1>6, NodeWriters, Zenon

-----------------------------------------------------------------------------
(***************************************************************************)
(* What stays the same for the threads that do not step.                   *)
(***************************************************************************)
LEMMA OtherPlace ==
  ASSUME Shape, Control, Grows, NEW t \in Thread, Moves(t), NEW s \in Thread, s # t
  PROVE  /\ my'[s] = my[s] /\ Depth(s)' = Depth(s) /\ Own(s)' = Own(s) /\ C(s)' = C(s)
         /\ \A l : At(s, l)' = At(s, l)
         /\ my[s].pc \in AtItem \cup {"code"} => U(s)' = U(s)
         /\ my[s].pc \in {"neighbor", "push", "swap"} => V(s)' = V(s)
         /\ ~At(s, "returned") =>
              /\ Len(Entry(s).bucket) <= Len(Entry(s)'.bucket)
              /\ \A i \in 1 .. Len(Entry(s).bucket) : Entry(s)'.bucket[i] = Entry(s).bucket[i]
<1>1. my'[s] = my[s] BY DEF Moves
<1>2. /\ Depth(s)' = Depth(s) /\ Own(s)' = Own(s) /\ C(s)' = C(s)
      /\ \A l : At(s, l)' = At(s, l)
  BY <1>1 DEF Depth, Own, C, At
<1>3. ASSUME ~At(s, "returned")
      PROVE  /\ Len(Entry(s).bucket) <= Len(Entry(s)'.bucket)
             /\ \A i \in 1 .. Len(Entry(s).bucket) : Entry(s)'.bucket[i] = Entry(s).bucket[i]
 <2>1. Depth(s) \in Node /\ my[s].owner \in Thread BY <1>3, Here
 <2> DEFINE d == Depth(s)
            o == my[s].owner
 <2>2. Entry(s).bucket = node[d].owners[o].bucket BY DEF Entry, Curr
 <2>3. Entry(s)'.bucket = node'[d].owners[o].bucket BY <1>1, <1>2 DEF Entry, Curr
 <2>4. d \in Node /\ o \in Thread BY <2>1
 <2> HIDE DEF d, o
 <2> QED BY SMTT(40), <2>2, <2>3, <2>4 DEF Grows, Bucket
<1>4. my[s].pc \in AtItem \cup {"code"} => U(s)' = U(s)
 <2>1. my[s].pc \in AtItem \cup {"code"} =>
         ~At(s, "returned") /\ my[s].item \in 1 .. Len(Entry(s).bucket)
   BY ItemVertex DEF At, AtItem
 <2> QED BY <1>1, <1>3, <2>1 DEF U
<1>5. my[s].pc \in {"neighbor", "push", "swap"} => V(s)' = V(s) BY <1>1, <1>4 DEF V, AtItem
<1> QED BY <1>1, <1>2, <1>3, <1>4, <1>5

-----------------------------------------------------------------------------
(***************************************************************************)
(* Distances are only set, to what they have to be, in the next level.     *)
(***************************************************************************)
LEMMA DistSteps ==
  ASSUME Shape, Control, DistSound, Views, NEW t \in Thread, Step(t)
  PROVE  /\ Depth(t) \in Node /\ Depth(t) + 1 \in Nat
         /\ \A x \in Vertex :
              \/ dist'[x] = dist[x]
              \/ /\ ~Discovered(x) /\ dist'[x] = Depth(t) + 1 /\ Delta[x] = Depth(t) + 1
                 /\ \/ SwapDist(t) /\ x = V(t)
                    \/ MarkFound(t) /\ x = C(t)
<1>0. Depth(t) \in Node /\ Depth(t) + 1 \in Nat BY PlanSteps, Here DEF Node
<1> SUFFICES ASSUME NEW x \in Vertex, dist'[x] # dist[x]
             PROVE  /\ ~Discovered(x) /\ dist'[x] = Depth(t) + 1 /\ Delta[x] = Depth(t) + 1
                    /\ \/ SwapDist(t) /\ x = V(t)
                       \/ MarkFound(t) /\ x = C(t)
  BY <1>0
<1>1. CASE SwapDist(t)
 <2>1. my[t].pc = "swap" BY <1>1 DEF SwapDist, At
 <2>2. my[t].du = Depth(t) /\ Delta[V(t)] = Depth(t) + 1 BY <2>1 DEF Views, VertexView, AtItem
 <2>3. x = V(t) /\ dist[x] = Unset /\ dist'[x] = my[t].du + 1 BY <1>1, SwapWrites
 <2> QED BY <1>1, <2>2, <2>3 DEF Discovered
<1>2. CASE MarkFound(t)
 <2>1. my[t].pc = "mark" BY <1>2 DEF MarkFound, At
 <2>2. Delta[C(t)] = Depth(t) + 1 BY <2>1 DEF Views, CandidatesView, Finding
 <2>3. x = C(t) /\ dist'[x] = Depth(t) + 1 BY <1>2, MarkWrites
 <2>4. dist[x] = Unset BY <2>2, <2>3 DEF DistSound
 <2> QED BY <1>2, <2>2, <2>3, <2>4 DEF Discovered
<1> QED BY <1>1, <1>2, DistWrites

\* What is discovered stays so, with the same distance.
LEMMA Found ==
  ASSUME Shape, Control, DistSound, Views, NEW t \in Thread, Step(t), NEW x \in Vertex
  PROVE  /\ Discovered(x) => Discovered(x)' /\ dist'[x] = dist[x]
         /\ Covered(x) => Covered(x)'
<1>1. \A v \in Vertex : Discovered(v) => Discovered(v)' /\ dist'[v] = dist[v]
  BY DistSteps DEF Discovered
<1>2. Covered(x) => Covered(x)' BY <1>1, GraphTypes DEF Covered
<1> QED BY <1>1, <1>2

LEMMA DistSoundNext ==
  ASSUME Shape, Control, DistSound, Views, NEW t \in Thread, Step(t)
  PROVE  DistSound'
  BY DistSteps DEF DistSound

-----------------------------------------------------------------------------
(***************************************************************************)
(* Buckets hold vertices of their level; every vertex that is discovered   *)
(* is in one, since it is pushed before.                                   *)
(***************************************************************************)
LEMMA AppendAt ==
  ASSUME NEW b \in Seq(Vertex), NEW v \in Vertex
  PROVE  /\ Append(b, v) \in Seq(Vertex) /\ Len(Append(b, v)) = Len(b) + 1 /\ Len(b) \in Nat
         /\ \A i \in 1 .. Len(b) : Append(b, v)[i] = b[i]
         /\ Append(b, v)[Len(b) + 1] = v
  OBVIOUS

LEMMA BucketsSoundNext ==
  ASSUME Shape, Control, BucketsSound, Views, NEW t \in Thread, Step(t)
  PROVE  BucketsSound'
<1> SUFFICES ASSUME NEW d \in Node, NEW o \in Thread, NEW i \in 1 .. Len(Bucket(d, o)')
             PROVE  Delta[Bucket(d, o)'[i]] = d
  BY DEF BucketsSound, Bucket
<1>1. \A j \in 1 .. Len(Bucket(d, o)) : Delta[Bucket(d, o)[j]] = d BY DEF BucketsSound, Bucket
<1>2. CASE Bucket(d, o)' = Bucket(d, o) BY <1>1, <1>2
<1>3. CASE Bucket(d, o)' # Bucket(d, o)
 <2>1. PICK v \in Vertex : /\ Bucket(d, o)' = Append(Bucket(d, o), v) /\ d = Depth(t) + 1
                           /\ (PushVertex(t) /\ v = V(t)) \/ (PushFound(t) /\ v = C(t))
   BY <1>3, BucketWrites
 <2>2. Delta[v] = d
   BY <2>1 DEF PushVertex, PushFound, At, Views, VertexView, CandidatesView, AtItem, Finding
 <2>3. Bucket(d, o) \in Seq(Vertex) BY BucketType
 <2> QED BY <1>1, <2>1, <2>2, <2>3, AppendAt
<1> QED BY <1>2, <1>3

\* An entry of a bucket stays.
LEMMA EntriesStay ==
  ASSUME Shape, Grows, NEW d \in Node, NEW o \in Thread
  PROVE  /\ \A i \in Places(d, o) : i \in Places(d, o)' /\ Bucket(d, o)'[i] = Bucket(d, o)[i]
         /\ \A v : EntryOf(d, o, v) => EntryOf(d, o, v)'
<1>1. \A i \in Places(d, o) : i \in Places(d, o)' /\ Bucket(d, o)'[i] = Bucket(d, o)[i]
 <2>1. /\ Len(Bucket(d, o)) <= Len(Bucket(d, o)')
       /\ \A i \in 1 .. Len(Bucket(d, o)) : Bucket(d, o)'[i] = Bucket(d, o)[i]
   BY DEF Grows
 <2>2. Len(Bucket(d, o)) \in Nat /\ Len(Bucket(d, o)') \in Nat
  <3>1. Bucket(d, o)' \in Seq(Vertex) BY DEF Grows, NodeShape, OwnerType, Bucket
  <3> QED BY <3>1, BucketType
 <2> QED BY <2>1, <2>2 DEF Places
<1> QED BY <1>1 DEF EntryOf

LEMMA DecidedReadyNext ==
  ASSUME Shape, Control, PlansInv, DistSound, Views, LevelReady, DecidedReady,
         NEW t \in Thread, Step(t)
  PROVE  DecidedReady'
<1> SUFFICES ASSUME NEW d \in Node, Decided(d)', NEW v \in Level(d) PROVE Discovered(v)'
  BY DEF DecidedReady
<1>0. v \in Vertex /\ Delta[v] = d BY DEF Level
<1>1. Discovered(v)
 <2>1. CASE Decided(d) BY <2>1 DEF DecidedReady
 <2>2. CASE ~Decided(d)
  <3>1. d = Depth(t) /\ ~At(t, "returned") BY <2>2, NewDecision, PlanSteps
  <3>2. Delta[v] \in 0 .. Depth(t) BY <1>0, <3>1 DEF Node
  <3> QED BY <1>0, <3>1, <3>2 DEF LevelReady
 <2> QED BY <2>1, <2>2
<1> QED BY <1>0, <1>1, Found

\* A thread that discovers something is in a level that is decided.
LEMMA InLevel ==
  ASSUME Shape, Control, PlansInv, NEW t \in Thread, my[t].pc \notin Deciding \cup {"returned"}
  PROVE  /\ Depth(t) \in Node /\ Decided(Depth(t)) /\ my[t].plan = Decision(Depth(t))
         /\ ~At(t, "returned")
  BY Here DEF PlansInv, OnePlan, Decided, Decision, At, Curr

LEMMA FoundDecidedNext ==
  ASSUME Shape, Control, PlansInv, DistSound, Views, FoundDecided, NEW t \in Thread, Step(t)
  PROVE  FoundDecided'
<1> SUFFICES ASSUME NEW v \in Vertex, Discovered(v)', dist'[v] > 0
             PROVE  /\ dist'[v] - 1 \in Node
                    /\ \A d \in Node : d = dist'[v] - 1 => Decided(d)'
  BY DEF FoundDecided
<1>1. CASE dist'[v] = dist[v]
 <2>1. Discovered(v) /\ Decided(dist[v] - 1) /\ dist[v] - 1 \in Node
  <3>1. Discovered(v) /\ dist[v] > 0 BY <1>1 DEF Discovered
  <3>2. dist[v] = Delta[v] BY <3>1 DEF DistSound, Discovered
  <3>3. dist[v] - 1 \in Node
   <4>1. Delta[v] \in Int /\ Delta[v] <= MaxDelta /\ MaxDelta \in Nat /\ MaxNode \in Nat
         /\ MaxDelta < MaxNode
     BY GraphTypes, GraphAssumption, DirAssumption
   <4> QED BY <3>1, <3>2, <4>1 DEF Node
  <3> QED BY <3>1, <3>3 DEF FoundDecided
 <2> QED BY <1>1, <2>1, DecisionsStay
<1>2. CASE dist'[v] # dist[v]
 <2>1. dist'[v] = Depth(t) + 1 /\ (SwapDist(t) \/ MarkFound(t)) /\ Depth(t) \in Node
   BY <1>2, DistSteps
 <2>2. my[t].pc \in {"swap", "mark"} BY <2>1 DEF SwapDist, MarkFound, At
 <2>3. Decided(Depth(t)) BY <2>2, InLevel DEF Deciding
 <2>4. dist'[v] - 1 = Depth(t) BY <2>1 DEF Node
 <2> QED BY <2>1, <2>3, <2>4, DecisionsStay
<1> QED BY <1>1, <1>2

LEMMA PushedKeptNext ==
  ASSUME Shape, Control, DistSound, Views, PushedKept, PushedFirst, NEW t \in Thread, Step(t)
  PROVE  PushedKept'
<1>0. Grows BY ControlNext
<1> SUFFICES ASSUME NEW v \in Vertex, Discovered(v)'
             PROVE  \E d \in Node, o \in Thread : d = dist'[v] /\ EntryOf(d, o, v)'
  BY DEF PushedKept, EntryOf, Places, Bucket
<1>1. CASE dist'[v] = dist[v]
 <2>1. PICK o \in Thread : EntryOf(dist[v], o, v) BY <1>1 DEF PushedKept, Discovered
 <2>2. dist[v] = Delta[v] /\ dist[v] \in Node
  <3>1. dist[v] # Unset BY <1>1 DEF Discovered
  <3>2. dist[v] = Delta[v] BY <3>1 DEF DistSound
  <3> QED BY <3>1, <3>2, GraphTypes, GraphAssumption, DirAssumption DEF Node, Unset
 <2>3. PICK d \in Node : d = dist[v] BY <2>2
 <2>4. EntryOf(d, o, v)' BY <1>0, <2>1, <2>3, EntriesStay
 <2> QED BY <1>1, <2>3, <2>4
<1>2. CASE dist'[v] # dist[v]
 <2>1. /\ dist'[v] = Depth(t) + 1
       /\ (SwapDist(t) /\ v = V(t)) \/ (MarkFound(t) /\ v = C(t))
   BY <1>2, DistSteps
 <2>2. EntryOf(Depth(t) + 1, t, v) BY <2>1 DEF SwapDist, MarkFound, PushedFirst, At
 <2>3. Depth(t) + 1 \in Node
  <3>1. Depth(t) + 1 < linked /\ ~At(t, "returned")
    BY <2>1 DEF SwapDist, MarkFound, At, Control, NextKnown, AtBucket, AtItem, InBottomUp, InBlock,
       Finding
  <3> QED BY <3>1, Here
 <2>4. PICK d \in Node : d = Depth(t) + 1 BY <2>3
 <2>5. EntryOf(d, t, v)' BY <1>0, <2>2, <2>4, EntriesStay
 <2> QED BY <2>1, <2>4, <2>5
<1> QED BY <1>1, <1>2

-----------------------------------------------------------------------------
(***************************************************************************)
(* The steps of a level once more, as far as it matters which entry or     *)
(* block a thread has got to.                                              *)
(***************************************************************************)
NextTurn(t) ==
  /\ my'[t].turn = my[t].turn + 1 /\ my[t].turn < NumT
  /\ my'[t].turn < NumT => my'[t].owner = Turn(t, my[t].turn + 1)

NextPc(t, again) == IF my[t].turn + 1 < NumT THEN again ELSE "advance"

LEMMA NextTurnMoves ==
  ASSUME Shape, Control, NEW t \in Thread,
         my[t].pc \notin Deciding \cup {"advance", "returned"},
         my'[t].owner = (my[t].owner + 1) % NumT, my'[t].turn = my[t].turn + 1
  PROVE  NextTurn(t)
<1>1. my[t].turn \in 0 .. NumT /\ my[t].turn < NumT /\ my[t].owner = Turn(t, my[t].turn) BY OwnTurn
<1>2. my[t].turn + 1 < NumT => Turn(t, my[t].turn + 1) = (my[t].owner + 1) % NumT BY <1>1, TurnNext
<1> QED BY <1>1, <1>2 DEF NextTurn

LEMMA LinkingSteps ==
  ASSUME Shape, Control, NEW t \in Thread, TestNext(t) \/ AddNode(t)
  PROVE  /\ my[t].pc \in Linking /\ SameLevel(t) /\ SameOwner(t)
         /\ \/ my'[t].pc = "link"
            \/ my'[t].pc = "load" /\ TopDownLevel(t)
            \/ /\ ~TopDownLevel(t) /\ my'[t].item = 1
               /\ my'[t].pc = IF my[t].previous = "top_down" /\ my[t].plan.code > 0
                              THEN "codes" ELSE "own"
<1>0. my \in [Thread -> ThreadShape] /\ my[t].pc \in Linking
  BY DEF Shape, TestNext, AddNode, At, Linking
<1>1. CASE Goto(t, "link") BY <1>0, <1>1, GotoMoves DEF Labels, SameRound
<1>2. CASE Linked(t) BY <1>0, <1>2, LinkedMoves, Zenon
<1> QED BY <1>1, <1>2 DEF TestNext, AddNode

LEMMA BucketSteps ==
  ASSUME Shape, Control, NEW t \in Thread, TopDown(t)
  PROVE  /\ my[t].pc \in InTopDown /\ SameLevel(t)
         /\ \/ /\ my[t].pc \in {"done", "size", "finish"} /\ my'[t].pc = NextPc(t, "done")
               /\ NextTurn(t)
               /\ my[t].pc = "done" => Entry(t).done
               /\ my[t].pc = "size" => Entry(t).bucket = <<>>
            \/ /\ my[t].pc \in {"done", "size"} /\ my'[t].pc \in {"size", "next", "load"}
               /\ SameOwner(t)
            \/ /\ my[t].pc = "load" /\ SameOwner(t) /\ my'[t].sz = Len(Entry(t).bucket)
               /\ \/ my'[t].pc = "start" /\ ~Own(t)
                  \/ my'[t].pc = "entry" /\ my'[t].todo = 1 .. my'[t].sz
            \/ /\ my[t].pc = "start" /\ SameOwner(t) /\ my'[t].sz = my[t].sz
               /\ my'[t].todo = Entry(t).last_done + 1 .. my[t].sz
               /\ my'[t].pc \in {"finish", "entry"}
            \/ /\ my[t].pc = "entry" /\ SameOwner(t) /\ my'[t].sz = my[t].sz
               /\ my'[t].item \in my[t].todo /\ my'[t].todo = my[t].todo \ {my'[t].item}
               /\ \/ my'[t].pc = "du"
                  \/ /\ my'[t].pc \in {"progress", "finish", "entry"}
                     /\ vis[Entry(t).bucket[my'[t].item]]
            \/ /\ my[t].pc \in AtItem /\ my'[t].pc \in AtItem \ {"du"} /\ SameOwner(t) /\ SameItems(t)
               /\ my'[t].pc = "swap" <=> PushVertex(t)
               /\ ReadDist(t) \/ TestNeighbor(t) \/ PushVertex(t) \/ SwapDist(t)
            \/ /\ MarkVisited(t) /\ my[t].pc = "vis" /\ my'[t].pc \in {"progress", "finish", "entry"}
               /\ SameOwner(t) /\ SameItems(t)
            \/ /\ Progress(t) /\ my[t].pc = "progress" /\ my'[t].pc \in {"finish", "entry"}
               /\ SameOwner(t) /\ SameItems(t)
<1> USE DEF AtBucket, AtItem, InTopDown
<1>0. my \in [Thread -> ThreadShape] /\ dist \in [Vertex -> Int] BY DEF Shape
<1>1. my[t].pc \in {"done", "size", "finish"} /\ NextOwner(t, "done", "advance") =>
        /\ SameLevel(t) /\ my'[t].pc = NextPc(t, "done") /\ NextTurn(t)
 <2> SUFFICES ASSUME my[t].pc \in {"done", "size", "finish"}, NextOwner(t, "done", "advance")
              PROVE  /\ SameLevel(t) /\ my'[t].pc = NextPc(t, "done") /\ NextTurn(t)
   OBVIOUS
 <2>1. my[t].turn < NumT BY OwnTurn DEF Deciding
 <2>2. /\ SameLevel(t) /\ my'[t].pc = NextPc(t, "done")
       /\ my'[t].owner = (my[t].owner + 1) % NumT /\ my'[t].turn = my[t].turn + 1
  <3>1. "done" \in Labels /\ "advance" \in Labels BY DEF Labels
  <3> QED BY <1>0, <2>1, <3>1, NextOwnerMoves DEF NextPc
 <2> QED BY <2>2, NextTurnMoves DEF Deciding
<1>2. ASSUME NEW l \in Labels, Goto(t, l)
      PROVE  my'[t].pc = l /\ SameLevel(t) /\ SameOwner(t) /\ SameItems(t)
  BY <1>0, <1>2, GotoMoves DEF SameRound
<1>3. CASE TestDone(t) BY <1>1, <1>2, <1>3 DEF TestDone, At, Labels
<1>4. CASE TestSize(t) BY <1>1, <1>2, <1>4 DEF TestSize, At, Labels
<1>5. CASE FinishBucket(t) BY <1>1, <1>5 DEF FinishBucket, At
<1>6. CASE LoadBucket(t) BY <1>6, LoadMoves DEF LoadBucket, At, SameRound
<1>7. CASE StartHelping(t)
 <2>1. Entry(t).last_done \in Nat /\ my[t].pc = "start"
   BY <1>7, Here, OwnerFields DEF StartHelping, At
 <2> QED BY <1>0, <1>7, <2>1, StartMoves DEF SameRound
<1>8. CASE TakeEntry(t) BY <1>0, <1>8, TakeMoves DEF TakeEntry, At, SameRound
<1>9. CASE ReadDist(t)
 <2>1. dist[U(t)] \in Int /\ my[t].pc = "du" /\ ~PushVertex(t)
   BY <1>0, <1>9, ItemVertex DEF ReadDist, PushVertex, At
 <2> QED BY <1>0, <1>9, <2>1, ReadMoves DEF SameRound
<1>10. CASE TestNeighbor(t) \/ SwapDist(t)
 <2>1. my[t].j + 1 \in Nat /\ my[t].pc \in {"neighbor", "swap"} /\ ~PushVertex(t)
   BY <1>0, <1>10, ThreadFields DEF TestNeighbor, SwapDist, PushVertex, At
 <2>2. CASE my' = FromNeighbor(t, my[t].j + 1)
   BY <1>0, <1>10, <2>1, <2>2, NextNeighborMoves DEF SameRound
 <2>3. CASE Goto(t, "push") BY <1>2, <1>10, <2>1, <2>3 DEF Labels
 <2> QED BY <1>10, <2>2, <2>3 DEF TestNeighbor, SwapDist
<1>11. CASE PushVertex(t) BY <1>2, <1>11 DEF PushVertex, At, Labels
<1>12. CASE MarkVisited(t) BY <1>0, <1>12, MarkMoves DEF MarkVisited, At, SameRound
<1>13. CASE Progress(t) BY <1>2, <1>13 DEF Progress, At, Labels
<1> QED BY <1>3, <1>4, <1>5, <1>6, <1>7, <1>8, <1>9, <1>10, <1>11, <1>12, <1>13 DEF TopDown

LEMMA CodesSteps ==
  ASSUME Shape, Control, NEW t \in Thread, Codes(t)
  PROVE  /\ my[t].pc \in InCodes /\ SameLevel(t) /\ Entry(t).codes_last_done \in Nat
         /\ \/ /\ my[t].pc \in {"codes", "codes_finish"} /\ my[t].turn + 1 < NumT
               /\ my'[t].pc = "codes" /\ NextTurn(t)
               /\ my[t].pc = "codes" => Entry(t).codes_done
            \/ /\ my[t].pc \in {"codes", "codes_finish"} /\ my[t].turn + 1 = NumT
               /\ my'[t].pc = "own" /\ my'[t].owner = t /\ my'[t].turn = 0 /\ my'[t].item = 1
               /\ my[t].pc = "codes" => Entry(t).codes_done
            \/ my[t].pc = "codes" /\ my'[t].pc = "codes_size" /\ SameOwner(t)
            \/ /\ my[t].pc = "codes_size" /\ SameOwner(t) /\ my'[t].sz = Len(Entry(t).bucket)
               /\ \/ my'[t].pc = "codes_start" /\ ~Own(t)
                  \/ /\ my'[t].item = 1 /\ Own(t)
                     /\ my'[t].pc = IF 1 <= my'[t].sz THEN "code" ELSE "codes_finish"
            \/ /\ my[t].pc = "codes_start" /\ SameOwner(t) /\ my'[t].sz = my[t].sz
               /\ my'[t].item = Entry(t).codes_last_done + 1
               /\ my'[t].pc = IF my'[t].item <= my[t].sz THEN "code" ELSE "codes_finish"
            \/ /\ WriteCode(t) /\ my[t].pc = "code" /\ SameOwner(t) /\ my'[t].sz = my[t].sz
               /\ \/ my'[t].pc = "codes_progress" /\ my'[t].item = my[t].item
                  \/ /\ my'[t].item = my[t].item + 1
                     /\ my'[t].pc = IF my'[t].item <= my[t].sz THEN "code" ELSE "codes_finish"
            \/ /\ CodesProgress(t) /\ my[t].pc = "codes_progress" /\ SameOwner(t)
               /\ my'[t].sz = my[t].sz /\ my'[t].item = my[t].item + 1
               /\ my'[t].pc = IF my'[t].item <= my[t].sz THEN "code" ELSE "codes_finish"
<1> USE DEF InCodes
<1>0. my \in [Thread -> ThreadShape] /\ my[t].sz \in Nat /\ my[t].item \in Nat
  BY ThreadFields DEF Shape
<1>a. my[t].pc \in InCodes => /\ my[t].turn \in Nat /\ my[t].turn < NumT /\ NumT \in Nat
                              /\ Entry(t).codes_last_done \in Nat
 <2> SUFFICES ASSUME my[t].pc \in InCodes
              PROVE  /\ my[t].turn \in Nat /\ my[t].turn < NumT /\ NumT \in Nat
                     /\ Entry(t).codes_last_done \in Nat
   OBVIOUS
 <2>1. my[t].turn \in 0 .. NumT /\ my[t].turn < NumT /\ NumT \in Nat
   BY OwnTurn, ThreadTypes DEF Deciding
 <2>2. Entry(t).codes_last_done \in Nat BY Here, OwnerFields DEF At
 <2> QED BY <2>1, <2>2
<1>1. ASSUME my[t].pc \in {"codes", "codes_finish"}, NextCodes(t)
      PROVE  /\ SameLevel(t)
             /\ \/ /\ my[t].turn + 1 < NumT
                   /\ my'[t].pc = "codes" /\ NextTurn(t)
                \/ /\ my[t].turn + 1 = NumT
                   /\ my'[t].pc = "own" /\ my'[t].owner = t /\ my'[t].turn = 0 /\ my'[t].item = 1
 <2>1. my[t].turn \in Nat /\ my[t].turn < NumT /\ NumT \in Nat BY <1>1, <1>a
 <2>2. CASE my[t].turn + 1 < NumT
  <3>1. /\ SameLevel(t) /\ my'[t].pc = "codes"
        /\ my'[t].owner = (my[t].owner + 1) % NumT /\ my'[t].turn = my[t].turn + 1
    BY <1>0, <1>1, <2>1, <2>2, NextCodesMoves
  <3> QED BY <1>1, <2>2, <3>1, NextTurnMoves DEF Deciding
 <2>3. CASE my[t].turn + 1 >= NumT
  <3>1. /\ SameLevel(t) /\ my'[t].pc = "own" /\ my'[t].owner = t /\ my'[t].turn = 0
        /\ my'[t].item = 1
    BY <1>0, <1>1, <2>1, <2>3, NextCodesMoves
  <3> QED BY <2>1, <2>3, <3>1
 <2> QED BY <2>1, <2>2, <2>3
<1>2. ASSUME NEW l \in Labels, Goto(t, l)
      PROVE  my'[t].pc = l /\ SameLevel(t) /\ SameOwner(t) /\ SameItems(t)
  BY <1>0, <1>2, GotoMoves DEF SameRound
<1>3. CASE TestCodesDone(t)
 <2>1. my[t].pc = "codes" BY <1>3 DEF TestCodesDone, At
 <2>2. CASE Entry(t).codes_done
  <3>1. NextCodes(t) BY <1>3, <2>2 DEF TestCodesDone
  <3> QED BY <1>1, <1>a, <2>1, <2>2, <3>1
 <2>3. CASE ~Entry(t).codes_done
  <3>1. Goto(t, "codes_size") BY <1>3, <2>3 DEF TestCodesDone
  <3> QED BY <1>2, <1>a, <2>1, <3>1 DEF Labels
 <2> QED BY <2>2, <2>3
<1>4. CASE CodesSize(t)
 <2>1. my[t].pc = "codes_size" BY <1>4 DEF CodesSize, At
 <2> QED BY <1>4, <1>a, <2>1, CodesSizeMoves DEF SameRound
<1>5. CASE CodesStart(t)
 <2>1. my[t].pc = "codes_start" /\ my' = FromEntry(t, Entry(t).codes_last_done + 1, my[t].sz)
   BY <1>5 DEF CodesStart, At
 <2>2. Entry(t).codes_last_done + 1 \in Nat BY <1>a, <2>1
 <2> QED BY <1>0, <1>a, <2>1, <2>2, EntryMoves DEF SameRound
<1>6. CASE WriteCode(t)
 <2>1. my[t].pc = "code" /\ my[t].item + 1 \in Nat BY <1>0, <1>6 DEF WriteCode, At
 <2>2. CASE Own(t)
  <3>1. Goto(t, "codes_progress") BY <1>6, <2>2 DEF WriteCode
  <3>2. /\ my'[t].pc = "codes_progress" /\ SameLevel(t) /\ SameOwner(t) /\ SameItems(t)
    BY <1>2, <3>1 DEF Labels
  <3> QED BY <1>6, <1>a, <2>1, <3>2 DEF SameItems
 <2>3. CASE ~Own(t)
  <3>1. my' = FromEntry(t, my[t].item + 1, my[t].sz) BY <1>6, <2>3 DEF WriteCode
  <3> QED BY <1>0, <1>6, <1>a, <2>1, <3>1, EntryMoves DEF SameRound
 <2> QED BY <2>2, <2>3
<1>7. CASE CodesProgress(t)
 <2>1. my[t].pc = "codes_progress" /\ my[t].item + 1 \in Nat
       /\ my' = FromEntry(t, my[t].item + 1, my[t].sz)
   BY <1>0, <1>7 DEF CodesProgress, At
 <2> QED BY <1>0, <1>7, <1>a, <2>1, EntryMoves DEF SameRound
<1>8. CASE CodesFinish(t)
 <2>1. my[t].pc = "codes_finish" /\ NextCodes(t) BY <1>8 DEF CodesFinish, At
 <2> QED BY <1>1, <1>a, <2>1
<1> QED BY <1>3, <1>4, <1>5, <1>6, <1>7, <1>8 DEF Codes

LEMMA BlockSteps ==
  ASSUME Shape, Control, NEW t \in Thread, BottomUp(t)
  PROVE  /\ my[t].pc \in Owning \cup Helping \cup {"blocks_done"} /\ SameLevel(t)
         /\ \/ /\ FinishBlocks(t) \/ (my[t].pc \in {"help", "block"} /\ Entry(t).done)
               /\ my[t].pc \in {"blocks_done", "help", "block"}
               /\ my'[t].pc = NextPc(t, "help") /\ NextTurn(t) /\ my'[t].cand = my[t].cand
            \/ /\ my[t].pc = "help_start" /\ SameOwner(t) /\ my'[t].cand = my[t].cand
               /\ my'[t].todo = Entry(t).last_done + 1 .. Owned(my[t].owner)
               /\ my'[t].pc = IF my'[t].todo = {} THEN "blocks_done" ELSE "block"
            \/ /\ my[t].pc = "block" /\ SameOwner(t) /\ my'[t].pc = "block_progress"
               /\ my'[t].item \in my[t].todo /\ my'[t].todo = my[t].todo \ {my'[t].item}
               /\ my'[t].cand = my[t].cand
            \/ /\ OwnProgress(t) /\ my[t].pc = "own_progress" /\ my'[t].pc = "own" /\ SameOwner(t)
               /\ my'[t].item = my[t].item + 1 /\ my'[t].cand = my[t].cand
            \/ /\ SameOwner(t) /\ SameItems(t) /\ my'[t].cand = my[t].cand
               /\ \/ /\ my[t].pc = "own"
                     /\ \/ my'[t].pc = "own_stamp"
                        \/ my'[t].pc = "blocks_done" /\ (my[t].item > Owned(t) \/ Entry(t).done)
                  \/ /\ my[t].pc \in {"own_stamp", "block_stamp"} /\ my'[t].pc = "gather"
                     /\ my'[t].j = Begin(my[t].owner, my[t].item)
                  \/ my[t].pc = "own_stamp" /\ my'[t].pc = "own_progress" /\ Stamped(t)
                  \/ my[t].pc = "help" /\ my'[t].pc = "help_start"
                  \/ my[t].pc = "block_progress" /\ my'[t].pc = "block_stamp"
                  \/ /\ \/ my[t].pc = "block_progress" /\ my[t].item <= Entry(t).last_done
                        \/ my[t].pc = "block_stamp" /\ Stamped(t)
                        \/ Stamp(t) /\ my[t].pc = "stamp"
                     /\ my'[t].pc = IF my[t].todo = {} THEN "blocks_done" ELSE "block"
<1> USE DEF Owning, Helping
<1>0. my \in [Thread -> ThreadShape] /\ my[t].sz \in Nat /\ my[t].item \in Nat
  BY ThreadFields DEF Shape
<1>1. my[t].pc \in {"blocks_done", "help", "block"} /\ NextOwner(t, "help", "advance") =>
        /\ SameLevel(t) /\ my'[t].pc = NextPc(t, "help") /\ NextTurn(t) /\ my'[t].cand = my[t].cand
 <2> SUFFICES ASSUME my[t].pc \in {"blocks_done", "help", "block"}, NextOwner(t, "help", "advance")
              PROVE  /\ SameLevel(t) /\ my'[t].pc = NextPc(t, "help") /\ NextTurn(t)
                     /\ my'[t].cand = my[t].cand
   OBVIOUS
 <2>1. my[t].turn < NumT BY OwnTurn DEF Deciding
 <2>2. /\ SameLevel(t) /\ my'[t].pc = NextPc(t, "help") /\ my'[t].cand = my[t].cand
       /\ my'[t].owner = (my[t].owner + 1) % NumT /\ my'[t].turn = my[t].turn + 1
  <3>1. "help" \in Labels /\ "advance" \in Labels BY DEF Labels
  <3> QED BY <1>0, <2>1, <3>1, NextOwnerMoves DEF NextPc, SameVertex
 <2> QED BY <2>2, NextTurnMoves DEF Deciding
<1>2. ASSUME NEW l \in Labels, Goto(t, l)
      PROVE  /\ my'[t].pc = l /\ SameLevel(t) /\ SameOwner(t) /\ SameItems(t)
             /\ my'[t].cand = my[t].cand
  BY <1>0, <1>2, GotoMoves DEF SameRound, SameVertex
<1>3. ASSUME my[t].pc \in {"own_stamp", "block_stamp"}, Scan(t)
      PROVE  /\ SameLevel(t) /\ SameOwner(t) /\ SameItems(t) /\ my'[t].cand = my[t].cand
             /\ my'[t].pc = "gather" /\ my'[t].j = Begin(my[t].owner, my[t].item)
 <2>1. my[t].item \in 1 .. Owned(my[t].owner) /\ my[t].owner \in Thread
   BY <1>0, <1>3, ThreadFields DEF Control, BlockEntries
 <2>2. Begin(my[t].owner, my[t].item) \in Nat BY <2>1, BlockRange
 <2> QED BY <1>0, <1>3, <2>2, ScanMoves DEF SameRound
<1>4. ASSUME NextBlock(t)
      PROVE  /\ SameLevel(t) /\ SameOwner(t) /\ SameItems(t) /\ my'[t].cand = my[t].cand
             /\ my'[t].pc = IF my[t].todo = {} THEN "blocks_done" ELSE "block"
 <2> DEFINE l == IF my[t].todo = {} THEN "blocks_done" ELSE "block"
 <2>1. Goto(t, l) /\ l \in Labels BY <1>4 DEF NextBlock, Labels
 <2>2. l = IF my[t].todo = {} THEN "blocks_done" ELSE "block" OBVIOUS
 <2> HIDE DEF l
 <2> QED BY <1>2, <2>1, <2>2
<1>5. CASE OwnBlock(t)
 <2>1. my[t].pc = "own" BY <1>5 DEF OwnBlock, At
 <2> DEFINE l == IF my[t].item > Owned(t) \/ Entry(t).done THEN "blocks_done" ELSE "own_stamp"
 <2>2. Goto(t, l) BY <1>5, Zenon DEF OwnBlock
 <2>3. /\ l \in Labels
       /\ l = "own_stamp" \/ (l = "blocks_done" /\ (my[t].item > Owned(t) \/ Entry(t).done))
   BY DEF Labels
 <2> HIDE DEF l
 <2>4. /\ my'[t].pc = l /\ SameLevel(t) /\ SameOwner(t) /\ SameItems(t)
       /\ my'[t].cand = my[t].cand
   BY <1>2, <2>2, <2>3
 <2> QED BY <2>1, <2>3, <2>4
<1>6. CASE OwnStamp(t)
 <2>1. my[t].pc = "own_stamp" /\ ((Stamped(t) /\ Goto(t, "own_progress")) \/ Scan(t))
   BY <1>6 DEF OwnStamp, At
 <2>2. CASE Stamped(t) /\ Goto(t, "own_progress") BY <1>2, <2>1, <2>2 DEF Labels
 <2>3. CASE Scan(t) BY <1>3, <2>1, <2>3
 <2> QED BY <2>1, <2>2, <2>3
<1>7. CASE OwnProgress(t) BY <1>0, <1>7, OwnProgressMoves DEF OwnProgress, At, SameRound, SameVertex
<1>8. CASE FinishBlocks(t) BY <1>1, <1>8 DEF FinishBlocks, At
<1>9. CASE Help(t)
 <2>1. my[t].pc = "help"
       /\ ((Entry(t).done /\ NextOwner(t, "help", "advance")) \/ Goto(t, "help_start"))
   BY <1>9 DEF Help, At
 <2>2. CASE Entry(t).done /\ NextOwner(t, "help", "advance") BY <1>1, <2>1, <2>2
 <2>3. CASE Goto(t, "help_start") BY <1>2, <2>1, <2>3 DEF Labels
 <2> QED BY <2>1, <2>2, <2>3
<1>10. CASE HelpStart(t)
 <2>1. my[t].pc = "help_start" BY <1>10 DEF HelpStart, At
 <2>2. Entry(t).last_done \in Nat /\ my[t].owner \in Thread BY <2>1, Here, OwnerFields DEF At
 <2>3. Owned(my[t].owner) \in Nat BY <2>2, OwnedFacts
 <2> QED BY <1>0, <1>10, <2>1, <2>2, <2>3, HelpStartMoves DEF SameRound, SameVertex
<1>11. CASE HelpBlock(t)
 <2>1. my[t].pc = "block" BY <1>11 DEF HelpBlock, At
 <2>2. CASE Entry(t).done
  <3>1. NextOwner(t, "help", "advance") BY <1>11, <2>2 DEF HelpBlock
  <3> QED BY <1>1, <2>1, <2>2, <3>1
 <2>3. CASE ~Entry(t).done BY <1>0, <1>11, <2>1, <2>3, HelpBlockMoves DEF SameRound, SameVertex
 <2> QED BY <2>2, <2>3
<1>12. CASE TestProgress(t)
 <2>1. /\ my[t].pc = "block_progress"
       /\ \/ Goto(t, "block_stamp")
          \/ ~(my[t].item > Entry(t).last_done) /\ NextBlock(t)
   BY <1>12 DEF TestProgress, At
 <2>2. CASE Goto(t, "block_stamp") BY <1>2, <2>1, <2>2 DEF Labels
 <2>3. CASE ~(my[t].item > Entry(t).last_done) /\ NextBlock(t)
  <3>1. Entry(t).last_done \in Nat BY <2>1, Here, OwnerFields DEF At
  <3> QED BY <1>0, <1>4, <2>1, <2>3, <3>1
 <2> QED BY <2>1, <2>2, <2>3
<1>13. CASE TestStamp(t)
 <2>1. my[t].pc = "block_stamp" /\ ((Stamped(t) /\ NextBlock(t)) \/ Scan(t))
   BY <1>13 DEF TestStamp, At
 <2>2. CASE Stamped(t) /\ NextBlock(t) BY <1>4, <2>1, <2>2
 <2>3. CASE Scan(t) BY <1>3, <2>1, <2>3
 <2> QED BY <2>1, <2>2, <2>3
<1>14. CASE Stamp(t) BY <1>4, <1>14 DEF Stamp, At
<1> QED BY <1>5, <1>6, <1>7, <1>8, <1>9, <1>10, <1>11, <1>12, <1>13, <1>14 DEF BottomUp

LEMMA ScanSteps ==
  ASSUME Shape, Control, NEW t \in Thread, ScanBlock(t)
  PROVE  LET tested == /\ my'[t].j = IF my'[t].cand = <<>> THEN 0 ELSE 1
                       /\ my'[t].pc = IF my'[t].cand # <<>> THEN "test"
                                      ELSE IF Own(t) THEN "own_progress" ELSE "stamp"
         IN /\ my[t].pc \in InBlock /\ SameLevel(t) /\ SameOwner(t) /\ SameItems(t)
            /\ my[t].j \in Nat /\ my[t].cand \in Seq(Vertex)
            /\ \/ /\ my[t].pc = "gather" /\ my[t].j \in Vertex
                  /\ my'[t].cand = IF dist[my[t].j] = Unset THEN Append(my[t].cand, my[t].j)
                                                            ELSE my[t].cand
                  /\ \/ /\ my[t].j + 1 < End(my[t].owner, my[t].item)
                        /\ my'[t].pc = "gather" /\ my'[t].j = my[t].j + 1
                     \/ ~(my[t].j + 1 < End(my[t].owner, my[t].item)) /\ tested
               \/ /\ my[t].pc = "test" /\ my[t].j > Len(adj[C(t)])
                  /\ my'[t].cand = Tail(my[t].cand) /\ tested
               \/ /\ my[t].pc = "test" /\ my[t].j \in 1 .. Len(adj[C(t)])
                  /\ InFrontier(t, adj[C(t)][my[t].j])
                  /\ my'[t].pc = "found" /\ my'[t].cand = my[t].cand
               \/ /\ my[t].pc = "test" /\ my[t].j \in 1 .. Len(adj[C(t)])
                  /\ ~InFrontier(t, adj[C(t)][my[t].j])
                  /\ my'[t].pc = "test" /\ my'[t].cand = my[t].cand /\ my'[t].j = my[t].j + 1
               \/ /\ PushFound(t) /\ my[t].pc = "found"
                  /\ my'[t].pc = "next_code" /\ my'[t].cand = my[t].cand
               \/ /\ WriteNextCode(t) /\ my[t].pc = "next_code"
                  /\ my'[t].pc = "mark" /\ my'[t].cand = my[t].cand
               \/ /\ MarkFound(t) /\ my[t].pc = "mark"
                  /\ my'[t].cand = Tail(my[t].cand) /\ tested
<1> DEFINE tested == /\ my'[t].j = IF my'[t].cand = <<>> THEN 0 ELSE 1
                     /\ my'[t].pc = IF my'[t].cand # <<>> THEN "test"
                                    ELSE IF Own(t) THEN "own_progress" ELSE "stamp"
<1> USE DEF InBlock, Finding
<1>0. /\ my \in [Thread -> ThreadShape] /\ my[t].j \in Nat /\ my[t].cand \in Seq(Vertex)
      /\ dist \in [Vertex -> Int]
  BY ThreadFields DEF Shape
<1>2. ASSUME NEW l \in Labels, Goto(t, l)
      PROVE  /\ my'[t].pc = l /\ SameLevel(t) /\ SameOwner(t) /\ SameItems(t)
             /\ my'[t].cand = my[t].cand
  BY <1>0, <1>2, GotoMoves DEF SameRound, SameVertex
<1>3. ASSUME NEW cand \in Seq(Vertex), Test(t, cand)
      PROVE  SameLevel(t) /\ SameOwner(t) /\ SameItems(t) /\ my'[t].cand = cand /\ tested
  BY <1>0, <1>3, TestMoves DEF SameRound
<1>4. CASE Gather(t)
 <2>1. my[t].pc = "gather" /\ my[t].j \in Vertex BY <1>4, BlockVertex DEF Gather, At
 <2> DEFINE cand == IF dist[my[t].j] = Unset THEN Append(my[t].cand, my[t].j) ELSE my[t].cand
 <2>2. cand \in Seq(Vertex) BY <1>0, <2>1
 <2>3. cand = IF dist[my[t].j] = Unset THEN Append(my[t].cand, my[t].j) ELSE my[t].cand OBVIOUS
 <2>4. \/ /\ my[t].j + 1 < End(my[t].owner, my[t].item)
          /\ my' = [my EXCEPT ![t].cand = cand, ![t].j = @ + 1]
       \/ ~(my[t].j + 1 < End(my[t].owner, my[t].item)) /\ Test(t, cand)
   BY <1>4 DEF Gather
 <2> HIDE DEF cand
 <2>5. CASE /\ my[t].j + 1 < End(my[t].owner, my[t].item)
            /\ my' = [my EXCEPT ![t].cand = cand, ![t].j = @ + 1]
  <3>1. /\ SameLevel(t) /\ SameOwner(t) /\ SameItems(t) /\ my'[t].cand = cand
        /\ my'[t].pc = "gather" /\ my'[t].j = my[t].j + 1
    BY <1>0, <2>1, <2>2, <2>5, GatherMoves DEF SameRound
  <3> QED BY <1>0, <2>1, <2>3, <2>5, <3>1
 <2>6. CASE ~(my[t].j + 1 < End(my[t].owner, my[t].item)) /\ Test(t, cand)
  <3>1. SameLevel(t) /\ SameOwner(t) /\ SameItems(t) /\ my'[t].cand = cand /\ tested
    BY <1>3, <2>2, <2>6
  <3> QED BY <1>0, <2>1, <2>3, <2>6, <3>1
 <2> QED BY <2>4, <2>5, <2>6
<1>5. my[t].pc \in {"test"} \cup Finding =>
        C(t) \in Vertex /\ Tail(my[t].cand) \in Seq(Vertex)
  BY BlockVertex
<1>6. CASE TestCandidate(t)
 <2>1. my[t].pc = "test" /\ my[t].j \in 1 .. Len(adj[C(t)]) + 1 /\ Len(adj[C(t)]) \in Nat
  <3>1. my[t].pc = "test" BY <1>6 DEF TestCandidate, At
  <3>2. adj[C(t)] \in Seq(Vertex) BY <3>1, BlockVertex
  <3>3. my[t].j \in 1 .. Len(adj[C(t)]) + 1 BY <3>1 DEF Control, BlockEntries, At
  <3> QED BY <3>1, <3>2, <3>3
 <2>2. CASE my[t].j > Len(adj[C(t)])
  <3>1. Test(t, Tail(my[t].cand)) /\ Tail(my[t].cand) \in Seq(Vertex)
    BY <1>5, <1>6, <2>1, <2>2 DEF TestCandidate
  <3>2. /\ SameLevel(t) /\ SameOwner(t) /\ SameItems(t) /\ my'[t].cand = Tail(my[t].cand)
        /\ tested
    BY <1>3, <3>1, Zenon
  <3> QED BY <1>0, <2>1, <2>2, <3>2
 <2>3. CASE ~(my[t].j > Len(adj[C(t)])) /\ InFrontier(t, adj[C(t)][my[t].j])
  <3>1. Goto(t, "found") BY <1>6, <2>3 DEF TestCandidate
  <3>2. /\ my'[t].pc = "found" /\ SameLevel(t) /\ SameOwner(t) /\ SameItems(t)
        /\ my'[t].cand = my[t].cand
    BY <1>2, <3>1 DEF Labels
  <3> QED BY <1>0, <2>1, <2>3, <3>2
 <2>4. CASE ~(my[t].j > Len(adj[C(t)])) /\ ~InFrontier(t, adj[C(t)][my[t].j])
  <3>1. my' = [my EXCEPT ![t].j = @ + 1] BY <1>6, <2>4 DEF TestCandidate
  <3>2. /\ SameLevel(t) /\ SameOwner(t) /\ SameItems(t)
        /\ my'[t].cand = my[t].cand /\ my'[t].pc = my[t].pc /\ my'[t].j = my[t].j + 1
    BY <1>0, <3>1, CandidateMoves, Zenon DEF SameRound
  <3> QED BY <1>0, <2>1, <2>4, <3>2
 <2> QED BY <2>2, <2>3, <2>4
<1>7. CASE PushFound(t)
 <2>1. my[t].pc = "found" /\ Goto(t, "next_code") BY <1>7 DEF PushFound, At
 <2>2. /\ my'[t].pc = "next_code" /\ SameLevel(t) /\ SameOwner(t) /\ SameItems(t)
       /\ my'[t].cand = my[t].cand
   BY <1>2, <2>1 DEF Labels
 <2> QED BY <1>0, <1>7, <2>1, <2>2
<1>8. CASE WriteNextCode(t)
 <2>1. my[t].pc = "next_code" /\ Goto(t, "mark") BY <1>8 DEF WriteNextCode, At
 <2>2. /\ my'[t].pc = "mark" /\ SameLevel(t) /\ SameOwner(t) /\ SameItems(t)
       /\ my'[t].cand = my[t].cand
   BY <1>2, <2>1 DEF Labels
 <2> QED BY <1>0, <1>8, <2>1, <2>2
<1>9. CASE MarkFound(t)
 <2>1. my[t].pc = "mark" /\ Test(t, Tail(my[t].cand)) /\ Tail(my[t].cand) \in Seq(Vertex)
   BY <1>5, <1>9 DEF MarkFound, At
 <2>2. SameLevel(t) /\ SameOwner(t) /\ SameItems(t) /\ my'[t].cand = Tail(my[t].cand) /\ tested
   BY <1>3, <2>1, Zenon
 <2> QED BY <1>0, <1>9, <2>1, <2>2
<1> QED BY <1>4, <1>6, <1>7, <1>8, <1>9 DEF ScanBlock

LEMMA ItemSteps ==
  ASSUME Shape, Control, NEW t \in Thread, my[t].pc \in AtItem, my'[t].pc \in AtItem \ {"du"},
         TopDown(t)
  PROVE  /\ my[t].j \in Nat /\ U(t) \in Vertex /\ U(t)' = U(t)
         /\ \/ my[t].pc = "du" /\ my'[t].du = dist[U(t)] /\ my'[t].j = 1
               /\ my'[t].pc \in {"neighbor", "vis"}
            \/ my[t].pc = "neighbor" /\ V(t) \in Vertex /\ my'[t].du = my[t].du
               /\ \/ /\ dist[V(t)] = Unset /\ my'[t].pc = "push" /\ my'[t].j = my[t].j
                     /\ V(t)' = V(t)
                  \/ /\ dist[V(t)] # Unset /\ my'[t].pc \in {"neighbor", "vis"}
                     /\ my'[t].j = my[t].j + 1
            \/ PushVertex(t) /\ my[t].pc = "push" /\ my'[t].pc = "swap" /\ my'[t].du = my[t].du
               /\ my'[t].j = my[t].j /\ V(t)' = V(t)
            \/ SwapDist(t) /\ my[t].pc = "swap" /\ my'[t].pc \in {"neighbor", "vis"}
               /\ my'[t].du = my[t].du /\ my'[t].j = my[t].j + 1
<1> USE DEF AtItem
<1>0. /\ my \in [Thread -> ThreadShape] /\ my[t].j \in Nat /\ dist \in [Vertex -> Int]
      /\ U(t) \in Vertex /\ ~At(t, "returned")
      /\ my[t].pc \in {"neighbor", "push", "swap"} => V(t) \in Vertex
  BY ThreadFields, ItemVertex DEF Shape, At
<1>1. /\ ReadDist(t) \/ TestNeighbor(t) \/ PushVertex(t) \/ SwapDist(t)
      /\ SameOwner(t) /\ SameItems(t) /\ SameLevel(t)
  BY BucketSteps DEF MarkVisited, At
<1>2. /\ U(t)' = U(t)
      /\ my'[t].j = my[t].j => V(t)' = V(t)
 <2>1. BucketsStay(t)
   BY StepWork DEF Step, Work, Plan, Advance, LoadPlanOwner, ReadSize, Propose, Claim, At
 <2> QED BY <1>0, <1>1, <2>1, SamePlace DEF SameLevel, SameOwner, SameItems
<1>3. ASSUME NEW l \in Labels, Goto(t, l)
      PROVE  my'[t].pc = l /\ my'[t].du = my[t].du /\ my'[t].j = my[t].j
  BY <1>0, <1>3, GotoMoves DEF SameVertex
<1>4. ASSUME my' = FromNeighbor(t, my[t].j + 1)
      PROVE  /\ my'[t].pc \in {"neighbor", "vis"}
             /\ my'[t].du = my[t].du /\ my'[t].j = my[t].j + 1
 <2>1. my[t].j + 1 \in Nat BY <1>0
 <2> QED BY <1>0, <1>4, <2>1, NextNeighborMoves
<1>5. CASE ReadDist(t)
 <2>1. my[t].pc = "du" BY <1>5 DEF ReadDist, At
 <2> QED BY <1>0, <1>2, <1>5, <2>1, ReadMoves
<1>6. CASE TestNeighbor(t)
 <2>1. my[t].pc = "neighbor" BY <1>6 DEF TestNeighbor, At
 <2>2. CASE dist[V(t)] = Unset
  <3>1. Goto(t, "push") BY <1>6, <2>2 DEF TestNeighbor
  <3> QED BY <1>0, <1>2, <1>3, <2>1, <2>2, <3>1 DEF Labels
 <2>3. CASE dist[V(t)] # Unset
  <3>1. my' = FromNeighbor(t, my[t].j + 1) BY <1>6, <2>3 DEF TestNeighbor
  <3> QED BY <1>0, <1>2, <1>4, <2>1, <2>3, <3>1
 <2> QED BY <2>2, <2>3
<1>7. CASE PushVertex(t)
 <2>1. my[t].pc = "push" /\ Goto(t, "swap") BY <1>7 DEF PushVertex, At
 <2> QED BY <1>0, <1>2, <1>3, <1>7, <2>1 DEF Labels
<1>8. CASE SwapDist(t)
 <2>1. my[t].pc = "swap" /\ my' = FromNeighbor(t, my[t].j + 1) BY <1>8 DEF SwapDist, At
 <2> QED BY <1>0, <1>2, <1>4, <1>8, <2>1
<1> QED BY <1>1, <1>5, <1>6, <1>7, <1>8

\* Where each kind of step begins and ends.
LEMMA PcAfter ==
  ASSUME Shape, Control, NEW t \in Thread, Step(t)
  PROVE  /\ Plan(t) => my[t].pc \in Deciding /\ my'[t].pc \in Deciding \cup {"next", "done"}
                       /\ my'[t].curr = my[t].curr
         /\ TestNext(t) \/ AddNode(t) =>
              my[t].pc \in Linking /\ my'[t].pc \in {"link", "load", "codes", "own"}
         /\ TopDown(t) => my[t].pc \in InTopDown /\ my'[t].pc \in InTopDown \cup {"next", "advance"}
         /\ Codes(t) => my[t].pc \in InCodes /\ my'[t].pc \in InCodes \cup {"own"}
         /\ ScanBlock(t) => my[t].pc \in InBlock /\ my'[t].pc \in InBlock \cup {"own_progress", "stamp"}
         /\ BottomUp(t) => /\ my[t].pc \in Owning \cup Helping \cup {"blocks_done"}
                           /\ my'[t].pc \in Owning \cup Helping \cup {"blocks_done", "gather", "advance"}
         /\ Advance(t) => /\ my[t].pc = "advance"
                          /\ \/ my'[t].pc = "returned" /\ my'[t].curr = None
                             \/ my'[t].pc = "plan" /\ my'[t].curr = Depth(t) + 1
<1>1. Plan(t) => my[t].pc \in Deciding /\ my'[t].pc \in Deciding \cup {"next", "done"}
                 /\ my'[t].curr = my[t].curr
  BY LoadPlanStep, ProposeStep, ClaimStep DEF Plan, Deciding
<1>2. TestNext(t) \/ AddNode(t) =>
            my[t].pc \in Linking /\ my'[t].pc \in {"link", "load", "codes", "own"}
  BY LinkingSteps
<1>3. TopDown(t) => my[t].pc \in InTopDown /\ my'[t].pc \in InTopDown \cup {"next", "advance"}
  BY BucketSteps DEF InTopDown, AtBucket, AtItem, NextPc
<1>4. Codes(t) => my[t].pc \in InCodes /\ my'[t].pc \in InCodes \cup {"own"}
  BY CodesSteps DEF InCodes
<1>5. ScanBlock(t) => my[t].pc \in InBlock /\ my'[t].pc \in InBlock \cup {"own_progress", "stamp"}
  BY ScanSteps DEF InBlock, Finding
<1>6. BottomUp(t) => /\ my[t].pc \in Owning \cup Helping \cup {"blocks_done"}
                     /\ my'[t].pc \in Owning \cup Helping \cup {"blocks_done", "gather", "advance"}
  BY BlockSteps DEF Owning, Helping, NextPc
<1>7. Advance(t) => /\ my[t].pc = "advance"
                    /\ \/ my'[t].pc = "returned" /\ my'[t].curr = None
                       \/ my'[t].pc = "plan" /\ my'[t].curr = Depth(t) + 1
  BY AdvanceStep
<1> QED BY <1>1, <1>2, <1>3, <1>4, <1>5, <1>6, <1>7

-----------------------------------------------------------------------------
(***************************************************************************)
(* A vertex is in its bucket before it gets its distance.                  *)
(***************************************************************************)
LEMMA PushedEntry ==
  ASSUME Shape, Control, NEW t \in Thread, Step(t), PushVertex(t) \/ PushFound(t)
  PROVE  \E v \in Vertex :
           /\ v = IF PushVertex(t) THEN V(t) ELSE C(t)
           /\ \E d \in Node : d = Depth(t) + 1 /\ EntryOf(d, t, v)'
<1>1. PICK v \in Vertex : /\ v = IF PushVertex(t) THEN V(t) ELSE C(t)
                          /\ \E d \in Node : /\ d = Depth(t) + 1
                                             /\ Bucket(d, t)' = Append(Bucket(d, t), v)
 <2>1. PICK v \in Vertex :
          /\ PushVertex(t) => V(t) = v /\ Push(t, V(t))
          /\ ~PushVertex(t) => C(t) = v /\ Push(t, C(t))
   BY ItemVertex, BlockVertex DEF PushVertex, PushFound, At, Finding
 <2>2. Push(t, v) /\ UNCHANGED linked /\ ~At(t, "returned") /\ Depth(t) + 1 < linked
   BY <2>1 DEF PushVertex, PushFound, At, Control, NextKnown, AtBucket, AtItem, InBottomUp, InBlock,
      Finding
 <2>3. /\ Depth(t) + 1 \in Node
       /\ \A c \in Node, p \in Thread :
            IF c = Depth(t) + 1 /\ p = t
            THEN Bucket(c, p)' = Append(Bucket(c, p), v)
            ELSE Bucket(c, p)' = Bucket(c, p)
   BY <2>2, PushGrows
 <2>4. PICK d \in Node : d = Depth(t) + 1 BY <2>3
 <2>5. Bucket(d, t)' = Append(Bucket(d, t), v) BY <2>3, <2>4
 <2> QED BY <2>1, <2>4, <2>5
<1>2. PICK d \in Node : d = Depth(t) + 1 /\ Bucket(d, t)' = Append(Bucket(d, t), v) BY <1>1
<1>3. Bucket(d, t) \in Seq(Vertex) BY BucketType
<1>4. /\ Len(Bucket(d, t)) + 1 \in 1 .. Len(Bucket(d, t)')
      /\ Bucket(d, t)'[Len(Bucket(d, t)) + 1] = v
  BY <1>2, <1>3, AppendAt
<1>5. EntryOf(d, t, v)' BY <1>4 DEF EntryOf, Places
<1> QED BY <1>1, <1>2, <1>5

LEMMA PushedFirstNext ==
  ASSUME Shape, Control, PushedFirst, NEW t \in Thread, Step(t)
  PROVE  PushedFirst'
<1>0. Moves(t) /\ Grows BY ControlNext
<1> SUFFICES ASSUME NEW s \in Thread
             PROVE  /\ At(s, "swap")' =>
                         \E d \in Node : d = Depth(s)' + 1 /\ EntryOf(d, s, V(s))'
                    /\ my'[s].pc \in {"next_code", "mark"} =>
                         \E d \in Node : d = Depth(s)' + 1 /\ EntryOf(d, s, C(s))'
  BY DEF PushedFirst, EntryOf, Places, Bucket
<1>a. my[s].pc \in {"swap", "next_code", "mark"} => Depth(s) + 1 \in Node
 <2>1. my[s].pc \in {"swap", "next_code", "mark"} => ~At(s, "returned") /\ Depth(s) + 1 < linked
   BY DEF At, Control, NextKnown, AtBucket, AtItem, InBottomUp, InBlock, Finding
 <2> QED BY <2>1, Here
<1>1. CASE s # t
 <2>1. /\ my'[s] = my[s] /\ Depth(s)' = Depth(s) /\ C(s)' = C(s)
       /\ my[s].pc = "swap" => V(s)' = V(s)
   BY <1>0, <1>1, OtherPlace
 <2>2. ASSUME my[s].pc = "swap" PROVE \E d \in Node : d = Depth(s)' + 1 /\ EntryOf(d, s, V(s))'
  <3>1. PICK d \in Node : d = Depth(s) + 1 BY <1>a, <2>2
  <3>2. PICK v : v = V(s) /\ EntryOf(d, s, v) BY <2>2, <3>1 DEF PushedFirst, At
  <3>3. EntryOf(d, s, v)' BY <1>0, <3>2, EntriesStay
  <3>4. v = V(s)' BY <2>1, <2>2, <3>2
  <3> QED BY <2>1, <3>1, <3>3, <3>4 DEF EntryOf
 <2>3. ASSUME my[s].pc \in {"next_code", "mark"}
       PROVE  \E d \in Node : d = Depth(s)' + 1 /\ EntryOf(d, s, C(s))'
  <3>1. PICK d \in Node : d = Depth(s) + 1 BY <1>a, <2>3
  <3>2. PICK v : v = C(s) /\ EntryOf(d, s, v) BY <2>3, <3>1 DEF PushedFirst
  <3>3. EntryOf(d, s, v)' BY <1>0, <3>2, EntriesStay
  <3>4. v = C(s)' BY <2>1, <3>2
  <3> QED BY <2>1, <3>1, <3>3, <3>4 DEF EntryOf
 <2> QED BY <2>1, <2>2, <2>3 DEF At
<1>2. CASE s = t
 <2>1. CASE my'[t].pc = "swap"
  <3>1. TopDown(t) /\ my[t].pc \in AtItem /\ SameLevel(t)
    BY <2>1, PcAfter, BucketSteps DEF Step, Deciding, InCodes, InBlock, Finding, Owning, Helping,
       Linking, NextPc
  <3>2. PushVertex(t) /\ V(t)' = V(t) BY <2>1, <3>1, ItemSteps DEF AtItem
  <3>3. PICK d \in Node : d = Depth(t) + 1 /\ EntryOf(d, t, V(t))'
   <4>1. PICK v \in Vertex :
            v = V(t) /\ \E d \in Node : d = Depth(t) + 1 /\ EntryOf(d, t, v)'
     BY <3>2, PushedEntry
   <4> QED BY <3>2, <4>1 DEF EntryOf
  <3> QED BY <1>2, <2>1, <3>1, <3>3 DEF Depth, SameLevel
 <2>2. CASE my'[t].pc \in {"next_code", "mark"}
  <3>1. ScanBlock(t) /\ my[t].pc \in {"found", "next_code"} /\ SameLevel(t)
        /\ my'[t].cand = my[t].cand /\ (my[t].pc = "found" => PushFound(t))
   <4>1. ScanBlock(t)
     BY <2>2, PcAfter DEF Step, Deciding, InCodes, InTopDown, AtBucket, AtItem, Owning, Helping,
        Linking, NextPc
   <4> QED BY <2>2, <4>1, ScanSteps
  <3>2. C(t)' = C(t) /\ Depth(t)' = Depth(t) BY <3>1 DEF C, Depth, SameLevel
  <3>3. CASE PushFound(t)
   <4>1. ~PushVertex(t) BY <3>3 DEF PushVertex, PushFound, At
   <4>2. PICK v \in Vertex :
            v = C(t) /\ \E d \in Node : d = Depth(t) + 1 /\ EntryOf(d, t, v)'
     BY <3>3, <4>1, PushedEntry
   <4> QED BY <1>2, <2>2, <3>2, <4>2 DEF EntryOf, At
  <3>4. CASE my[t].pc = "next_code"
   <4>1. PICK d \in Node : d = Depth(t) + 1 BY <1>2, <1>a, <3>4
   <4>2. PICK v : v = C(t) /\ EntryOf(d, t, v) BY <3>4, <4>1 DEF PushedFirst
   <4>3. EntryOf(d, t, v)' BY <1>0, <4>2, EntriesStay
   <4> QED BY <1>2, <2>2, <3>2, <4>1, <4>2, <4>3 DEF EntryOf, At
  <3> QED BY <3>1, <3>3, <3>4
 <2> QED BY <1>2, <2>1, <2>2 DEF At
<1> QED BY <1>1, <1>2

-----------------------------------------------------------------------------
(***************************************************************************)
(* What a thread knows in a top-down level.                                *)
(***************************************************************************)

\* A vertex of a level that a thread has reached has its distance.
LEMMA LevelFound ==
  ASSUME DistSound, LevelReady, NEW t \in Thread, ~At(t, "returned"),
         NEW v \in Vertex, Delta[v] \in 0 .. Depth(t)
  PROVE  Discovered(v) /\ dist[v] = Delta[v]
  BY DEF DistSound, LevelReady, Discovered

LEMMA ExpandedVertex ==
  ASSUME Shape, Control, DistSound, BucketsSound, LevelReady, NEW t \in Thread,
         my[t].pc \in AtItem \cup {"code"}
  PROVE  /\ U(t) \in Vertex /\ Delta[U(t)] = Depth(t) /\ dist[U(t)] = Depth(t)
         /\ Depth(t) \in Node /\ Depth(t) \in Nat /\ ~At(t, "returned")
<1>1. ~At(t, "returned") BY DEF At, AtItem
<1>2. U(t) \in Vertex /\ my[t].item \in 1 .. Len(Entry(t).bucket) BY ItemVertex
<1>3. Depth(t) \in Node /\ my[t].owner \in Thread /\ Depth(t) \in Nat BY <1>1, Here DEF Node
<1>4. Delta[U(t)] = Depth(t) BY <1>2, <1>3, Zenon DEF BucketsSound, U, Entry, Curr
<1> QED BY <1>1, <1>2, <1>3, <1>4, LevelFound

\* A neighbour of a vertex of a level is at most a level further.
LEMMA OneFurther ==
  ASSUME NEW u \in Vertex, NEW d \in Nat, Delta[u] = d, NEW v \in Neighbors(u)
  PROVE  v \in Vertex /\ Delta[v] \in 0 .. d + 1
  BY GraphTypes, DistanceAssumption DEF Unset

LEMMA VertexViewNext ==
  ASSUME Shape, Control, DistSound, BucketsSound, LevelReady, Views,
         NEW t \in Thread, Step(t), NEW s \in Thread
  PROVE  VertexView(s)'
<1>0. Moves(t) /\ Grows BY ControlNext
<1>a. \A x \in Vertex : Discovered(x) => dist'[x] # Unset BY Found DEF Discovered
<1> SUFFICES ASSUME my'[s].pc \in AtItem \ {"du"}
             PROVE  /\ my'[s].du = Depth(s)'
                    /\ my'[s].pc \in {"push", "swap"} => Delta[V(s)'] = Depth(s)' + 1
                    /\ \A p \in 1 .. my'[s].j - 1 : dist'[adj[U(s)'][p]] # Unset
  BY DEF VertexView, Discovered
<1>1. CASE s # t
 <2>1. /\ my'[s] = my[s] /\ Depth(s)' = Depth(s) /\ U(s)' = U(s)
       /\ my[s].pc \in {"push", "swap"} => V(s)' = V(s)
   BY <1>0, <1>1, OtherPlace
 <2>2. /\ my[s].pc \in AtItem \ {"du"} /\ VertexView(s) BY <2>1 DEF Views
 <2>3. \A p \in 1 .. my[s].j - 1 : adj[U(s)][p] \in Vertex
  <3>1. adj[U(s)] \in Seq(Vertex) /\ my[s].j - 1 <= Len(adj[U(s)]) /\ my[s].j \in Nat
   <4>1. adj[U(s)] \in Seq(Vertex) BY <2>2, ItemVertex
   <4>2. Entries(s) /\ my[s].j \in Nat BY ThreadFields DEF Control, Shape
   <4> QED BY <2>2, <4>1, <4>2 DEF Entries, AtItem, At
  <3> QED BY <3>1
 <2> QED BY <1>a, <2>1, <2>2, <2>3 DEF VertexView
<1>2. CASE s = t
 <2>1. TopDown(t) /\ my[t].pc \in AtItem /\ SameLevel(t)
   BY <1>2, PcAfter, BucketSteps DEF Step, Deciding, InCodes, InBlock, Finding, Owning, Helping,
      Linking, NextPc, AtItem
 <2>2. /\ U(t) \in Vertex /\ Delta[U(t)] = Depth(t) /\ dist[U(t)] = Depth(t) /\ Depth(t) \in Nat
       /\ ~At(t, "returned")
   BY <2>1, ExpandedVertex
 <2>3. U(t)' = U(t) /\ Depth(t)' = Depth(t) /\ my[t].j \in Nat
   BY <1>2, <2>1, ItemSteps DEF SameLevel, Depth
 <2>4. VertexView(t) BY DEF Views
 <2>5. V(t) = adj[U(t)][my[t].j] BY DEF V
 <2>6. CASE my[t].pc = "du"
  <3>1. my'[t].du = dist[U(t)] /\ my'[t].j = 1 /\ my'[t].pc \in {"neighbor", "vis"}
    BY <1>2, <2>1, <2>6, ItemSteps DEF PushVertex, SwapDist, At
  <3> QED BY <1>2, <2>2, <2>3, <3>1
 <2>7. CASE my[t].pc = "neighbor"
  <3>1. /\ my'[t].du = my[t].du /\ V(t) \in Vertex
        /\ \/ /\ dist[V(t)] = Unset /\ my'[t].pc = "push" /\ my'[t].j = my[t].j
              /\ V(t)' = V(t)
           \/ /\ dist[V(t)] # Unset /\ my'[t].pc \in {"neighbor", "vis"}
              /\ my'[t].j = my[t].j + 1
    BY <1>2, <2>1, <2>7, ItemSteps DEF PushVertex, SwapDist, At
  <3>2. /\ my[t].du = Depth(t) /\ my[t].j \in 1 .. Len(adj[U(t)])
        /\ \A p \in 1 .. my[t].j - 1 : Discovered(adj[U(t)][p])
    BY <2>4, <2>7, ItemVertex DEF VertexView, AtItem
  <3>3. \A p \in 1 .. my[t].j : adj[U(t)][p] \in Vertex BY <2>2, <3>2, GraphAssumption
  <3>4. CASE dist[V(t)] = Unset /\ my'[t].pc = "push" /\ my'[t].j = my[t].j /\ V(t)' = V(t)
   <4>1. V(t) \in Neighbors(U(t)) BY <2>2, <2>5, <3>2, GraphTypes
   <4>2. Delta[V(t)] \in 0 .. Depth(t) + 1 BY <2>2, <4>1, OneFurther
   <4>3. Delta[V(t)] \notin 0 .. Depth(t) BY <2>2, <3>1, <3>4, LevelFound DEF Discovered
   <4>4. Delta[V(t)] = Depth(t) + 1 BY <2>2, <4>2, <4>3
   <4> QED BY <1>2, <1>a, <2>3, <3>1, <3>2, <3>3, <3>4, <4>4
  <3>5. CASE dist[V(t)] # Unset /\ my'[t].pc \in {"neighbor", "vis"} /\ my'[t].j = my[t].j + 1
   <4>1. \A p \in 1 .. my[t].j : Discovered(adj[U(t)][p]) BY <2>3, <2>5, <3>2, <3>5 DEF Discovered
   <4> QED BY <1>2, <1>a, <2>3, <3>1, <3>2, <3>3, <3>5, <4>1
  <3> QED BY <3>1, <3>4, <3>5
 <2>8. CASE my[t].pc = "push"
  <3>1. /\ my'[t].pc = "swap" /\ my'[t].du = my[t].du
        /\ my'[t].j = my[t].j /\ V(t)' = V(t)
    BY <1>2, <2>1, <2>8, ItemSteps DEF SwapDist, At
  <3>2. /\ my[t].du = Depth(t) /\ my[t].j \in 1 .. Len(adj[U(t)])
        /\ Delta[V(t)] = Depth(t) + 1
        /\ \A p \in 1 .. my[t].j - 1 : Discovered(adj[U(t)][p])
    BY <2>4, <2>8, ItemVertex DEF VertexView, AtItem
  <3>3. \A p \in 1 .. my[t].j : adj[U(t)][p] \in Vertex BY <2>2, <3>2, GraphAssumption
  <3> QED BY <1>2, <1>a, <2>3, <3>1, <3>2, <3>3
 <2>9. CASE my[t].pc = "swap"
  <3>1. /\ SwapDist(t) /\ my'[t].pc \in {"neighbor", "vis"}
        /\ my'[t].du = my[t].du /\ my'[t].j = my[t].j + 1
    BY <1>2, <2>1, <2>9, ItemSteps DEF PushVertex, At
  <3>2. /\ my[t].du = Depth(t) /\ my[t].j \in 1 .. Len(adj[U(t)])
        /\ \A p \in 1 .. my[t].j - 1 : Discovered(adj[U(t)][p])
    BY <2>4, <2>9, ItemVertex DEF VertexView, AtItem
  <3>3. \A p \in 1 .. my[t].j : adj[U(t)][p] \in Vertex BY <2>2, <3>2, GraphAssumption
  <3>4. PICK v \in Vertex : v = adj[U(t)][my[t].j] /\ Discovered(v)'
   <4>1. PICK v \in Vertex : v = V(t) BY <2>9, ItemVertex
   <4>2. dist'[v] # Unset BY <2>2, <3>1, <3>2, <4>1, SwapWrites DEF Unset
   <4> QED BY <2>5, <4>1, <4>2 DEF Discovered
  <3>5. ASSUME NEW p \in 1 .. my[t].j PROVE dist'[adj[U(t)'][p]] # Unset
   <4>1. PICK x \in Vertex : x = adj[U(t)][p] /\ (p < my[t].j => Discovered(x)) BY <2>3, <3>2, <3>3
   <4>2. dist'[x] # Unset BY <1>a, <2>3, <3>4, <4>1 DEF Discovered
   <4> QED BY <2>3, <4>1, <4>2
  <3> QED BY <1>2, <2>3, <3>1, <3>2, <3>5
 <2>10. my[t].pc # "vis" BY <1>2, <2>1, ItemSteps DEF PushVertex, SwapDist, At
 <2> QED BY <2>1, <2>6, <2>7, <2>8, <2>9, <2>10 DEF AtItem
<1> QED BY <1>1, <1>2

\* The direction of a level, from where a thread in it is.
LEMMA LevelDirection ==
  ASSUME Shape, Control, PlansInv, NEW t \in Thread
  PROVE  /\ my[t].pc \in InTopDown =>
              /\ Depth(t) \in Node /\ Decided(Depth(t)) /\ ~At(t, "returned")
              /\ Decision(Depth(t)).direction = "top_down"
         /\ my[t].pc \in InCodes \cup InBottomUp =>
              /\ Depth(t) \in Node /\ Decided(Depth(t)) /\ ~At(t, "returned")
              /\ Decision(Depth(t)).direction = "bottom_up"
              /\ my[t].plan = Decision(Depth(t))
         /\ my[t].pc \in InCodes =>
              /\ Decision(Depth(t)).code > 0 /\ Before(Depth(t)).direction = "top_down"
<1>1. my[t].pc \in InTopDown \cup InCodes \cup InBottomUp =>
        /\ Depth(t) \in Node /\ Decided(Depth(t)) /\ my[t].plan = Decision(Depth(t))
        /\ ~At(t, "returned")
  BY InLevel DEF Deciding, InTopDown, AtBucket, AtItem, InCodes, InBottomUp, InBlock, Finding,
     Owning, Helping
<1>2. my[t].plan.direction \in {"top_down", "bottom_up"} BY ThreadFields, PlanFields DEF Shape
<1>3. Directed(t) BY DEF Control
<1>4. my[t].pc \in InCodes => my[t].previous = Before(Depth(t)).direction
  BY DEF PlansInv, PlansInOrder, InCodes, Deciding, At
<1> QED BY <1>1, <1>2, <1>3, <1>4 DEF Directed, TopDownLevel

\* The entries a thread has got hold of.
LEMMA SizedEntries ==
  ASSUME Shape, Control, NEW t \in Thread, my[t].pc \in AtBucket
  PROVE  /\ my[t].sz \in Nat /\ my[t].sz <= Len(Entry(t).bucket) /\ Len(Entry(t).bucket) \in Nat
         /\ Depth(t) \in Node /\ my[t].owner \in Thread
         /\ \A i \in 1 .. Len(Entry(t).bucket) :
              /\ Entry(t).bucket[i] \in Vertex
              /\ Entry(t).bucket[i] = Bucket(Depth(t), my[t].owner)[i]
<1>1. ~At(t, "returned") BY DEF At, AtBucket, AtItem
<1>2. Entry(t).bucket \in Seq(Vertex) /\ Depth(t) \in Node /\ my[t].owner \in Thread BY <1>1, Here
<1>3. my[t].sz \in 1 .. Len(Entry(t).bucket) BY DEF Control, Entries
<1>4. /\ Len(Entry(t).bucket) \in Nat
      /\ \A i \in 1 .. Len(Entry(t).bucket) : Entry(t).bucket[i] \in Vertex
  BY <1>2
<1>5. Entry(t).bucket = Bucket(Depth(t), my[t].owner) BY DEF Bucket, Entry, Curr
<1> QED BY <1>2, <1>3, <1>4, <1>5

LEMMA EntriesViewNext ==
  ASSUME Shape, Control, PlansInv, DistSound, Views, VisCertificate, ProgressCertificate,
         NEW t \in Thread, Step(t), NEW s \in Thread
  PROVE  EntriesView(s)'
<1>0. Moves(t) /\ Grows BY ControlNext
<1>a. \A x \in Vertex : Covered(x) => Covered(x)' BY Found
<1>b. EntriesView(s) BY DEF Views
<1> SUFFICES ASSUME my'[s].pc \in AtBucket \ {"start"}, NEW i \in 1 .. my'[s].sz,
                    i \notin my'[s].todo, ~(my'[s].pc \in AtItem /\ i = my'[s].item)
             PROVE  \E x \in Vertex : x = Entry(s)'.bucket[i] /\ Covered(x)'
  BY DEF EntriesView, Covered, Discovered
<1>1. CASE s # t
 <2>1. /\ my'[s] = my[s]
       /\ ~At(s, "returned") =>
           /\ \A j \in 1 .. Len(Entry(s).bucket) : Entry(s)'.bucket[j] = Entry(s).bucket[j]
   BY <1>0, <1>1, OtherPlace
 <2>2. my[s].pc \in AtBucket \ {"start"} /\ ~At(s, "returned") BY <2>1 DEF At, AtBucket, AtItem
 <2>3. i \in 1 .. Len(Entry(s).bucket) /\ Entry(s).bucket[i] \in Vertex BY <2>1, <2>2, SizedEntries
 <2>4. Covered(Entry(s).bucket[i]) BY <1>b, <2>1, <2>2 DEF EntriesView
 <2> QED BY <1>a, <2>1, <2>2, <2>3, <2>4
<1>2. CASE s = t
 <2>1. TopDown(t)
   BY <1>2, PcAfter DEF Step, Deciding, InCodes, InBlock, Finding, Owning, Helping, Linking, AtItem,
      AtBucket
 <2>2. my[t].pc \in AtBucket \cup {"load"} /\ SameLevel(t) /\ SameOwner(t)
   BY <1>2, <2>1, BucketSteps DEF AtItem, AtBucket, NextPc
 <2>3. /\ Entry(t)'.bucket = Entry(t).bucket
  <3>1. BucketsStay(t) /\ ~At(t, "returned")
    BY <2>1, <2>2, StepWork DEF Step, Work, Plan, Advance, LoadPlanOwner, ReadSize, Propose, Claim,
       At, AtItem, AtBucket
  <3> QED BY <2>2, <3>1, SamePlace DEF SameLevel, SameOwner
 <2>4. SUFFICES ASSUME i \in 1 .. Len(Entry(t).bucket) => Entry(t).bucket[i] \in Vertex
                PROVE  i \in 1 .. Len(Entry(t).bucket) /\ Covered(Entry(t).bucket[i])
  <3>1. Entry(t).bucket \in Seq(Vertex) BY <2>2, Here DEF At, AtItem, AtBucket
  <3> QED BY <1>2, <1>a, <2>3, <3>1
 <2>5. CASE my[t].pc = "load"
  <3> QED BY <1>2, <2>1, <2>5, BucketSteps DEF MarkVisited, Progress, At, AtItem, AtBucket
 <2>6. ASSUME my[t].pc \in AtBucket, my'[t].sz = my[t].sz
       PROVE  i \in 1 .. Len(Entry(t).bucket) /\ i \in Nat
   BY <1>2, <2>6, SizedEntries
 <2>7. CASE my[t].pc = "start"
  <3>1. /\ my'[t].sz = my[t].sz /\ my'[t].todo = Entry(t).last_done + 1 .. my[t].sz
    BY <1>2, <2>1, <2>7, BucketSteps DEF MarkVisited, Progress, At, AtItem, AtBucket
  <3>2. i \in 1 .. Len(Entry(t).bucket) /\ i \in 1 .. Entry(t).last_done /\ my[t].sz \in Nat
   <4>1. Entry(t).last_done \in Nat /\ my[t].sz \in Nat
     BY <2>7, Here, OwnerFields, SizedEntries DEF At, AtBucket
   <4> QED BY <1>2, <2>6, <2>7, <3>1, <4>1 DEF AtBucket
  <3>3. /\ Depth(t) \in Node /\ my[t].owner \in Thread /\ Decided(Depth(t))
        /\ Decision(Depth(t)).direction = "top_down"
    BY <2>7, LevelDirection, SizedEntries DEF InTopDown, AtBucket
  <3>4. Covered(Entry(t).bucket[i]) BY <3>2, <3>3 DEF ProgressCertificate, Entry, Curr
  <3> QED BY <3>2, <3>4
 <2>8. CASE my[t].pc = "entry"
  <3>1. /\ my'[t].sz = my[t].sz
        /\ my'[t].item \in my[t].todo /\ my'[t].todo = my[t].todo \ {my'[t].item}
        /\ my'[t].pc = "du" \/ vis[Entry(t).bucket[my'[t].item]]
    BY <1>2, <2>1, <2>8, BucketSteps DEF MarkVisited, Progress, At, AtItem, AtBucket
  <3>2. i \in 1 .. Len(Entry(t).bucket) BY <2>6, <2>8, <3>1 DEF AtBucket
  <3>3. CASE i = my'[t].item
   <4>1. my'[t].pc # "du" BY <1>2, <3>3 DEF AtItem
   <4>2. vis[Entry(t).bucket[i]] BY <3>1, <3>3, <4>1
   <4> QED BY <2>4, <3>2, <4>2 DEF VisCertificate
  <3>4. CASE i # my'[t].item BY <1>2, <1>b, <2>8, <3>1, <3>2, <3>4 DEF EntriesView, AtItem, AtBucket
  <3> QED BY <3>3, <3>4
 <2>9. CASE my[t].pc \in AtItem
  <3>1. /\ SameItems(t)
        /\ my'[t].pc \in AtItem \/ my[t].pc = "vis"
    BY <1>2, <2>1, <2>9, BucketSteps, Zenon DEF Progress, At, AtItem, AtBucket, NextPc
  <3>2. i \in 1 .. Len(Entry(t).bucket) /\ my[t].pc \in AtBucket \ {"start"}
    BY <2>6, <2>9, <3>1 DEF AtBucket, AtItem, SameItems
  <3>3. CASE i = my[t].item /\ my[t].pc = "vis"
   <4>1. U(t) \in Vertex /\ adj[U(t)] \in Seq(Vertex) /\ my[t].j = Len(adj[U(t)]) + 1
     BY <3>3, ItemVertex DEF Control, Entries, AtItem, At
   <4>2. \A p \in 1 .. Len(adj[U(t)]) : Discovered(adj[U(t)][p])
     BY <3>3, <4>1 DEF Views, VertexView, AtItem
   <4>3. Covered(U(t)) BY <4>1, <4>2, GraphTypes DEF Covered
   <4> QED BY <3>2, <3>3, <4>3 DEF U
  <3>4. CASE ~(i = my[t].item /\ my[t].pc = "vis")
    BY <1>2, <1>b, <3>1, <3>2, <3>4 DEF EntriesView, SameItems
  <3> QED BY <3>3, <3>4
 <2>10. CASE my[t].pc \in {"progress", "finish"}
  <3>1. SameItems(t) BY <1>2, <2>1, <2>10, BucketSteps DEF MarkVisited, At, AtItem, AtBucket, NextPc
  <3>2. i \in 1 .. Len(Entry(t).bucket) /\ my[t].pc \in AtBucket \ {"start"}
    BY <2>6, <2>10, <3>1 DEF AtBucket, AtItem, SameItems
  <3> QED BY <1>2, <1>b, <2>10, <3>1, <3>2 DEF EntriesView, SameItems, AtItem
 <2> QED BY <2>2, <2>5, <2>7, <2>8, <2>9, <2>10 DEF AtBucket
<1> QED BY <1>1, <1>2

-----------------------------------------------------------------------------
(***************************************************************************)
(* The frontier test.  Codes grow with the levels and leave one out        *)
(* between levels that are not neighbours, so that a code says which level *)
(* a vertex is of.                                                         *)
(***************************************************************************)
LEMMA DecisionType ==
  ASSUME Shape, NEW d \in Node, Decided(d)
  PROVE  /\ Decision(d) \in PlanType /\ node[d].plan_owner \in Thread
         /\ Decision(d).direction \in {"top_down", "bottom_up"}
         /\ Decision(d).code \in Nat /\ Decision(d).code <= MaxCode
         /\ Decision(d).last_code \in Nat /\ Decision(d).last_code <= MaxCode
         /\ MaxCode \in Nat
<1>1. node[d].plan_owner \in Thread BY NodeFields DEF Shape, Decided
<1>2. Decision(d) \in PlanType BY <1>1, NodeFields, OwnerFields DEF Shape, Decision
<1> QED BY <1>1, <1>2, PlanFields, DirAssumption

LEMMA VertexLevel ==
  ASSUME NEW v \in Vertex
  PROVE  /\ Delta[v] \in Int /\ MaxNode \in Nat /\ Delta[v] + 1 <= MaxNode
         /\ Delta[v] >= 0 => Delta[v] \in Node
         /\ Delta[v] > 0 => Delta[v] - 1 \in Node
<1>1. /\ Delta[v] \in Int /\ Delta[v] <= MaxDelta /\ MaxDelta \in Nat /\ MaxNode \in Nat
      /\ MaxDelta < MaxNode
  BY GraphTypes, GraphAssumption, DirAssumption
<1> QED BY <1>1 DEF Node

\* What follows a bottom-up level that has a code.
LEMMA CodeFollows ==
  ASSUME Shape, PlansInv, CodesGrow, NEW d \in Node, Coded(d), d > 0,
         Before(d).direction # "top_down"
  PROVE  /\ d - 1 \in Node /\ PassesCode(d - 1) /\ Decision(d - 1).code + 1 = Decision(d).code
<1>1. d \in Nat /\ d - 1 \in Node /\ d - 1 \in 0 .. d - 1 BY DirAssumption DEF Node
<1>2. Decided(d) /\ Decided(d - 1) /\ Before(d) = Decision(d - 1)
  BY <1>1 DEF Coded, PlansInv, PlansInOrder, Before
<1>3. PICK direction \in {"top_down", "bottom_up"} :
        Decision(d) = AssignCode(Decision(d - 1), direction)
  BY <1>2 DEF PlansInv, PlansInOrder
<1> DEFINE b == Decision(d - 1)
           p == Decision(d)
<1>4. /\ b.direction = "bottom_up" /\ b.code \in Nat /\ b.code <= MaxCode /\ b.last_code \in Nat
      /\ MaxCode \in Nat /\ p.code > 0 /\ p = AssignCode(b, direction)
  BY <1>1, <1>2, <1>3, DecisionType DEF Coded
<1>5. b.code = 0 => b.last_code = MaxCode BY <1>1, <1>2, <1>4 DEF CodesGrow
<1>6. PassesCode(d - 1) <=> b.code > 0 /\ b.code < MaxCode BY <1>2 DEF PassesCode, Coded
<1> HIDE DEF b, p
<1>7. b.code > 0 /\ b.code < MaxCode /\ b.code + 1 = p.code BY <1>4, <1>5 DEF AssignCode
<1> QED BY <1>1, <1>6, <1>7 DEF b, p

LEMMA FrontierExact ==
  ASSUME Shape, Control, PlansInv, DistSound, LevelReady, CodesInv,
         NEW t \in Thread, my[t].pc \in Scanning, NEW v \in Vertex
  PROVE  InFrontier(t, v) <=> Delta[v] = Depth(t)
<1>1. /\ Depth(t) \in Node /\ Decided(Depth(t)) /\ ~At(t, "returned")
      /\ my[t].plan = Decision(Depth(t)) /\ Depth(t) \in Nat
      /\ Decision(Depth(t)).direction = "bottom_up"
  BY LevelDirection DEF Scanning, InBottomUp, InBlock, Finding, Owning, Helping, Node
<1> DEFINE d == Depth(t)
<1>2. d \in Node /\ d \in Nat /\ Decided(d) /\ my[t].plan = Decision(d) BY <1>1
<1>3. Delta[v] \in 0 .. d => Discovered(v) /\ dist[v] = Delta[v] BY <1>1, LevelFound
<1>4. Decision(d).code \in Nat BY <1>2, DecisionType
<1>5. InFrontier(t, v) <=> IF Decision(d).code > 0 THEN dist8[v] = Decision(d).code ELSE dist[v] = d
  BY <1>2 DEF InFrontier
<1>6. \A o \in Thread : \A i : ~WillCode(t, o, i)
  BY DEF WillCode, Scanning, Deciding, Linking, InCodes, At
<1>7. Depth(t) = d OBVIOUS
<1> HIDE DEF d
<1>8. CASE Decision(d).code = 0
 <2>1. dist[v] = d <=> Delta[v] = d BY <1>2, <1>3 DEF DistSound, Unset
 <2> QED BY <1>4, <1>5, <1>7, <1>8, <2>1
<1>9. CASE Decision(d).code > 0
 <2>1. Coded(d) BY <1>2, <1>9 DEF Coded
 <2>2. ASSUME dist8[v] = Decision(d).code PROVE Delta[v] = d
  <3>1. dist8[v] # 0 BY <1>4, <1>9, <2>2
  <3>2. CASE Delta[v] > 0 /\ Coded(Delta[v] - 1) /\ dist8[v] = Decision(Delta[v] - 1).code + 1
   <4>1. PICK e \in Node : e = Delta[v] - 1 BY <3>2, VertexLevel
   <4>2. /\ e \in Nat /\ Decided(e) /\ Decision(e).code \in Nat /\ Decision(e).code > 0
         /\ Decision(e).code + 1 = Decision(d).code
     BY <2>2, <3>2, <4>1, DecisionType DEF Coded, Node
   <4>3. e < d BY <1>2, <1>4, <1>9, <4>2 DEF CodesInv, CodesGrow
   <4>4. ~(e + 1 < d) BY <1>2, <1>4, <1>9, <4>2, <4>3 DEF CodesInv, CodesGrow
   <4> QED BY <1>2, <4>1, <4>2, <4>3, <4>4, VertexLevel
  <3>3. CASE Delta[v] >= 0 /\ Coded(Delta[v]) /\ dist8[v] = Decision(Delta[v]).code
   <4>1. PICK e \in Node : e = Delta[v] BY <3>3, VertexLevel
   <4>2. /\ e \in Nat /\ Decided(e) /\ Decision(e).code \in Nat /\ Decision(e).code > 0
         /\ Decision(e).code = Decision(d).code
     BY <2>2, <3>3, <4>1, DecisionType DEF Coded, Node
   <4>3. ~(e < d) /\ ~(d < e) BY <1>2, <1>4, <1>9, <4>2 DEF CodesInv, CodesGrow
   <4> QED BY <1>2, <4>1, <4>2, <4>3
  <3> QED BY <3>1, <3>2, <3>3 DEF CodesInv, CodesSound
 <2>3. ASSUME Delta[v] = d PROVE dist8[v] = Decision(d).code
  <3>1. Discovered(v) /\ dist[v] = d BY <1>2, <1>3, <2>3
  <3>2. CASE Before(d).direction = "top_down"
   <4> SUFFICES ASSUME dist8[v] # Decision(d).code PROVE FALSE OBVIOUS
   <4>1. d \in Node /\ Coded(d) /\ NoneUncoded BY <1>2, <2>1 DEF CodesInv
   <4>2. \E o \in Thread : \E i \in Places(d, o) : \A s \in Thread : Depth(s) = d => WillCode(s, o, i)
     BY <3>1, <3>2, <4>1 DEF NoneUncoded
   <4> QED BY <1>6, <1>7, <4>2
  <3>3. CASE Before(d).direction # "top_down"
   <4>1. d > 0 BY <1>2, <3>3 DEF Before, FirstPlan
   <4>2. d - 1 \in Node /\ PassesCode(d - 1) /\ Decision(d - 1).code + 1 = Decision(d).code
     BY <1>2, <2>1, <3>3, <4>1, CodeFollows DEF CodesInv
   <4>3. dist8[v] = Decision(d - 1).code + 1 BY <2>3, <3>1, <4>1, <4>2 DEF CodesInv, CodesPassed
   <4> QED BY <4>2, <4>3
  <3> QED BY <3>2, <3>3
 <2> QED BY <1>5, <1>7, <1>9, <2>2, <2>3
<1> QED BY <1>4, <1>8, <1>9

LEMMA NewCandidate ==
  ASSUME DistSound, LevelReady, NEW t \in Thread, ~At(t, "returned"), NEW v \in Vertex,
         dist[v] = Unset
  PROVE  Delta[v] \notin 0 .. Depth(t)
  BY LevelFound DEF Discovered

LEMMA CandidatesViewNext ==
  ASSUME Shape, Control, PlansInv, DistSound, LevelReady, Views, CodesInv,
         NEW t \in Thread, Step(t), NEW s \in Thread
  PROVE  CandidatesView(s)'
<1>0. Moves(t) /\ Grows /\ Control' BY ControlNext
<1>a. CandidatesView(s) BY DEF Views
<1>1. CASE s # t
 <2>1. my'[s] = my[s] /\ Depth(s)' = Depth(s) /\ C(s)' = C(s) BY <1>0, <1>1, OtherPlace
 <2> QED BY <1>a, <2>1 DEF CandidatesView, At
<1>2. CASE s = t
 <2>1. CASE my'[t].pc \notin InBlock
  <3>1. my'[t].cand = <<>> BY <1>0, <2>1 DEF Control, BlockEntries
  <3> QED BY <1>2, <2>1, <3>1 DEF CandidatesView, At, InBlock
 <2>2. CASE BottomUp(t) /\ my'[t].pc = "gather"
  <3>1. my'[t].cand = my[t].cand /\ my[t].pc \notin InBlock
    BY <2>2, BlockSteps, PcAfter DEF Owning, Helping, InBlock, Finding, NextPc
  <3>2. my[t].cand = <<>> BY <3>1 DEF Control, BlockEntries
  <3> QED BY <1>2, <2>2, <3>1, <3>2 DEF CandidatesView, At, Finding
 <2>3. CASE ScanBlock(t)
  <3> DEFINE d == Depth(t)
             c == my[t].cand
             c1 == my'[t].cand
  <3>1. /\ ~At(t, "returned") /\ my[t].pc \in InBlock /\ Depth(t)' = d
        /\ my[t].j \in Nat /\ c \in Seq(Vertex) /\ d \in Node /\ d \in Nat
   <4>1. my[t].pc \in InBlock /\ Depth(t)' = d /\ my[t].j \in Nat /\ c \in Seq(Vertex)
     BY <2>3, ScanSteps DEF Depth, SameLevel
   <4>2. ~At(t, "returned") BY <4>1 DEF At, InBlock, Finding
   <4> QED BY <4>1, <4>2, Here DEF Node
  <3>2. /\ \A i \in 1 .. Len(c) : Delta[c[i]] \notin 0 .. d
        /\ At(t, "test") => \A p \in 1 .. my[t].j - 1 : Delta[adj[C(t)][p]] # d
        /\ my[t].pc \in Finding => Delta[C(t)] = d + 1
    BY <1>2, <1>a DEF CandidatesView
  <3>3. C(t) = Head(c) /\ C(t)' = Head(c1) BY DEF C
  <3>a. my[t].pc \in {"test"} \cup Finding =>
          /\ c # <<>> /\ C(t) \in Vertex /\ adj[C(t)] \in Seq(Vertex) /\ Tail(c) \in Seq(Vertex)
    BY BlockVertex DEF Control, BlockEntries
  <3>b. /\ Depth(s)' = Depth(t)' /\ my'[s] = my'[t] /\ C(s)' = C(t)' BY <1>2
  <3> SUFFICES /\ \A i \in 1 .. Len(c1) : Delta[c1[i]] \notin 0 .. d
               /\ my'[t].pc = "test" => \A p \in 1 .. my'[t].j - 1 : Delta[adj[Head(c1)][p]] # d
               /\ my'[t].pc \in Finding => Delta[Head(c1)] = d + 1
    BY <3>1, <3>3, <3>b DEF CandidatesView, At
  <3>4. my'[t].pc = "test" /\ my'[t].j \in {0, 1} =>
          \A p \in 1 .. my'[t].j - 1 : Delta[adj[Head(c1)][p]] # d
    OBVIOUS
  <3>5. my[t].pc \in {"test"} \cup Finding /\ c1 = Tail(c) =>
          \A i \in 1 .. Len(c1) : Delta[c1[i]] \notin 0 .. d
   <4> HIDE DEF d, c, c1
   <4> QED BY <3>1, <3>2, <3>a, TailEntries
  <3>6. CASE my[t].pc = "gather"
   <4>1. /\ my[t].j \in Vertex
         /\ c1 = IF dist[my[t].j] = Unset THEN Append(c, my[t].j) ELSE c
         /\ \/ my'[t].pc = "gather"
            \/ my'[t].j \in {0, 1} /\ my'[t].pc \in {"test", "own_progress", "stamp"}
     BY <2>3, <3>6, ScanSteps
   <4>2. dist[my[t].j] = Unset => Delta[my[t].j] \notin 0 .. d BY <3>1, <4>1, NewCandidate
   <4>3. \A i \in 1 .. Len(c1) : Delta[c1[i]] \notin 0 .. d BY <3>1, <3>2, <4>1, <4>2
   <4> HIDE DEF c, c1, d
   <4> QED BY <3>4, <4>1, <4>3 DEF Finding
  <3>7. CASE my[t].pc = "test"
   <4> HIDE DEF d, c, c1
   <4>1. \/ c1 = Tail(c) /\ my'[t].j \in {0, 1} /\ my'[t].pc \in {"test", "own_progress", "stamp"}
         \/ /\ my[t].j \in 1 .. Len(adj[C(t)]) /\ InFrontier(t, adj[C(t)][my[t].j])
            /\ c1 = c /\ my'[t].pc = "found"
         \/ /\ my[t].j \in 1 .. Len(adj[C(t)]) /\ ~InFrontier(t, adj[C(t)][my[t].j])
            /\ c1 = c /\ my'[t].pc = "test" /\ my'[t].j = my[t].j + 1
     BY <2>3, <3>7, ScanSteps DEF c, c1
   <4>2. CASE c1 = Tail(c) /\ my'[t].j \in {0, 1} /\ my'[t].pc \in {"test", "own_progress", "stamp"}
     BY <3>4, <3>5, <3>7, <4>2 DEF Finding
   <4>3. ASSUME my[t].j \in 1 .. Len(adj[C(t)])
         PROVE  /\ InFrontier(t, adj[C(t)][my[t].j]) <=> Delta[adj[C(t)][my[t].j]] = d
                /\ adj[C(t)][my[t].j] \in Vertex /\ adj[C(t)][my[t].j] \in Neighbors(C(t))
                /\ C(t) \in Vertex
    <5>1. C(t) \in Vertex /\ adj[C(t)] \in Seq(Vertex) BY <3>7, <3>a
    <5>2. adj[C(t)][my[t].j] \in Vertex /\ adj[C(t)][my[t].j] \in Neighbors(C(t))
      BY <4>3, <5>1, GraphTypes
    <5> QED BY <3>7, <5>1, <5>2, FrontierExact DEF Scanning, d
   <4>4. CASE /\ my[t].j \in 1 .. Len(adj[C(t)]) /\ InFrontier(t, adj[C(t)][my[t].j])
              /\ c1 = c /\ my'[t].pc = "found"
    <5>1. PICK x \in Neighbors(C(t)) : x \in Vertex /\ Delta[x] = d /\ C(t) \in Vertex BY <4>3, <4>4
    <5>2. C(t) \in Neighbors(x) BY <5>1, SymmetryAssumption
    <5>3. Delta[C(t)] \in 0 .. d + 1 /\ d \in Nat BY <3>1, <5>1, <5>2, OneFurther
    <5>4. Delta[C(t)] \notin 0 .. d BY <3>1, <3>2, <3>3, <3>7, <3>a
    <5> QED BY <3>2, <3>3, <4>4, <5>3, <5>4
   <4>5. CASE /\ my[t].j \in 1 .. Len(adj[C(t)]) /\ ~InFrontier(t, adj[C(t)][my[t].j])
              /\ c1 = c /\ my'[t].pc = "test" /\ my'[t].j = my[t].j + 1
    <5>1. Delta[adj[C(t)][my[t].j]] # d BY <4>3, <4>5
    <5>2. \A p \in 1 .. my[t].j - 1 : Delta[adj[C(t)][p]] # d BY <3>2, <3>7 DEF At
    <5>3. \A p \in 1 .. my'[t].j - 1 : Delta[adj[Head(c1)][p]] # d
     <6>1. Head(c1) = C(t) BY <3>3, <4>5
     <6>2. \A p \in 1 .. my'[t].j - 1 : p \in 1 .. my[t].j - 1 \/ p = my[t].j BY <3>1, <4>5
     <6>3. \A p \in 1 .. my'[t].j - 1 : Delta[adj[C(t)][p]] # d BY <5>1, <5>2, <6>2
     <6> QED BY <6>1, <6>3
    <5> QED BY <3>2, <4>5, <5>3 DEF Finding
   <4> QED BY <4>1, <4>2, <4>4, <4>5
  <3>8. CASE my[t].pc \in {"found", "next_code"}
   <4>1. c1 = c /\ my'[t].pc \in Finding BY <2>3, <3>8, ScanSteps DEF Finding
   <4> HIDE DEF d, c, c1
   <4> QED BY <3>2, <3>3, <3>8, <4>1 DEF Finding
  <3>9. CASE my[t].pc = "mark"
   <4>1. c1 = Tail(c) /\ my'[t].j \in {0, 1} /\ my'[t].pc \in {"test", "own_progress", "stamp"}
     BY <2>3, <3>9, ScanSteps
   <4> HIDE DEF d, c, c1
   <4> QED BY <3>4, <3>5, <3>9, <4>1 DEF Finding
  <3> QED BY <3>1, <3>6, <3>7, <3>8, <3>9 DEF InBlock, Finding
 <2> QED
   BY <2>1, <2>2, <2>3, PcAfter DEF Step, Deciding, InCodes, InTopDown, AtBucket, AtItem, Owning,
      Helping, InBlock, Finding
<1> QED BY <1>1, <1>2

LEMMA BlockTakenNext ==
  ASSUME Shape, Control, Views, NEW t \in Thread, Step(t), NEW s \in Thread
  PROVE  BlockTaken(s)'
<1>0. Moves(t) /\ Grows BY ControlNext
<1>a. BlockTaken(s) BY DEF Views
<1>1. CASE s # t
 <2>1. my'[s] = my[s] /\ Own(s)' = Own(s) BY <1>0, <1>1, OtherPlace
 <2> QED BY <1>a, <2>1 DEF BlockTaken
<1>2. CASE s = t
 <2> SUFFICES ASSUME my'[t].pc \in {"block_progress", "block_stamp", "stamp"} \cup InBlock,
                     my'[t].owner # t
              PROVE  my'[t].item \notin my'[t].todo
   BY <1>2 DEF BlockTaken, Own
 <2>1. CASE ScanBlock(t)
  <3>1. my[t].pc \in InBlock /\ SameItems(t) /\ SameOwner(t) BY <2>1, ScanSteps
  <3> QED BY <1>2, <1>a, <3>1 DEF BlockTaken, Own, SameItems, SameOwner
 <2>2. CASE BottomUp(t)
  <3>1. \/ my'[t].item \in my[t].todo /\ my'[t].todo = my[t].todo \ {my'[t].item}
        \/ /\ my[t].pc \in {"own_stamp", "block_stamp", "block_progress"}
           /\ SameOwner(t) /\ SameItems(t)
    BY <2>2, BlockSteps DEF NextPc, InBlock, Finding
  <3>2. my[t].pc = "own_stamp" => Own(t) BY OwnTurn DEF Control, Rounds, Owning, Deciding
  <3> QED BY <1>2, <1>a, <3>1, <3>2 DEF BlockTaken, Own, SameItems, SameOwner
 <2> QED
   BY <2>1, <2>2, PcAfter DEF Step, Deciding, InCodes, InTopDown, AtBucket, AtItem, InBlock, Finding
<1> QED BY <1>1, <1>2

-----------------------------------------------------------------------------
(***************************************************************************)
(* The marks of a level are written by threads that are in it, and so not  *)
(* before it is decided.                                                   *)
(***************************************************************************)
MarkedHere(t, d, o) ==
  d = Depth(t) /\ o = my[t].owner /\ Decided(d) /\ ~At(t, "returned")

LEMMA MarksFrom ==
  ASSUME Shape, Control, PlansInv, NEW t \in Thread, Step(t), NEW d \in Node, NEW o \in Thread
  PROVE  /\ \/ Done(d, o)' = Done(d, o)
            \/ /\ Done(d, o)' = TRUE /\ MarkedHere(t, d, o)
               /\ \/ FinishBucket(t) /\ my[t].pc = "finish" /\ Decision(d).direction = "top_down"
                  \/ FinishBlocks(t) /\ my[t].pc = "blocks_done" /\ Decision(d).direction # "top_down"
         /\ \/ Last(d, o)' = Last(d, o)
            \/ /\ Last(d, o)' = my[t].item /\ MarkedHere(t, d, o)
               /\ \/ Progress(t) /\ my[t].pc = "progress" /\ Decision(d).direction = "top_down"
                  \/ OwnProgress(t) /\ my[t].pc = "own_progress" /\ Decision(d).direction # "top_down"
         /\ \/ CodesDone(d, o)' = CodesDone(d, o)
            \/ /\ CodesDone(d, o)' = TRUE /\ MarkedHere(t, d, o)
               /\ CodesFinish(t) /\ my[t].pc = "codes_finish" /\ Decision(d).direction # "top_down"
         /\ \/ CodesLast(d, o)' = CodesLast(d, o)
            \/ /\ CodesLast(d, o)' = my[t].item /\ MarkedHere(t, d, o)
               /\ CodesProgress(t) /\ my[t].pc = "codes_progress" /\ Decision(d).direction # "top_down"
<1>1. /\ FinishBucket(t) => my[t].pc = "finish"
      /\ FinishBlocks(t) => my[t].pc = "blocks_done"
      /\ Progress(t) => my[t].pc = "progress"
      /\ OwnProgress(t) => my[t].pc = "own_progress"
      /\ CodesFinish(t) => my[t].pc = "codes_finish"
      /\ CodesProgress(t) => my[t].pc = "codes_progress"
  BY DEF FinishBucket, FinishBlocks, Progress, OwnProgress, CodesFinish, CodesProgress, At
<1>2. /\ my[t].pc \in {"finish", "progress"} =>
           /\ Decided(Depth(t)) /\ ~At(t, "returned")
           /\ Decision(Depth(t)).direction = "top_down"
      /\ my[t].pc \in {"blocks_done", "own_progress", "codes_finish", "codes_progress"} =>
           /\ Decided(Depth(t)) /\ ~At(t, "returned")
           /\ Decision(Depth(t)).direction # "top_down"
  BY LevelDirection DEF InTopDown, AtBucket, InCodes, InBottomUp, Owning
<1>3. /\ \/ Done(d, o)' = Done(d, o)
         \/ /\ d = Depth(t) /\ o = my[t].owner /\ Done(d, o)' = TRUE
            /\ FinishBucket(t) \/ FinishBlocks(t)
      /\ \/ Last(d, o)' = Last(d, o)
         \/ /\ d = Depth(t) /\ o = my[t].owner /\ Last(d, o)' = my[t].item
            /\ Progress(t) \/ OwnProgress(t)
      /\ \/ CodesDone(d, o)' = CodesDone(d, o)
         \/ d = Depth(t) /\ o = my[t].owner /\ CodesDone(d, o)' = TRUE /\ CodesFinish(t)
      /\ \/ CodesLast(d, o)' = CodesLast(d, o)
         \/ d = Depth(t) /\ o = my[t].owner /\ CodesLast(d, o)' = my[t].item /\ CodesProgress(t)
 <2>1. \/ Done(d, o)' = Done(d, o)
       \/ /\ d = Depth(t) /\ o = my[t].owner /\ Done(d, o)' = TRUE
          /\ FinishBucket(t) \/ FinishBlocks(t)
   BY MarksWritten, Zenon
 <2>2. \/ Last(d, o)' = Last(d, o)
       \/ /\ d = Depth(t) /\ o = my[t].owner /\ Last(d, o)' = my[t].item
          /\ Progress(t) \/ OwnProgress(t)
   BY MarksWritten, Zenon
 <2>3. \/ CodesDone(d, o)' = CodesDone(d, o)
       \/ d = Depth(t) /\ o = my[t].owner /\ CodesDone(d, o)' = TRUE /\ CodesFinish(t)
   BY MarksWritten, Zenon
 <2>4. \/ CodesLast(d, o)' = CodesLast(d, o)
       \/ d = Depth(t) /\ o = my[t].owner /\ CodesLast(d, o)' = my[t].item /\ CodesProgress(t)
   BY MarksWritten, Zenon
 <2> QED BY <2>1, <2>2, <2>3, <2>4
<1> QED BY <1>1, <1>2, <1>3 DEF MarkedHere

LEMMA StampsFrom ==
  ASSUME Shape, Control, PlansInv, NEW t \in Thread, Step(t),
         NEW o \in Thread, NEW k \in 1 .. Owned(o)
  PROVE  \/ helped_at'[o][k] = helped_at[o][k]
         \/ /\ Stamp(t) /\ my[t].pc = "stamp" /\ o = my[t].owner /\ k = my[t].item
            /\ helped_at'[o][k] = Depth(t) /\ Depth(t) \in Node /\ Decided(Depth(t))
            /\ ~At(t, "returned") /\ Decision(Depth(t)).direction # "top_down"
<1>1. k \in 1 .. Owned(0) BY OwnedFacts, ThreadTypes
<1>2. CASE UNCHANGED helped_at BY <1>2
<1>3. CASE Stamp(t)
 <2>1. my[t].pc = "stamp" BY <1>3 DEF Stamp, At
 <2>2. /\ Decided(Depth(t)) /\ ~At(t, "returned")
       /\ Decision(Depth(t)).direction # "top_down"
   BY <2>1, LevelDirection DEF InBottomUp, Helping
 <2> QED BY <1>1, <1>3, <2>1, <2>2, StampValues
<1> QED BY <1>2, <1>3, StampWrites

\* The marks, and their types.
LEMMA MarkTypes ==
  ASSUME Shape, NEW d \in Node, NEW o \in Thread
  PROVE  Done(d, o) \in BOOLEAN /\ Last(d, o) \in Nat /\ CodesDone(d, o) \in BOOLEAN
         /\ CodesLast(d, o) \in Nat
  BY NodeFields, OwnerFields DEF Shape, Done, Last, CodesDone, CodesLast

LEMMA UntouchedNext ==
  ASSUME Shape, Control, PlansInv, Untouched, NEW t \in Thread, Step(t)
  PROVE  Untouched'
<1> SUFFICES ASSUME NEW d \in Node, ~Decided(d)', NEW o \in Thread
             PROVE  /\ ~Done(d, o)' /\ Last(d, o)' = 0 /\ ~CodesDone(d, o)' /\ CodesLast(d, o)' = 0
                    /\ \A k \in 1 .. Owned(o) : helped_at'[o][k] # d
  BY DEF Untouched, Done, Last, CodesDone, CodesLast
<1>1. ~Decided(d) BY DecisionsStay
<1>2. /\ ~Done(d, o) /\ Last(d, o) = 0 /\ ~CodesDone(d, o) /\ CodesLast(d, o) = 0
      /\ \A k \in 1 .. Owned(o) : helped_at[o][k] # d
  BY <1>1 DEF Untouched, Done, Last, CodesDone, CodesLast
<1>3. /\ Done(d, o)' = Done(d, o) /\ Last(d, o)' = Last(d, o)
      /\ CodesDone(d, o)' = CodesDone(d, o) /\ CodesLast(d, o)' = CodesLast(d, o)
  BY <1>1, MarksFrom, Zenon DEF MarkedHere
<1>4. \A k \in 1 .. Owned(o) : helped_at'[o][k] # d BY <1>1, <1>2, StampsFrom
<1> QED BY <1>2, <1>3, <1>4

LEMMA DoneLinkedNext ==
  ASSUME Shape, Control, PlansInv, DoneLinked, NEW t \in Thread, Step(t)
  PROVE  DoneLinked'
<1>0. linked <= linked' /\ linked \in Int /\ linked' \in Int
  BY ControlNext, DirAssumption DEF Grows, Shape
<1> SUFFICES ASSUME NEW d \in Node, NEW o \in Thread, Done(d, o)' PROVE d + 1 < linked'
  BY DEF DoneLinked, Done
<1>1. CASE Done(d, o)
 <2>1. d + 1 < linked BY <1>1 DEF DoneLinked, Done
 <2> QED BY <1>0, <2>1, DirAssumption DEF Node
<1>2. CASE ~Done(d, o)
 <2>1. d = Depth(t) /\ my[t].pc \in {"finish", "blocks_done"}
   BY <1>2, MarksFrom, Zenon DEF MarkedHere
 <2>2. d + 1 < linked BY <2>1 DEF Control, NextKnown, AtBucket, InBottomUp
 <2> QED BY <1>0, <2>2, DirAssumption DEF Node
<1> QED BY <1>1, <1>2

LEMMA LastDoneNext ==
  ASSUME Shape, Control, PlansInv, Untouched, LastDone, NEW t \in Thread, Step(t)
  PROVE  LastDone'
<1>0. Grows BY ControlNext
<1> SUFFICES ASSUME NEW d \in Node, NEW o \in Thread, Decided(d)'
             PROVE  /\ Decision(d)'.direction = "top_down" => Last(d, o)' <= Len(Bucket(d, o)')
                    /\ Decision(d)'.direction = "top_down" =>
                         \A k \in 1 .. Owned(o) : helped_at'[o][k] # d
                    /\ CodesLast(d, o)' <= Len(Bucket(d, o)')
  BY DEF LastDone, Last, CodesLast, Bucket
<1>1. /\ Len(Bucket(d, o)) <= Len(Bucket(d, o)') /\ Len(Bucket(d, o)) \in Nat
      /\ Len(Bucket(d, o)') \in Nat
 <2>1. Bucket(d, o)' \in Seq(Vertex) BY <1>0 DEF Grows, NodeShape, OwnerType, Bucket
 <2> QED BY <1>0, <2>1, BucketType DEF Grows
<1>2. Last(d, o) \in Nat /\ CodesLast(d, o) \in Nat BY MarkTypes
<1>3. CASE ~Decided(d)
 <2>1. /\ Last(d, o)' = 0 /\ CodesLast(d, o)' = 0
  <3>1. Last(d, o) = 0 /\ CodesLast(d, o) = 0 BY <1>3 DEF Untouched, Last, CodesLast
  <3> QED BY <1>3, <3>1, MarksFrom, Zenon DEF MarkedHere
 <2>2. \A k \in 1 .. Owned(o) : helped_at'[o][k] # d BY <1>3, StampsFrom DEF Untouched
 <2> QED BY <1>1, <2>1, <2>2
<1>4. CASE Decided(d)
 <2>1. Decision(d)' = Decision(d) BY <1>4, DecisionsStay
 <2>2. /\ Decision(d).direction = "top_down" => Last(d, o) <= Len(Bucket(d, o))
       /\ Decision(d).direction = "top_down" => \A k \in 1 .. Owned(o) : helped_at[o][k] # d
       /\ CodesLast(d, o) <= Len(Bucket(d, o))
   BY <1>4 DEF LastDone, Last, CodesLast, Bucket
 <2>3. Decision(d).direction = "top_down" => \A k \in 1 .. Owned(o) : helped_at'[o][k] # d
   BY <2>2, StampsFrom
 <2>4. my[t].pc \in {"progress", "codes_progress"} /\ d = Depth(t) /\ o = my[t].owner =>
         my[t].item \in Nat /\ my[t].item <= Len(Bucket(d, o))
  <3> SUFFICES ASSUME my[t].pc \in {"progress", "codes_progress"}, d = Depth(t), o = my[t].owner
               PROVE  my[t].item \in Nat /\ my[t].item <= Len(Bucket(d, o))
    OBVIOUS
  <3>1. Entry(t).bucket = Bucket(d, o) BY DEF Entry, Curr, Bucket
  <3>2. my[t].item \in 1 .. my[t].sz /\ my[t].sz <= Len(Entry(t).bucket) /\ my[t].sz \in Nat
   <4>1. my[t].sz \in Nat BY ThreadFields DEF Shape
   <4>2. Entries(t) /\ CodeEntries(t) BY DEF Control
   <4> QED BY <1>1, <3>1, <4>1, <4>2 DEF Entries, CodeEntries, AtBucket
  <3> QED BY <1>1, <3>1, <3>2
 <2>5. Decision(d).direction = "top_down" => Last(d, o)' <= Len(Bucket(d, o)')
  <3>1. Decision(d).direction = "top_down" =>
          \/ Last(d, o)' = Last(d, o)
          \/ /\ my[t].pc \in {"progress", "codes_progress"} /\ d = Depth(t) /\ o = my[t].owner
             /\ Last(d, o)' = my[t].item
    BY MarksFrom, Zenon DEF MarkedHere
  <3> QED BY <1>1, <1>2, <2>2, <2>4, <3>1
 <2>6. CodesLast(d, o)' <= Len(Bucket(d, o)')
  <3>1. \/ CodesLast(d, o)' = CodesLast(d, o)
        \/ /\ my[t].pc \in {"progress", "codes_progress"} /\ d = Depth(t) /\ o = my[t].owner
           /\ CodesLast(d, o)' = my[t].item
   <4>1. \/ CodesLast(d, o)' = CodesLast(d, o)
         \/ /\ CodesLast(d, o)' = my[t].item /\ MarkedHere(t, d, o)
            /\ my[t].pc = "codes_progress"
     BY MarksFrom, Zenon
   <4> QED BY <4>1 DEF MarkedHere
  <3> QED BY <1>1, <1>2, <2>2, <2>4, <3>1
 <2> QED BY <2>1, <2>3, <2>5, <2>6
<1> QED BY <1>3, <1>4

LEMMA VisCertificateNext ==
  ASSUME Shape, Control, DistSound, Views, VisCertificate, NEW t \in Thread, Step(t)
  PROVE  VisCertificate'
<1> SUFFICES ASSUME NEW u \in Vertex, vis'[u] PROVE Covered(u)'
  BY DEF VisCertificate, Covered, Discovered
<1>1. Covered(u)
 <2>1. CASE vis[u] BY <2>1 DEF VisCertificate
 <2>2. CASE ~vis[u]
  <3>1. MarkVisited(t) BY <2>2, VisWrites
  <3>2. u = U(t) /\ my[t].pc = "vis" BY <2>2, <3>1, VisValues DEF MarkVisited, At
  <3>3. adj[U(t)] \in Seq(Vertex) /\ my[t].j = Len(adj[U(t)]) + 1
    BY <3>2, ItemVertex DEF Control, Entries, AtItem, At
  <3>4. \A p \in 1 .. Len(adj[U(t)]) : Discovered(adj[U(t)][p])
    BY <3>2, <3>3 DEF Views, VertexView, AtItem
  <3> QED BY <3>2, <3>3, <3>4, GraphTypes DEF Covered
 <2> QED BY <2>1, <2>2
<1> QED BY <1>1, Found

LEMMA ProgressCertificateNext ==
  ASSUME Shape, Control, PlansInv, DistSound, Views, Untouched, LastDone, ProgressCertificate,
         NEW t \in Thread, Step(t)
  PROVE  ProgressCertificate'
<1>0. Grows BY ControlNext
<1> SUFFICES ASSUME NEW d \in Node, NEW o \in Thread, Decided(d)',
                    Decision(d)'.direction = "top_down", NEW i \in 1 .. Last(d, o)'
             PROVE  \E u \in Vertex : u = Bucket(d, o)'[i] /\ Covered(u)'
  BY DEF ProgressCertificate, Last, Bucket, Covered, Discovered
<1>1. Last(d, o) \in Nat /\ Bucket(d, o) \in Seq(Vertex) /\ Len(Bucket(d, o)) \in Nat
  BY MarkTypes, BucketType
<1>2. SUFFICES i \in Places(d, o) /\ Covered(Bucket(d, o)[i])
 <2>1. PICK u \in Vertex : u = Bucket(d, o)[i] BY <1>1, <1>2 DEF Places
 <2>2. Covered(u)' BY <1>2, <2>1, Found
 <2>3. Bucket(d, o)'[i] = u BY <1>0, <1>2, <2>1, EntriesStay
 <2> QED BY <2>2, <2>3
<1>3. CASE ~Decided(d)
 <2>1. Last(d, o)' = 0
  <3>1. Last(d, o) = 0 BY <1>3 DEF Untouched, Last
  <3> QED BY <1>3, <3>1, MarksFrom, Zenon DEF MarkedHere
 <2> QED BY <2>1
<1>4. CASE Decided(d)
 <2>1. Decision(d).direction = "top_down" BY <1>4, DecisionsStay
 <2>2. CASE Last(d, o)' = Last(d, o)
  <3>1. Last(d, o) <= Len(Bucket(d, o)) BY <1>4, <2>1 DEF LastDone, Last, Bucket
  <3> QED BY <1>1, <1>4, <2>1, <2>2, <3>1 DEF ProgressCertificate, Last, Bucket, Places
 <2>3. CASE Last(d, o)' # Last(d, o)
  <3>1. /\ d = Depth(t) /\ o = my[t].owner /\ my[t].pc = "progress"
        /\ Last(d, o)' = my[t].item
    BY <2>1, <2>3, MarksFrom, Zenon DEF MarkedHere
  <3>2. Entry(t).bucket = Bucket(d, o) BY <3>1 DEF Entry, Curr, Bucket
  <3>3. /\ my[t].sz \in Nat /\ my[t].sz <= Len(Bucket(d, o)) /\ my[t].item \in 1 .. my[t].sz
        /\ my[t].item \notin my[t].todo /\ \A x \in my[t].todo : my[t].item < x
        /\ my[t].todo \subseteq 1 .. my[t].sz
   <4>1. Entries(t) BY DEF Control
   <4> QED BY <3>1, <3>2, <4>1, SizedEntries DEF Entries, AtBucket, AtItem, At
  <3>4. i \in 1 .. my[t].sz /\ i \notin my[t].todo /\ i \in Places(d, o)
    BY <1>1, <3>1, <3>3 DEF Places
  <3>5. Covered(Entry(t).bucket[i]) BY <3>1, <3>4 DEF Views, EntriesView, AtBucket, AtItem
  <3> QED BY <3>2, <3>4, <3>5
 <2> QED BY <2>2, <2>3
<1> QED BY <1>3, <1>4

-----------------------------------------------------------------------------
(***************************************************************************)
(* The turns of a thread, and the owners it comes to in them.              *)
(***************************************************************************)
LEMMA Orders ==
  ASSUME NEW t \in Thread, NEW o \in Thread
  PROVE  /\ Order(t, o) \in Nat /\ Order(t, o) < NumT /\ NumT \in Nat
         /\ \A k \in Nat : k < NumT => (Order(t, o) = k <=> o = Turn(t, k))
<1>1. t \in Nat /\ o \in Nat /\ t < NumT /\ o < NumT /\ NumT \in Nat BY ThreadTypes DEF Thread
<1>2. Order(t, o) \in Nat /\ Order(t, o) < NumT BY <1>1 DEF Order
<1>3. \A k \in Nat : k < NumT => (Order(t, o) = k <=> o = Turn(t, k)) BY <1>1 DEF Order, Turn
<1> QED BY <1>1, <1>2, <1>3

LEMMA AtTurn ==
  ASSUME Shape, Control, NEW t \in Thread, NEW o \in Thread,
         my[t].pc \notin Deciding \cup {"advance", "returned"}
  PROVE  /\ my[t].turn \in Nat /\ my[t].turn < NumT /\ NumT \in Nat
         /\ Order(t, o) \in Nat /\ Order(t, o) < NumT
         /\ o = my[t].owner <=> Order(t, o) = my[t].turn
         /\ NextTurn(t) => /\ my'[t].turn = my[t].turn + 1
                           /\ my'[t].turn < NumT => (o = my'[t].owner <=> Order(t, o) = my'[t].turn)
<1>1. my[t].turn \in 0 .. NumT /\ my[t].turn < NumT /\ my[t].owner = Turn(t, my[t].turn) BY OwnTurn
<1>2. my[t].turn \in Nat /\ my[t].turn + 1 \in Nat /\ NumT \in Nat BY <1>1, ThreadTypes
<1> QED BY <1>1, <1>2, Orders DEF NextTurn

-----------------------------------------------------------------------------
(***************************************************************************)
(* A level is found before it is reached.                                  *)
(***************************************************************************)
LEMMA NotBefore ==
  ASSUME LevelReady, NEW s \in Thread, ~At(s, "returned"), NEW v \in Vertex, ~Discovered(v)
  PROVE  Delta[v] \notin 0 .. Depth(s)
  BY DEF LevelReady

\* A predecessor.
LEMMA OneCloser ==
  ASSUME NEW v \in Vertex, NEW d \in Nat, Delta[v] = d + 1
  PROVE  \E u \in Vertex : Delta[u] = d /\ v \in Neighbors(u) /\ u \in Neighbors(v)
<1>1. PICK u \in Vertex : Delta[u] = Delta[v] - 1 /\ v \in Neighbors(u) BY DistanceAssumption
<1>2. Delta[u] = d BY <1>1
<1> QED BY <1>1, <1>2, SymmetryAssumption

LEMMA TopDownFound ==
  ASSUME Shape, Control, PlansInv, DistSound, LevelReady, NoneLost,
         NEW t \in Thread, At(t, "advance"), TopDownLevel(t),
         NEW v \in Vertex, Delta[v] = Depth(t) + 1
  PROVE  Discovered(v)
<1> SUFFICES ASSUME ~Discovered(v) PROVE FALSE OBVIOUS
<1>1. my[t].pc = "advance" /\ my[t].turn = NumT BY DEF At, Control, Rounds
<1>2. /\ Depth(t) \in Node /\ Depth(t) \in Nat /\ ~At(t, "returned") /\ Decided(Depth(t))
      /\ Decision(Depth(t)).direction = "top_down"
  BY <1>1, InLevel DEF Deciding, Node, TopDownLevel
<1>3. PICK u \in Vertex : Delta[u] = Depth(t) /\ v \in Neighbors(u) BY <1>2, OneCloser
<1>4. Discovered(u) /\ dist[u] = Depth(t) BY <1>2, <1>3, LevelFound
<1>5. ~Covered(u) BY <1>3 DEF Covered
<1>6. PICK o \in Thread : \E i \in Places(Depth(t), o) : WillTake(t, o, i)
  BY <1>2, <1>4, <1>5 DEF NoneLost
<1>7. Order(t, o) >= my[t].turn BY <1>1, <1>6 DEF WillTake, Deciding
<1> QED BY <1>1, <1>7, Orders

LEMMA BottomUpFound ==
  ASSUME Shape, Control, PlansInv, NoneUnscanned,
         NEW t \in Thread, At(t, "advance"), ~TopDownLevel(t),
         NEW v \in Vertex, Delta[v] = Depth(t) + 1
  PROVE  Discovered(v)
<1> SUFFICES ASSUME ~Discovered(v) PROVE FALSE OBVIOUS
<1>1. my[t].pc = "advance" /\ my[t].turn = NumT BY DEF At, Control, Rounds
<1>2. /\ Depth(t) \in Node /\ Decided(Depth(t))
      /\ Decision(Depth(t)).direction = "bottom_up"
 <2>1. Depth(t) \in Node /\ Decided(Depth(t)) /\ my[t].plan = Decision(Depth(t))
   BY <1>1, InLevel DEF Deciding
 <2> QED BY <2>1, DecisionType DEF TopDownLevel
<1>3. PICK o \in Thread : \E k \in 1 .. Owned(o) : v \in Begin(o, k) .. End(o, k) - 1 BY InSomeBlock
<1>4. PICK k \in 1 .. Owned(o) : v \in Begin(o, k) .. End(o, k) - 1 BY <1>3
<1>5. WillScan(t, o, k, v) BY <1>2, <1>4 DEF NoneUnscanned
<1>6. Order(t, o) > my[t].turn
  BY <1>1, <1>5 DEF WillScan, Deciding, Linking, InCodes, Helping, InBlock, Finding, At
<1> QED BY <1>1, <1>6, Orders

LEMMA LevelReadyNext ==
  ASSUME Shape, Control, PlansInv, DistSound, Views, LevelReady, NoneLost, NoneUnscanned,
         NEW t \in Thread, Step(t)
  PROVE  LevelReady'
<1>0. Moves(t) /\ Control' BY ControlNext
<1> SUFFICES ASSUME NEW s \in Thread, my'[s].pc # "returned", NEW v \in Vertex,
                    Delta[v] \in 0 .. Depth(s)'
             PROVE  Discovered(v)'
  BY DEF LevelReady, At
<1> SUFFICES Discovered(v) BY Found
<1>1. CASE Depth(s)' = Depth(s) /\ ~At(s, "returned") BY <1>1 DEF LevelReady
<1>2. CASE ~(Depth(s)' = Depth(s) /\ ~At(s, "returned"))
 <2>1. s = t BY <1>0, <1>2 DEF Moves, Depth, At
 <2>2. ~At(t, "returned") BY PlanSteps
 <2>3. At(t, "advance") /\ Depth(t)' = Depth(t) + 1
  <3>1. Depth(t)' = my'[t].curr /\ Depth(t) = my[t].curr BY DEF Depth
  <3>2. Depth(t)' # Depth(t) BY <1>2, <2>1, <2>2
  <3>3. ~Plan(t) /\ ~(TestNext(t) \/ AddNode(t)) /\ ~TopDown(t) /\ ~Codes(t) /\ ~ScanBlock(t)
        /\ ~BottomUp(t)
    BY <3>1, <3>2, PcAfter, LinkingSteps, BucketSteps, CodesSteps, ScanSteps, BlockSteps DEF
       SameLevel
  <3> QED BY <2>1, <3>1, <3>3, PcAfter DEF Step, At
 <2>4. Depth(t) \in Nat BY <2>2, Here DEF Node
 <2>5. CASE Delta[v] \in 0 .. Depth(t) BY <2>2, <2>5 DEF LevelReady
 <2>6. CASE Delta[v] = Depth(t) + 1 BY <2>3, <2>6, TopDownFound, BottomUpFound
 <2> QED BY <2>1, <2>3, <2>4, <2>5, <2>6
<1> QED BY <1>1, <1>2

-----------------------------------------------------------------------------
(***************************************************************************)
(* A vertex that is found is in a level that nobody has reached, and so    *)
(* nobody has passed it by.                                                *)
(***************************************************************************)
LEMMA StaysInLevel ==
  ASSUME Shape, Control, NEW t \in Thread, Step(t)
  PROVE  Depth(t)' = Depth(t) \/ Advance(t)
<1>1. Depth(t)' = my'[t].curr /\ Depth(t) = my[t].curr BY DEF Depth
<1> QED
  BY <1>1, PcAfter, LinkingSteps, BucketSteps, CodesSteps, ScanSteps, BlockSteps DEF SameLevel, Step

LEMMA NewVertex ==
  ASSUME Shape, Control, PlansInv, DistSound, Views, LevelReady, DecidedReady, PushedFirst,
         NEW t \in Thread, Step(t), NEW v \in Vertex, dist'[v] # dist[v]
  PROVE  \E d \in Node :
           /\ d = dist'[v] /\ d = Depth(t) + 1 /\ EntryOf(d, t, v)' /\ ~Decided(d) /\ ~Decided(d)'
           /\ my[t].pc \in {"swap", "mark"} /\ ~Discovered(v) /\ Delta[v] = d
           /\ \A s \in Thread : Depth(s) # d /\ Depth(s)' # d
<1>0. Moves(t) /\ Grows BY ControlNext
<1>1. /\ Depth(t) \in Node /\ Depth(t) + 1 \in Nat /\ ~Discovered(v)
      /\ dist'[v] = Depth(t) + 1 /\ Delta[v] = Depth(t) + 1
      /\ (SwapDist(t) /\ v = V(t)) \/ (MarkFound(t) /\ v = C(t))
  BY DistSteps
<1>2. my[t].pc \in {"swap", "mark"} /\ ~Advance(t) BY <1>1 DEF SwapDist, MarkFound, Advance, At
<1>3. PICK d \in Node : d = Depth(t) + 1 BY <1>1, VertexLevel
<1>4. EntryOf(d, t, v) BY <1>1, <1>3 DEF PushedFirst, SwapDist, MarkFound, At
<1>5. EntryOf(d, t, v)' BY <1>0, <1>4, EntriesStay
<1>6. \A s \in Thread : Depth(s) # d
 <2> SUFFICES ASSUME NEW s \in Thread, Depth(s) = d PROVE FALSE OBVIOUS
 <2>1. d \in Nat BY DirAssumption DEF Node
 <2>2. ~At(s, "returned") BY <2>1 DEF Control, AtNode, None
 <2> QED BY <1>1, <1>3, <2>1, <2>2, NotBefore
<1>7. ~Decided(d) BY <1>1, <1>3 DEF DecidedReady, Level
<1>8. ~Decided(d)' BY <1>6, <1>7, NewDecision
<1>9. \A s \in Thread : Depth(s)' # d
 <2>1. Depth(t)' = Depth(t) BY <1>2, StaysInLevel
 <2> QED BY <1>0, <1>6, <2>1 DEF Moves, Depth
<1> QED BY <1>1, <1>2, <1>3, <1>5, <1>6, <1>7, <1>8, <1>9

LEMMA FoundLevel ==
  ASSUME DistSound, NEW v \in Vertex, Discovered(v)
  PROVE  dist[v] = Delta[v] /\ dist[v] \in Node /\ dist[v] \in Nat
<1>1. dist[v] = Delta[v] /\ dist[v] # Unset BY DEF DistSound, Discovered
<1>2. Delta[v] \in Int /\ Delta[v] >= -1 BY GraphTypes
<1>3. Delta[v] >= 0 BY <1>1, <1>2 DEF Unset
<1> QED BY <1>1, <1>2, <1>3, VertexLevel

LEMMA PlanTurn ==
  ASSUME Shape, Control, NEW t \in Thread, Plan(t)
  PROVE  my'[t].turn = 0
<1>1. /\ my \in [Thread -> ThreadShape] /\ my[t].pc \in Deciding /\ my[t].turn = 0 /\ t \in Thread
      /\ ~At(t, "returned")
  BY DEF Shape, Control, Rounds, Plan, LoadPlanOwner, ReadSize, Propose, Claim, Deciding, At
<1>2. \A o \in Thread : Curr(t).owners[o].proposal \in PlanType BY <1>1, Here, OwnerFields
<1>3. Curr(t).plan_owner \in Thread \cup {None} BY <1>1, Here, NodeFields DEF Shape, Curr
<1>4. CASE LoadPlanOwner(t)
 <2>1. CASE Curr(t).plan_owner = None BY <1>1, <1>4, <2>1, PlanMoves
 <2>2. CASE Curr(t).plan_owner # None
  <3>1. Curr(t).owners[Curr(t).plan_owner].proposal \in PlanType BY <1>2, <1>3, <2>2
  <3>2. Follow(t, Curr(t).owners[Curr(t).plan_owner].proposal) BY <1>4, <2>2 DEF LoadPlanOwner
  <3> QED BY <1>1, <3>1, <3>2, FollowMoves, Zenon
 <2> QED BY <2>1, <2>2
<1>5. CASE ReadSize(t) BY <1>1, <1>5, PlanMoves
<1>6. CASE Propose(t)
 <2>1. Goto(t, "claim") /\ "claim" \in Labels BY <1>6 DEF Propose, Labels
 <2> QED BY <1>1, <2>1, GotoMoves DEF SameRound, SameOwner
<1>7. CASE Claim(t)
 <2>1. \E p \in PlanType : Follow(t, p)
  <3>1. Curr(t).plan_owner # None => Curr(t).owners[Curr(t).plan_owner].proposal \in PlanType
    BY <1>2, <1>3
  <3> QED BY <1>2, <1>7, <3>1 DEF Claim
 <2> QED BY <1>1, <2>1, FollowMoves, Zenon
<1> QED BY <1>4, <1>5, <1>6, <1>7 DEF Plan

LEMMA LinkedInTimeNext ==
  ASSUME Shape, Control, PlansInv, DistSound, Views, LevelReady, DecidedReady, PushedFirst,
         DoneLinked, LinkedInTime, NEW t \in Thread, Step(t)
  PROVE  LinkedInTime'
<1>0. Moves(t) /\ Grows /\ DistSound' /\ linked <= linked' /\ linked \in Int /\ linked' \in Int
  BY ControlNext, DistSoundNext, DirAssumption DEF Grows, Shape
<1> SUFFICES ASSUME NEW v \in Vertex, dist'[v] # Unset, NEW d \in Node, d = dist'[v]
             PROVE  \/ d + 1 < linked'
                    \/ \E o \in Thread :
                         /\ EntryOf(d, o, v)'
                         /\ \A s \in Thread : Depth(s)' = d => my'[s].turn <= Order(s, o)
 <2>1. \A v \in Vertex : Discovered(v)' => dist'[v] \in Node
   BY <1>0, VertexLevel, GraphTypes DEF DistSound, Discovered, Unset
 <2> QED BY <2>1 DEF LinkedInTime, Discovered, EntryOf, Places, Bucket
<1>1. CASE dist'[v] # dist[v] BY <1>1, NewVertex
<1>2. CASE dist'[v] = dist[v]
 <2>1. d \in Nat /\ Discovered(v) /\ dist[v] = d BY <1>2, DirAssumption DEF Discovered, Node
 <2>2. CASE d + 1 < linked BY <1>0, <2>1, <2>2
 <2>3. CASE ~(d + 1 < linked)
  <3>1. PICK o \in Thread : /\ EntryOf(d, o, v)
                            /\ \A s \in Thread : Depth(s) = d => my[s].turn <= Order(s, o)
    BY <2>1, <2>3 DEF LinkedInTime
  <3>2. EntryOf(d, o, v)' /\ Bucket(d, o) # <<>> BY <1>0, <3>1, EntriesStay DEF EntryOf, Places
  <3>3. \A s \in Thread : s # t /\ Depth(s)' = d => my'[s].turn <= Order(s, o)
    BY <1>0, <3>1 DEF Moves, Depth
  <3>4. Depth(t)' = d => my'[t].turn <= Order(t, o)
   <4> SUFFICES ASSUME Depth(t)' = d PROVE my'[t].turn <= Order(t, o) OBVIOUS
   <4>1. Order(t, o) \in Nat BY Orders
   <4>2. CASE Advance(t)
    <5>1. my'[t].turn = 0 BY <4>2, AdvanceMoves, Zenon
    <5> QED BY <4>1, <5>1
   <4>3. CASE Plan(t)
    <5>1. my[t].pc \in Deciding /\ ~At(t, "returned") /\ my[t].turn = 0
      BY <4>3, PcAfter DEF Control, Rounds, Deciding, At
    <5>2. my'[t].turn = 0 BY <4>3, <5>1, PlanTurn
    <5> QED BY <4>1, <5>2
   <4>4. ASSUME ~Advance(t) PROVE Depth(t) = d /\ my[t].turn <= Order(t, o)
     BY <3>1, <4>4, StaysInLevel
   <4>5. CASE TestNext(t) \/ AddNode(t)
    <5>1. SameOwner(t) /\ ~Advance(t) BY <4>5, LinkingSteps DEF TestNext, AddNode, Advance, At
    <5> QED BY <4>4, <5>1 DEF SameOwner
   <4>6. CASE my[t].pc \in AtBucket \cup InCodes \cup InBottomUp
    <5>1. ~Advance(t)
      BY <4>6 DEF Advance, At, AtBucket, AtItem, InCodes, InBottomUp, InBlock, Finding, Owning,
         Helping
    <5>2. Depth(t) + 1 < linked BY <4>6 DEF Control, NextKnown
    <5> QED BY <2>3, <4>4, <5>1, <5>2
   <4>7. CASE TopDown(t) /\ my[t].pc \in {"done", "size", "load"}
    <5>1. ~Advance(t) /\ Depth(t) \in Node BY <4>7, Here DEF Advance, At
    <5>2. Depth(t) = d /\ my[t].turn <= Order(t, o) BY <4>4, <5>1
    <5>3. CASE SameOwner(t) BY <5>2, <5>3 DEF SameOwner
    <5>4. CASE NextTurn(t) /\ (my[t].pc = "done" => Entry(t).done)
               /\ (my[t].pc = "size" => Entry(t).bucket = <<>>) /\ my[t].pc # "load"
     <6>1. o # my[t].owner BY <2>3, <3>2, <4>7, <5>2, <5>4 DEF DoneLinked, Entry, Curr, Bucket
     <6>2. Order(t, o) # my[t].turn /\ my[t].turn \in Nat /\ my'[t].turn = my[t].turn + 1
       BY <4>7, <5>4, <6>1, AtTurn DEF Deciding
     <6> QED BY <4>1, <5>2, <6>2
    <5> QED BY <4>7, <5>3, <5>4, BucketSteps DEF AtItem
   <4> QED BY <4>2, <4>3, <4>5, <4>6, <4>7, PcAfter DEF Step, InTopDown, InBottomUp
  <3> QED BY <3>2, <3>3, <3>4
 <2> QED BY <2>2, <2>3
<1> QED BY <1>1, <1>2

-----------------------------------------------------------------------------
(***************************************************************************)
(* No vertex is lost: whoever is in its level still has its entry to take, *)
(* unless its neighbours have all been found.                              *)
(***************************************************************************)
LEMMA MarkedCovered ==
  ASSUME Shape, Control, Views, NEW t \in Thread, my[t].pc = "vis"
  PROVE  U(t) \in Vertex /\ Covered(U(t))
<1>1. U(t) \in Vertex /\ adj[U(t)] \in Seq(Vertex) /\ my[t].j = Len(adj[U(t)]) + 1
  BY ItemVertex DEF Control, Entries, AtItem, At
<1>2. \A p \in 1 .. Len(adj[U(t)]) : Discovered(adj[U(t)][p]) BY <1>1 DEF Views, VertexView, AtItem
<1> QED BY <1>1, <1>2, GraphTypes DEF Covered

LEMMA KeepsTaking ==
  ASSUME Shape, Control, PlansInv, DistSound, Views, VisCertificate, ProgressCertificate,
         NEW t \in Thread, Step(t), NEW d \in Node, d = Depth(t),
         NEW o \in Thread, NEW i \in Places(d, o), WillTake(t, o, i),
         ~Done(d, o), ~Covered(Bucket(d, o)[i]),
         ~(Decided(d) /\ Decision(d).direction = "bottom_up")
  PROVE  WillTake(t, o, i)'
<1>0. /\ Order(t, o) \in Nat /\ Order(t, o) < NumT /\ NumT \in Nat
      /\ my[t].turn \in Nat /\ my[t].owner \in Thread /\ my[t].sz \in Nat
      /\ Bucket(d, o) \in Seq(Vertex) /\ i \in Nat /\ i >= 1 /\ i <= Len(Bucket(d, o))
      /\ Len(Bucket(d, o)) \in Nat /\ Bucket(d, o)[i] \in Vertex
 <2>1. Bucket(d, o) \in Seq(Vertex) /\ Len(Bucket(d, o)) \in Nat BY BucketType
 <2>2. i \in Nat /\ i >= 1 /\ i <= Len(Bucket(d, o)) /\ Bucket(d, o)[i] \in Vertex
   BY <2>1 DEF Places
 <2>3. Order(t, o) \in Nat /\ Order(t, o) < NumT /\ NumT \in Nat BY Orders
 <2>4. my[t].turn \in Nat /\ my[t].owner \in Thread /\ my[t].sz \in Nat
   BY ThreadFields, ThreadTypes DEF Shape
 <2> QED BY <2>1, <2>2, <2>3, <2>4
<1>1. CASE Plan(t)
 <2>1. my'[t].turn = 0 /\ my'[t].pc \in Deciding \cup {"next", "done"} BY <1>1, PlanTurn, PcAfter
 <2> QED BY <1>0, <2>1 DEF WillTake, Deciding, AtBucket, AtItem
<1>2. ASSUME my[t].pc \notin Deciding
      PROVE  /\ Order(t, o) >= my[t].turn
             /\ my[t].owner = o /\ my[t].pc \in AtBucket =>
                  \/ my[t].pc = "start" /\ i <= my[t].sz
                  \/ my[t].pc # "start" /\ i \in my[t].todo
                  \/ my[t].pc \in AtItem /\ i = my[t].item
  BY <1>2 DEF WillTake, At
<1>3. CASE TestNext(t) \/ AddNode(t)
 <2>1. my[t].pc \notin Deciding /\ my'[t].pc \notin AtBucket
   BY <1>3, PcAfter DEF Linking, Deciding, AtBucket, AtItem
 <2>2. my'[t].turn = my[t].turn BY <1>3, LinkingSteps DEF SameOwner
 <2> QED BY <1>2, <2>1, <2>2 DEF WillTake
<1>4. CASE TopDown(t)
 <2>0. my[t].pc \notin Deciding /\ ~At(t, "returned") /\ my[t].pc \in InTopDown
   BY <1>4, BucketSteps DEF InTopDown, AtBucket, AtItem, Deciding, At
 <2>1. my[t].owner = o => Entry(t).bucket = Bucket(d, o) /\ Entry(t).done = Done(d, o)
                          /\ Entry(t).last_done = Last(d, o)
   BY DEF Entry, Curr, Bucket, Done, Last
 <2>2. CASE NextTurn(t) /\ my'[t].pc = NextPc(t, "done")
            /\ my[t].pc \in {"done", "size", "finish"}
            /\ (my[t].pc = "done" => Entry(t).done)
            /\ (my[t].pc = "size" => Entry(t).bucket = <<>>)
  <3>1. my[t].owner # o
   <4>1. my[t].pc = "finish" => my[t].todo = {} BY DEF Control, Entries, At
   <4> QED BY <1>0, <1>2, <2>0, <2>1, <2>2, <4>1 DEF AtBucket, AtItem
  <3>2. Order(t, o) # my[t].turn BY <2>2, <3>1, AtTurn DEF Deciding
  <3>3. my'[t].turn = my[t].turn + 1 /\ my'[t].pc \in {"done", "advance"}
    BY <2>2 DEF NextTurn, NextPc
  <3>4. Order(t, o) >= my'[t].turn BY <1>0, <1>2, <2>0, <3>2, <3>3
  <3> QED BY <3>3, <3>4 DEF WillTake, AtBucket, AtItem
 <2>3. CASE SameOwner(t) /\ my'[t].pc \in {"size", "next", "load"}
   BY <1>2, <2>0, <2>3 DEF WillTake, SameOwner, AtBucket, AtItem
 <2>4. CASE /\ my[t].pc = "load" /\ SameOwner(t) /\ my'[t].sz = Len(Entry(t).bucket)
            /\ \/ my'[t].pc = "start" /\ ~Own(t)
               \/ my'[t].pc = "entry" /\ my'[t].todo = 1 .. my'[t].sz
   BY <1>0, <1>2, <2>0, <2>1, <2>4 DEF WillTake, SameOwner, At
 <2>5. CASE /\ my[t].pc = "start" /\ SameOwner(t) /\ my'[t].sz = my[t].sz
            /\ my'[t].todo = Entry(t).last_done + 1 .. my[t].sz
            /\ my'[t].pc \in {"finish", "entry"}
  <3>1. my[t].owner = o => i > Last(d, o) /\ Last(d, o) \in Nat
   <4>1. Decided(d) /\ Decision(d).direction = "top_down" BY <2>0, LevelDirection
   <4>2. Last(d, o) \in Nat BY MarkTypes
   <4>3. i <= Last(d, o) => Covered(Bucket(d, o)[i])
     BY <1>0, <4>1, <4>2 DEF ProgressCertificate, Last, Bucket
   <4> QED BY <1>0, <4>2, <4>3
  <3>2. my[t].owner = o => i \in my'[t].todo
    BY <1>0, <1>2, <2>0, <2>1, <2>5, <3>1 DEF AtBucket, AtItem
  <3> QED BY <1>2, <2>0, <2>5, <3>2 DEF WillTake, SameOwner, At
 <2>6. CASE /\ my[t].pc = "entry" /\ SameOwner(t) /\ my'[t].sz = my[t].sz
            /\ my'[t].item \in my[t].todo /\ my'[t].todo = my[t].todo \ {my'[t].item}
            /\ \/ my'[t].pc = "du"
               \/ /\ my'[t].pc \in {"progress", "finish", "entry"}
                  /\ vis[Entry(t).bucket[my'[t].item]]
  <3>1. my[t].owner = o => i \in my[t].todo BY <1>2, <2>0, <2>6 DEF AtBucket, AtItem
  <3>2. my[t].owner = o => ~vis[Entry(t).bucket[i]] BY <1>0, <2>1 DEF VisCertificate
  <3>3. my[t].owner = o => i \in my'[t].todo \/ (my'[t].pc = "du" /\ i = my'[t].item)
   <4>1. CASE i = my'[t].item BY <2>6, <3>1, <3>2, <4>1
   <4>2. CASE i # my'[t].item BY <2>6, <3>1, <4>2
   <4> QED BY <4>1, <4>2
  <3> QED BY <1>2, <2>0, <2>6, <3>3 DEF WillTake, SameOwner, At, AtItem
 <2>7. CASE /\ my[t].pc \in AtItem /\ my'[t].pc \in AtItem \ {"du"} /\ SameOwner(t) /\ SameItems(t)
   BY <1>2, <2>0, <2>7 DEF WillTake, SameOwner, SameItems, At, AtItem, AtBucket
 <2>8. CASE /\ my[t].pc \in {"vis", "progress"} /\ my'[t].pc \in {"progress", "finish", "entry"}
            /\ SameOwner(t) /\ SameItems(t)
  <3>1. my[t].owner = o => i \in my[t].todo
   <4>1. my[t].owner = o => i \in my[t].todo \/ (my[t].pc = "vis" /\ i = my[t].item)
     BY <1>2, <2>0, <2>8 DEF AtBucket, AtItem
   <4>2. my[t].pc = "vis" => Covered(U(t)) BY MarkedCovered
   <4>3. my[t].owner = o /\ i = my[t].item => U(t) = Bucket(d, o)[i] BY <2>1 DEF U
   <4> QED BY <4>1, <4>2, <4>3
  <3> QED BY <1>2, <2>0, <2>8, <3>1 DEF WillTake, SameOwner, SameItems, At
 <2> QED BY <1>4, <2>2, <2>3, <2>4, <2>5, <2>6, <2>7, <2>8, BucketSteps
<1>5. CASE Codes(t) \/ ScanBlock(t) \/ BottomUp(t)
 <2>1. my[t].pc \in InCodes \cup InBottomUp BY <1>5, PcAfter DEF InBottomUp
 <2> QED BY <2>1, LevelDirection
<1>6. CASE Advance(t)
 <2>1. my[t].pc = "advance" /\ my[t].turn = NumT BY <1>6, PcAfter DEF Control, Rounds, At
 <2> QED BY <1>0, <1>2, <2>1 DEF Deciding
<1> QED BY <1>1, <1>3, <1>4, <1>5, <1>6 DEF Step

LEMMA StillOthers ==
  ASSUME NEW t \in Thread, Moves(t), NEW s \in Thread, s # t, NEW o, NEW i, WillTake(s, o, i)
  PROVE  WillTake(s, o, i)'
<1>1. my'[s] = my[s] BY DEF Moves
<1> QED BY <1>1 DEF WillTake, At

LEMMA NoneLostNext ==
  ASSUME Shape, Control, PlansInv, LevelsInv, MarksInv, NEW t \in Thread, Step(t)
  PROVE  NoneLost'
<1> USE DEF LevelsInv, MarksInv
<1>0. Moves(t) /\ Grows /\ DistSound' /\ Untouched' BY ControlNext, DistSoundNext, UntouchedNext
<1> SUFFICES ASSUME NEW v \in Vertex, NEW d \in Node, dist'[v] = d,
                    ~Covered(v)', ~(Decided(d)' /\ Decision(d)'.direction = "bottom_up")
             PROVE  \E o \in Thread : \E i \in Places(d, o)' :
                      /\ Bucket(d, o)'[i] = v /\ ~Done(d, o)'
                      /\ \A s \in Thread : Depth(s)' = d => WillTake(s, o, i)'
  BY DEF NoneLost, Places, Done, Bucket, Decision, Decided
<1>1. CASE dist'[v] # dist[v]
 <2>1. EntryOf(d, t, v)' /\ ~Decided(d)' /\ \A s \in Thread : Depth(s)' # d BY <1>1, NewVertex
 <2>2. ~Done(d, t)' BY <1>0, <2>1 DEF Untouched, Done
 <2> QED BY <2>1, <2>2 DEF EntryOf
<1>2. CASE dist'[v] = dist[v]
 <2>0. d # Unset BY DirAssumption DEF Node, Unset
 <2>1. Discovered(v) /\ dist[v] = d /\ ~Covered(v) BY <1>2, <2>0, Found DEF Discovered
 <2>2. ~(Decided(d) /\ Decision(d).direction = "bottom_up") BY DecisionsStay
 <2>3. PICK o \in Thread : \E i \in Places(d, o) :
          /\ Bucket(d, o)[i] = v /\ ~Done(d, o)
          /\ \A s \in Thread : Depth(s) = d => WillTake(s, o, i)
   BY <2>1, <2>2 DEF NoneLost, Done
 <2>4. PICK i \in Places(d, o) :
          /\ Bucket(d, o)[i] = v /\ ~Done(d, o)
          /\ \A s \in Thread : Depth(s) = d => WillTake(s, o, i)
   BY <2>3
 <2>5. i \in Places(d, o)' /\ Bucket(d, o)'[i] = v BY <1>0, <2>4, EntriesStay
 <2>6. ~Done(d, o)'
  <3>1. my[t].pc = "finish" => my[t].todo = {} BY DEF Control, Entries, At
  <3>2. ~(d = Depth(t) /\ o = my[t].owner /\ my[t].pc = "finish")
    BY <2>4, <3>1 DEF WillTake, Deciding, AtBucket, AtItem, At
  <3>3. Decided(d) => Decision(d).direction = "top_down" BY <2>2, DecisionType
  <3> QED BY <2>4, <3>2, <3>3, MarksFrom, Zenon DEF MarkedHere
 <2>7. \A s \in Thread : Depth(s)' = d => WillTake(s, o, i)'
  <3> SUFFICES ASSUME NEW s \in Thread, Depth(s)' = d PROVE WillTake(s, o, i)' OBVIOUS
  <3>1. CASE s # t BY <1>0, <2>4, <3>1, StillOthers DEF Moves, Depth
  <3>2. CASE s = t /\ Depth(t) = d BY <2>1, <2>2, <2>4, <3>2, KeepsTaking
  <3>3. CASE s = t /\ Depth(t) # d
   <4>1. Advance(t) /\ d \in Nat BY <3>3, StaysInLevel, DirAssumption DEF Node
   <4>2. my'[t].pc = "plan" BY <3>3, <4>1, PcAfter DEF Depth, None
   <4> QED BY <3>3, <4>2 DEF WillTake, Deciding
  <3> QED BY <3>1, <3>2, <3>3
 <2> QED BY <2>5, <2>6, <2>7
<1> QED BY <1>1, <1>2

-----------------------------------------------------------------------------
(***************************************************************************)
(* The codes of the levels grow.                                           *)
(***************************************************************************)
CodeOf(p) ==
  /\ p.direction = "top_down" => p.code = 0
  /\ p.direction = "bottom_up" /\ p.code = 0 => p.last_code = MaxCode
  /\ p.code > 0 => p.last_code = IF p.code < MaxCode THEN p.code + 1 ELSE MaxCode

LEMMA AssignGrows ==
  ASSUME NEW b \in PlanType, NEW direction \in {"top_down", "bottom_up"},
         NEW p, p = AssignCode(b, direction),
         b.direction = "top_down" => b.code = 0,
         b.code > 0 => b.last_code = IF b.code < MaxCode THEN b.code + 1 ELSE MaxCode
  PROVE  /\ CodeOf(p) /\ b.last_code <= p.last_code
         /\ p.code > 0 /\ b.code > 0 => p.code = b.code + 1
         /\ p.code > 0 /\ b.code = 0 => p.code = b.last_code + 1
<1>1. /\ b.direction \in {"top_down", "bottom_up"} /\ b.code \in 0 .. MaxCode
      /\ b.last_code \in 0 .. MaxCode /\ MaxCode \in Nat
  BY PlanFields, DirAssumption
<1> DEFINE c == IF b.direction = "bottom_up" /\ b.code > 0 THEN b.code + 1 ELSE b.last_code + 1
<1>2. /\ direction = "bottom_up" /\ c <= MaxCode =>
           /\ p.direction = direction /\ p.code = c
           /\ p.last_code = IF c < MaxCode THEN c + 1 ELSE MaxCode
      /\ ~(direction = "bottom_up" /\ c <= MaxCode) =>
           p.direction = direction /\ p.code = 0 /\ p.last_code = b.last_code
  BY DEF AssignCode
<1>3. /\ b.code > 0 => c = b.code + 1
      /\ b.code = 0 => c = b.last_code + 1
  BY <1>1
<1>4. c \in Nat BY <1>1
<1> HIDE DEF c
<1>5. CASE direction = "bottom_up" /\ c <= MaxCode
 <2>1. /\ p.direction = "bottom_up" /\ p.code = c /\ c > 0
       /\ p.last_code = IF c < MaxCode THEN c + 1 ELSE MaxCode
   BY <1>1, <1>2, <1>3, <1>5
 <2>2. b.last_code <= p.last_code BY <1>1, <1>3, <1>4, <1>5, <2>1
 <2> QED BY <1>1, <1>3, <2>1, <2>2 DEF CodeOf
<1>6. CASE ~(direction = "bottom_up" /\ c <= MaxCode)
 <2>1. p.direction = direction /\ p.code = 0 /\ p.last_code = b.last_code BY <1>2, <1>6
 <2>2. direction = "bottom_up" => b.last_code = MaxCode BY <1>1, <1>3, <1>4, <1>6
 <2> QED BY <1>1, <2>1, <2>2 DEF CodeOf
<1> QED BY <1>5, <1>6

\* The new code is that of the last level in the chain.
LEMMA NewCode ==
  ASSUME Shape, Control, PlansInv, CodesGrow, NEW t \in Thread, Step(t), NEW n \in Node,
         ~Decided(n), Decided(n)'
  PROVE  /\ CodeOf(Decision(n)')
         /\ \A d \in Node : Decided(d) =>
              /\ d < n
              /\ Decision(d).last_code <= Decision(n)'.last_code
              /\ Decision(n)'.code > 0 /\ Decision(d).code > 0 =>
                   /\ Decision(d).code < Decision(n)'.code
                   /\ d + 1 < n => Decision(d).code + 1 < Decision(n)'.code
<1> DEFINE p == Decision(n)'
<1>0. n \in Nat BY DirAssumption DEF Node
<1>1. PlansInOrder' /\ Shape' BY PlanOrderNext, ShapeNext
<1>2. \A c \in 0 .. n - 1 : Decided(c)
 <2>1. n = Depth(t) /\ my[t].pc = "claim" BY NewDecision
 <2> QED BY <2>1 DEF PlansInv, PlansInOrder, At
<1>3. n > 0 => n - 1 \in Node /\ Decided(n - 1) BY <1>0, <1>2, DirAssumption DEF Node
<1>4. PICK b \in PlanType : b = Before(n) BY <1>0, <1>3, DecisionType, FirstPlanType DEF Before
<1>5. \E direction \in {"top_down", "bottom_up"} : p = AssignCode(b, direction)
 <2>1. Before(n)' = b BY <1>3, <1>4, BeforeStays
 <2>2. \E direction \in {"top_down", "bottom_up"} : p = AssignCode(Before(n)', direction)
   BY <1>1 DEF PlansInOrder, AssignCode
 <2> QED BY <2>1, <2>2
<1>6. /\ b.direction = "top_down" => b.code = 0
      /\ b.code > 0 => b.last_code = IF b.code < MaxCode THEN b.code + 1 ELSE MaxCode
 <2>1. CASE n = 0 BY <1>4, <2>1 DEF Before, FirstPlan
 <2>2. CASE n > 0 BY <1>3, <1>4, <2>2 DEF Before, CodesGrow
 <2> QED BY <1>0, <2>1, <2>2
<1>7. /\ CodeOf(p) /\ b.last_code <= p.last_code
      /\ p.code > 0 /\ b.code > 0 => p.code = b.code + 1
      /\ p.code > 0 /\ b.code = 0 => p.code = b.last_code + 1
  BY <1>5, <1>6, AssignGrows
<1>8. /\ b.code \in Nat /\ b.last_code \in Nat /\ b.last_code <= MaxCode /\ MaxCode \in Nat
      /\ p.code \in Nat /\ p.last_code \in Nat /\ p.code <= MaxCode
 <2>1. p \in PlanType BY <1>5, AssignCodeType
 <2> QED BY <2>1, PlanFields, DirAssumption
<1> HIDE DEF p
<1>9. ASSUME NEW d \in Node, Decided(d)
      PROVE  /\ d < n
             /\ Decision(d).last_code <= p.last_code
             /\ p.code > 0 /\ Decision(d).code > 0 =>
                  /\ Decision(d).code < p.code
                  /\ d + 1 < n => Decision(d).code + 1 < p.code
 <2>1. d \in Nat /\ Decision(d).code \in Nat /\ Decision(d).last_code \in Nat
       /\ Decision(d).code <= MaxCode
   BY <1>9, DecisionType, DirAssumption DEF Node
 <2>2. d < n
  <3>1. ~(n \in 0 .. d - 1) /\ n # d BY <1>9 DEF PlansInv, PlansInOrder
  <3> QED BY <1>0, <2>1, <3>1
 <2>3. CASE d = n - 1
  <3>1. b = Decision(d) BY <1>0, <1>4, <2>1, <2>3 DEF Before
  <3> QED BY <1>0, <1>7, <1>8, <2>2, <2>3, <3>1
 <2>4. CASE d < n - 1
  <3>1. b = Decision(n - 1) /\ n - 1 \in Node /\ Decided(n - 1)
    BY <1>0, <1>3, <1>4, <2>1, <2>4 DEF Before
  <3>2. /\ Decision(d).last_code <= b.last_code
        /\ b.code > 0 /\ Decision(d).code > 0 => Decision(d).code < b.code
        /\ Decision(d).code > 0 =>
             Decision(d).last_code = IF Decision(d).code < MaxCode THEN Decision(d).code + 1
                                                                   ELSE MaxCode
    BY <1>9, <2>4, <3>1 DEF CodesGrow
  <3>3. Decision(d).last_code <= p.last_code BY <1>7, <1>8, <2>1, <3>2
  <3>4. p.code > 0 /\ Decision(d).code > 0 => Decision(d).code + 1 < p.code
    BY <1>7, <1>8, <2>1, <3>2
  <3> QED BY <1>8, <2>1, <2>2, <3>3, <3>4
 <2> QED BY <1>0, <2>1, <2>2, <2>3, <2>4
<1> QED BY <1>7, <1>9 DEF p

LEMMA CodesGrowNext ==
  ASSUME Shape, Control, PlansInv, CodesGrow, NEW t \in Thread, Step(t)
  PROVE  CodesGrow'
<1> SUFFICES ASSUME NEW d \in Node, NEW e \in Node, Decided(d)'
             PROVE  /\ CodeOf(Decision(d)')
                    /\ Decided(e)' /\ d < e =>
                         /\ Decision(d)'.last_code <= Decision(e)'.last_code
                         /\ Decision(e)'.code > 0 /\ Decision(d)'.code > 0 =>
                              /\ Decision(d)'.code < Decision(e)'.code
                              /\ d + 1 < e => Decision(d)'.code + 1 < Decision(e)'.code
  BY DEF CodesGrow, CodeOf
<1>0. d \in Nat /\ e \in Nat BY DirAssumption DEF Node
<1>1. \A c \in Node : Decided(c) => Decision(c)' = Decision(c) BY DecisionsStay
<1>2. CodeOf(Decision(d)') BY <1>1, NewCode DEF CodesGrow, CodeOf
<1>3. ASSUME Decided(e)', d < e
      PROVE  /\ Decision(d)'.last_code <= Decision(e)'.last_code
             /\ Decision(e)'.code > 0 /\ Decision(d)'.code > 0 =>
                  /\ Decision(d)'.code < Decision(e)'.code
                  /\ d + 1 < e => Decision(d)'.code + 1 < Decision(e)'.code
 <2>1. CASE Decided(d) /\ Decided(e) BY <1>1, <1>3, <2>1 DEF CodesGrow
 <2>2. CASE Decided(d) /\ ~Decided(e) BY <1>1, <1>3, <2>2, NewCode
 <2>3. CASE ~Decided(d) /\ Decided(e) BY <1>0, <1>3, <2>3, NewCode
 <2>4. CASE ~Decided(d) /\ ~Decided(e) BY <1>0, <1>3, <2>4, NewDecision
 <2> QED BY <2>1, <2>2, <2>3, <2>4
<1> QED BY <1>2, <1>3

-----------------------------------------------------------------------------
(***************************************************************************)
(* What is written into dist8.                                             *)
(***************************************************************************)
LEMMA CodeWritten ==
  ASSUME Shape, Control, PlansInv, LevelsInv, NEW t \in Thread, Step(t),
         NEW v \in Vertex, dist8'[v] # dist8[v]
  PROVE  /\ Depth(t) \in Node /\ Depth(t) \in Nat /\ Decided(Depth(t))
         /\ Decision(Depth(t)).direction = "bottom_up"
         /\ \/ /\ WriteCode(t) /\ v = U(t) /\ Delta[v] = Depth(t)
               /\ Coded(Depth(t)) /\ Before(Depth(t)).direction = "top_down"
               /\ dist8'[v] = Decision(Depth(t)).code
            \/ /\ WriteNextCode(t) /\ v = C(t) /\ Delta[v] = Depth(t) + 1
               /\ PassesCode(Depth(t)) => dist8'[v] = Decision(Depth(t)).code + 1
               /\ ~PassesCode(Depth(t)) => dist8'[v] = 0
<1>1. /\ WriteCode(t) => my[t].pc = "code"
      /\ WriteNextCode(t) => my[t].pc = "next_code"
  BY DEF WriteCode, WriteNextCode, At
<1>2. CASE WriteCode(t)
 <2>1. my[t].pc \in InCodes /\ my[t].pc \in AtItem \cup {"code"} BY <1>1, <1>2 DEF InCodes
 <2>2. v = U(t) /\ dist8'[v] = my[t].plan.code BY <1>2, CodeValues
 <2>3. /\ Decided(Depth(t)) /\ Decision(Depth(t)).direction = "bottom_up"
       /\ my[t].plan = Decision(Depth(t))
       /\ Coded(Depth(t)) /\ Before(Depth(t)).direction = "top_down"
   BY <2>1, LevelDirection DEF Coded
 <2>4. Delta[U(t)] = Depth(t) /\ Depth(t) \in Node /\ Depth(t) \in Nat
   BY <2>1, ExpandedVertex DEF LevelsInv
 <2> QED BY <1>2, <2>2, <2>3, <2>4
<1>3. CASE WriteNextCode(t)
 <2>1. my[t].pc \in InBottomUp /\ my[t].pc \in Finding
   BY <1>1, <1>3 DEF InBottomUp, InBlock, Finding
 <2>2. v = C(t) /\ dist8'[v] = NextCode(t) BY <1>3, CodeValues
 <2>3. /\ Decided(Depth(t)) /\ Decision(Depth(t)).direction = "bottom_up"
       /\ my[t].plan = Decision(Depth(t)) /\ Depth(t) \in Node
   BY <2>1, LevelDirection
 <2>4. Delta[C(t)] = Depth(t) + 1 BY <2>1 DEF LevelsInv, Views, CandidatesView
 <2>5. /\ PassesCode(Depth(t)) => NextCode(t) = Decision(Depth(t)).code + 1
       /\ ~PassesCode(Depth(t)) => NextCode(t) = 0
   BY <2>3 DEF NextCode, PassesCode, Coded
 <2> QED BY <1>3, <2>2, <2>3, <2>4, <2>5, DirAssumption DEF Node
<1> QED BY <1>2, <1>3, CodeWrites

LEMMA CodedStays ==
  ASSUME Shape, Control, PlansInv, NEW t \in Thread, Step(t), NEW d \in Node, Decided(d)
  PROVE  /\ Decision(d)' = Decision(d)
         /\ Coded(d)' <=> Coded(d)
         /\ PassesCode(d)' <=> PassesCode(d)
<1>1. Decided(d)' /\ Decision(d)' = Decision(d) BY DecisionsStay
<1> QED BY <1>1 DEF Coded, PassesCode

LEMMA CodesSoundNext ==
  ASSUME Shape, Control, PlansInv, LevelsInv, CodesSound, NEW t \in Thread, Step(t)
  PROVE  CodesSound'
<1> SUFFICES ASSUME NEW v \in Vertex, dist8'[v] # 0
             PROVE  \E d \in Node :
                      /\ Coded(d)'
                      /\ \/ Delta[v] = d + 1 /\ dist8'[v] = Decision(d)'.code + 1
                         \/ Delta[v] = d /\ dist8'[v] = Decision(d)'.code
 <2> SUFFICES ASSUME NEW v \in Vertex, dist8'[v] # 0,
                     NEW d \in Node, Coded(d)',
                     \/ Delta[v] = d + 1 /\ dist8'[v] = Decision(d)'.code + 1
                     \/ Delta[v] = d /\ dist8'[v] = Decision(d)'.code
              PROVE  \/ Delta[v] > 0 /\ Coded(Delta[v] - 1)'
                        /\ dist8'[v] = Decision(Delta[v] - 1)'.code + 1
                     \/ Delta[v] >= 0 /\ Coded(Delta[v])' /\ dist8'[v] = Decision(Delta[v])'.code
   BY DEF CodesSound
 <2>1. d \in Nat BY DirAssumption DEF Node
 <2>2. CASE Delta[v] = d + 1 /\ dist8'[v] = Decision(d)'.code + 1
  <3>1. Delta[v] - 1 = d /\ Delta[v] > 0 BY <2>1, <2>2
  <3> QED BY <2>2, <3>1
 <2>3. CASE Delta[v] = d /\ dist8'[v] = Decision(d)'.code BY <2>1, <2>3
 <2> QED BY <2>2, <2>3
<1>1. CASE dist8'[v] = dist8[v]
 <2>1. \E d \in Node :
         /\ Coded(d)
         /\ \/ Delta[v] = d + 1 /\ dist8[v] = Decision(d).code + 1
            \/ Delta[v] = d /\ dist8[v] = Decision(d).code
  <3>1. CASE Delta[v] > 0 /\ Coded(Delta[v] - 1) /\ dist8[v] = Decision(Delta[v] - 1).code + 1
   <4>1. PICK d \in Node : d = Delta[v] - 1 BY <3>1, VertexLevel
   <4>2. Delta[v] = d + 1 BY <4>1, VertexLevel
   <4> QED BY <3>1, <4>1, <4>2
  <3>2. CASE Delta[v] >= 0 /\ Coded(Delta[v]) /\ dist8[v] = Decision(Delta[v]).code
    BY <3>2, VertexLevel
  <3> QED BY <1>1, <3>1, <3>2 DEF CodesSound
 <2>2. PICK d \in Node :
         /\ Coded(d)
         /\ \/ Delta[v] = d + 1 /\ dist8[v] = Decision(d).code + 1
            \/ Delta[v] = d /\ dist8[v] = Decision(d).code
   BY <2>1
 <2>3. Coded(d)' /\ Decision(d)' = Decision(d) BY <2>2, CodedStays DEF Coded
 <2> QED BY <1>1, <2>2, <2>3
<1>2. CASE dist8'[v] # dist8[v]
 <2>1. PICK d \in Node : d = Depth(t) BY <1>2, CodeWritten
 <2>2. /\ Decided(d) /\ Coded(d)
       /\ \/ Delta[v] = d + 1 /\ dist8'[v] = Decision(d).code + 1
          \/ Delta[v] = d /\ dist8'[v] = Decision(d).code
   BY <1>2, <2>1, CodeWritten DEF PassesCode
 <2>3. Coded(d)' /\ Decision(d)' = Decision(d) BY <2>2, CodedStays
 <2> QED BY <2>2, <2>3
<1> QED BY <1>1, <1>2

\* The code that a vertex got with its level is not lost.
LEMMA PassedStays ==
  ASSUME Shape, Control, PlansInv, LevelsInv, CodesGrow, NEW t \in Thread, Step(t),
         NEW v \in Vertex, NEW d \in Node, Delta[v] = d + 1, PassesCode(d)
  PROVE  dist8'[v] = dist8[v] \/ dist8'[v] = Decision(d).code + 1
<1> SUFFICES ASSUME dist8'[v] # dist8[v] PROVE dist8'[v] = Decision(d).code + 1 OBVIOUS
<1>0. d \in Nat /\ Depth(t) \in Node /\ Depth(t) \in Nat BY CodeWritten, DirAssumption DEF Node
<1>1. CASE Delta[v] = Depth(t) /\ Before(Depth(t)).direction = "top_down"
 <2>1. Before(Depth(t)) = Decision(d) BY <1>0, <1>1 DEF Before
 <2> QED BY <1>1, <2>1 DEF CodesGrow, PassesCode, Coded
<1>2. CASE /\ Delta[v] = Depth(t) + 1
           /\ PassesCode(Depth(t)) => dist8'[v] = Decision(Depth(t)).code + 1
 <2>1. Depth(t) = d BY <1>0, <1>2
 <2> QED BY <1>2, <2>1
<1> QED BY <1>1, <1>2, CodeWritten

LEMMA CodesPassedNext ==
  ASSUME Shape, Control, PlansInv, LevelsInv, CodesGrow, CodesPassed, NEW t \in Thread, Step(t)
  PROVE  CodesPassed'
<1>0. Moves(t) /\ Grows /\ Control' /\ Shape' /\ PlansInv'
  BY ControlNext, ShapeNext, OnePlanNext, OwnerHasLeftNext, PlanOrderNext DEF PlansInv
<1>1. ASSUME NEW v \in Vertex, Discovered(v)', NEW d \in Node, Delta[v] = d + 1, PassesCode(d)'
      PROVE  dist8'[v] = Decision(d)'.code + 1
 <2>0. d \in Nat /\ Delta[v] - 1 = d /\ Delta[v] > 0 BY <1>1, DirAssumption DEF Node
 <2>1. CASE Discovered(v)
  <3>1. Decided(d)
   <4>1. dist[v] = Delta[v] BY <2>1 DEF LevelsInv, DistSound, Discovered
   <4> QED BY <2>0, <2>1, <4>1 DEF LevelsInv, FoundDecided
  <3>2. PassesCode(d) /\ Decision(d)' = Decision(d) BY <1>1, <3>1, CodedStays
  <3>3. dist8[v] = Decision(d).code + 1 BY <2>0, <2>1, <3>2 DEF CodesPassed
  <3> QED BY <1>1, <3>2, <3>3, PassedStays
 <2>2. CASE ~Discovered(v)
  <3>1. /\ Depth(t) \in Node /\ Depth(t) \in Nat /\ Delta[v] = Depth(t) + 1
        /\ (SwapDist(t) /\ v = V(t)) \/ (MarkFound(t) /\ v = C(t))
    BY <1>1, <2>2, DistSteps, DirAssumption DEF LevelsInv, Discovered, Node
  <3>2. d = Depth(t) BY <1>1, <2>0, <3>1
  <3>3. /\ SwapDist(t) => my[t].pc = "swap"
        /\ MarkFound(t) => my[t].pc = "mark" /\ dist8' = dist8
    BY DEF SwapDist, MarkFound, At
  <3>4. my[t].pc \in {"swap", "mark"} BY <3>1, <3>3
  <3>5. Decided(d) BY <3>2, <3>4, InLevel DEF Deciding
  <3>6. PassesCode(d) /\ Decision(d)' = Decision(d) BY <1>1, <3>5, CodedStays
  <3>7. ~SwapDist(t)
   <4>1. my[t].pc = "swap" => Decision(d).direction = "top_down"
     BY <3>2, LevelDirection DEF InTopDown, AtBucket, AtItem
   <4> QED BY <3>3, <3>6, <4>1 DEF CodesGrow, PassesCode, Coded
  <3> QED BY <3>1, <3>2, <3>3, <3>6, <3>7 DEF CodesPassed, At
 <2> QED BY <2>1, <2>2
<1>2. ASSUME NEW s \in Thread, my'[s].pc = "mark", NEW d \in Node, d = Depth(s)', PassesCode(d)',
             NEW x \in Vertex, x = C(s)'
      PROVE  dist8'[x] = Decision(d)'.code + 1
 <2>1. CASE s # t
  <3>1. my[s].pc = "mark" /\ d = Depth(s) /\ x = C(s) BY <1>0, <1>2, <2>1 DEF Moves, Depth, C
  <3>2. Decided(d) BY <3>1, InLevel DEF Deciding
  <3>3. PassesCode(d) /\ Decision(d)' = Decision(d) BY <1>2, <3>2, CodedStays
  <3>4. dist8[x] = Decision(d).code + 1 BY <3>1, <3>3 DEF CodesPassed, At
  <3>5. Delta[x] = d + 1 BY <3>1 DEF LevelsInv, Views, CandidatesView, Finding
  <3> QED BY <3>3, <3>4, <3>5, PassedStays
 <2>2. CASE s = t
  <3>1. ScanBlock(t) /\ my'[t].pc = "mark"
    BY <1>2, <2>2, PcAfter DEF Step, Deciding, InTopDown, AtBucket, AtItem, InCodes, Owning, Helping
  <3>2. /\ WriteNextCode(t) /\ my[t].pc = "next_code" /\ my'[t].cand = my[t].cand
        /\ SameLevel(t)
    BY <3>1, ScanSteps
  <3>3. x = C(t) /\ d = Depth(t) BY <1>2, <2>2, <3>2 DEF C, Depth, SameLevel
  <3>4. Decided(d) /\ my[t].plan = Decision(d) BY <3>2, <3>3, InLevel DEF Deciding
  <3>5. PassesCode(d) /\ Decision(d)' = Decision(d) BY <1>2, <3>4, CodedStays
  <3>6. dist8'[x] = NextCode(t) BY <3>2, <3>3, CodeValues
  <3> QED BY <3>4, <3>5, <3>6 DEF NextCode, PassesCode, Coded
 <2> QED BY <2>1, <2>2
<1>3. ASSUME NEW v \in Vertex, Discovered(v)', Delta[v] > 0, PassesCode(Delta[v] - 1)'
      PROVE  dist8'[v] = Decision(Delta[v] - 1)'.code + 1
 <2>1. PICK d \in Node : d = Delta[v] - 1 BY <1>3, VertexLevel
 <2>2. Delta[v] = d + 1 BY <2>1, VertexLevel
 <2> QED BY <1>1, <1>3, <2>1, <2>2, Zenon
<1>4. ASSUME NEW s \in Thread, At(s, "mark")', PassesCode(Depth(s))'
      PROVE  dist8'[C(s)'] = Decision(Depth(s))'.code + 1
 <2>1. my'[s].pc = "mark" BY <1>4 DEF At
 <2>2. C(s)' \in Vertex /\ Depth(s)' \in Node
  <3>1. Depth(s)' \in Node BY <1>0, <2>1, DirAssumption DEF Control, AtNode, At, Grows, Node
  <3>2. my[s].pc \in {"mark", "next_code"} /\ C(s)' = C(s)
   <4>1. CASE s # t BY <1>0, <2>1, <4>1 DEF Moves, C
   <4>2. CASE s = t
    <5>1. ScanBlock(t)
      BY <2>1, <4>2, PcAfter DEF Step, Deciding, InTopDown, AtBucket, AtItem, InCodes, Owning,
         Helping
    <5>2. my[t].pc = "next_code" /\ my'[t].cand = my[t].cand BY <2>1, <4>2, <5>1, ScanSteps
    <5> QED BY <4>2, <5>2 DEF C
   <4> QED BY <4>1, <4>2
  <3> QED BY <3>1, <3>2, BlockVertex DEF Finding
 <2>3. PICK d \in Node : d = Depth(s)' BY <2>2
 <2> QED BY <1>2, <1>4, <2>1, <2>2, <2>3
<1> QED BY <1>3, <1>4 DEF CodesPassed

-----------------------------------------------------------------------------
(***************************************************************************)
(* No code is missing: whoever is in a level that gets its codes still has *)
(* to come to the entry, as long as it has none.                           *)
(***************************************************************************)
LEMMA KeepsCoding ==
  ASSUME Shape, Control, PlansInv, CodesGrow, NEW t \in Thread, Step(t),
         NEW d \in Node, d = Depth(t), NEW o \in Thread, NEW i \in Places(d, o), WillCode(t, o, i),
         Coded(d), Before(d).direction = "top_down",
         ~CodesDone(d, o), CodesLast(d, o) < i,
         dist8'[Bucket(d, o)[i]] # Decision(d).code
  PROVE  WillCode(t, o, i)'
<1>0. /\ Order(t, o) \in Nat /\ Order(t, o) < NumT /\ NumT \in Nat
      /\ my[t].turn \in Nat /\ my[t].owner \in Thread /\ my[t].sz \in Nat /\ my[t].item \in Nat
      /\ i \in Nat /\ i >= 1 /\ i <= Len(Bucket(d, o))
      /\ Len(Bucket(d, o)) \in Nat /\ Bucket(d, o)[i] \in Vertex
 <2>1. Bucket(d, o) \in Seq(Vertex) /\ Len(Bucket(d, o)) \in Nat BY BucketType
 <2>2. i \in Nat /\ i >= 1 /\ i <= Len(Bucket(d, o)) /\ Bucket(d, o)[i] \in Vertex
   BY <2>1 DEF Places
 <2>3. Order(t, o) \in Nat /\ Order(t, o) < NumT /\ NumT \in Nat BY Orders
 <2>4. my[t].turn \in Nat /\ my[t].owner \in Thread /\ my[t].sz \in Nat /\ my[t].item \in Nat
   BY ThreadFields, ThreadTypes DEF Shape
 <2> QED BY <2>1, <2>2, <2>3, <2>4
<1>1. Decided(d) /\ Decision(d).code > 0 /\ Decision(d).direction = "bottom_up"
 <2>1. Decided(d) /\ Decision(d).code > 0 BY DEF Coded
 <2> QED BY <2>1, DecisionType DEF CodesGrow
<1>2. CASE Plan(t)
 <2>1. my'[t].pc \in Deciding \cup {"next", "done"} BY <1>2, PcAfter
 <2>2. my'[t].pc # "done"
  <3> SUFFICES ASSUME my'[t].pc = "done" PROVE FALSE OBVIOUS
  <3>1. OnePlan' /\ Control' /\ my'[t].curr = my[t].curr BY <1>2, ControlNext, OnePlanNext, PcAfter
  <3>2. my'[t].plan.direction = "top_down" BY <3>1 DEF Control, Directed, InTopDown, TopDownLevel
  <3>3. my'[t].plan = Decision(d)' BY <3>1 DEF OnePlan, Deciding, Curr, Decision, Depth
  <3> QED BY <1>1, <3>2, <3>3, DecisionsStay
 <2> QED BY <2>1, <2>2 DEF WillCode, Deciding, Linking
<1>3. CASE TestNext(t) \/ AddNode(t)
 <2>1. my[t].pc \in Linking /\ my[t].pc \notin Deciding \cup {"advance", "returned"}
   BY <1>3, PcAfter DEF Linking, Deciding
 <2>2. my[t].plan = Decision(d) /\ ~TopDownLevel(t) BY <1>1, <2>1, InLevel DEF TopDownLevel
 <2>3. my[t].previous = "top_down" /\ my[t].turn = 0
   BY <2>1, <2>2 DEF PlansInv, PlansInOrder, Control, Rounds, At
 <2>4. my'[t].pc \in {"link", "codes"} /\ SameOwner(t) BY <1>1, <1>3, <2>2, <2>3, LinkingSteps
 <2>5. o = my[t].owner <=> Order(t, o) = 0 BY <2>1, <2>3, AtTurn
 <2> QED BY <1>0, <2>3, <2>4, <2>5 DEF WillCode, Linking, InCodes, SameOwner
<1>4. CASE TopDown(t) BY <1>1, <1>4, PcAfter, LevelDirection
<1>5. CASE Codes(t)
 <2>0. my[t].pc \in InCodes /\ my[t].pc \notin Deciding \cup Linking \cup {"advance", "returned"}
       /\ my[t].plan = Decision(d)
   BY <1>5, PcAfter, LevelDirection DEF InCodes, Deciding, Linking
 <2>1. my[t].owner = o =>
         /\ Entry(t).bucket = Bucket(d, o) /\ Entry(t).codes_done = CodesDone(d, o)
         /\ Entry(t).codes_last_done = CodesLast(d, o)
   BY DEF Entry, Curr, Bucket, CodesDone, CodesLast
 <2>2. /\ o = my[t].owner <=> Order(t, o) = my[t].turn
       /\ NextTurn(t) => /\ my'[t].turn = my[t].turn + 1
                         /\ my'[t].turn < NumT => (o = my'[t].owner <=> Order(t, o) = my'[t].turn)
   BY <2>0, AtTurn
 <2>3. \/ Order(t, o) > my[t].turn
       \/ /\ my[t].owner = o
          /\ \/ my[t].pc \in {"codes", "codes_size"}
             \/ my[t].pc = "codes_start" /\ i <= my[t].sz
             \/ my[t].pc = "code" /\ i \in my[t].item .. my[t].sz
             \/ my[t].pc = "codes_progress" /\ i \in my[t].item + 1 .. my[t].sz
   BY <2>0 DEF WillCode, At
 <2>4. CASE Order(t, o) > my[t].turn
  <3>1. CASE SameOwner(t) /\ my'[t].pc \in InCodes BY <2>4, <3>1 DEF WillCode, SameOwner
  <3>2. CASE my[t].turn + 1 < NumT /\ my'[t].pc = "codes" /\ NextTurn(t)
   <4>1. my'[t].turn = my[t].turn + 1 /\ my'[t].pc \in InCodes BY <2>2, <3>2 DEF InCodes
   <4>2. Order(t, o) > my'[t].turn \/ o = my'[t].owner BY <1>0, <2>2, <2>4, <3>2, <4>1
   <4> QED BY <3>2, <4>1, <4>2 DEF WillCode
  <3>3. my[t].turn + 1 # NumT BY <1>0, <2>4
  <3> QED BY <1>5, <3>1, <3>2, <3>3, CodesSteps DEF InCodes
 <2>5. CASE my[t].owner = o
  <3>1. CASE my[t].pc \in {"codes", "codes_finish"}
   <4>0. my[t].pc = "codes" BY <1>0, <2>2, <2>3, <2>5, <3>1
   <4>1. ~Entry(t).codes_done /\ my[t].pc = "codes" BY <2>1, <2>5, <4>0
   <4>2. my'[t].pc = "codes_size" /\ SameOwner(t) BY <1>5, <4>1, CodesSteps
   <4> QED BY <2>5, <4>2 DEF WillCode, SameOwner
  <3>2. CASE my[t].pc = "codes_size"
   <4>1. /\ SameOwner(t) /\ my'[t].sz = Len(Entry(t).bucket)
         /\ \/ my'[t].pc = "codes_start"
            \/ /\ my'[t].item = 1
               /\ my'[t].pc = IF 1 <= my'[t].sz THEN "code" ELSE "codes_finish"
     BY <1>5, <3>2, CodesSteps
   <4>2. \/ my'[t].pc = "codes_start" /\ i <= my'[t].sz
         \/ my'[t].pc = "code" /\ i \in my'[t].item .. my'[t].sz
     BY <1>0, <2>1, <2>5, <4>1
   <4> QED BY <2>5, <4>1, <4>2 DEF WillCode, SameOwner, At
  <3>3. CASE my[t].pc = "codes_start"
   <4>1. /\ SameOwner(t) /\ my'[t].sz = my[t].sz
         /\ my'[t].item = Entry(t).codes_last_done + 1 /\ Entry(t).codes_last_done \in Nat
         /\ my'[t].pc = IF my'[t].item <= my[t].sz THEN "code" ELSE "codes_finish"
     BY <1>5, <3>3, CodesSteps
   <4>2. i <= my[t].sz BY <2>2, <2>3, <2>5, <3>3, <1>0
   <4>3. my'[t].pc = "code" /\ i \in my'[t].item .. my'[t].sz BY <1>0, <2>1, <2>5, <4>1, <4>2
   <4> QED BY <2>5, <4>1, <4>3 DEF WillCode, SameOwner, At
  <3>4. CASE my[t].pc = "code"
   <4>1. /\ WriteCode(t) /\ SameOwner(t) /\ my'[t].sz = my[t].sz
         /\ \/ my'[t].pc = "codes_progress" /\ my'[t].item = my[t].item
            \/ /\ my'[t].item = my[t].item + 1
               /\ my'[t].pc = IF my'[t].item <= my[t].sz THEN "code" ELSE "codes_finish"
     BY <1>5, <3>4, CodesSteps
   <4>2. i \in my[t].item .. my[t].sz BY <1>0, <2>2, <2>3, <2>5, <3>4
   <4>3. i # my[t].item
    <5> SUFFICES ASSUME i = my[t].item PROVE FALSE OBVIOUS
    <5>1. U(t) = Bucket(d, o)[i] BY <2>1, <2>5 DEF U
    <5>2. dist8'[U(t)] = my[t].plan.code BY <1>0, <4>1, <5>1, CodeValues
    <5> QED BY <2>0, <5>1, <5>2
   <4>4. \/ my'[t].pc = "codes_progress" /\ i \in my'[t].item + 1 .. my'[t].sz
         \/ my'[t].pc = "code" /\ i \in my'[t].item .. my'[t].sz
     BY <1>0, <4>1, <4>2, <4>3
   <4> QED BY <2>5, <4>1, <4>4 DEF WillCode, SameOwner, At
  <3>5. CASE my[t].pc = "codes_progress"
   <4>1. /\ SameOwner(t) /\ my'[t].sz = my[t].sz /\ my'[t].item = my[t].item + 1
         /\ my'[t].pc = IF my'[t].item <= my[t].sz THEN "code" ELSE "codes_finish"
     BY <1>5, <3>5, CodesSteps
   <4>2. i \in my[t].item + 1 .. my[t].sz BY <1>0, <2>2, <2>3, <2>5, <3>5
   <4>3. my'[t].pc = "code" /\ i \in my'[t].item .. my'[t].sz BY <1>0, <4>1, <4>2
   <4> QED BY <2>5, <4>1, <4>3 DEF WillCode, SameOwner, At
  <3> QED BY <2>0, <3>1, <3>2, <3>3, <3>4, <3>5 DEF InCodes
 <2> QED BY <2>3, <2>4, <2>5
<1>6. CASE ScanBlock(t) \/ BottomUp(t) \/ Advance(t)
 <2>1. my[t].pc \in InBottomUp \cup {"advance"} BY <1>6, PcAfter DEF InBottomUp
 <2> QED
   BY <2>1 DEF WillCode, Deciding, Linking, InCodes, InBottomUp, InBlock, Finding, Owning, Helping,
      At
<1> QED BY <1>2, <1>3, <1>4, <1>5, <1>6 DEF Step

LEMMA StillCoding ==
  ASSUME NEW t \in Thread, Moves(t), NEW s \in Thread, s # t, NEW o, NEW i, WillCode(s, o, i)
  PROVE  WillCode(s, o, i)'
<1>1. my'[s] = my[s] BY DEF Moves
<1> QED BY <1>1 DEF WillCode, At

\* A level is decided before anyone has begun it.
LEMMA BeforeDecision ==
  ASSUME Shape, Control, PlansInv, NEW s \in Thread, NEW d \in Node, ~Decided(d), Depth(s) = d
  PROVE  my[s].pc \in Deciding
<1>1. d \in Nat BY DirAssumption DEF Node
<1>2. ~At(s, "returned") BY <1>1 DEF Control, AtNode, None
<1> QED BY <1>2, InLevel DEF At

LEMMA UncodedEntry ==
  ASSUME Shape, Control, PlansInv, LevelsInv, CodesInv, NEW t \in Thread, Step(t),
         NEW v \in Vertex, NEW d \in Node, dist[v] = d, Decided(d),
         Coded(d), Before(d).direction = "top_down", dist8'[v] # Decision(d).code
  PROVE  \E o \in Thread : \E i \in Places(d, o) :
           /\ i \in Places(d, o)' /\ Bucket(d, o)'[i] = v
           /\ ~CodesDone(d, o)' /\ CodesLast(d, o)' < i
           /\ \A s \in Thread : Depth(s)' = d => WillCode(s, o, i)'
<1>0. Moves(t) /\ Grows /\ d \in Nat /\ Discovered(v) /\ Delta[v] = d
 <2>1. d \in Nat BY DirAssumption DEF Node
 <2> QED BY <2>1, ControlNext DEF LevelsInv, DistSound, Discovered, Unset
<1>1. dist8[v] # Decision(d).code
 <2> SUFFICES ASSUME dist8'[v] # dist8[v] PROVE FALSE OBVIOUS
 <2>1. Depth(t) \in Nat /\ Decided(Depth(t)) /\ Decision(Depth(t)).direction = "bottom_up"
   BY CodeWritten
 <2>2. Delta[v] = Depth(t) + 1 BY <1>0, CodeWritten
 <2>3. Before(d) = Decision(Depth(t)) BY <1>0, <2>1, <2>2 DEF Before
 <2> QED BY <2>1, <2>3
<1>2. PICK o \in Thread : \E i \in Places(d, o) :
         /\ Bucket(d, o)[i] = v /\ ~CodesDone(d, o) /\ CodesLast(d, o) < i
         /\ \A s \in Thread : Depth(s) = d => WillCode(s, o, i)
  BY <1>1 DEF CodesInv, NoneUncoded, CodesDone, CodesLast
<1>3. PICK i \in Places(d, o) :
         /\ Bucket(d, o)[i] = v /\ ~CodesDone(d, o) /\ CodesLast(d, o) < i
         /\ \A s \in Thread : Depth(s) = d => WillCode(s, o, i)
  BY <1>2
<1>4. i \in Places(d, o)' /\ Bucket(d, o)'[i] = v /\ i \in Nat
  BY <1>0, <1>3, BucketType, EntriesStay DEF Places
<1>5. ASSUME d = Depth(t), o = my[t].owner, my[t].pc \in {"codes_finish", "codes_progress"}
      PROVE  my[t].pc = "codes_progress" /\ i \in my[t].item + 1 .. my[t].sz
 <2>1. Order(t, o) = my[t].turn /\ my[t].turn \in Nat BY <1>5, AtTurn DEF Deciding
 <2> QED BY <1>3, <1>5, <2>1 DEF WillCode, Deciding, Linking, At
<1>6. ~CodesDone(d, o)' BY <1>3, <1>5, MarksFrom, Zenon DEF MarkedHere
<1>7. CodesLast(d, o)' < i
 <2>1. CASE CodesLast(d, o)' = CodesLast(d, o) BY <1>3, <2>1
 <2>2. CASE CodesLast(d, o)' # CodesLast(d, o)
  <3>1. CodesLast(d, o)' = my[t].item /\ i \in my[t].item + 1 .. my[t].sz
    BY <1>5, <2>2, MarksFrom, ZenonT(40) DEF MarkedHere
  <3>2. my[t].item \in Nat /\ my[t].sz \in Nat BY ThreadFields DEF Shape
  <3> QED BY <1>4, <3>1, <3>2
 <2> QED BY <2>1, <2>2
<1>8. ASSUME NEW s \in Thread, Depth(s)' = d PROVE WillCode(s, o, i)'
 <2>1. CASE s # t BY <1>0, <1>3, <1>8, <2>1, StillCoding DEF Moves, Depth
 <2>2. CASE s = t /\ Depth(t) = d BY <1>3, <2>2, KeepsCoding DEF CodesInv
 <2>3. CASE s = t /\ Depth(t) # d
  <3>1. Advance(t) BY <1>8, <2>3, StaysInLevel
  <3>2. my'[t].pc = "plan" BY <1>0, <1>8, <2>3, <3>1, PcAfter DEF Depth, None
  <3> QED BY <2>3, <3>2 DEF WillCode, Deciding
 <2> QED BY <2>1, <2>2, <2>3
<1> QED BY <1>3, <1>4, <1>6, <1>7, <1>8

LEMMA NoneUncodedNext ==
  ASSUME Shape, Control, PlansInv, LevelsInv, MarksInv, CodesInv, NEW t \in Thread, Step(t)
  PROVE  NoneUncoded'
<1>0. Moves(t) /\ Grows /\ Control' /\ OnePlan' /\ CodesGrow' /\ PushedKept
  BY ControlNext, OnePlanNext, CodesGrowNext DEF CodesInv, LevelsInv
<1> SUFFICES ASSUME NEW v \in Vertex, NEW d \in Node, dist'[v] = d, Coded(d)',
                    Before(d)'.direction = "top_down", dist8'[v] # Decision(d)'.code
             PROVE  \E o \in Thread : \E i \in Places(d, o)' :
                      /\ Bucket(d, o)'[i] = v
                      /\ ~CodesDone(d, o)' /\ CodesLast(d, o)' < i
                      /\ \A s \in Thread : Depth(s)' = d => WillCode(s, o, i)'
  BY SMTT(40) DEF NoneUncoded, Places, CodesDone, CodesLast, Bucket, Decision, Decided, Before, Coded
<1>1. dist'[v] = dist[v]
 <2> SUFFICES ASSUME dist'[v] # dist[v] PROVE FALSE OBVIOUS
 <2>1. ~Decided(d)' BY NewVertex DEF LevelsInv
 <2> QED BY <2>1 DEF Coded
<1>2. dist[v] = d /\ Discovered(v) /\ d \in Nat BY <1>1, DirAssumption DEF Node, Discovered, Unset
<1>3. CASE ~Decided(d)
 <2>1. Decided(d)' BY DEF Coded
 <2>2. Claim(t) /\ d = Depth(t) BY <1>3, <2>1, NewDecision
 <2>3. PICK o \in Thread : EntryOf(d, o, v) BY <1>0, <1>2 DEF PushedKept
 <2>4. PICK i \in Places(d, o) : Bucket(d, o)[i] = v BY <2>3 DEF EntryOf
 <2>5. i \in Places(d, o)' /\ Bucket(d, o)'[i] = v /\ i >= 1
   BY <1>0, <2>4, BucketType, EntriesStay DEF Places
 <2>6. ~CodesDone(d, o)' /\ CodesLast(d, o)' < i
  <3>1. ~CodesDone(d, o) /\ CodesLast(d, o) = 0
    BY <1>3 DEF MarksInv, Untouched, CodesDone, CodesLast
  <3>2. CodesDone(d, o)' = CodesDone(d, o) /\ CodesLast(d, o)' = CodesLast(d, o)
    BY <1>3, MarksFrom, Zenon DEF MarkedHere
  <3>3. i \in Nat BY BucketType DEF Places
  <3> QED BY <2>5, <3>1, <3>2, <3>3
 <2>7. ASSUME NEW s \in Thread, Depth(s)' = d PROVE WillCode(s, o, i)'
  <3>1. CASE s # t
   <4>1. my'[s] = my[s] /\ Depth(s) = d BY <1>0, <2>7, <3>1 DEF Moves, Depth
   <4>2. my[s].pc \in Deciding BY <1>3, <4>1, BeforeDecision
   <4> QED BY <4>1, <4>2 DEF WillCode
  <3>2. CASE s = t
   <4>1. my'[t].pc \in Deciding \cup {"next", "done"} BY <2>2, PcAfter DEF Plan
   <4>2. my'[t].pc # "done"
    <5> SUFFICES ASSUME my'[t].pc = "done" PROVE FALSE OBVIOUS
    <5>1. my'[t].plan.direction = "top_down" BY <1>0 DEF Control, Directed, InTopDown, TopDownLevel
    <5>2. my'[t].plan = Decision(d)'
      BY <1>0, <2>7, <3>2 DEF OnePlan, Deciding, Curr, Decision, Depth
    <5>3. Decision(d)'.code = 0 BY <1>0, <2>1, <5>1, <5>2 DEF CodesGrow
    <5> QED BY <5>3 DEF Coded
   <4> QED BY <3>2, <4>1, <4>2 DEF WillCode, Linking
  <3> QED BY <3>1, <3>2
 <2> QED BY <2>5, <2>6, <2>7
<1>4. CASE Decided(d)
 <2>1. Decision(d)' = Decision(d) /\ Coded(d) BY <1>4, CodedStays
 <2>2. Before(d)' = Before(d)
  <3>1. d > 0 => Decided(d - 1) BY <1>2, <1>4 DEF PlansInv, PlansInOrder
  <3> QED BY <3>1, BeforeStays
 <2> QED BY <1>2, <1>4, <2>1, <2>2, UncodedEntry
<1> QED BY <1>3, <1>4

-----------------------------------------------------------------------------
(***************************************************************************)
(* No vertex is passed over in a bottom-up level: whoever is in the level  *)
(* still has its block to scan, as long as it is not found.                *)
(***************************************************************************)
LEMMA OwnOrHelped ==
  ASSUME Shape, Control, NEW t \in Thread
  PROVE  /\ my[t].pc \in Owning => Own(t) /\ my[t].turn = 0
         /\ my[t].pc \in Helping => ~Own(t)
         /\ \A o \in Thread : Order(t, o) = 0 <=> o = t
<1>1. t \in Nat /\ NumT \in Nat /\ t < NumT /\ \A o \in Thread : o \in Nat /\ o < NumT
  BY ThreadTypes DEF Thread
<1>2. \A o \in Thread : Order(t, o) = 0 <=> o = t BY <1>1 DEF Order
<1>3. my[t].pc \in Owning \cup Helping => (t = my[t].owner <=> Order(t, t) = my[t].turn)
  BY AtTurn DEF Owning, Helping, Deciding
<1> QED BY <1>2, <1>3 DEF Control, Rounds, Own

\* A bottom-up level begins with the link.
LEMMA BottomUpBegins ==
  ASSUME Shape, Control, PlansInv, NEW t \in Thread, Plan(t), NEW d \in Node, Depth(t) = d,
         Decision(d)'.direction = "bottom_up"
  PROVE  my'[t].pc \in Deciding \cup {"next"}
<1>0. Step(t) BY DEF Step
<1>1. my'[t].pc \in Deciding \cup {"next", "done"} /\ my'[t].curr = my[t].curr BY <1>0, PcAfter
<1>2. my'[t].pc # "done"
 <2> SUFFICES ASSUME my'[t].pc = "done" PROVE FALSE OBVIOUS
 <2>1. OnePlan' /\ Control' BY <1>0, ControlNext, OnePlanNext
 <2>2. my'[t].plan.direction = "top_down" BY <2>1 DEF Control, Directed, InTopDown, TopDownLevel
 <2>3. my'[t].plan = Decision(d)' BY <1>1, <2>1 DEF OnePlan, Deciding, Curr, Decision, Depth
 <2> QED BY <2>2, <2>3
<1> QED BY <1>1, <1>2

\* The block that a thread scans.
LEMMA KeepsBlock ==
  ASSUME Shape, Control, PlansInv, LevelsInv, NEW t \in Thread, Step(t), ScanBlock(t),
         NEW x \in Vertex, x < End(my[t].owner, my[t].item),
         Delta[x] = Depth(t) + 1, ~Discovered(x)', InScan(t, x)
  PROVE  my'[t].pc \in InBlock /\ InScan(t, x)'
<1>0. /\ my[t].pc \in InBlock /\ my[t].cand \in Seq(Vertex) /\ Len(my[t].cand) \in Nat
      /\ my[t].j \in Nat /\ x \in Nat /\ ~Discovered(x) /\ Depth(t) \in Node /\ Depth(t) \in Nat
      /\ ~At(t, "returned")
 <2>1. my[t].pc \in InBlock /\ my[t].cand \in Seq(Vertex) /\ my[t].j \in Nat BY ScanSteps
 <2>2. Depth(t) \in Node /\ ~At(t, "returned") BY <2>1, LevelDirection DEF InBottomUp
 <2>3. ~Discovered(x) BY Found DEF LevelsInv
 <2> QED BY <2>1, <2>2, <2>3, DirAssumption DEF Node
<1>1. /\ my[t].pc = "gather" /\ x >= my[t].j
      \/ \E i \in 1 .. Len(my[t].cand) : my[t].cand[i] = x
  BY DEF InScan, At
<1> DEFINE tested == /\ my'[t].j = IF my'[t].cand = <<>> THEN 0 ELSE 1
                     /\ my'[t].pc = IF my'[t].cand # <<>> THEN "test"
                                    ELSE IF Own(t) THEN "own_progress" ELSE "stamp"
<1>2. ASSUME tested, my'[t].cand \in Seq(Vertex), NEW i \in 1 .. Len(my'[t].cand), my'[t].cand[i] = x
      PROVE  my'[t].pc \in InBlock /\ InScan(t, x)'
 <2>1. my'[t].cand # <<>> BY <1>2
 <2> QED BY <1>2, <2>1 DEF InScan, InBlock
<1> HIDE DEF tested
<1>3. CASE my[t].pc = "gather"
 <2>1. /\ my[t].j \in Vertex
       /\ my'[t].cand = IF dist[my[t].j] = Unset THEN Append(my[t].cand, my[t].j)
                                                 ELSE my[t].cand
       /\ \/ /\ my[t].j + 1 < End(my[t].owner, my[t].item)
             /\ my'[t].pc = "gather" /\ my'[t].j = my[t].j + 1
          \/ ~(my[t].j + 1 < End(my[t].owner, my[t].item)) /\ tested
   BY <1>3, ScanSteps DEF tested
 <2>2. my'[t].cand \in Seq(Vertex) BY <1>0, <2>1, AppendAt
 <2>3. ASSUME \E i \in 1 .. Len(my[t].cand) : my[t].cand[i] = x
       PROVE  \E i \in 1 .. Len(my'[t].cand) : my'[t].cand[i] = x
  <3>1. PICK i \in 1 .. Len(my[t].cand) : my[t].cand[i] = x BY <2>3
  <3>2. i \in 1 .. Len(my'[t].cand) /\ my'[t].cand[i] = x BY <1>0, <2>1, <3>1, AppendAt
  <3> QED BY <3>2
 <2>4. ASSUME x = my[t].j PROVE \E i \in 1 .. Len(my'[t].cand) : my'[t].cand[i] = x
  <3>1. my'[t].cand = Append(my[t].cand, x) BY <1>0, <2>1, <2>4, Zenon DEF Discovered
  <3>2. Len(my[t].cand) + 1 \in 1 .. Len(my'[t].cand) BY <1>0, <3>1, AppendAt
  <3>3. my'[t].cand[Len(my[t].cand) + 1] = x BY <1>0, <3>1, AppendAt
  <3> QED BY <3>2, <3>3
 <2>5. CASE \E i \in 1 .. Len(my'[t].cand) : my'[t].cand[i] = x
  <3>1. CASE tested BY <1>2, <2>2, <2>5, <3>1
  <3>2. CASE my'[t].pc = "gather" BY <2>5, <3>2 DEF InScan, InBlock
  <3> QED BY <2>1, <3>1, <3>2
 <2>6. CASE ~\E i \in 1 .. Len(my'[t].cand) : my'[t].cand[i] = x
  <3>1. x >= my[t].j /\ x # my[t].j BY <1>1, <2>3, <2>4, <2>6
  <3>2. End(my[t].owner, my[t].item) \in Nat BY <1>0, BlockVertex, BlockRange
  <3>3. my'[t].pc = "gather" /\ my'[t].j = my[t].j + 1 /\ x >= my[t].j + 1 BY <1>0, <2>1, <3>1, <3>2
  <3> QED BY <3>3 DEF InScan, InBlock, At
 <2> QED BY <2>5, <2>6
<1>4. CASE my[t].pc # "gather"
 <2>1. PICK i \in 1 .. Len(my[t].cand) : my[t].cand[i] = x BY <1>1, <1>4
 <2>2. my[t].cand # <<>> /\ i \in Nat BY <1>0, <2>1
 <2>3. CASE /\ my'[t].cand = Tail(my[t].cand) /\ tested
            /\ \/ my[t].pc = "test" /\ my[t].j > Len(adj[C(t)])
               \/ MarkFound(t) /\ my[t].pc = "mark"
  <3>1. C(t) = my[t].cand[1] BY <1>0, <2>2, TailEntries DEF C
  <3>2. i # 1
   <4> SUFFICES ASSUME x = C(t) PROVE FALSE BY <2>1, <3>1
   <4>1. CASE my[t].pc = "test" /\ my[t].j > Len(adj[C(t)])
    <5>1. PICK u \in Vertex : Delta[u] = Depth(t) /\ u \in Neighbors(x) BY <1>0, OneCloser, Zenon
    <5>2. adj[x] \in Seq(Vertex) /\ Len(adj[x]) \in Nat BY GraphAssumption
    <5>3. PICK p \in 1 .. Len(adj[x]) : adj[x][p] = u BY <5>1, <5>2 DEF Neighbors
    <5>4. p \in 1 .. my[t].j - 1 BY <1>0, <4>1, <5>2
    <5> QED BY <4>1, <5>1, <5>3, <5>4 DEF LevelsInv, Views, CandidatesView, At
   <4>2. CASE MarkFound(t)
    <5>1. dist'[x] = Depth(t) + 1 BY <4>2, MarkWrites
    <5> QED BY <1>0, <5>1 DEF Discovered, Unset
   <4> QED BY <2>3, <4>1, <4>2
  <3>3. i \in 2 .. Len(my[t].cand) BY <1>0, <2>1, <2>2, <3>2
  <3>4. i - 1 \in 1 .. Len(my'[t].cand) /\ my'[t].cand[i - 1] = x /\ my'[t].cand \in Seq(Vertex)
    BY <1>0, <2>1, <2>2, <2>3, <3>3, TailEntries
  <3> QED BY <1>2, <2>3, <3>4, Zenon
 <2>4. CASE my'[t].cand = my[t].cand /\ my'[t].pc \in InBlock BY <2>1, <2>4 DEF InScan
 <2> QED BY <1>4, <2>3, <2>4, ScanSteps DEF tested, InBlock, Finding
<1> QED BY <1>3, <1>4

LEMMA KeepsScanning ==
  ASSUME Shape, Control, PlansInv, LevelsInv, NEW t \in Thread, Step(t),
         NEW d \in Node, d = Depth(t), NEW o \in Thread, NEW k \in 1 .. Owned(o),
         NEW x \in Vertex, x \in Begin(o, k) .. End(o, k) - 1,
         Delta[x] = d + 1, ~Discovered(x)', WillScan(t, o, k, x),
         Decided(d), Decision(d).direction = "bottom_up",
         ~Done(d, o), Last(d, o) < k, helped_at[o][k] # d
  PROVE  WillScan(t, o, k, x)'
<1>0. /\ Order(t, o) \in Nat /\ Order(t, o) < NumT /\ NumT \in Nat
      /\ my[t].turn \in Nat /\ my[t].owner \in Thread /\ my[t].item \in Nat
      /\ Owned(o) \in Nat /\ k \in Nat /\ k >= 1 /\ k <= Owned(o) /\ Last(d, o) \in Nat
      /\ x \in Nat /\ x >= Begin(o, k) /\ x < End(o, k)
 <2>1. Owned(o) \in Nat /\ Begin(o, k) \in Nat /\ End(o, k) \in Nat BY OwnedFacts, BlockRange
 <2>2. Order(t, o) \in Nat /\ Order(t, o) < NumT /\ NumT \in Nat BY Orders
 <2>3. my[t].turn \in Nat /\ my[t].owner \in Thread /\ my[t].item \in Nat
   BY ThreadFields, ThreadTypes DEF Shape
 <2>4. Last(d, o) \in Nat BY MarkTypes
 <2> QED BY <2>1, <2>2, <2>3, <2>4
<1>1. CASE Plan(t)
 <2>1. Decision(d)'.direction = "bottom_up" BY DecisionsStay
 <2> QED BY <1>1, <2>1, BottomUpBegins DEF WillScan, Linking
<1>2. CASE TestNext(t) \/ AddNode(t)
 <2>1. my[t].pc \in Linking /\ my[t].pc \notin Deciding \cup {"advance", "returned"}
   BY <1>2, PcAfter DEF Linking, Deciding
 <2>2. my[t].plan = Decision(d) /\ ~TopDownLevel(t) BY <2>1, InLevel DEF TopDownLevel
 <2>3. my[t].turn = 0 /\ (o = my[t].owner <=> Order(t, o) = 0)
   BY <2>1, <2>2, AtTurn DEF Control, Rounds
 <2>4. my'[t].pc \in {"link", "codes", "own"} /\ SameOwner(t) /\ (my'[t].pc = "link" \/ my'[t].item = 1)
   BY <1>2, <2>2, LinkingSteps
 <2>5. CASE my'[t].pc \in {"link", "codes"} BY <2>5 DEF WillScan, Linking, InCodes
 <2>6. CASE my'[t].pc = "own"
  <3>1. my'[t].item <= k BY <1>0, <2>4, <2>6
  <3>2. Order(t, o) > my'[t].turn \/ my'[t].owner = o BY <1>0, <2>3, <2>4 DEF SameOwner
  <3> QED BY <2>6, <3>1, <3>2 DEF WillScan
 <2> QED BY <2>4, <2>5, <2>6
<1>3. CASE TopDown(t) BY <1>3, PcAfter, LevelDirection
<1>4. CASE Codes(t)
 <2>1. CASE my'[t].pc \in InCodes BY <2>1 DEF WillScan
 <2>2. CASE my'[t].pc = "own" /\ my'[t].owner = t /\ my'[t].turn = 0 /\ my'[t].item = 1
  <3>1. my'[t].item <= k BY <1>0, <2>2
  <3>2. Order(t, o) > my'[t].turn \/ my'[t].owner = o BY <1>0, <2>2, OwnOrHelped
  <3> QED BY <2>2, <3>1, <3>2 DEF WillScan
 <2> QED BY <1>4, <2>1, <2>2, CodesSteps DEF InCodes
<1>5. ASSUME my[t].pc \in InBottomUp
      PROVE  /\ o = my[t].owner <=> Order(t, o) = my[t].turn
             /\ NextTurn(t) => /\ my'[t].turn = my[t].turn + 1
                               /\ my'[t].turn < NumT =>
                                    (o = my'[t].owner <=> Order(t, o) = my'[t].turn)
             /\ my[t].owner = o =>
                  /\ Entry(t).done = Done(d, o) /\ Entry(t).last_done = Last(d, o)
                  /\ Order(t, o) > my[t].turn => FALSE
                  /\ Stamped(t) => helped_at[o][my[t].item] = d
             /\ my[t].pc \notin Deciding \cup Linking \cup InCodes \cup {"advance", "returned"}
 <2>1. my[t].pc \notin Deciding \cup Linking \cup InCodes \cup {"advance", "returned"}
   BY <1>5 DEF InBottomUp, InBlock, Finding, Owning, Helping, Deciding, Linking, InCodes
 <2>2. /\ o = my[t].owner <=> Order(t, o) = my[t].turn
       /\ NextTurn(t) => /\ my'[t].turn = my[t].turn + 1
                         /\ my'[t].turn < NumT =>
                              (o = my'[t].owner <=> Order(t, o) = my'[t].turn)
   BY <2>1, AtTurn
 <2>3. my[t].owner = o => Entry(t).done = Done(d, o) /\ Entry(t).last_done = Last(d, o)
   BY DEF Entry, Curr, Done, Last
 <2> QED BY <1>0, <2>1, <2>2, <2>3 DEF Stamped
<1>6. CASE ScanBlock(t)
 <2>1. /\ my[t].pc \in InBlock /\ my[t].pc \in InBottomUp /\ SameOwner(t) /\ SameItems(t)
       /\ \/ my'[t].pc \in InBlock
          \/ my'[t].pc = "own_progress" /\ Own(t)
          \/ my'[t].pc = "stamp" /\ ~Own(t)
   BY <1>6, ScanSteps DEF InBottomUp, InBlock, Finding
 <2>2. CASE Order(t, o) > my[t].turn BY <2>1, <2>2 DEF WillScan, SameOwner
 <2>3. CASE ~(Order(t, o) > my[t].turn)
  <3>1. /\ my[t].owner = o
        /\ \/ my[t].item = k /\ InScan(t, x)
           \/ Own(t) /\ my[t].item < k
           \/ ~Own(t) /\ k \in my[t].todo
    BY <1>5, <2>1, <2>3 DEF WillScan, InBlock, Finding, Owning, Helping, At
  <3>2. CASE my[t].item = k /\ InScan(t, x)
   <4>1. my'[t].pc \in InBlock /\ InScan(t, x)' BY <1>0, <1>6, <3>1, <3>2, KeepsBlock
   <4> QED BY <2>1, <3>1, <3>2, <4>1 DEF WillScan, SameOwner, SameItems
  <3>3. CASE Own(t) /\ my[t].item < k
    BY <2>1, <3>1, <3>3 DEF WillScan, SameOwner, SameItems, Own, At
  <3>4. CASE ~Own(t) /\ k \in my[t].todo
    BY <2>1, <3>1, <3>4 DEF WillScan, SameOwner, SameItems, Own, Helping
  <3> QED BY <3>1, <3>2, <3>3, <3>4
 <2> QED BY <2>2, <2>3
<1>7. CASE BottomUp(t)
 <2>0. my[t].pc \in Owning \cup Helping \cup {"blocks_done"} /\ my[t].pc \in InBottomUp
   BY <1>7, BlockSteps DEF InBottomUp
 <2>1. CASE Order(t, o) > my[t].turn
  <3>1. CASE SameOwner(t) BY <2>1, <3>1 DEF WillScan, SameOwner
  <3>2. CASE my'[t].pc = NextPc(t, "help") /\ NextTurn(t)
   <4>1. my'[t].turn = my[t].turn + 1 /\ Order(t, o) >= my'[t].turn BY <1>0, <1>5, <2>0, <2>1, <3>2
   <4>2. CASE Order(t, o) > my'[t].turn BY <4>2 DEF WillScan
   <4>3. CASE Order(t, o) = my'[t].turn
    <5>1. my'[t].turn < NumT /\ my'[t].owner = o BY <1>0, <1>5, <2>0, <3>2, <4>3
    <5>2. my'[t].pc = "help" BY <3>2, <4>1, <5>1 DEF NextPc
    <5> QED BY <5>1, <5>2 DEF WillScan
   <4> QED BY <1>0, <4>1, <4>2, <4>3
  <3> QED BY <1>7, <3>1, <3>2, BlockSteps
 <2>2. CASE ~(Order(t, o) > my[t].turn)
  <3>0. /\ my[t].owner = o
        /\ \/ my[t].pc \in {"own", "own_stamp"} /\ my[t].item <= k
           \/ my[t].pc = "own_progress" /\ my[t].item < k
           \/ my[t].pc \in {"help", "help_start"}
           \/ my[t].pc \in Helping \ {"help", "help_start"} /\ k \in my[t].todo
           \/ my[t].pc \in {"block_progress", "block_stamp"} /\ k = my[t].item
    BY <1>5, <2>0, <2>2 DEF WillScan, InBlock, Finding, Owning, Helping, At
  <3>1. /\ ~Entry(t).done /\ Entry(t).last_done < k
        /\ Entry(t).last_done = Last(d, o)
        /\ Stamped(t) => my[t].item # k
    BY <1>5, <2>0, <3>0
  <3>2. my[t].pc # "blocks_done" BY <3>0 DEF Helping
  <3>3. SameOwner(t) BY <1>7, <3>1, <3>2, BlockSteps, Zenon DEF FinishBlocks, At
  <3>4. my'[t].owner = o BY <3>0, <3>3 DEF SameOwner
  <3>5. CASE my[t].pc = "help_start"
   <4>1. /\ my'[t].todo = Entry(t).last_done + 1 .. Owned(my[t].owner)
         /\ my'[t].pc = IF my'[t].todo = {} THEN "blocks_done" ELSE "block"
     BY <1>7, <3>5, BlockSteps, Zenon DEF OwnProgress, FinishBlocks, Stamp, At
   <4>2. k \in my'[t].todo BY <1>0, <3>0, <3>1, <4>1
   <4> QED BY <3>4, <4>1, <4>2 DEF WillScan, Helping
  <3>6. CASE my[t].pc = "block"
   <4>1. /\ my'[t].pc = "block_progress" /\ my'[t].todo = my[t].todo \ {my'[t].item}
     BY <1>7, <3>1, <3>6, BlockSteps, Zenon DEF OwnProgress, FinishBlocks, Stamp, At
   <4>2. k \in my[t].todo BY <3>0, <3>6
   <4>3. k \in my'[t].todo \/ k = my'[t].item BY <4>1, <4>2
   <4> QED BY <3>4, <4>1, <4>3 DEF WillScan, Helping
  <3>7. CASE my[t].pc = "own_progress"
   <4>1. my'[t].pc = "own" /\ my'[t].item = my[t].item + 1
     BY <1>7, <3>7, BlockSteps, Zenon DEF OwnProgress, FinishBlocks, Stamp, At
   <4>2. my'[t].item <= k BY <1>0, <3>0, <3>7, <4>1 DEF Helping
   <4> QED BY <3>4, <4>1, <4>2 DEF WillScan
  <3>8. CASE my[t].pc = "own"
   <4>1. /\ SameItems(t)
         /\ \/ my'[t].pc = "own_stamp"
            \/ my[t].item > Owned(t) \/ Entry(t).done
     BY <1>7, <3>8, BlockSteps, Zenon DEF OwnProgress, FinishBlocks, Stamp, At
   <4>2. my[t].item <= k BY <3>0, <3>8 DEF Helping
   <4>3. o = t BY <3>0, <3>8, OwnOrHelped DEF Own, Owning
   <4>4. my'[t].pc = "own_stamp" BY <1>0, <3>1, <4>1, <4>2, <4>3
   <4> QED BY <3>4, <4>1, <4>2, <4>4 DEF WillScan, SameItems
  <3>9. CASE my[t].pc = "own_stamp"
   <4>1. /\ SameItems(t)
         /\ \/ my'[t].pc = "gather" /\ my'[t].j = Begin(my[t].owner, my[t].item)
            \/ my'[t].pc = "own_progress" /\ Stamped(t)
     BY <1>7, <3>9, BlockSteps, Zenon DEF OwnProgress, FinishBlocks, Stamp, At
   <4>2. my[t].item <= k /\ Own(t) /\ Own(t)'
     BY <3>0, <3>4, <3>9, OwnOrHelped DEF Own, Owning, Helping
   <4>3. CASE my[t].item = k
    <5>1. my'[t].pc = "gather" /\ my'[t].j <= x BY <1>0, <3>0, <3>1, <4>1, <4>3
    <5> QED BY <3>4, <4>1, <4>3, <5>1 DEF WillScan, InScan, SameItems, InBlock, At
   <4>4. CASE my[t].item < k BY <3>4, <4>1, <4>2, <4>4 DEF WillScan, SameItems, InBlock, At
   <4> QED BY <1>0, <4>2, <4>3, <4>4
  <3>10. CASE my[t].pc = "help"
   <4>1. my'[t].pc = "help_start"
     BY <1>7, <3>1, <3>10, BlockSteps, Zenon DEF OwnProgress, FinishBlocks, Stamp, At
   <4> QED BY <3>4, <4>1 DEF WillScan
  <3>11. CASE my[t].pc \in {"block_progress", "block_stamp", "stamp"}
   <4>1. /\ SameItems(t)
         /\ \/ my[t].pc = "block_progress" /\ my'[t].pc = "block_stamp"
            \/ /\ my[t].pc = "block_stamp" /\ my'[t].pc = "gather"
               /\ my'[t].j = Begin(my[t].owner, my[t].item)
            \/ /\ \/ my[t].pc = "block_progress" /\ my[t].item <= Entry(t).last_done
                  \/ my[t].pc = "block_stamp" /\ Stamped(t)
                  \/ my[t].pc = "stamp"
               /\ my'[t].pc = IF my[t].todo = {} THEN "blocks_done" ELSE "block"
     BY <1>7, <3>11, BlockSteps, Zenon DEF OwnProgress, FinishBlocks, At
   <4>2. k \in my[t].todo \/ (k = my[t].item /\ my[t].pc # "stamp") BY <3>0, <3>11
   <4>3. ~Own(t) /\ ~Own(t)' BY <3>0, <3>4, <3>11, OwnOrHelped DEF Own, Helping
   <4>4. CASE my'[t].pc = "block_stamp" BY <3>4, <4>1, <4>2, <4>4 DEF WillScan, SameItems, Helping
   <4>5. CASE my'[t].pc = "gather" /\ my'[t].j = Begin(my[t].owner, my[t].item)
    <5>1. k = my[t].item => my'[t].j <= x BY <1>0, <3>0, <4>5
    <5> QED BY <3>4, <4>1, <4>2, <4>3, <4>5, <5>1 DEF WillScan, InScan, SameItems, InBlock, At
   <4>6. CASE /\ \/ my[t].pc = "block_progress" /\ my[t].item <= Entry(t).last_done
                 \/ my[t].pc = "block_stamp" /\ Stamped(t)
                 \/ my[t].pc = "stamp"
              /\ my'[t].pc = IF my[t].todo = {} THEN "blocks_done" ELSE "block"
    <5>1. k \in my[t].todo BY <1>0, <3>1, <4>2, <4>6
    <5>2. my'[t].pc = "block" BY <4>6, <5>1
    <5> QED BY <3>4, <4>1, <5>1, <5>2 DEF WillScan, SameItems, Helping
   <4> QED BY <4>1, <4>4, <4>5, <4>6
  <3> QED BY <2>0, <3>2, <3>5, <3>6, <3>7, <3>8, <3>9, <3>10, <3>11 DEF Owning, Helping
 <2> QED BY <2>1, <2>2
<1>8. CASE Advance(t)
 <2>1. my[t].pc = "advance" /\ my[t].turn = NumT BY <1>8, PcAfter DEF Control, Rounds, At
 <2> QED BY <1>0, <2>1 DEF WillScan, Deciding, Linking, InCodes, InBlock, Finding, Helping, At
<1> QED BY <1>1, <1>2, <1>3, <1>4, <1>6, <1>7, <1>8 DEF Step

LEMMA StillScanning ==
  ASSUME NEW t \in Thread, Moves(t), NEW s \in Thread, s # t, NEW o, NEW k, NEW x,
         WillScan(s, o, k, x)
  PROVE  WillScan(s, o, k, x)'
<1>1. my'[s] = my[s] BY DEF Moves
<1> QED BY <1>1 DEF WillScan, InScan, Own, At

LEMMA NoneUnscannedNext ==
  ASSUME Shape, Control, PlansInv, LevelsInv, MarksInv, NoneUnscanned, NEW t \in Thread, Step(t)
  PROVE  NoneUnscanned'
<1>0. Moves(t) /\ Views BY ControlNext DEF LevelsInv
<1> SUFFICES ASSUME NEW d \in Node, Decided(d)', Decision(d)'.direction = "bottom_up",
                    NEW o \in Thread, NEW k \in 1 .. Owned(o),
                    NEW x \in Begin(o, k) .. End(o, k) - 1,
                    Delta[x] = d + 1, ~Discovered(x)'
             PROVE  /\ ~Done(d, o)' /\ Last(d, o)' < k /\ helped_at'[o][k] # d
                    /\ \A s \in Thread : Depth(s)' = d => WillScan(s, o, k, x)'
  BY DEF NoneUnscanned, Done, Last
<1>1. x \in Vertex /\ d \in Nat /\ k \in Nat /\ k >= 1
 <2>1. Begin(o, k) \in Nat /\ End(o, k) \in Nat /\ End(o, k) <= N BY BlockRange
 <2> QED BY <2>1, OwnedFacts, DirAssumption DEF Node
<1>2. ~Discovered(x) BY <1>1, Found DEF LevelsInv
<1>3. CASE ~Decided(d)
 <2>1. ~Done(d, o)' /\ Last(d, o)' < k
  <3>1. ~Done(d, o) /\ Last(d, o) = 0 BY <1>3 DEF MarksInv, Untouched, Done, Last
  <3>2. Done(d, o)' = Done(d, o) /\ Last(d, o)' = Last(d, o)
    BY <1>3, MarksFrom, Zenon DEF MarkedHere
  <3> QED BY <1>1, <3>1, <3>2
 <2>2. helped_at'[o][k] # d BY <1>3, StampsFrom DEF MarksInv, Untouched
 <2>3. Claim(t) /\ d = Depth(t) BY <1>3, NewDecision
 <2>4. ASSUME NEW s \in Thread, Depth(s)' = d PROVE WillScan(s, o, k, x)'
  <3>1. CASE s # t
   <4>1. my'[s] = my[s] /\ Depth(s) = d BY <1>0, <2>4, <3>1 DEF Moves, Depth
   <4>2. my[s].pc \in Deciding BY <1>3, <4>1, BeforeDecision
   <4> QED BY <4>1, <4>2 DEF WillScan
  <3>2. CASE s = t
   <4>1. my'[t].pc \in Deciding \cup {"next"} BY <2>3, BottomUpBegins DEF Plan
   <4> QED BY <3>2, <4>1 DEF WillScan, Linking
  <3> QED BY <3>1, <3>2
 <2> QED BY <2>1, <2>2, <2>4
<1>4. CASE Decided(d)
 <2>1. Decision(d).direction = "bottom_up" BY <1>4, DecisionsStay
 <2>2. /\ ~Done(d, o) /\ Last(d, o) < k /\ helped_at[o][k] # d
       /\ \A s \in Thread : Depth(s) = d => WillScan(s, o, k, x)
   BY <1>2, <1>4, <2>1 DEF NoneUnscanned, Done, Last
 <2>3. ASSUME d = Depth(t), o = my[t].owner, my[t].pc \in {"own_progress", "blocks_done", "stamp"}
       PROVE  \/ my[t].pc = "own_progress" /\ my[t].item < k
              \/ my[t].pc = "stamp" /\ k \in my[t].todo
  <3>1. Order(t, o) = my[t].turn /\ my[t].turn \in Nat BY <2>3, AtTurn DEF Deciding
  <3> QED
    BY <2>2, <2>3, <3>1 DEF WillScan, Deciding, Linking, InCodes, InBlock, Finding, Helping, At
 <2>4. ~Done(d, o)' BY <2>1, <2>2, <2>3, MarksFrom, Zenon DEF MarkedHere
 <2>5. Last(d, o)' < k
  <3>1. \/ Last(d, o)' = Last(d, o)
        \/ Last(d, o)' = my[t].item /\ my[t].pc = "own_progress" /\ d = Depth(t) /\ o = my[t].owner
    BY <2>1, MarksFrom, Zenon DEF MarkedHere
  <3> QED BY <2>2, <2>3, <3>1
 <2>6. helped_at'[o][k] # d
  <3> SUFFICES ASSUME helped_at'[o][k] = d PROVE FALSE OBVIOUS
  <3>1. my[t].pc = "stamp" /\ o = my[t].owner /\ k = my[t].item /\ d = Depth(t) BY <2>2, StampsFrom
  <3>2. ~Own(t) BY <3>1, OwnOrHelped DEF Helping
  <3>3. my[t].item \notin my[t].todo BY <1>0, <3>1, <3>2 DEF Views, BlockTaken
  <3> QED BY <2>3, <3>1, <3>3
 <2>7. ASSUME NEW s \in Thread, Depth(s)' = d PROVE WillScan(s, o, k, x)'
  <3>1. CASE s # t BY <1>0, <2>2, <2>7, <3>1, StillScanning DEF Moves, Depth
  <3>2. CASE s = t /\ Depth(t) = d BY <1>1, <1>4, <2>1, <2>2, <3>2, KeepsScanning
  <3>3. CASE s = t /\ Depth(t) # d
   <4>1. Advance(t) BY <2>7, <3>3, StaysInLevel
   <4>2. my'[t].pc = "plan" BY <1>1, <2>7, <3>3, <4>1, PcAfter DEF Depth, None
   <4> QED BY <3>3, <4>2 DEF WillScan, Deciding
  <3> QED BY <3>1, <3>2, <3>3
 <2> QED BY <2>4, <2>5, <2>6, <2>7
<1> QED BY <1>3, <1>4

-----------------------------------------------------------------------------
(***************************************************************************)
(* The invariant is inductive.                                             *)
(***************************************************************************)
LEMMA LevelsNext ==
  ASSUME IInv, NEW t \in Thread, Step(t)
  PROVE  LevelsInv'
<1>1. /\ Shape /\ Control /\ PlansInv /\ DistSound /\ BucketsSound /\ LevelReady /\ DecidedReady
      /\ FoundDecided /\ PushedKept /\ PushedFirst /\ Views /\ VisCertificate /\ ProgressCertificate
      /\ NoneLost /\ NoneUnscanned /\ CodesInv
  BY DEF IInv, PlanInv, DataInv, LevelsInv, MarksInv
<1>2. DistSound' /\ BucketsSound' BY <1>1, DistSoundNext, BucketsSoundNext
<1>3. LevelReady' /\ DecidedReady' /\ FoundDecided'
  BY <1>1, LevelReadyNext, DecidedReadyNext, FoundDecidedNext
<1>4. PushedKept' /\ PushedFirst' BY <1>1, PushedKeptNext, PushedFirstNext
<1>5. \A s \in Thread : VertexView(s)' /\ EntriesView(s)' /\ CandidatesView(s)' /\ BlockTaken(s)'
  BY <1>1, VertexViewNext, EntriesViewNext, CandidatesViewNext, BlockTakenNext
<1>6. Views' BY <1>5 DEF Views
<1> QED BY <1>2, <1>3, <1>4, <1>6 DEF LevelsInv

LEMMA MarksNext ==
  ASSUME IInv, NEW t \in Thread, Step(t)
  PROVE  MarksInv'
<1>1. /\ Shape /\ Control /\ PlansInv /\ LevelsInv /\ MarksInv BY DEF IInv, PlanInv, DataInv
<1>2. /\ DistSound /\ LevelReady /\ DecidedReady /\ PushedFirst /\ Views
      /\ Untouched /\ LastDone /\ VisCertificate /\ ProgressCertificate
      /\ NoneLost /\ DoneLinked /\ LinkedInTime
  BY <1>1 DEF LevelsInv, MarksInv
<1>3. Untouched' /\ LastDone' /\ VisCertificate' /\ ProgressCertificate'
  BY <1>1, <1>2, UntouchedNext, LastDoneNext, VisCertificateNext, ProgressCertificateNext
<1>4. NoneLost' /\ DoneLinked' /\ LinkedInTime'
  BY <1>1, <1>2, NoneLostNext, DoneLinkedNext, LinkedInTimeNext
<1> QED BY <1>3, <1>4 DEF MarksInv

LEMMA CodesNext ==
  ASSUME IInv, NEW t \in Thread, Step(t)
  PROVE  CodesInv'
<1>1. /\ Shape /\ Control /\ PlansInv /\ LevelsInv /\ MarksInv /\ CodesInv
      /\ CodesGrow /\ CodesSound /\ CodesPassed
  BY DEF IInv, PlanInv, DataInv, CodesInv
<1>2. CodesGrow' /\ CodesSound' /\ CodesPassed' /\ NoneUncoded'
  BY <1>1, CodesGrowNext, CodesSoundNext, CodesPassedNext, NoneUncodedNext
<1> QED BY <1>2 DEF CodesInv

LEMMA StepInv ==
  ASSUME IInv, NEW t \in Thread, Step(t)
  PROVE  IInv'
<1>1. /\ Shape /\ Control /\ PlansInv /\ LevelsInv /\ MarksInv /\ NoneUnscanned /\ PlanInv
  BY DEF IInv, PlanInv, DataInv
<1>2. PlanInv'
 <2>1. [Next]_vars BY DEF Next
 <2> QED BY <1>1, <2>1, PlanInvNext
<1>3. LevelsInv' /\ MarksInv' /\ CodesInv' BY LevelsNext, MarksNext, CodesNext
<1>4. NoneUnscanned' BY <1>1, NoneUnscannedNext
<1> QED BY <1>2, <1>3, <1>4 DEF IInv, DataInv

-----------------------------------------------------------------------------
(***************************************************************************)
(* The invariant holds at the start of every search.                       *)
(***************************************************************************)
LEMMA FirstData == Init => DataInv
<1> SUFFICES ASSUME Init PROVE DataInv OBVIOUS
<1>1. /\ \A d \in Node : ~Decided(d)
      /\ \A d \in Node, o \in Thread : Bucket(d, o) = IF d = 0 /\ o = 0 THEN <<Root>> ELSE <<>>
      /\ \A d \in Node, o \in Thread :
           ~Done(d, o) /\ Last(d, o) = 0 /\ ~CodesDone(d, o) /\ CodesLast(d, o) = 0
 <2>1. \A d \in Node : ~Decided(d) BY FirstNodes DEF Decided
 <2>2. \A d \in Node, o \in Thread : Bucket(d, o) = IF d = 0 /\ o = 0 THEN <<Root>> ELSE <<>>
   BY FirstNodes
 <2>3. \A d \in Node, o \in Thread :
         ~Done(d, o) /\ Last(d, o) = 0 /\ ~CodesDone(d, o) /\ CodesLast(d, o) = 0
  <3> TAKE d \in Node, o \in Thread
  <3>1. node[d].owners[o] = NewOwner(Bucket(d, o)) BY FirstNodes
  <3> QED BY <3>1 DEF NewOwner, Done, Last, CodesDone, CodesLast
 <2> QED BY <2>1, <2>2, <2>3
<1>2. \A t \in Thread : my[t].pc = "plan" /\ Depth(t) = 0 /\ my[t].turn = 0 /\ my[t].cand = <<>>
  BY FirstThreads, Zenon DEF Depth
<1>3. /\ Root \in Vertex /\ dist[Root] = 0 /\ Delta[Root] = 0
      /\ \A v \in Vertex : v # Root => dist[v] = Unset /\ Delta[v] # 0
      /\ 0 \in Node /\ 0 \in Thread /\ Unset = -1
  BY ThreadTypes, GraphAssumption, DistanceAssumption, DirAssumption DEF Init, FreshDist, Node,
     Unset
<1>4. /\ \A v \in Vertex : dist8[v] = 0 /\ ~vis[v]
      /\ \A o \in Thread : \A k \in 1 .. Owned(o) : helped_at[o][k] = None
 <2>1. \A o \in Thread, k \in 1 .. Owned(0) : helped_at[o][k] = None BY DEF Init, FreshStamps
 <2>2. \A o \in Thread : \A k \in 1 .. Owned(o) : k \in 1 .. Owned(0) BY OwnedFacts, <1>3
 <2>3. \A v \in Vertex : dist8[v] = 0 /\ ~vis[v] BY DEF Init, FreshCodes, FreshVis
 <2> QED BY <2>1, <2>2, <2>3
<1>5. /\ 1 \in Places(0, 0) /\ Bucket(0, 0)[1] = Root /\ EntryOf(0, 0, Root)
      /\ \A d \in Node, o \in Thread : \A i \in Places(d, o) : d = 0 /\ Bucket(d, o)[i] = Root
 <2>1. Bucket(0, 0) = <<Root>> BY <1>1, <1>3
 <2>2. \A d \in Node, o \in Thread : \A i \in Places(d, o) : d = 0 /\ o = 0 BY <1>1 DEF Places
 <2>3. 1 \in Places(0, 0) /\ Bucket(0, 0)[1] = Root /\ \A i \in Places(0, 0) : i = 1
  <3>1. Places(0, 0) = 1 .. Len(Bucket(0, 0)) BY DEF Places
  <3>2. Len(Bucket(0, 0)) = 1 /\ Bucket(0, 0)[1] = Root BY <2>1
  <3> QED BY <3>1, <3>2
 <2> QED BY <2>2, <2>3 DEF EntryOf
<1>6. LevelsInv
 <2>1. DistSound BY <1>3 DEF DistSound
 <2>2. BucketsSound BY <1>3, <1>5 DEF BucketsSound, Places, Bucket
 <2>3. LevelReady
  <3>1. \A v \in Vertex : Delta[v] \in 0 .. 0 => Discovered(v) BY <1>3 DEF Discovered
  <3> QED BY <1>2, <3>1 DEF LevelReady
 <2>4. DecidedReady /\ FoundDecided BY <1>1, <1>3 DEF DecidedReady, FoundDecided, Discovered
 <2>5. PushedKept BY <1>3, <1>5 DEF PushedKept, Discovered
 <2>6. PushedFirst BY <1>2 DEF PushedFirst, At
 <2>7. Views
  <3> SUFFICES ASSUME NEW t \in Thread
               PROVE  VertexView(t) /\ EntriesView(t) /\ CandidatesView(t) /\ BlockTaken(t)
    BY DEF Views
  <3>1. VertexView(t) /\ EntriesView(t) /\ BlockTaken(t)
    BY <1>2 DEF VertexView, EntriesView, BlockTaken, AtBucket, AtItem, InBlock, Finding
  <3>2. CandidatesView(t) BY <1>2 DEF CandidatesView, At, Finding
  <3> QED BY <3>1, <3>2
 <2> QED BY <2>1, <2>2, <2>3, <2>4, <2>5, <2>6, <2>7 DEF LevelsInv
<1>7. MarksInv
 <2>1. Untouched
   BY <1>1, <1>4, DirAssumption DEF Untouched, Done, Last, CodesDone, CodesLast, None, Node
 <2>2. LastDone /\ VisCertificate /\ ProgressCertificate
   BY <1>1, <1>4 DEF LastDone, VisCertificate, ProgressCertificate
 <2>3. DoneLinked BY <1>1 DEF DoneLinked, Done
 <2>4. NoneLost
  <3> SUFFICES ASSUME NEW d \in Node, NEW v \in Vertex, dist[v] = d
               PROVE  \E o \in Thread : \E i \in Places(d, o) :
                        /\ Bucket(d, o)[i] = v /\ ~Done(d, o)
                        /\ \A t \in Thread : Depth(t) = d => WillTake(t, o, i)
    BY DEF NoneLost, Done
  <3>1. d = 0 /\ v = Root BY <1>3, DirAssumption DEF Node
  <3>2. \A t \in Thread : WillTake(t, 0, 1) BY <1>2 DEF WillTake, Deciding
  <3> QED BY <1>1, <1>3, <1>5, <3>1, <3>2
 <2>5. LinkedInTime
  <3> SUFFICES ASSUME NEW v \in Vertex, Discovered(v)
               PROVE  \E o \in Thread :
                        /\ EntryOf(dist[v], o, v)
                        /\ \A t \in Thread : Depth(t) = dist[v] => my[t].turn <= Order(t, o)
    BY DEF LinkedInTime
  <3>1. v = Root BY <1>3 DEF Discovered
  <3>2. \A t \in Thread : my[t].turn <= Order(t, 0) BY <1>2, <1>3, Orders
  <3> QED BY <1>3, <1>5, <3>1, <3>2
 <2> QED BY <2>1, <2>2, <2>3, <2>4, <2>5 DEF MarksInv
<1>8. CodesInv
 <2>1. \A d \in Node : ~Coded(d) /\ ~PassesCode(d) BY <1>1 DEF Coded, PassesCode
 <2>2. CodesGrow /\ CodesSound BY <1>1, <1>4 DEF CodesGrow, CodesSound
 <2>3. CodesPassed BY <1>2, <2>1, VertexLevel DEF CodesPassed, At
 <2>4. NoneUncoded BY <2>1 DEF NoneUncoded
 <2> QED BY <2>2, <2>3, <2>4 DEF CodesInv
<1>9. NoneUnscanned BY <1>1 DEF NoneUnscanned
<1> QED BY <1>6, <1>7, <1>8, <1>9 DEF DataInv

\* What nothing changes.
LEMMA DataStays ==
  ASSUME DataInv, UNCHANGED vars
  PROVE  DataInv'
<1>1. /\ dist' = dist /\ dist8' = dist8 /\ vis' = vis /\ helped_at' = helped_at
      /\ linked' = linked /\ node' = node /\ my' = my
  BY DEF vars, memory
<1>2. /\ \A d : Decided(d)' = Decided(d) /\ Decision(d)' = Decision(d) /\ Before(d)' = Before(d)
      /\ \A d, o : Bucket(d, o)' = Bucket(d, o) /\ Places(d, o)' = Places(d, o)
      /\ \A d, o, v : EntryOf(d, o, v)' = EntryOf(d, o, v)
      /\ \A v : Discovered(v)' = Discovered(v) /\ Covered(v)' = Covered(v)
      /\ \A t : Depth(t)' = Depth(t) /\ U(t)' = U(t) /\ V(t)' = V(t) /\ C(t)' = C(t)
                /\ Entry(t)' = Entry(t) /\ Own(t)' = Own(t)
      /\ \A t, l : At(t, l)' = At(t, l)
  BY <1>1 DEF Decided, Decision, Before, Bucket, Places, EntryOf, Discovered, Covered, Depth, U, V,
     C, Entry, Curr, Own, At
<1>3. LevelsInv'
 <2>1. (DistSound /\ BucketsSound /\ LevelReady /\ DecidedReady /\ FoundDecided)'
   BY <1>1 DEF DataInv, LevelsInv, DistSound, BucketsSound, LevelReady, DecidedReady, FoundDecided,
      Decided, Discovered, Depth, At
 <2>2. (PushedKept /\ PushedFirst)'
   BY ZenonT(40), <1>1 DEF DataInv, LevelsInv, PushedKept, PushedFirst, EntryOf, Places, Bucket, Discovered, V,
      C, U, Entry, Curr, Depth, At
 <2>3. Views'
   BY ZenonT(40), <1>1 DEF DataInv, LevelsInv, Views, VertexView, EntriesView, CandidatesView, BlockTaken,
      Covered, Discovered, V, C, U, Own, Entry, Curr, Depth, At
 <2> QED BY <2>1, <2>2, <2>3 DEF LevelsInv
<1>4. MarksInv'
 <2>1. (Untouched /\ LastDone /\ VisCertificate /\ ProgressCertificate /\ DoneLinked)'
   BY <1>1 DEF DataInv, MarksInv, Untouched, LastDone, VisCertificate, ProgressCertificate,
      DoneLinked, Decided, Decision, Covered, Discovered
 <2>2. (NoneLost /\ LinkedInTime)'
   BY SMTT(40), <1>1 DEF DataInv, MarksInv, NoneLost, LinkedInTime, WillTake, EntryOf, Places, Bucket,
      Decided, Decision, Covered, Discovered, Depth, At
 <2> QED BY <2>1, <2>2 DEF MarksInv
<1>5. CodesInv'
 <2>1. (CodesGrow /\ CodesSound /\ CodesPassed)'
   BY ZenonT(40), <1>1 DEF DataInv, CodesInv, CodesGrow, CodesSound, CodesPassed, Coded, PassesCode, Decided,
      Decision, Discovered, C, Depth, At
 <2>2. NoneUncoded'
   BY SMTT(40), <1>1 DEF DataInv, CodesInv, NoneUncoded, WillCode, Coded, Decided, Decision, Before, Places,
      Bucket, Depth, At
 <2> QED BY <2>1, <2>2 DEF CodesInv
<1>6. NoneUnscanned'
  BY <1>1 DEF DataInv, NoneUnscanned, WillScan, InScan, Own, Decided, Decision, Discovered, Depth, At
<1> QED BY <1>3, <1>4, <1>5, <1>6 DEF DataInv

(***************************************************************************)
(* The invariant holds in every step.                                      *)
(***************************************************************************)
LEMMA InvNext == IInv /\ [Next]_vars => IInv'
<1> SUFFICES ASSUME IInv, [Next]_vars PROVE IInv' OBVIOUS
<1>1. ASSUME NEW t \in Thread, Step(t) PROVE IInv' BY <1>1, StepInv
<1>2. CASE SearchAgain
 <2>1. Init'
   BY <1>2 DEF SearchAgain, Init, FreshDist, FreshCodes, FreshVis, FreshStamps, FreshNodes,
      FreshThreads, NewNode, NewOwner
 <2>2. Init' => (Shape /\ Control)' BY FirstShape, PTL
 <2>3. Init' => PlansInv' BY FirstPlans, PTL
 <2>4. Init' => DataInv' BY FirstData, PTL
 <2> QED BY <2>1, <2>2, <2>3, <2>4 DEF IInv, PlanInv
<1>3. CASE UNCHANGED vars BY <1>3, PlanInvNext, DataStays DEF IInv
<1> QED BY <1>1, <1>2, <1>3 DEF Next

(***************************************************************************)
(* The state of the search: what distances, buckets, progress, codes and   *)
(* stamps have to do with the level every thread is in, in every state.    *)
(***************************************************************************)
THEOREM DataCorrect == Spec => []IInv
<1>1. Init => IInv BY FirstShape, FirstPlans, FirstData DEF IInv, PlanInv
<1> QED BY <1>1, InvNext, PTL DEF Spec

(***************************************************************************)
(* The frontier test of scan_block (521-557) is right whenever a thread    *)
(* scans blocks, whatever codes threads of older levels still write into   *)
(* dist8: the vertices that have the code assign_code (811-822) gave to    *)
(* the level are the vertices of the level.                                *)
(***************************************************************************)
THEOREM FrontierTestRight == Spec => []FrontierTestExact
<1>1. IInv => FrontierTestExact
 <2> SUFFICES ASSUME IInv, NEW t \in Thread, my[t].pc \in Scanning
              PROVE  {v \in Vertex : InFrontier(t, v)} = Level(Depth(t))
   BY DEF FrontierTestExact
 <2>1. \A v \in Vertex : InFrontier(t, v) <=> Delta[v] = Depth(t)
   BY FrontierExact DEF IInv, PlanInv, DataInv, LevelsInv
 <2> QED BY <2>1, Zenon DEF Level
<1> QED BY <1>1, DataCorrect, PTL

(***************************************************************************)
(* What lets a block be skipped is true: fetch_own_blocks (593-607) and    *)
(* fetch_other_blocks (613-650) leave out a block that the owner has       *)
(* counted, that is stamped with the level, or whose owner is marked done, *)
(* and none of these has a vertex left for the level to find.              *)
(***************************************************************************)
THEOREM SkippedBlocksComplete == Spec => []BlocksCovered
<1>1. IInv => BlocksCovered
 <2> SUFFICES ASSUME IInv, NEW d \in Node, NEW o \in Thread,
                     Decided(d), Decision(d).direction = "bottom_up",
                     NEW k \in 1 .. Owned(o),
                     Done(d, o) \/ k <= Last(d, o) \/ helped_at[o][k] = d
              PROVE  Complete(d, o, k)
   BY Zenon DEF BlocksCovered, Decided, Decision, Done, Last
 <2> SUFFICES ASSUME NEW x \in Begin(o, k) .. End(o, k) - 1, Delta[x] = d + 1, ~Discovered(x)
              PROVE  FALSE
   BY DEF Complete, Discovered
 <2>1. ~Done(d, o) /\ Last(d, o) < k /\ helped_at[o][k] # d
   BY DEF IInv, DataInv, NoneUnscanned, Done, Last
 <2>2. Last(d, o) \in Nat /\ k \in Nat BY MarkTypes, OwnedFacts DEF IInv, PlanInv
 <2> QED BY <2>1, <2>2
<1> QED BY <1>1, DataCorrect, PTL

-----------------------------------------------------------------------------
(***************************************************************************)
(* The end of a search.  A thread that finds no next node after its turns  *)
(* is at a level without vertices: the owner of a vertex of its level      *)
(* would have had the node linked.                                         *)
(***************************************************************************)
AllFound ==
  (\E t \in Thread : At(t, "returned")) => \A v \in Vertex : Delta[v] # Unset => Discovered(v)

LEMMA LastLevel ==
  ASSUME IInv, NEW t \in Thread, At(t, "advance"), Curr(t).next = None
  PROVE  \A v \in Vertex : Delta[v] # Unset => Discovered(v)
<1>0. Shape /\ Control /\ DistSound /\ LevelReady /\ LinkedInTime
  BY DEF IInv, PlanInv, DataInv, LevelsInv, MarksInv
<1>1. ~At(t, "returned") /\ my[t].turn = NumT BY <1>0 DEF At, Control, Rounds
<1>2. /\ Depth(t) \in Node /\ Depth(t) \in Nat /\ linked \in Nat
      /\ ~(Depth(t) + 1 < linked)
 <2>1. /\ Depth(t) \in Node
       /\ Curr(t).next = IF Depth(t) + 1 < linked THEN Depth(t) + 1 ELSE None
   BY <1>0, <1>1, Here
 <2>2. linked \in Nat BY <1>0, DirAssumption DEF Shape
 <2> QED BY <2>1, <2>2 DEF Node, None
<1>3. Level(Depth(t)) = {}
 <2> SUFFICES ASSUME NEW v \in Vertex, Delta[v] = Depth(t) PROVE FALSE BY DEF Level
 <2>1. Discovered(v) /\ dist[v] = Depth(t) BY <1>0, <1>1, <1>2, LevelFound
 <2>2. PICK o \in Thread : \A s \in Thread : Depth(s) = dist[v] => my[s].turn <= Order(s, o)
   BY <1>0, <1>2, <2>1 DEF LinkedInTime
 <2>3. my[t].turn <= Order(t, o) BY <2>1, <2>2
 <2> QED BY <1>1, <2>3, Orders
<1>4. \A v \in Vertex : Delta[v] < Depth(t) BY <1>2, <1>3, NothingBeyond
<1>5. \A v \in Vertex : Delta[v] # Unset => Delta[v] \in 0 .. Depth(t)
  BY <1>2, <1>4, GraphTypes DEF Unset
<1> QED BY <1>0, <1>1, <1>5, LevelFound

LEMMA Returning ==
  ASSUME Shape, Control, NEW t \in Thread, Step(t)
  PROVE  /\ my[t].pc # "returned"
         /\ my'[t].pc = "returned" => Advance(t) /\ my[t].pc = "advance"
<1>1. \/ Plan(t) \/ TestNext(t) \/ AddNode(t) \/ TopDown(t) \/ Codes(t) \/ ScanBlock(t)
      \/ BottomUp(t) \/ Advance(t)
  BY DEF Step
<1> QED
  BY <1>1, PcAfter DEF Deciding, Linking, InTopDown, AtBucket, AtItem, InCodes, InBlock, Finding,
     Owning, Helping

LEMMA AllFoundNext == IInv /\ AllFound /\ [Next]_vars => AllFound'
<1> SUFFICES ASSUME IInv, AllFound, [Next]_vars, NEW t \in Thread, At(t, "returned")',
                    NEW v \in Vertex, Delta[v] # Unset
             PROVE  Discovered(v)'
  BY DEF AllFound
<1>0. /\ Shape /\ Control /\ DistSound /\ Views
      /\ Discovered(v) <=> dist[v] # Unset
  BY DEF IInv, PlanInv, DataInv, LevelsInv, Discovered
<1>1. ASSUME NEW s \in Thread, Step(s) PROVE Discovered(v)'
 <2>1. Discovered(v)
  <3>1. CASE At(t, "returned") BY <3>1 DEF AllFound
  <3>2. CASE ~At(t, "returned")
   <4>1. s = t
    <5>1. Moves(s) BY <1>0, <1>1, ControlNext
    <5> QED BY <3>2, <5>1 DEF Moves, At
   <4>2. my[t].pc = "advance" /\ Advance(t) BY <1>0, <1>1, <4>1, Returning DEF At
   <4>3. Curr(t).next = None BY <1>0, <4>2, AdvanceMoves, Zenon DEF At
   <4> QED BY <4>2, <4>3, LastLevel DEF At
  <3> QED BY <3>1, <3>2
 <2> QED BY <1>0, <1>1, <2>1, Found
<1>2. CASE SearchAgain BY <1>2 DEF SearchAgain, FreshThreads, At
<1>3. CASE UNCHANGED vars
 <2>1. my' = my /\ dist' = dist BY <1>3 DEF vars, memory
 <2>2. At(t, "returned") BY <2>1 DEF At
 <2> QED BY <2>1, <2>2 DEF AllFound, Discovered
<1> QED BY <1>1, <1>2, <1>3 DEF Next

(***************************************************************************)
(* When the first call of wf_bfs (851-868) returns, the distances are      *)
(* final, whatever directions the levels took and wherever the other       *)
(* threads are: what they still write is there already.                    *)
(***************************************************************************)
THEOREM FirstReturnRight == Spec => []FirstReturnExact
<1>1. Init => AllFound
 <2> SUFFICES ASSUME Init, NEW t \in Thread PROVE ~At(t, "returned") BY DEF AllFound
 <2> QED BY FirstThreads, Zenon DEF At
<1>2. IInv /\ AllFound => FirstReturnExact
 <2> SUFFICES ASSUME IInv, AllFound, \E t \in Thread : At(t, "returned") PROVE dist = Delta
   BY DEF FirstReturnExact
 <2>1. DistSound /\ dist \in [Vertex -> Int] /\ Delta \in [Vertex -> Unset .. MaxDelta]
   BY DistanceAssumption DEF IInv, PlanInv, DataInv, LevelsInv, Shape
 <2>2. \A v \in Vertex : dist[v] = Delta[v] BY <2>1 DEF AllFound, DistSound, Discovered
 <2> QED BY <2>1, <2>2
<1> QED BY <1>1, <1>2, AllFoundNext, DataCorrect, PTL DEF Spec

-----------------------------------------------------------------------------
(***************************************************************************)
(* The search implements LevelOrderBfs.                                    *)
(***************************************************************************)
Finished == {t \in Thread : At(t, "returned")}

LEMMA RefineGraph ==
  /\ LevelOrder!Unset = Unset
  /\ \A u : LevelOrder!Neighbors(u) = Neighbors(u)
  BY DEF LevelOrder!Unset, Unset, LevelOrder!Neighbors, Neighbors

\* A distance that is written is that of a vertex one step further than one of the
\* level the thread is in.
LEMMA RefineDiscover ==
  ASSUME IInv, NEW t \in Thread, Step(t), UNCHANGED Finished,
         NEW v \in Vertex, dist'[v] # dist[v]
  PROVE  \E u \in Vertex : LevelOrder!Discover(u, v)
<1>0. /\ Shape /\ Control /\ DistSound /\ LevelReady /\ Views /\ Shape'
      /\ dist \in [Vertex -> Int] /\ dist' \in [Vertex -> Int]
 <2>1. IInv' BY StepInv
 <2> QED BY <2>1 DEF IInv, PlanInv, DataInv, LevelsInv, Shape
<1>1. /\ Depth(t) \in Nat /\ ~At(t, "returned") /\ dist[v] = Unset
      /\ dist'[v] = Depth(t) + 1 /\ Delta[v] = Depth(t) + 1
  BY <1>0, DistSteps, Returning DEF Node, Discovered, At
<1>2. \A x \in Vertex : x # v => dist'[x] = dist[x]
 <2>1. ~(SwapDist(t) /\ MarkFound(t)) BY DEF SwapDist, MarkFound, At
 <2> QED BY <1>0, <2>1, DistSteps
<1>3. PICK u \in Vertex : Delta[u] = Depth(t) /\ v \in Neighbors(u) BY <1>1, OneCloser
<1>4. dist[u] = Depth(t) /\ dist[u] # Unset BY <1>0, <1>1, <1>3, LevelFound DEF Unset
<1>5. dist' = [dist EXCEPT ![v] = dist[u] + 1] BY <1>0, <1>1, <1>2, <1>4
<1>6. ASSUME NEW x \in Vertex, dist[x] \in 0 .. dist[u] - 1 PROVE LevelOrder!Covered(x)
 <2>1. Delta[x] = dist[x] /\ Delta[x] \in Nat /\ Delta[x] + 1 <= Depth(t)
   BY <1>0, <1>1, <1>4, <1>6 DEF DistSound, Unset
 <2>2. \A w \in Neighbors(x) : w \in Vertex /\ Delta[w] \in 0 .. Delta[x] + 1 BY <2>1, OneFurther
 <2>3. \A w \in Neighbors(x) : Delta[w] \in 0 .. Depth(t) BY <1>1, <2>1, <2>2
 <2>4. \A w \in Neighbors(x) : dist[w] # Unset BY <1>0, <1>1, <2>2, <2>3, LevelFound DEF Discovered
 <2> QED BY <2>4, RefineGraph DEF LevelOrder!Covered
<1> QED BY <1>1, <1>3, <1>4, <1>5, <1>6, RefineGraph, Zenon DEF LevelOrder!Discover, Finished

LEMMA RefineStep ==
  ASSUME IInv, NEW t \in Thread, Step(t)
  PROVE  LevelOrder!Next \/ UNCHANGED <<dist, Finished>>
<1>0. /\ Shape /\ Control /\ DistSound /\ Views
      /\ dist \in [Vertex -> Int] /\ dist' \in [Vertex -> Int]
 <2>1. IInv' BY StepInv
 <2> QED BY <2>1 DEF IInv, PlanInv, DataInv, LevelsInv, Shape
<1>1. /\ ~At(t, "returned")
      /\ \A s \in Thread : s # t => At(s, "returned")' = At(s, "returned")
 <2>1. Moves(t) BY <1>0, ControlNext
 <2> QED BY <1>0, <2>1, Returning DEF Moves, At
<1>2. CASE ~At(t, "returned")'
 <2>1. UNCHANGED Finished BY <1>1, <1>2 DEF Finished
 <2>2. CASE \E v \in Vertex : dist'[v] # dist[v] BY <2>1, <2>2, RefineDiscover DEF LevelOrder!Next
 <2>3. CASE \A v \in Vertex : dist'[v] = dist[v] BY <1>0, <2>1, <2>3
 <2> QED BY <2>2, <2>3
<1>3. CASE At(t, "returned")'
 <2>1. Advance(t) /\ my[t].pc = "advance" BY <1>0, <1>3, Returning DEF At
 <2>2. Curr(t).next = None /\ dist' = dist
  <3>1. my'[t].pc = IF Curr(t).next = None THEN "returned" ELSE "plan"
    BY <1>0, <2>1, AdvanceMoves, Zenon
  <3>2. dist' = dist BY <2>1 DEF Advance, memory
  <3> QED BY <1>3, <3>1, <3>2 DEF At
 <2>3. \A v \in Vertex : Delta[v] # Unset => dist[v] # Unset
   BY <2>1, <2>2, LastLevel DEF At, Discovered
 <2>4. ASSUME NEW u \in Vertex, dist[u] # Unset PROVE LevelOrder!Covered(u)
  <3>1. Delta[u] \in Nat BY <1>0, <2>4, GraphTypes DEF DistSound, Unset
  <3>2. \A w \in Neighbors(u) : w \in Vertex /\ Delta[w] # Unset BY <3>1, OneFurther DEF Unset
  <3> QED BY <2>3, <3>2, RefineGraph DEF LevelOrder!Covered
 <2>5. Finished' = Finished \cup {t} /\ t \notin Finished BY <1>1, <1>3 DEF Finished
 <2> QED BY <2>2, <2>4, <2>5, RefineGraph DEF LevelOrder!Next, LevelOrder!Finish, Finished
<1> QED BY <1>2, <1>3

LEMMA RefineNext ==
  ASSUME IInv, [Next]_vars
  PROVE  [LevelOrder!Next]_(LevelOrder!vars)
<1> SUFFICES LevelOrder!Next \/ UNCHANGED <<dist, Finished>> BY DEF LevelOrder!vars, Finished
<1>1. ASSUME NEW t \in Thread, Step(t) PROVE LevelOrder!Next \/ UNCHANGED <<dist, Finished>>
  BY <1>1, RefineStep
<1>2. CASE SearchAgain
 <2>1. Finished = Thread BY <1>2 DEF SearchAgain, Finished
 <2>2. Finished' = {} BY <1>2 DEF SearchAgain, FreshThreads, Finished, At
 <2> QED
   BY <1>2, <2>1, <2>2, RefineGraph DEF SearchAgain, FreshDist, LevelOrder!Next,
      LevelOrder!StartOver, Finished
<1>3. CASE UNCHANGED vars BY <1>3 DEF vars, memory, Finished, At
<1> QED BY <1>1, <1>2, <1>3 DEF Next

(***************************************************************************)
(* The direction-optimizing search implements LevelOrderBfs, from search   *)
(* to search, whatever directions its levels take and however its threads  *)
(* are spread over the levels: top-down and bottom-up steps discover       *)
(* vertices in the order of the levels, each once, and no call of wf_bfs   *)
(* returns while a vertex is still to be found.                            *)
(***************************************************************************)
THEOREM LevelOrderKept == Spec => ImplementsLevelOrder
<1>1. Init => LevelOrder!Init
 <2> SUFFICES ASSUME Init PROVE LevelOrder!Init OBVIOUS
 <2>1. Finished = {} BY FirstThreads, Zenon DEF Finished, At
 <2> QED BY <2>1, RefineGraph DEF Init, FreshDist, LevelOrder!Init, Finished
<1>2. IInv /\ [Next]_vars => [LevelOrder!Next]_(LevelOrder!vars) BY RefineNext
<1> QED BY <1>1, <1>2, DataCorrect, PTL DEF Spec, ImplementsLevelOrder, LevelOrder!Spec

=============================================================================
