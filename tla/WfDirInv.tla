------------------------------ MODULE WfDirInv ------------------------------
(***************************************************************************)
(* The inductive invariant of WfDir: where a thread can be, what the plans *)
(* of the levels have to do with each other, and what a thread that has    *)
(* left something out relies on.                                           *)
(***************************************************************************)
EXTENDS WfDir

(***************************************************************************)
(* The labels, by the part of a level they belong to.                      *)
(***************************************************************************)
Linking == {"next", "link"}
AtItem == {"du", "neighbor", "push", "swap", "vis"}
AtBucket == AtItem \cup {"start", "entry", "progress", "finish"}
InTopDown == AtBucket \cup {"done", "size", "load"}
InCodes == {"codes", "codes_size", "codes_start", "code", "codes_progress", "codes_finish"}
Finding == {"found", "next_code", "mark"}
InBlock == {"gather", "test"} \cup Finding
Owning == {"own", "own_stamp", "own_progress"}
Helping == {"help", "help_start", "block", "block_progress", "block_stamp", "stamp"}
InBottomUp == InBlock \cup Owning \cup Helping \cup {"blocks_done"}

TopDownLevel(t) == my[t].plan.direction = "top_down"

\* the owner a thread is at in its k-th turn
Turn(t, k) == IF t + k < NumT THEN t + k ELSE t + k - NumT
Order(t, o) == IF o >= t THEN o - t ELSE o + NumT - t

-----------------------------------------------------------------------------
(***************************************************************************)
(* The values of the variables.  That distances are bounded follows from   *)
(* what they mean, see below.                                              *)
(***************************************************************************)
ThreadShape ==
  [pc : Labels, curr : Node \cup {None}, plan : PlanType,
   previous : {"top_down", "bottom_up"}, owner : Thread, turn : 0 .. NumT,
   next_is_null : BOOLEAN, sz : Nat, todo : SUBSET Nat, item : Nat,
   du : Int, j : Nat, cand : Seq(Vertex)]

NodeShape ==
  [next : Node \cup {None}, plan_owner : Thread \cup {None}, owners : [Thread -> OwnerType]]

Shape ==
  /\ dist \in [Vertex -> Int]
  /\ dist8 \in [Vertex -> 0 .. MaxCode]
  /\ vis \in [Vertex -> BOOLEAN]
  /\ helped_at \in [Thread -> [1 .. Owned(0) -> Node \cup {None}]]
  /\ linked \in 1 .. MaxNode + 1
  /\ node \in [Node -> NodeShape]
  /\ my \in [Thread -> ThreadShape]

-----------------------------------------------------------------------------
(***************************************************************************)
(* The list has one node per level, in order, and a thread is at a node    *)
(* of the list.                                                            *)
(***************************************************************************)
OneList ==
  \A d \in Node : node[d].next = IF d + 1 < linked THEN d + 1 ELSE None

AtNode(t) ==
  IF At(t, "returned") THEN Depth(t) = None ELSE Depth(t) \in 0 .. linked - 1

\* past the point where a thread of the level needs the next node
NextKnown(t) ==
  /\ my[t].pc \in AtBucket \cup {"load"} \cup InCodes \cup InBottomUp => Depth(t) + 1 < linked
  /\ ~At(t, "returned") /\ ~my[t].next_is_null => Depth(t) + 1 < linked
  /\ At(t, "advance") /\ ~TopDownLevel(t) => Depth(t) + 1 < linked

Directed(t) ==
  /\ my[t].pc \in InTopDown => TopDownLevel(t)
  /\ my[t].pc \in InCodes \cup InBottomUp => ~TopDownLevel(t)
  /\ my[t].pc \in InCodes => my[t].previous = "top_down" /\ my[t].plan.code > 0

Rounds(t) ==
  /\ my[t].pc \in Deciding \cup Owning => my[t].turn = 0
  /\ my[t].pc \in Linking /\ ~TopDownLevel(t) => my[t].turn = 0
  /\ At(t, "advance") => my[t].turn = NumT
  /\ my[t].pc \notin Deciding \cup {"advance", "returned"} =>
       my[t].turn < NumT /\ my[t].owner = Turn(t, my[t].turn)
  /\ my[t].pc \in Helping => my[t].turn > 0

-----------------------------------------------------------------------------
(***************************************************************************)
(* Where a thread is in a bucket, and in the blocks.                       *)
(***************************************************************************)
Entries(t) ==
  /\ my[t].pc \in {"load"} \cup AtBucket => Entry(t).bucket # <<>>
  /\ my[t].pc \in Linking /\ TopDownLevel(t) => Entry(t).bucket # <<>>
  /\ my[t].pc \in AtBucket => my[t].sz \in 1 .. Len(Entry(t).bucket)
  /\ my[t].pc \in AtBucket \ {"start"} => my[t].todo \subseteq 1 .. my[t].sz
  /\ At(t, "entry") => my[t].todo # {}
  /\ At(t, "finish") => my[t].todo = {}
  /\ my[t].pc \in AtItem \cup {"progress"} =>
       /\ my[t].item \in 1 .. my[t].sz
       /\ my[t].item \notin my[t].todo
       /\ Own(t) => \A x \in my[t].todo : my[t].item < x
  /\ At(t, "progress") => Own(t)
  /\ my[t].pc \in {"neighbor", "push", "swap"} => my[t].j \in 1 .. Len(adj[U(t)])
  /\ At(t, "vis") => my[t].j = Len(adj[U(t)]) + 1

CodeEntries(t) ==
  /\ my[t].pc \in {"codes_start", "code", "codes_progress", "codes_finish"} =>
       my[t].sz \in 0 .. Len(Entry(t).bucket)
  /\ my[t].pc \in {"code", "codes_progress"} => my[t].item \in 1 .. my[t].sz
  /\ At(t, "codes_progress") => Own(t)

InRange(t, v) ==
  v \in Begin(my[t].owner, my[t].item) .. End(my[t].owner, my[t].item) - 1

BlockEntries(t) ==
  /\ At(t, "own") => my[t].item \in 1 .. Owned(my[t].owner) + 1
  /\ my[t].pc \in {"own_stamp", "own_progress", "block_progress", "block_stamp", "stamp"}
                  \cup InBlock =>
       my[t].item \in 1 .. Owned(my[t].owner)
  /\ my[t].pc \in Helping \cup InBlock /\ my[t].turn > 0 =>
       my[t].pc \in {"help", "help_start"} \/ my[t].todo \subseteq 1 .. Owned(my[t].owner)
  /\ At(t, "block") => my[t].todo # {}
  /\ my[t].pc \notin InBlock => my[t].cand = <<>>
  /\ \A i \in 1 .. Len(my[t].cand) : InRange(t, my[t].cand[i])
  /\ At(t, "gather") => InRange(t, my[t].j)
  /\ my[t].pc \in {"test"} \cup Finding => my[t].cand # <<>>
  /\ At(t, "test") => my[t].j \in 1 .. Len(adj[C(t)]) + 1
  /\ my[t].pc \in Finding => my[t].j \in 1 .. Len(adj[C(t)])

-----------------------------------------------------------------------------
(***************************************************************************)
(* The plans.  A level that is decided stays so: the thread whose proposal *)
(* it was has gone on.                                                     *)
(***************************************************************************)
Decided(d) == node[d].plan_owner # None
Decision(d) == node[d].owners[node[d].plan_owner].proposal
Before(d) == IF d = 0 THEN FirstPlan ELSE Decision(d - 1)

OwnerHasLeft ==
  \A d \in Node : Decided(d) =>
    LET o == node[d].plan_owner
    IN ~At(o, "returned") => Depth(o) >= d /\ (Depth(o) = d => my[o].pc \notin Deciding)

PlansInOrder ==
  /\ \A d \in Node : Decided(d) =>
       /\ \A c \in 0 .. d - 1 : Decided(c)
       /\ \E direction \in {"top_down", "bottom_up"} :
            Decision(d) = AssignCode(Before(d), direction)
  /\ \A t \in Thread : ~At(t, "returned") =>
       /\ \A c \in 0 .. Depth(t) - 1 : Decided(c)
       /\ my[t].pc \in Deciding => my[t].plan = Before(Depth(t))
       /\ my[t].pc \notin Deciding => my[t].previous = Before(Depth(t)).direction
       /\ At(t, "claim") =>
            \E direction \in {"top_down", "bottom_up"} :
              Curr(t).owners[t].proposal = AssignCode(Before(Depth(t)), direction)

\* codes grow with the levels, and leave room for the code of the next level
CodesGrow ==
  \A d, e \in Node : Decided(d) =>
    /\ Decision(d).direction = "top_down" => Decision(d).code = 0
    /\ Decision(d).direction = "bottom_up" /\ Decision(d).code = 0 =>
         Decision(d).last_code = MaxCode
    /\ Decision(d).code > 0 =>
         Decision(d).last_code = IF Decision(d).code < MaxCode THEN Decision(d).code + 1
                                                             ELSE MaxCode
    /\ Decided(e) /\ d < e =>
         /\ Decision(d).last_code <= Decision(e).last_code
         /\ Decision(e).code > 0 /\ Decision(d).code > 0 =>
              /\ Decision(d).code < Decision(e).code
              /\ d + 1 < e => Decision(d).code + 1 < Decision(e).code

Untouched ==
  \A d \in Node : ~Decided(d) =>
    \A o \in Thread :
      LET e == node[d].owners[o]
      IN /\ ~e.done /\ e.last_done = 0 /\ ~e.codes_done /\ e.codes_last_done = 0
         /\ \A k \in 1 .. Owned(o) : helped_at[o][k] # d

LastDone ==
  \A d \in Node, o \in Thread : Decided(d) =>
    LET e == node[d].owners[o]
    IN /\ Decision(d).direction = "top_down" => e.last_done <= Len(e.bucket)
       /\ Decision(d).direction = "top_down" =>
            \A k \in 1 .. Owned(o) : helped_at[o][k] # d
       /\ e.codes_last_done <= Len(e.bucket)

PlansInv == OnePlan /\ OwnerHasLeft /\ PlansInOrder

Control ==
  /\ OneList
  /\ \A t \in Thread :
       AtNode(t) /\ NextKnown(t) /\ Directed(t) /\ Rounds(t)
       /\ Entries(t) /\ CodeEntries(t) /\ BlockEntries(t)

-----------------------------------------------------------------------------
(***************************************************************************)
(* Distances and buckets.                                                  *)
(***************************************************************************)
DistSound == \A v \in Vertex : dist[v] \in {Unset, Delta[v]}

Discovered(v) == dist[v] # Unset
Covered(u) == \A v \in Neighbors(u) : Discovered(v)

BucketsSound ==
  \A d \in Node, o \in Thread :
    \A i \in 1 .. Len(node[d].owners[o].bucket) : Delta[node[d].owners[o].bucket[i]] = d

LevelReady ==
  \A t \in Thread : ~At(t, "returned") =>
    \A v \in Vertex : Delta[v] \in 0 .. Depth(t) => Discovered(v)

DecidedReady == \A d \in Node : Decided(d) => \A v \in Level(d) : Discovered(v)

Bucket(d, o) == node[d].owners[o].bucket
Places(d, o) == 1 .. Len(Bucket(d, o))
EntryOf(d, o, v) == \E i \in Places(d, o) : Bucket(d, o)[i] = v

PushedKept ==
  \A v \in Vertex : Discovered(v) =>
    \E o \in Thread : EntryOf(dist[v], o, v)

FoundDecided == \A v \in Vertex : Discovered(v) /\ dist[v] > 0 => Decided(dist[v] - 1)

PushedFirst ==
  \A t \in Thread :
    /\ At(t, "swap") => EntryOf(Depth(t) + 1, t, V(t))
    /\ my[t].pc \in {"next_code", "mark"} => EntryOf(Depth(t) + 1, t, C(t))

-----------------------------------------------------------------------------
(***************************************************************************)
(* Top-down levels.                                                        *)
(***************************************************************************)
VertexView(t) ==
  my[t].pc \in AtItem \ {"du"} =>
    /\ my[t].du = Depth(t)
    /\ my[t].pc \in {"push", "swap"} => Delta[V(t)] = Depth(t) + 1
    /\ \A p \in 1 .. my[t].j - 1 : Discovered(adj[U(t)][p])

EntriesView(t) ==
  my[t].pc \in AtBucket \ {"start"} =>
    \A i \in 1 .. my[t].sz :
      \/ i \in my[t].todo
      \/ my[t].pc \in AtItem /\ i = my[t].item
      \/ Covered(Entry(t).bucket[i])

VisCertificate == \A u \in Vertex : vis[u] => Covered(u)

ProgressCertificate ==
  \A d \in Node, o \in Thread :
    Decided(d) /\ Decision(d).direction = "top_down" =>
      \A i \in 1 .. node[d].owners[o].last_done : Covered(node[d].owners[o].bucket[i])

WillTake(t, o, i) ==
  \/ my[t].pc \in Deciding
  \/ /\ Order(t, o) >= my[t].turn
     /\ my[t].owner = o /\ my[t].pc \in AtBucket =>
          \/ At(t, "start") /\ i <= my[t].sz
          \/ ~At(t, "start") /\ i \in my[t].todo
          \/ my[t].pc \in AtItem /\ i = my[t].item

NoneLost ==
  \A d \in Node : \A v \in Vertex :
    /\ dist[v] = d /\ ~Covered(v)
    /\ ~(Decided(d) /\ Decision(d).direction = "bottom_up")
    => \E o \in Thread : \E i \in Places(d, o) :
         /\ Bucket(d, o)[i] = v
         /\ ~node[d].owners[o].done
         /\ \A t \in Thread : Depth(t) = d => WillTake(t, o, i)

DoneLinked == \A d \in Node, o \in Thread : node[d].owners[o].done => d + 1 < linked

LinkedInTime ==
  \A v \in Vertex : Discovered(v) =>
    \/ dist[v] + 1 < linked
    \/ \E o \in Thread :
         /\ EntryOf(dist[v], o, v)
         /\ \A t \in Thread : Depth(t) = dist[v] => my[t].turn <= Order(t, o)

-----------------------------------------------------------------------------
(***************************************************************************)
(* Codes.                                                                  *)
(***************************************************************************)
Coded(d) == Decided(d) /\ Decision(d).code > 0

CodesSound ==
  \A v \in Vertex : dist8[v] # 0 =>
    \/ Delta[v] > 0 /\ Coded(Delta[v] - 1) /\ dist8[v] = Decision(Delta[v] - 1).code + 1
    \/ Delta[v] >= 0 /\ Coded(Delta[v]) /\ dist8[v] = Decision(Delta[v]).code

\* a level after a bottom-up level has its codes from the start
PassesCode(d) == Coded(d) /\ Decision(d).code < MaxCode

CodesPassed ==
  /\ \A v \in Vertex : Discovered(v) /\ Delta[v] > 0 /\ PassesCode(Delta[v] - 1) =>
       dist8[v] = Decision(Delta[v] - 1).code + 1
  /\ \A t \in Thread : At(t, "mark") /\ PassesCode(Depth(t)) =>
       dist8[C(t)] = Decision(Depth(t)).code + 1

WillCode(t, o, i) ==
  \/ my[t].pc \in Deciding \cup Linking
  \/ my[t].pc \in InCodes /\ Order(t, o) > my[t].turn
  \/ /\ my[t].owner = o
     /\ \/ my[t].pc \in {"codes", "codes_size"}
        \/ At(t, "codes_start") /\ i <= my[t].sz
        \/ At(t, "code") /\ i \in my[t].item .. my[t].sz
        \/ At(t, "codes_progress") /\ i \in my[t].item + 1 .. my[t].sz

NoneUncoded ==
  \A d \in Node : \A v \in Vertex :
    /\ dist[v] = d /\ Coded(d) /\ Before(d).direction = "top_down"
    /\ dist8[v] # Decision(d).code
    => \E o \in Thread : \E i \in Places(d, o) :
         /\ Bucket(d, o)[i] = v
         /\ ~node[d].owners[o].codes_done
         /\ node[d].owners[o].codes_last_done < i
         /\ \A t \in Thread : Depth(t) = d => WillCode(t, o, i)

-----------------------------------------------------------------------------
(***************************************************************************)
(* Blocks.                                                                 *)
(***************************************************************************)
CandidatesView(t) ==
  /\ \A i \in 1 .. Len(my[t].cand) : Delta[my[t].cand[i]] \notin 0 .. Depth(t)
  /\ At(t, "test") => \A p \in 1 .. my[t].j - 1 : Delta[adj[C(t)][p]] # Depth(t)
  /\ my[t].pc \in Finding => Delta[C(t)] = Depth(t) + 1

BlockTaken(t) ==
  my[t].pc \in {"block_progress", "block_stamp", "stamp"} \cup InBlock /\ ~Own(t) =>
    my[t].item \notin my[t].todo

InScan(t, x) ==
  \/ At(t, "gather") /\ x >= my[t].j
  \/ \E i \in 1 .. Len(my[t].cand) : my[t].cand[i] = x

WillScan(t, o, k, x) ==
  \/ my[t].pc \in Deciding \cup Linking \cup InCodes
  \/ Order(t, o) > my[t].turn
  \/ /\ my[t].owner = o
     /\ \/ my[t].pc \in {"own", "own_stamp"} /\ my[t].item <= k
        \/ At(t, "own_progress") /\ my[t].item < k
        \/ my[t].pc \in {"help", "help_start"}
        \/ my[t].pc \in Helping \ {"help", "help_start"} /\ k \in my[t].todo
        \/ my[t].pc \in {"block_progress", "block_stamp"} /\ k = my[t].item
        \/ my[t].pc \in InBlock /\ my[t].item = k /\ InScan(t, x)
        \/ my[t].pc \in InBlock /\ Own(t) /\ my[t].item < k
        \/ my[t].pc \in InBlock /\ ~Own(t) /\ k \in my[t].todo

Views == \A t \in Thread : VertexView(t) /\ EntriesView(t) /\ CandidatesView(t) /\ BlockTaken(t)

NoneUnscanned ==
  \A d \in Node : Decided(d) /\ Decision(d).direction = "bottom_up" =>
    \A o \in Thread : \A k \in 1 .. Owned(o) :
      \A x \in Begin(o, k) .. End(o, k) - 1 :
        Delta[x] = d + 1 /\ ~Discovered(x) =>
          /\ ~node[d].owners[o].done
          /\ node[d].owners[o].last_done < k
          /\ helped_at[o][k] # d
          /\ \A t \in Thread : Depth(t) = d => WillScan(t, o, k, x)

-----------------------------------------------------------------------------
(***************************************************************************)
(* The inductive invariant.                                                *)
(***************************************************************************)
PlanInv == Shape /\ Control /\ PlansInv

LevelsInv ==
  /\ DistSound /\ BucketsSound /\ LevelReady /\ DecidedReady /\ FoundDecided
  /\ PushedKept /\ PushedFirst /\ Views

MarksInv ==
  /\ Untouched /\ LastDone /\ VisCertificate /\ ProgressCertificate
  /\ NoneLost /\ DoneLinked /\ LinkedInTime

CodesInv == CodesGrow /\ CodesSound /\ CodesPassed /\ NoneUncoded

DataInv == LevelsInv /\ MarksInv /\ CodesInv /\ NoneUnscanned

IInv == PlanInv /\ DataInv

=============================================================================
