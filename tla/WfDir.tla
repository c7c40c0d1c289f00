-------------------------------- MODULE WfDir --------------------------------
(***************************************************************************)
(* The direction-optimizing wait-free search of WF_DO_BFS/wf-dir.cpp.      *)
(*                                                                         *)
(* The threads agree, level by level, on a direction.  In a top-down level *)
(* they expand the level's buckets, as in WaitFreeBfs; in a bottom-up one  *)
(* they scan the blocks of undiscovered vertices for neighbours in the     *)
(* frontier, which they know by a one-byte code per vertex.  Nobody waits. *)
(*                                                                         *)
(* One action is one access to memory that several threads share.  An      *)
(* entry of a bucket never changes once it is there (see Bucket), so it is *)
(* read in the step that needs it.  Of the direction rule only this is     *)
(* kept: an empty frontier is top-down; for others any of the directions   *)
(* in Rule may be proposed, by each thread for itself.  The degree sums    *)
(* the rule uses, and the room a bucket is given, are left out.            *)
(* Positions and blocks count from 1; 0 is none of them.                   *)
(***************************************************************************)
EXTENDS BfsGraph

CONSTANTS
  N,           \* the number of vertices
  NumT,        \* num_t
  MaxNode,     \* bound: levels in the list, the first included, less one
  BlockSize,   \* bottom_up_block
  MaxCode,     \* max_code, 255
  Rule         \* the directions that may be proposed for a frontier, by level

ASSUME DirAssumption ==
  /\ N \in Nat \ {0} /\ Vertex = 0 .. N - 1
  /\ NumT \in Nat \ {0}
  /\ MaxNode \in Nat /\ MaxDelta < MaxNode
  /\ BlockSize \in Nat \ {0}
  /\ MaxCode \in Nat
  /\ Rule \in [0 .. MaxNode -> (SUBSET {"top_down", "bottom_up"}) \ {{}}]

\* The symmetric CSR the searches use: an edge is in the lists of both its ends.
ASSUME SymmetryAssumption ==
  \A u \in Vertex : \A v \in Neighbors(u) : u \in Neighbors(v)

Thread == 0 .. NumT - 1
Node == 0 .. MaxNode        \* nodes, by their depth
None == -1

VARIABLES
  dist, dist8, vis,
  helped_at,      \* helped_at[t][k], the level at which a helper finished block k of t
  linked,         \* the number of nodes in the list
  node,           \* node[d]: the node of level d
  my              \* what each thread has for itself

memory == <<dist, dist8, vis, helped_at, linked, node>>
vars == <<memory, my>>

-----------------------------------------------------------------------------
(***************************************************************************)
(* new_level(), reset_share(), make_first_level() and the start of         *)
(* wf_bfs().                                                               *)
(***************************************************************************)

FirstPlan == [direction |-> "top_down", code |-> 0, last_code |-> 0]

NewOwner(bucket) ==
  [bucket |-> bucket, done |-> FALSE, last_done |-> 0,
   codes_done |-> FALSE, codes_last_done |-> 0, proposal |-> FirstPlan]

NewNode(d) ==
  [next |-> None, plan_owner |-> None,
   owners |-> [t \in Thread |-> NewOwner(IF d = 0 /\ t = 0 THEN <<Root>> ELSE <<>>)]]

Blocks == (N + BlockSize - 1) \div BlockSize
Owned(t) == IF t < Blocks THEN (Blocks - 1 - t) \div NumT + 1 ELSE 0

FreshDist == [v \in Vertex |-> IF v = Root THEN 0 ELSE Unset]
FreshCodes == [v \in Vertex |-> 0]
FreshVis == [v \in Vertex |-> FALSE]
FreshStamps == [t \in Thread |-> [k \in 1 .. Owned(0) |-> None]]
FreshNodes == [d \in Node |-> NewNode(d)]
FreshThreads ==
  [t \in Thread |->
     [pc |-> "plan", curr |-> 0, plan |-> FirstPlan, previous |-> "top_down",
      owner |-> t, turn |-> 0, next_is_null |-> TRUE,
      sz |-> 0, todo |-> {}, item |-> 0, du |-> 0, j |-> 0, cand |-> <<>>]]

Init ==
  /\ dist = FreshDist
  /\ dist8 = FreshCodes
  /\ vis = FreshVis
  /\ helped_at = FreshStamps
  /\ linked = 1
  /\ node = FreshNodes
  /\ my = FreshThreads

-----------------------------------------------------------------------------

At(t, label) == my[t].pc = label
Goto(t, label) == my' = [my EXCEPT ![t].pc = label]

Depth(t) == my[t].curr
Curr(t) == node[Depth(t)]
Entry(t) == Curr(t).owners[my[t].owner]     \* of the owner t is at
Own(t) == my[t].owner = t

\* One of the fields of that entry is written.
SetEntry(t, entry) ==
  node' = [node EXCEPT ![Depth(t)].owners[my[t].owner] = entry]

\* What push_back() does: to the thread's own bucket of the next node.
Push(t, v) == node' = [node EXCEPT ![Curr(t).next].owners[t].bucket = Append(@, v)]

\* The thread goes on to the next owner, around the ring, for a level that has
\* turns left; at the label again, or else.
NextOwner(t, again, else) ==
  my' = [my EXCEPT ![t].owner = (@ + 1) % NumT,
                   ![t].turn = @ + 1,
                   ![t].sz = 0, ![t].todo = {}, ![t].item = 0,
                   ![t].pc = IF my[t].turn + 1 < NumT THEN again ELSE else]

-----------------------------------------------------------------------------
(***************************************************************************)
(* plan_level(): each thread proposes a plan from what it sees; the first  *)
(* to claim the level decides for all.                                     *)
(***************************************************************************)

\* always the next unused code, also for a frontier that has one
SlipAssignCode(before, direction) ==
  LET code == before.last_code + 1
  IN IF direction = "bottom_up" /\ code <= MaxCode
     THEN [direction |-> direction, code |-> code,
           last_code |-> IF code < MaxCode THEN code + 1 ELSE MaxCode]
     ELSE [direction |-> direction, code |-> 0, last_code |-> before.last_code]
AssignCode(before, direction) ==
  LET code == IF before.direction = "bottom_up" /\ before.code > 0
              THEN before.code + 1
              ELSE before.last_code + 1
  IN IF direction = "bottom_up" /\ code <= MaxCode
     THEN [direction |-> direction, code |-> code,
           last_code |-> IF code < MaxCode THEN code + 1 ELSE MaxCode]
     ELSE [direction |-> direction, code |-> 0, last_code |-> before.last_code]

\* The level begins.  A bottom-up level first needs the next node.
Follow(t, plan) ==
  my' = [my EXCEPT ![t].previous = my[t].plan.direction,
                   ![t].plan = plan,
                   ![t].owner = t, ![t].turn = 0, ![t].next_is_null = TRUE,
                   ![t].sz = 0,
                   ![t].pc = IF plan.direction = "bottom_up" THEN "next" ELSE "done"]

LoadPlanOwner(t) ==
  /\ At(t, "plan")
  /\ IF Curr(t).plan_owner # None
     THEN Follow(t, Curr(t).owners[Curr(t).plan_owner].proposal)
     ELSE my' = [my EXCEPT ![t].pc = "sizes", ![t].owner = 0]
  /\ UNCHANGED memory

\* The sum of the sizes: only whether it is 0 is kept, in sz.
ReadSize(t) ==
  /\ At(t, "sizes")
  /\ IF Entry(t).bucket # <<>>
     THEN my' = [my EXCEPT ![t].sz = 1, ![t].pc = "propose"]
     ELSE IF my[t].owner = NumT - 1
     THEN Goto(t, "propose")
     ELSE my' = [my EXCEPT ![t].owner = @ + 1]
  /\ UNCHANGED memory

\* propose_plan(): an empty frontier is top-down.
Directions(t) == IF my[t].sz = 0 THEN {"top_down"} ELSE Rule[Depth(t)]

Propose(t) ==
  /\ At(t, "propose")
  /\ \E direction \in Directions(t) :
       node' = [node EXCEPT ![Depth(t)].owners[t].proposal =
                              AssignCode(my[t].plan, direction)]
  /\ Goto(t, "claim")
  /\ UNCHANGED <<dist, dist8, vis, helped_at, linked>>

\* a thread that loses follows its own proposal
SlipClaim(t) ==
  /\ At(t, "claim")
  /\ IF Curr(t).plan_owner = None
     THEN node' = [node EXCEPT ![Depth(t)].plan_owner = t]
     ELSE UNCHANGED node
  /\ Follow(t, Curr(t).owners[t].proposal)
  /\ UNCHANGED <<dist, dist8, vis, helped_at, linked>>
\* The compare-and-swap.  The proposal of the owner does not change any more; one
\* that has lost is never read, and is forgotten here.
Claim(t) ==
  /\ At(t, "claim")
  /\ IF Curr(t).plan_owner = None
     THEN /\ node' = [node EXCEPT ![Depth(t)].plan_owner = t]
          /\ Follow(t, Curr(t).owners[t].proposal)
     ELSE /\ node' = [node EXCEPT ![Depth(t)].owners[t].proposal = FirstPlan]
          /\ Follow(t, Curr(t).owners[Curr(t).plan_owner].proposal)
  /\ UNCHANGED <<dist, dist8, vis, helped_at, linked>>

-----------------------------------------------------------------------------
(***************************************************************************)
(* top_down_level().                                                       *)
(***************************************************************************)

TestDone(t) ==
  /\ At(t, "done")
  /\ IF Entry(t).done THEN NextOwner(t, "done", "advance") ELSE Goto(t, "size")
  /\ UNCHANGED memory

TestSize(t) ==
  /\ At(t, "size")
  /\ IF Entry(t).bucket = <<>>
     THEN NextOwner(t, "done", "advance")
     ELSE Goto(t, IF my[t].next_is_null THEN "next" ELSE "load")
  /\ UNCHANGED memory

\* Where a thread goes that knows of a next node.
Linked(t) ==
  my' = [my EXCEPT ![t].next_is_null = FALSE,
                   ![t].pc = IF my[t].plan.direction = "top_down" THEN "load"
                             ELSE IF my[t].previous = "top_down" /\ my[t].plan.code > 0
                             THEN "codes" ELSE "own",
                   ![t].item = IF my[t].plan.direction = "top_down" THEN 0 ELSE 1]

TestNext(t) ==
  /\ At(t, "next")
  /\ IF Curr(t).next = None THEN Goto(t, "link") ELSE Linked(t)
  /\ UNCHANGED memory

\* add_node(): only nodes that are linked count.
AddNode(t) ==
  /\ At(t, "link")
  /\ IF Curr(t).next = None
     THEN /\ linked \in Node
          /\ node' = [node EXCEPT ![Depth(t)].next = linked]
          /\ linked' = linked + 1
     ELSE UNCHANGED <<node, linked>>
  /\ Linked(t)
  /\ UNCHANGED <<dist, dist8, vis, helped_at>>

\* The next node, the size, and for the owner its entries from the first on.
LoadBucket(t) ==
  /\ At(t, "load")
  /\ my' = [my EXCEPT ![t].sz = Len(Entry(t).bucket),
                      ![t].todo = IF Own(t) THEN 1 .. Len(Entry(t).bucket) ELSE {},
                      ![t].pc = IF Own(t) THEN "entry" ELSE "start"]
  /\ UNCHANGED memory

StartHelping(t) ==
  /\ At(t, "start")
  /\ LET rest == Entry(t).last_done + 1 .. my[t].sz
     IN my' = [my EXCEPT ![t].todo = rest,
                         ![t].pc = IF rest = {} THEN "finish" ELSE "entry"]
  /\ UNCHANGED memory

\* The vertex t expands top-down, and the neighbour it has got to.
U(t) == Entry(t).bucket[my[t].item]
V(t) == adj[U(t)][my[t].j]

\* The owner takes its entries in order, a helper in any; what is marked is
\* skipped.
TakeEntry(t) ==
  /\ At(t, "entry")
  /\ \E i \in my[t].todo :
       /\ Own(t) => \A x \in my[t].todo : i <= x
       /\ my' = [my EXCEPT ![t].item = i,
                           ![t].todo = @ \ {i},
                           ![t].pc = IF ~vis[Entry(t).bucket[i]] THEN "du"
                                     ELSE IF Own(t) THEN "progress"
                                     ELSE IF my[t].todo = {i} THEN "finish"
                                     ELSE "entry"]
  /\ UNCHANGED memory

\* The neighbours of u from position p on, in the order of the list: that a
\* helper takes long lists in shuffled blocks is left out.
FromNeighbor(t, p) ==
  [my EXCEPT ![t].j = p,
             ![t].pc = IF p <= Len(adj[U(t)]) THEN "neighbor" ELSE "vis"]

ReadDist(t) ==
  /\ At(t, "du")
  /\ my' = [FromNeighbor(t, 1) EXCEPT ![t].du = dist[U(t)]]
  /\ UNCHANGED memory

TestNeighbor(t) ==
  /\ At(t, "neighbor")
  /\ IF dist[V(t)] = Unset THEN Goto(t, "push")
                           ELSE my' = FromNeighbor(t, my[t].j + 1)
  /\ UNCHANGED memory

\* discover_and_count(): the push, then the swap.
PushVertex(t) ==
  /\ At(t, "push")
  /\ Push(t, V(t))
  /\ Goto(t, "swap")
  /\ UNCHANGED <<dist, dist8, vis, helped_at, linked>>

SwapDist(t) ==
  /\ At(t, "swap")
  /\ dist' = [dist EXCEPT ![V(t)] = IF @ = Unset THEN my[t].du + 1 ELSE @]
  /\ my' = FromNeighbor(t, my[t].j + 1)
  /\ UNCHANGED <<dist8, vis, helped_at, linked, node>>

MarkVisited(t) ==
  /\ At(t, "vis")
  /\ vis' = [vis EXCEPT ![U(t)] = TRUE]
  /\ my' = [my EXCEPT ![t].du = 0, ![t].j = 0,
                      ![t].pc = IF Own(t) THEN "progress"
                                ELSE IF my[t].todo = {} THEN "finish" ELSE "entry"]
  /\ UNCHANGED <<dist, dist8, helped_at, linked, node>>

Progress(t) ==
  /\ At(t, "progress")
  /\ SetEntry(t, [Entry(t) EXCEPT !.last_done = my[t].item])
  /\ Goto(t, IF my[t].todo = {} THEN "finish" ELSE "entry")
  /\ UNCHANGED <<dist, dist8, vis, helped_at, linked>>

FinishBucket(t) ==
  /\ At(t, "finish")
  /\ SetEntry(t, [Entry(t) EXCEPT !.done = TRUE])
  /\ NextOwner(t, "done", "advance")
  /\ UNCHANGED <<dist, dist8, vis, helped_at, linked>>

TopDown(t) ==
  \/ TestDone(t) \/ TestSize(t) \/ LoadBucket(t) \/ StartHelping(t)
  \/ TakeEntry(t) \/ ReadDist(t) \/ TestNeighbor(t) \/ PushVertex(t)
  \/ SwapDist(t) \/ MarkVisited(t) \/ Progress(t) \/ FinishBucket(t)

-----------------------------------------------------------------------------
(***************************************************************************)
(* write_frontier_codes(): after a top-down level, which writes none.      *)
(***************************************************************************)

\* The blocks follow when the codes are written.
NextCodes(t) ==
  IF my[t].turn + 1 < NumT
  THEN NextOwner(t, "codes", "codes")
  ELSE my' = [my EXCEPT ![t].owner = t, ![t].turn = 0, ![t].sz = 0,
                        ![t].item = 1, ![t].pc = "own"]

TestCodesDone(t) ==
  /\ At(t, "codes")
  /\ IF Entry(t).codes_done THEN NextCodes(t) ELSE Goto(t, "codes_size")
  /\ UNCHANGED memory

\* The entry at position i is next, if there is one.
FromEntry(t, i, sz) ==
  [my EXCEPT ![t].item = i, ![t].sz = sz,
             ![t].pc = IF i <= sz THEN "code" ELSE "codes_finish"]

CodesSize(t) ==
  /\ At(t, "codes_size")
  /\ IF Own(t)
     THEN my' = FromEntry(t, 1, Len(Entry(t).bucket))
     ELSE my' = [my EXCEPT ![t].sz = Len(Entry(t).bucket), ![t].pc = "codes_start"]
  /\ UNCHANGED memory

CodesStart(t) ==
  /\ At(t, "codes_start")
  /\ my' = FromEntry(t, Entry(t).codes_last_done + 1, my[t].sz)
  /\ UNCHANGED memory

WriteCode(t) ==
  /\ At(t, "code")
  /\ dist8' = [dist8 EXCEPT ![U(t)] = my[t].plan.code]
  /\ IF Own(t) THEN Goto(t, "codes_progress")
               ELSE my' = FromEntry(t, my[t].item + 1, my[t].sz)
  /\ UNCHANGED <<dist, vis, helped_at, linked, node>>

CodesProgress(t) ==
  /\ At(t, "codes_progress")
  /\ SetEntry(t, [Entry(t) EXCEPT !.codes_last_done = my[t].item])
  /\ my' = FromEntry(t, my[t].item + 1, my[t].sz)
  /\ UNCHANGED <<dist, dist8, vis, helped_at, linked>>

CodesFinish(t) ==
  /\ At(t, "codes_finish")
  /\ SetEntry(t, [Entry(t) EXCEPT !.codes_done = TRUE])
  /\ NextCodes(t)
  /\ UNCHANGED <<dist, dist8, vis, helped_at, linked>>

Codes(t) ==
  \/ TestCodesDone(t) \/ CodesSize(t) \/ CodesStart(t)
  \/ WriteCode(t) \/ CodesProgress(t) \/ CodesFinish(t)

-----------------------------------------------------------------------------
(***************************************************************************)
(* scan_block(): block my.item of my.owner.  The undiscovered vertices are *)
(* gathered first, then tested one by one.                                 *)
(***************************************************************************)

Begin(o, k) == (o + (k - 1) * NumT) * BlockSize
End(o, k) == IF Begin(o, k) + BlockSize < N THEN Begin(o, k) + BlockSize ELSE N

Scan(t) == my' = [my EXCEPT ![t].pc = "gather", ![t].j = Begin(my[t].owner, my[t].item)]

\* The candidates that are left; after the last one, the end of the block.
Test(t, cand) ==
  my' = [my EXCEPT ![t].cand = cand,
                   ![t].j = IF cand = <<>> THEN 0 ELSE 1,
                   ![t].pc = IF cand # <<>> THEN "test"
                             ELSE IF Own(t) THEN "own_progress" ELSE "stamp"]

Gather(t) ==
  /\ At(t, "gather")
  /\ LET u == my[t].j
         cand == IF dist[u] = Unset THEN Append(my[t].cand, u) ELSE my[t].cand
     IN IF u + 1 < End(my[t].owner, my[t].item)
        THEN my' = [my EXCEPT ![t].cand = cand, ![t].j = @ + 1]
        ELSE Test(t, cand)
  /\ UNCHANGED memory

C(t) == Head(my[t].cand)

InFrontier(t, v) ==
  IF my[t].plan.code > 0 THEN dist8[v] = my[t].plan.code ELSE dist[v] = Depth(t)

TestCandidate(t) ==
  /\ At(t, "test")
  /\ IF my[t].j > Len(adj[C(t)])
     THEN Test(t, Tail(my[t].cand))
     ELSE IF InFrontier(t, adj[C(t)][my[t].j])
     THEN Goto(t, "found")
     ELSE my' = [my EXCEPT ![t].j = @ + 1]
  /\ UNCHANGED memory

\* discover_vertex(): pushed, then coded, then marked.
PushFound(t) ==
  /\ At(t, "found")
  /\ Push(t, C(t))
  /\ Goto(t, "next_code")
  /\ UNCHANGED <<dist, dist8, vis, helped_at, linked>>

NextCode(t) ==
  IF my[t].plan.code > 0 /\ my[t].plan.code < MaxCode THEN my[t].plan.code + 1 ELSE 0

WriteNextCode(t) ==
  /\ At(t, "next_code")
  /\ dist8' = [dist8 EXCEPT ![C(t)] = NextCode(t)]
  /\ Goto(t, "mark")
  /\ UNCHANGED <<dist, vis, helped_at, linked, node>>

MarkFound(t) ==
  /\ At(t, "mark")
  /\ dist' = [dist EXCEPT ![C(t)] = Depth(t) + 1]
  /\ Test(t, Tail(my[t].cand))
  /\ UNCHANGED <<dist8, vis, helped_at, linked, node>>

ScanBlock(t) ==
  \/ Gather(t) \/ TestCandidate(t) \/ PushFound(t)
  \/ WriteNextCode(t) \/ MarkFound(t)

-----------------------------------------------------------------------------
(***************************************************************************)
(* fetch_own_blocks() and fetch_other_blocks().                            *)
(***************************************************************************)

Stamped(t) == helped_at[my[t].owner][my[t].item] = Depth(t)

\* the last block is left to the helpers
SlipOwnBlock(t) ==
  /\ At(t, "own")
  /\ Goto(t, IF my[t].item >= Owned(t) \/ Entry(t).done THEN "blocks_done" ELSE "own_stamp")
  /\ UNCHANGED memory
OwnBlock(t) ==
  /\ At(t, "own")
  /\ Goto(t, IF my[t].item > Owned(t) \/ Entry(t).done THEN "blocks_done" ELSE "own_stamp")
  /\ UNCHANGED memory

OwnStamp(t) ==
  /\ At(t, "own_stamp")
  /\ IF Stamped(t) THEN Goto(t, "own_progress") ELSE Scan(t)
  /\ UNCHANGED memory

OwnProgress(t) ==
  /\ At(t, "own_progress")
  /\ SetEntry(t, [Entry(t) EXCEPT !.last_done = my[t].item])
  /\ my' = [my EXCEPT ![t].item = @ + 1, ![t].pc = "own"]
  /\ UNCHANGED <<dist, dist8, vis, helped_at, linked>>

\* The end of the blocks of an owner, for itself and for its helpers.
FinishBlocks(t) ==
  /\ At(t, "blocks_done")
  /\ SetEntry(t, [Entry(t) EXCEPT !.done = TRUE])
  /\ NextOwner(t, "help", "advance")
  /\ UNCHANGED <<dist, dist8, vis, helped_at, linked>>

Help(t) ==
  /\ At(t, "help")
  /\ IF Entry(t).done THEN NextOwner(t, "help", "advance") ELSE Goto(t, "help_start")
  /\ UNCHANGED memory

\* Another block, in any order, or the end.
NextBlock(t) == Goto(t, IF my[t].todo = {} THEN "blocks_done" ELSE "block")

HelpStart(t) ==
  /\ At(t, "help_start")
  /\ LET rest == Entry(t).last_done + 1 .. Owned(my[t].owner)
     IN my' = [my EXCEPT ![t].todo = rest,
                         ![t].pc = IF rest = {} THEN "blocks_done" ELSE "block"]
  /\ UNCHANGED memory

HelpBlock(t) ==
  /\ At(t, "block")
  /\ IF Entry(t).done
     THEN NextOwner(t, "help", "advance")
     ELSE \E k \in my[t].todo :
            my' = [my EXCEPT ![t].item = k, ![t].todo = @ \ {k},
                             ![t].pc = "block_progress"]
  /\ UNCHANGED memory

TestProgress(t) ==
  /\ At(t, "block_progress")
  /\ IF my[t].item > Entry(t).last_done THEN Goto(t, "block_stamp") ELSE NextBlock(t)
  /\ UNCHANGED memory

TestStamp(t) ==
  /\ At(t, "block_stamp")
  /\ IF Stamped(t) THEN NextBlock(t) ELSE Scan(t)
  /\ UNCHANGED memory

Stamp(t) ==
  /\ At(t, "stamp")
  /\ helped_at' = [helped_at EXCEPT ![my[t].owner][my[t].item] = Depth(t)]
  /\ NextBlock(t)
  /\ UNCHANGED <<dist, dist8, vis, linked, node>>

BottomUp(t) ==
  \/ OwnBlock(t) \/ OwnStamp(t) \/ OwnProgress(t) \/ FinishBlocks(t)
  \/ Help(t) \/ HelpStart(t) \/ HelpBlock(t) \/ TestProgress(t)
  \/ TestStamp(t) \/ Stamp(t)

-----------------------------------------------------------------------------

\* wf_bfs(): curr = curr->next
Advance(t) ==
  /\ At(t, "advance")
  /\ my' = [my EXCEPT ![t].curr = Curr(t).next,
                      ![t].owner = t, ![t].turn = 0, ![t].next_is_null = TRUE,
                      ![t].pc = IF Curr(t).next = None THEN "returned" ELSE "plan"]
  /\ UNCHANGED memory

\* The next search, once all have returned (see SearchControl).
SearchAgain ==
  /\ \A t \in Thread : At(t, "returned")
  /\ dist' = FreshDist /\ dist8' = FreshCodes /\ vis' = FreshVis
  /\ helped_at' = FreshStamps
  /\ linked' = 1 /\ node' = FreshNodes /\ my' = FreshThreads

Plan(t) == LoadPlanOwner(t) \/ ReadSize(t) \/ Propose(t) \/ Claim(t)

Step(t) ==
  \/ Plan(t) \/ TestNext(t) \/ AddNode(t) \/ TopDown(t)
  \/ Codes(t) \/ ScanBlock(t) \/ BottomUp(t) \/ Advance(t)

Next == SearchAgain \/ \E t \in Thread : Step(t)

Spec == Init /\ [][Next]_vars

-----------------------------------------------------------------------------

Labels ==
  {"plan", "sizes", "propose", "claim", "done", "size", "next", "link", "load",
   "start", "entry", "du", "neighbor", "push", "swap", "vis", "progress",
   "finish", "codes", "codes_size", "codes_start", "code", "codes_progress",
   "codes_finish", "gather", "test", "found", "next_code", "mark", "own",
   "own_stamp", "own_progress", "blocks_done", "help", "help_start", "block",
   "block_progress", "block_stamp", "stamp", "advance", "returned"}

PlanType == [direction : {"top_down", "bottom_up"},
             code : 0 .. MaxCode, last_code : 0 .. MaxCode]
OwnerType == [bucket : Seq(Vertex), done : BOOLEAN, last_done : Nat,
              codes_done : BOOLEAN, codes_last_done : Nat, proposal : PlanType]
ThreadType ==
  [pc : Labels, curr : Node \cup {None}, plan : PlanType,
   previous : {"top_down", "bottom_up"}, owner : Thread, turn : 0 .. NumT,
   next_is_null : BOOLEAN, sz : Nat, todo : SUBSET Nat, item : Nat,
   du : 0 .. MaxDelta, j : Nat, cand : Seq(Vertex)]

(***************************************************************************)
(* No code above max_code is ever written into a byte of dist8, no thread  *)
(* follows a null pointer, and no block lies outside of the graph.         *)
(***************************************************************************)
TypeOK ==
  /\ dist \in [Vertex -> Unset .. MaxDelta]
  /\ dist8 \in [Vertex -> 0 .. MaxCode]
  /\ vis \in [Vertex -> BOOLEAN]
  /\ helped_at \in [Thread -> [1 .. Owned(0) -> Node \cup {None}]]
  /\ linked \in 1 .. MaxNode + 1
  /\ node \in [Node -> [next : Node \cup {None}, plan_owner : Thread \cup {None},
                        owners : [Thread -> OwnerType]]]
  /\ my \in [Thread -> ThreadType]

Deciding == {"plan", "sizes", "propose", "claim"}
Scanning == {"gather", "test", "found", "next_code", "mark", "own", "own_stamp",
             "own_progress", "help", "help_start", "block", "block_progress",
             "block_stamp", "stamp"}

(***************************************************************************)
(* Every thread expands a level the way the level's decision says, also a  *)
(* thread that proposed something else, or comes when the buckets have     *)
(* changed: progress counts entries in one kind of level, blocks in the    *)
(* other.                                                                  *)
(***************************************************************************)
OnePlan ==
  \A t \in Thread : my[t].pc \notin Deciding \cup {"returned"} =>
    /\ Curr(t).plan_owner # None
    /\ my[t].plan = Curr(t).owners[Curr(t).plan_owner].proposal

(***************************************************************************)
(* While a thread scans blocks, the frontier test is right: the vertices   *)
(* with the level's code are exactly those of the level.  Codes of other   *)
(* levels never match, whatever threads of older levels still write, and   *)
(* none is missing, though top-down levels write none.                     *)
(***************************************************************************)
FrontierTestExact ==
  \A t \in Thread : my[t].pc \in Scanning =>
    {v \in Vertex : InFrontier(t, v)} = Level(Depth(t))

(***************************************************************************)
(* What lets a block be skipped is true: a block the owner counts as done, *)
(* one stamped with the level, and every block of an owner that is marked  *)
(* done has no vertex left that the level has to find.                     *)
(***************************************************************************)
Complete(d, o, k) ==
  \A v \in Begin(o, k) .. End(o, k) - 1 : Delta[v] = d + 1 => dist[v] # Unset

BlocksCovered ==
  \A d \in Node, o \in Thread :
    LET n == node[d]
        e == n.owners[o]
    IN n.plan_owner # None /\ n.owners[n.plan_owner].proposal.direction = "bottom_up" =>
         \A k \in 1 .. Owned(o) :
           e.done \/ k <= e.last_done \/ helped_at[o][k] = d => Complete(d, o, k)

(***************************************************************************)
(* When the first call returns, the distances are final.                   *)
(***************************************************************************)
FirstReturnExact == (\E t \in Thread : At(t, "returned")) => dist = Delta

(***************************************************************************)
(* Whatever directions the levels take, the search does what the top-down  *)
(* one does.                                                               *)
(***************************************************************************)
LevelOrder == INSTANCE LevelOrderBfs WITH
  finished <- {t \in Thread : At(t, "returned")}

ImplementsLevelOrder == LevelOrder!Spec

=============================================================================
