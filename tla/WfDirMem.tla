------------------------------ MODULE WfDirMem ------------------------------
(***************************************************************************)
(* The direction-optimizing wait-free search with two nodes of             *)
(* WF_DO_BFS/wf-dir-mem.cpp.                                               *)
(*                                                                         *)
(* One node serves the even levels, one the odd.  Nobody waits, so a node  *)
(* is reused for the level two on while threads that fell behind may still *)
(* be anywhere in the level it held.  The plan word and the tag of each    *)
(* bucket say which level they belong to; all else that is reused (sizes,  *)
(* entries, progress, marks) has to be safe by the order in which it is    *)
(* written and read, and that is what this module is about.                *)
(*                                                                         *)
(* One action is one access to shared memory, with these exceptions: a     *)
(* push stores the entry and the size (Bucket has them apart), and the two *)
(* progress entries are reset in one step.  The direction rule is left     *)
(* open: a frontier takes any direction in Rule.  Degree sums and          *)
(* capacities are left out.  Positions and blocks count from 1, so that    *)
(* the code's -1 for progress is 0 here.                                   *)
(***************************************************************************)
EXTENDS BfsGraph

CONSTANTS
  N,           \* the number of vertices
  NumT,        \* num_t
  BlockSize,   \* bottom_up_block
  MaxCode,     \* max_code, 255
  Rule         \* the directions that may be chosen for a frontier, by level

ASSUME MemAssumption ==
  /\ N \in Nat \ {0} /\ Vertex = 0 .. N - 1
  /\ NumT \in Nat \ {0}
  /\ BlockSize \in Nat \ {0}
  /\ MaxCode \in Nat
  /\ Rule \in [0 .. MaxDelta -> (SUBSET {"top_down", "bottom_up"}) \ {{}}]

\* The symmetric CSR the searches use: an edge is in the lists of both its ends.
ASSUME SymmetryAssumption ==
  \A u \in Vertex : \A v \in Neighbors(u) : u \in Neighbors(v)

Thread == 0 .. NumT - 1
None == -1
Junk == -2       \* an entry of an array that was never written

VARIABLES
  dist, dist8, vis,
  helped_at,     \* helped_at[t][k], the level at which a helper finished block k of t
  nodes,         \* nodes[0] and nodes[1]
  my             \* what each thread has for itself

memory == <<dist, dist8, vis, helped_at, nodes>>
vars == <<memory, my>>

-----------------------------------------------------------------------------
(***************************************************************************)
(* start_search(), reset_share() and the start of wf_bfs().                *)
(***************************************************************************)

Word(level, direction, codes_first) ==
  [level |-> level, direction |-> direction, codes_first |-> codes_first]

\* A bucket is its array and how much of it is in use.
NewBucket == [list |-> <<>>, size |-> 0, level |-> None]
FirstBucket == [list |-> <<Root>>, size |-> 1, level |-> 0]

NewOwner(bucket) ==
  [bucket |-> bucket, done |-> None, last_done |-> 0,
   codes_done |-> None, codes_last_done |-> 0]

FreshNodes ==
  [p \in {0, 1} |->
     [plan_word |-> Word(p - 2, "top_down", FALSE),
      owners |-> [t \in Thread |->
                    NewOwner(IF p = 0 /\ t = 0 THEN FirstBucket ELSE NewBucket)]]]

Blocks == (N + BlockSize - 1) \div BlockSize
Owned(t) == IF t < Blocks THEN (Blocks - 1 - t) \div NumT + 1 ELSE 0

FreshDist == [v \in Vertex |-> IF v = Root THEN 0 ELSE Unset]
FreshCodes == [v \in Vertex |-> 0]
FreshVis == [v \in Vertex |-> FALSE]
FreshStamps == [t \in Thread |-> [k \in 1 .. Owned(0) |-> None]]
FreshThreads ==
  [t \in Thread |->
     [pc |-> "plan", level |-> 0, direction |-> "top_down", codes_first |-> FALSE,
      seen |-> Word(0, "top_down", FALSE), owner |-> 0, turn |-> 0,
      sz |-> 0, todo |-> {}, item |-> 0, u |-> None, j |-> 0, cand |-> <<>>]]

Init ==
  /\ dist = FreshDist
  /\ dist8 = FreshCodes
  /\ vis = FreshVis
  /\ helped_at = FreshStamps
  /\ nodes = FreshNodes
  /\ my = FreshThreads

-----------------------------------------------------------------------------

At(t, label) == my[t].pc = label
Goto(t, label) == my' = [my EXCEPT ![t].pc = label]

Here(t) == my[t].level % 2             \* curr
There(t) == (my[t].level + 1) % 2      \* next_node
Curr(t) == nodes[Here(t)]
Entry(t) == Curr(t).owners[my[t].owner]    \* of the owner t is at
Own(t) == my[t].owner = t
CodeOf(level) == IF level < MaxCode THEN level + 1 ELSE 0

SetEntry(t, entry) ==
  nodes' = [nodes EXCEPT ![Here(t)].owners[my[t].owner] = entry]
SetNextBucket(t, bucket) ==
  nodes' = [nodes EXCEPT ![There(t)].owners[t].bucket = bucket]

\* push_back(): the array is kept from the level two back, and overwritten.
Push(t, v) ==
  LET b == nodes[There(t)].owners[t].bucket
  IN SetNextBucket(t, [b EXCEPT !.size = @ + 1,
                                !.list = IF b.size < Len(@)
                                         THEN [@ EXCEPT ![b.size + 1] = v]
                                         ELSE Append(@, v)])

\* What thread t is left with at a label where it has nothing in hand.
AtRest(t, label) ==
  [my[t] EXCEPT !.pc = label, !.sz = 0, !.todo = {}, !.item = 0, !.u = None, !.j = 0]

\* The next owner, around the ring, for a level that has turns left.
NextOwner(t, again, else) ==
  LET last == my[t].turn + 1 = NumT
      r == AtRest(t, IF last THEN else ELSE again)
  IN my' = [my EXCEPT ![t] =
              [r EXCEPT !.owner = IF last THEN t ELSE (@ + 1) % NumT,
                        !.turn = IF last THEN 0 ELSE @ + 1]]

-----------------------------------------------------------------------------
(***************************************************************************)
(* plan_level(), and what wf_bfs() does with the answer.                   *)
(***************************************************************************)

\* false: the node has moved on
MovedOn(t) == [my[t] EXCEPT !.pc = "jump", !.owner = 0, !.sz = 0]

\* true: the level begins, unless it is empty
FollowWord(t, word) ==
  [my[t] EXCEPT !.pc = IF word.direction = "search_done" THEN "returned" ELSE "reset",
                !.direction = word.direction,
                !.codes_first = word.codes_first,
                !.seen = Word(0, "top_down", FALSE),
                !.owner = t, !.turn = 0, !.sz = 0]

\* The sums of a thread that finds the level chosen already do not count.
LoadWord(t) ==
  /\ At(t, "plan")
  /\ LET word == Curr(t).plan_word
     IN my' = [my EXCEPT ![t] =
                 IF word.level > my[t].level THEN MovedOn(t)
                 ELSE IF word.level = my[t].level THEN FollowWord(t, word)
                 ELSE [my[t] EXCEPT !.pc = "tag", !.seen = word]]
  /\ UNCHANGED memory

\* The sum of the sizes: only whether it is 0 is kept, in sz.
NextSize(t) ==
  my' = [my EXCEPT ![t].owner = IF @ = NumT - 1 THEN 0 ELSE @ + 1,
                   ![t].pc = IF my[t].owner = NumT - 1 THEN "choose" ELSE "tag"]

SumTag(t) ==
  /\ At(t, "tag")
  /\ IF Entry(t).bucket.level # my[t].level THEN NextSize(t) ELSE Goto(t, "sum")
  /\ UNCHANGED memory

SumSize(t) ==
  /\ At(t, "sum")
  /\ IF Entry(t).bucket.size > 0
     THEN my' = [my EXCEPT ![t].sz = 1, ![t].owner = 0, ![t].pc = "choose"]
     ELSE NextSize(t)
  /\ UNCHANGED memory

Directions(t) == IF my[t].sz = 0 THEN {"search_done"} ELSE Rule[my[t].level]

\* writes them in the first level only
SlipCodesFirst(t, direction) ==
  direction = "bottom_up" /\ my[t].level = 0 /\ CodeOf(my[t].level) # 0
\* A bottom-up level after a top-down one, while its depth has a code.
CodesFirst(t, direction) ==
  direction = "bottom_up" /\ my[t].direction = "top_down" /\ CodeOf(my[t].level) # 0

\* a word that has changed is written over
SlipChoose(t) ==
  /\ At(t, "choose")
  /\ \E direction \in Directions(t) :
       LET word == Word(my[t].level, direction, CodesFirst(t, direction))
       IN /\ nodes' = [nodes EXCEPT ![Here(t)].plan_word = word]
          /\ my' = [my EXCEPT ![t] = FollowWord(t, word)]
  /\ UNCHANGED <<dist, dist8, vis, helped_at>>
\* The compare-and-swap; a thread that fails follows the word it finds.
Choose(t) ==
  /\ At(t, "choose")
  /\ LET word == Curr(t).plan_word
     IN \/ /\ word = my[t].seen
           /\ \E direction \in Directions(t) :
                LET new == Word(my[t].level, direction, CodesFirst(t, direction))
                IN /\ nodes' = [nodes EXCEPT ![Here(t)].plan_word = new]
                   /\ my' = [my EXCEPT ![t] = FollowWord(t, new)]
        \/ /\ word # my[t].seen
           /\ my' = [my EXCEPT ![t] = IF word.level > my[t].level THEN MovedOn(t)
                                      ELSE FollowWord(t, word)]
           /\ UNCHANGED nodes
  /\ UNCHANGED <<dist, dist8, vis, helped_at>>

\* The two words are read one after the other, in either order.
Jump(t) ==
  /\ At(t, "jump")
  /\ \E p \in {0, 1} :
       my' = [my EXCEPT ![t].pc = "jump_other", ![t].item = p,
                        ![t].seen = nodes[p].plan_word]
  /\ UNCHANGED memory

\* the level that is over
SlipOlder(a, b) == (IF a < b THEN a ELSE b) - 1
Older(a, b) == IF a < b THEN a ELSE b

JumpOther(t) ==
  /\ At(t, "jump_other")
  /\ my' = [my EXCEPT ![t].pc = "plan", ![t].item = 0,
                      ![t].seen = Word(0, "top_down", FALSE),
                      ![t].level = Older(my[t].seen.level,
                                         nodes[1 - my[t].item].plan_word.level)]
  /\ UNCHANGED memory

\* progress[tid] and codes_progress[tid]
ResetProgress(t) ==
  /\ At(t, "reset")
  /\ SetEntry(t, [Entry(t) EXCEPT !.last_done = 0, !.codes_last_done = 0])
  /\ Goto(t, "empty")
  /\ UNCHANGED <<dist, dist8, vis, helped_at>>

\* begin_level(): the size, then the tag.
EmptyBucket(t) ==
  /\ At(t, "empty")
  /\ SetNextBucket(t, [nodes[There(t)].owners[t].bucket EXCEPT !.size = 0])
  /\ Goto(t, "retag")
  /\ UNCHANGED <<dist, dist8, vis, helped_at>>

TagBucket(t) ==
  /\ At(t, "retag")
  /\ SetNextBucket(t, [nodes[There(t)].owners[t].bucket EXCEPT !.level = my[t].level + 1])
  /\ Goto(t, IF my[t].direction = "top_down" THEN "done"
             ELSE IF my[t].codes_first THEN "codes" ELSE "reserve")
  /\ UNCHANGED <<dist, dist8, vis, helped_at>>

Plan(t) ==
  \/ LoadWord(t) \/ SumTag(t) \/ SumSize(t) \/ Choose(t) \/ Jump(t) \/ JumpOther(t)
  \/ ResetProgress(t) \/ EmptyBucket(t) \/ TagBucket(t)

-----------------------------------------------------------------------------
(***************************************************************************)
(* last_done_on() and codes_done_on(): the owner's progress counts only    *)
(* once its next bucket has the tag of the next level.                     *)
(***************************************************************************)

\* any tag will do
SlipTagged(t) == TRUE
Tagged(t) == nodes[There(t)].owners[my[t].owner].bucket.level = my[t].level + 1

\* mark_done() has two accesses: a thread may lower what it finds.
TestMark(t) ==
  /\ At(t, "finish")
  /\ IF Entry(t).done < my[t].level
     THEN Goto(t, "mark_done")
     ELSE NextOwner(t, IF my[t].direction = "top_down" THEN "done" ELSE "help", "advance")
  /\ UNCHANGED memory

MarkDone(t) ==
  /\ At(t, "mark_done")
  /\ SetEntry(t, [Entry(t) EXCEPT !.done = my[t].level])
  /\ NextOwner(t, IF my[t].direction = "top_down" THEN "done" ELSE "help", "advance")
  /\ UNCHANGED <<dist, dist8, vis, helped_at>>

-----------------------------------------------------------------------------
(***************************************************************************)
(* top_down_level().                                                       *)
(***************************************************************************)

TestDone(t) ==
  /\ At(t, "done")
  /\ IF Entry(t).done >= my[t].level
     THEN NextOwner(t, "done", "advance") ELSE Goto(t, "this_level")
  /\ UNCHANGED memory

TestTag(t) ==
  /\ At(t, "this_level")
  /\ IF Entry(t).bucket.level # my[t].level
     THEN NextOwner(t, "done", "advance") ELSE Goto(t, "size")
  /\ UNCHANGED memory

TestSize(t) ==
  /\ At(t, "size")
  /\ IF Entry(t).bucket.size = 0
     THEN NextOwner(t, "done", "advance") ELSE Goto(t, "load")
  /\ UNCHANGED memory

\* The size again: the owner may have emptied the bucket in between.
LoadSize(t) ==
  /\ At(t, "load")
  /\ LET size == Entry(t).bucket.size
     IN my' = [my EXCEPT ![t].sz = size,
                         ![t].todo = IF Own(t) THEN 1 .. size ELSE {},
                         ![t].pc = IF Own(t) THEN "entry" ELSE "start_tag"]
  /\ UNCHANGED memory

HelpFrom(t, start) ==
  LET rest == start .. my[t].sz
  IN my' = [my EXCEPT ![t].todo = rest, ![t].pc = IF rest = {} THEN "finish" ELSE "entry"]

StartTag(t) ==
  /\ At(t, "start_tag")
  /\ IF Tagged(t) THEN Goto(t, "start") ELSE HelpFrom(t, 1)
  /\ UNCHANGED memory

StartHelping(t) ==
  /\ At(t, "start")
  /\ HelpFrom(t, Entry(t).last_done + 1)
  /\ UNCHANGED memory

\* What a thread can read at a position: junk is whatever the memory held.
Readable(entry) == IF entry = Junk THEN Vertex \cup {None} ELSE {entry}

\* The owner takes its entries in order, a helper in any.
TakeEntry(t) ==
  /\ At(t, "entry")
  /\ \E i \in my[t].todo :
       /\ Own(t) => \A x \in my[t].todo : i <= x
       /\ \E u \in Readable(Entry(t).bucket.list[i]) :
            my' = [my EXCEPT ![t].item = i, ![t].u = u, ![t].todo = @ \ {i},
                             ![t].pc = IF Own(t) THEN "visited" ELSE "at_level"]
  /\ UNCHANGED memory

\* After an entry: the owner reports it.
AfterEntry(t) ==
  IF Own(t) THEN Goto(t, "progress")
  ELSE my' = [my EXCEPT ![t].u = None, ![t].item = 0, ![t].j = 0,
                        ![t].pc = IF my[t].todo = {} THEN "finish" ELSE "entry"]

\* only that it is a vertex, and one that has been found
SlipIsAtLevel(u, level) == u \in Vertex /\ dist[u] # Unset
\* at_level()
IsAtLevel(u, level) == u \in Vertex /\ dist[u] = level

TestLevel(t) ==
  /\ At(t, "at_level")
  /\ IF IsAtLevel(my[t].u, my[t].level) THEN Goto(t, "visited") ELSE AfterEntry(t)
  /\ UNCHANGED memory

\* The neighbours of u from position p on, in the order of the list: that a
\* helper takes long lists in shuffled blocks is left out.
FromNeighbor(t, p) ==
  my' = [my EXCEPT ![t].j = p,
                   ![t].pc = IF p <= Len(adj[my[t].u]) THEN "neighbor" ELSE "vis"]
V(t) == adj[my[t].u][my[t].j]

TestVisited(t) ==
  /\ At(t, "visited")
  /\ IF vis[my[t].u] THEN AfterEntry(t) ELSE FromNeighbor(t, 1)
  /\ UNCHANGED memory

TestNeighbor(t) ==
  /\ At(t, "neighbor")
  /\ IF dist[V(t)] = Unset THEN Goto(t, "push") ELSE FromNeighbor(t, my[t].j + 1)
  /\ UNCHANGED memory

\* discover_and_count(): the push, then the swap.
PushVertex(t) ==
  /\ At(t, "push")
  /\ Push(t, V(t))
  /\ Goto(t, "swap")
  /\ UNCHANGED <<dist, dist8, vis, helped_at>>

SwapDist(t) ==
  /\ At(t, "swap")
  /\ dist' = [dist EXCEPT ![V(t)] = IF @ = Unset THEN my[t].level + 1 ELSE @]
  /\ FromNeighbor(t, my[t].j + 1)
  /\ UNCHANGED <<dist8, vis, helped_at, nodes>>

MarkVisited(t) ==
  /\ At(t, "vis")
  /\ vis' = [vis EXCEPT ![my[t].u] = TRUE]
  /\ AfterEntry(t)
  /\ UNCHANGED <<dist, dist8, helped_at, nodes>>

Progress(t) ==
  /\ At(t, "progress")
  /\ SetEntry(t, [Entry(t) EXCEPT !.last_done = my[t].item])
  /\ my' = [my EXCEPT ![t].u = None, ![t].item = 0, ![t].j = 0,
                      ![t].pc = IF my[t].todo = {} THEN "finish" ELSE "entry"]
  /\ UNCHANGED <<dist, dist8, vis, helped_at>>

TopDown(t) ==
  \/ TestDone(t) \/ TestTag(t) \/ TestSize(t) \/ LoadSize(t) \/ StartTag(t)
  \/ StartHelping(t) \/ TakeEntry(t) \/ TestLevel(t) \/ TestVisited(t)
  \/ TestNeighbor(t) \/ PushVertex(t) \/ SwapDist(t) \/ MarkVisited(t) \/ Progress(t)

-----------------------------------------------------------------------------
(***************************************************************************)
(* write_frontier_codes().                                                 *)
(***************************************************************************)

TestCodesDone(t) ==
  /\ At(t, "codes")
  /\ IF Entry(t).codes_done >= my[t].level
     THEN NextOwner(t, "codes", "reserve") ELSE Goto(t, "codes_tag")
  /\ UNCHANGED memory

CodesTag(t) ==
  /\ At(t, "codes_tag")
  /\ Goto(t, IF Entry(t).bucket.level = my[t].level THEN "codes_size" ELSE "codes_finish")
  /\ UNCHANGED memory

\* The entry at position i is next, if there is one.
FromEntry(t, i, sz) ==
  my' = [my EXCEPT ![t].item = i, ![t].sz = sz, ![t].u = None,
                   ![t].pc = IF i <= sz THEN "code" ELSE "codes_finish"]

CodesSize(t) ==
  /\ At(t, "codes_size")
  /\ LET size == Entry(t).bucket.size
     IN IF Own(t) THEN FromEntry(t, 1, size)
        ELSE my' = [my EXCEPT ![t].sz = size, ![t].pc = "codes_start_tag"]
  /\ UNCHANGED memory

CodesStartTag(t) ==
  /\ At(t, "codes_start_tag")
  /\ IF Tagged(t) THEN Goto(t, "codes_start") ELSE FromEntry(t, 1, my[t].sz)
  /\ UNCHANGED memory

CodesStart(t) ==
  /\ At(t, "codes_start")
  /\ FromEntry(t, Entry(t).codes_last_done + 1, my[t].sz)
  /\ UNCHANGED memory

CodesEntry(t) ==
  /\ At(t, "code")
  /\ \E u \in Readable(Entry(t).bucket.list[my[t].item]) :
       my' = [my EXCEPT ![t].u = u, ![t].pc = IF Own(t) THEN "write_code" ELSE "code_level"]
  /\ UNCHANGED memory

CodeLevel(t) ==
  /\ At(t, "code_level")
  /\ IF IsAtLevel(my[t].u, my[t].level)
     THEN Goto(t, "write_code") ELSE FromEntry(t, my[t].item + 1, my[t].sz)
  /\ UNCHANGED memory

WriteCode(t) ==
  /\ At(t, "write_code")
  /\ dist8' = [dist8 EXCEPT ![my[t].u] = CodeOf(my[t].level)]
  /\ IF Own(t) THEN Goto(t, "codes_progress")
               ELSE FromEntry(t, my[t].item + 1, my[t].sz)
  /\ UNCHANGED <<dist, vis, helped_at, nodes>>

CodesProgress(t) ==
  /\ At(t, "codes_progress")
  /\ SetEntry(t, [Entry(t) EXCEPT !.codes_last_done = my[t].item])
  /\ FromEntry(t, my[t].item + 1, my[t].sz)
  /\ UNCHANGED <<dist, dist8, vis, helped_at>>

TestCodesMark(t) ==
  /\ At(t, "codes_finish")
  /\ IF Entry(t).codes_done < my[t].level
     THEN Goto(t, "mark_codes_done") ELSE NextOwner(t, "codes", "reserve")
  /\ UNCHANGED memory

MarkCodesDone(t) ==
  /\ At(t, "mark_codes_done")
  /\ SetEntry(t, [Entry(t) EXCEPT !.codes_done = my[t].level])
  /\ NextOwner(t, "codes", "reserve")
  /\ UNCHANGED <<dist, dist8, vis, helped_at>>

Codes(t) ==
  \/ TestCodesDone(t) \/ CodesTag(t) \/ CodesSize(t) \/ CodesStartTag(t)
  \/ CodesStart(t) \/ CodesEntry(t) \/ CodeLevel(t) \/ WriteCode(t)
  \/ CodesProgress(t) \/ TestCodesMark(t) \/ MarkCodesDone(t)

-----------------------------------------------------------------------------
(***************************************************************************)
(* bottom_up_level(): reserve() may give the thread's next bucket another  *)
(* array.  It is empty, so nothing is copied, and a reader of the level    *)
(* two back that loads the new array finds junk there.  A reader that      *)
(* holds the old one finds its entries; here it may find anything, too.    *)
(***************************************************************************)

Reserve(t) ==
  /\ At(t, "reserve")
  /\ LET b == nodes[There(t)].owners[t].bucket
     IN \/ UNCHANGED nodes
        \/ SetNextBucket(t, [b EXCEPT !.list = [i \in DOMAIN @ |-> Junk]])
  /\ my' = [my EXCEPT ![t].item = 1, ![t].pc = "own"]
  /\ UNCHANGED <<dist, dist8, vis, helped_at>>

(***************************************************************************)
(* scan_block(): block my.item of my.owner.                                *)
(***************************************************************************)

Begin(o, k) == (o + (k - 1) * NumT) * BlockSize
End(o, k) == IF Begin(o, k) + BlockSize < N THEN Begin(o, k) + BlockSize ELSE N

Scan(t) == my' = [my EXCEPT ![t].pc = "gather", ![t].j = Begin(my[t].owner, my[t].item)]

\* The candidates that are left; after the last one, the end of the block.
Test(t, cand) ==
  my' = [my EXCEPT ![t].cand = cand,
                   ![t].j = IF cand = <<>> THEN 0 ELSE 1,
                   ![t].pc = IF cand # <<>> THEN "test"
                             ELSE IF Own(t) THEN "own_progress" ELSE "stamp"]

Gather(t) ==
  /\ At(t, "gather")
  /\ LET u == my[t].j
         cand == IF dist[u] = Unset THEN Append(my[t].cand, u) ELSE my[t].cand
     IN IF u + 1 < End(my[t].owner, my[t].item)
        THEN my' = [my EXCEPT ![t].cand = cand, ![t].j = @ + 1]
        ELSE Test(t, cand)
  /\ UNCHANGED memory

C(t) == Head(my[t].cand)

InFrontier(t, v) ==
  LET code == CodeOf(my[t].level)
  IN IF code > 0 THEN dist8[v] = code ELSE dist[v] = my[t].level

TestCandidate(t) ==
  /\ At(t, "test")
  /\ IF my[t].j > Len(adj[C(t)])
     THEN Test(t, Tail(my[t].cand))
     ELSE IF InFrontier(t, adj[C(t)][my[t].j])
     THEN Goto(t, "found")
     ELSE my' = [my EXCEPT ![t].j = @ + 1]
  /\ UNCHANGED memory

\* discover_vertex(): pushed, then coded, then marked.
PushFound(t) ==
  /\ At(t, "found")
  /\ Push(t, C(t))
  /\ Goto(t, "next_code")
  /\ UNCHANGED <<dist, dist8, vis, helped_at>>

NextCode(code) == IF code > 0 /\ code < MaxCode THEN code + 1 ELSE 0

WriteNextCode(t) ==
  /\ At(t, "next_code")
  /\ dist8' = [dist8 EXCEPT ![C(t)] = NextCode(CodeOf(my[t].level))]
  /\ Goto(t, "mark")
  /\ UNCHANGED <<dist, vis, helped_at, nodes>>

MarkFound(t) ==
  /\ At(t, "mark")
  /\ dist' = [dist EXCEPT ![C(t)] = my[t].level + 1]
  /\ Test(t, Tail(my[t].cand))
  /\ UNCHANGED <<dist8, vis, helped_at, nodes>>

ScanBlock(t) ==
  \/ Gather(t) \/ TestCandidate(t) \/ PushFound(t) \/ WriteNextCode(t) \/ MarkFound(t)

-----------------------------------------------------------------------------
(***************************************************************************)
(* fetch_own_blocks() and fetch_other_blocks().                            *)
(***************************************************************************)

Stamped(t) == helped_at[my[t].owner][my[t].item] = my[t].level

OwnBlock(t) ==
  /\ At(t, "own")
  /\ Goto(t, IF my[t].item <= Owned(t) /\ Entry(t).done < my[t].level
             THEN "own_stamp" ELSE "finish")
  /\ UNCHANGED memory

OwnStamp(t) ==
  /\ At(t, "own_stamp")
  /\ IF Stamped(t) THEN Goto(t, "own_progress") ELSE Scan(t)
  /\ UNCHANGED memory

OwnProgress(t) ==
  /\ At(t, "own_progress")
  /\ SetEntry(t, [Entry(t) EXCEPT !.last_done = my[t].item])
  /\ my' = [my EXCEPT ![t].item = @ + 1, ![t].pc = "own"]
  /\ UNCHANGED <<dist, dist8, vis, helped_at>>

Help(t) ==
  /\ At(t, "help")
  /\ IF Entry(t).done >= my[t].level
     THEN NextOwner(t, "help", "advance") ELSE Goto(t, "help_tag")
  /\ UNCHANGED memory

\* Another block, in any order, or the end.
NextBlock(t) ==
  my' = [my EXCEPT ![t].item = 0, ![t].pc = IF my[t].todo = {} THEN "finish" ELSE "block"]
BlocksFrom(t, start) ==
  LET rest == start .. Owned(my[t].owner)
  IN my' = [my EXCEPT ![t].todo = rest, ![t].pc = IF rest = {} THEN "finish" ELSE "block"]

HelpTag(t) ==
  /\ At(t, "help_tag")
  /\ IF Tagged(t) THEN Goto(t, "help_start") ELSE BlocksFrom(t, 1)
  /\ UNCHANGED memory

HelpStart(t) ==
  /\ At(t, "help_start")
  /\ BlocksFrom(t, Entry(t).last_done + 1)
  /\ UNCHANGED memory

HelpBlock(t) ==
  /\ At(t, "block")
  /\ IF Entry(t).done >= my[t].level
     THEN my' = [my EXCEPT ![t].todo = {}, ![t].pc = "finish"]
     ELSE \E k \in my[t].todo :
            my' = [my EXCEPT ![t].item = k, ![t].todo = @ \ {k}, ![t].pc = "block_tag"]
  /\ UNCHANGED memory

BlockTag(t) ==
  /\ At(t, "block_tag")
  /\ Goto(t, IF Tagged(t) THEN "block_progress" ELSE "block_stamp")
  /\ UNCHANGED memory

TestProgress(t) ==
  /\ At(t, "block_progress")
  /\ IF my[t].item > Entry(t).last_done THEN Goto(t, "block_stamp") ELSE NextBlock(t)
  /\ UNCHANGED memory

TestStamp(t) ==
  /\ At(t, "block_stamp")
  /\ IF Stamped(t) THEN NextBlock(t) ELSE Scan(t)
  /\ UNCHANGED memory

Stamp(t) ==
  /\ At(t, "stamp")
  /\ helped_at' = [helped_at EXCEPT ![my[t].owner][my[t].item] = my[t].level]
  /\ NextBlock(t)
  /\ UNCHANGED <<dist, dist8, vis, nodes>>

BottomUp(t) ==
  \/ Reserve(t) \/ OwnBlock(t) \/ OwnStamp(t) \/ OwnProgress(t)
  \/ Help(t) \/ HelpTag(t) \/ HelpStart(t) \/ HelpBlock(t) \/ BlockTag(t)
  \/ TestProgress(t) \/ TestStamp(t) \/ Stamp(t)

-----------------------------------------------------------------------------

\* level++
Advance(t) ==
  /\ At(t, "advance")
  /\ my' = [my EXCEPT ![t] = [AtRest(t, "plan") EXCEPT !.level = @ + 1, !.owner = 0]]
  /\ UNCHANGED memory

\* The next search, once all have returned (see SearchControl).
SearchAgain ==
  /\ \A t \in Thread : At(t, "returned")
  /\ dist' = FreshDist /\ dist8' = FreshCodes /\ vis' = FreshVis
  /\ helped_at' = FreshStamps
  /\ nodes' = FreshNodes /\ my' = FreshThreads

Step(t) ==
  \/ Plan(t) \/ TestMark(t) \/ MarkDone(t) \/ TopDown(t)
  \/ Codes(t) \/ ScanBlock(t) \/ BottomUp(t) \/ Advance(t)

Next == SearchAgain \/ \E t \in Thread : Step(t)

Spec == Init /\ [][Next]_vars

-----------------------------------------------------------------------------

Deciding == {"plan", "tag", "sum", "choose", "jump", "jump_other"}
Scanning == {"own", "own_stamp", "own_progress", "gather", "test", "found", "next_code",
             "mark", "help", "help_tag", "help_start", "block", "block_tag",
             "block_progress", "block_stamp", "stamp"}
Working(t) == my[t].pc \notin Deciding \cup {"advance", "returned"}

(***************************************************************************)
(* No code above max_code is written into a byte of dist8; whatever a late *)
(* reader finds in a bucket, it expands only vertices; a bucket never      *)
(* outgrows what its array holds, and levels end where the graph does.     *)
(***************************************************************************)
TypeOK ==
  /\ dist \in [Vertex -> Unset .. MaxDelta]
  /\ dist8 \in [Vertex -> 0 .. MaxCode]
  /\ vis \in [Vertex -> BOOLEAN]
  /\ helped_at \in [Thread -> [1 .. Owned(0) -> None .. MaxDelta]]
  /\ \A p \in {0, 1}, t \in Thread :
       LET b == nodes[p].owners[t].bucket
       IN /\ b.size \in 0 .. Len(b.list)
          /\ \A i \in 1 .. b.size : b.list[i] \in Vertex
          /\ b.level \in {None} \cup 0 .. MaxDelta + 1
  /\ \A t \in Thread :
       /\ my[t].level \in 0 .. MaxDelta + 1
       /\ my[t].pc \in {"visited", "neighbor", "push", "swap", "vis", "write_code"} =>
            my[t].u \in Vertex

(***************************************************************************)
(* A level is run one way: threads in the same level follow the same       *)
(* word, however late they come, and while its node still has the word,    *)
(* that one.  A position of one kind would be read as one of the other.    *)
(***************************************************************************)
OnePlan ==
  \A t \in Thread : Working(t) =>
    LET word == Word(my[t].level, my[t].direction, my[t].codes_first)
    IN /\ Curr(t).plan_word.level >= my[t].level
       /\ Curr(t).plan_word.level = my[t].level => Curr(t).plan_word = word
       /\ \A s \in Thread : Working(s) /\ my[s].level = my[t].level =>
            word = Word(my[s].level, my[s].direction, my[s].codes_first)

(***************************************************************************)
(* A bucket is reused only when the level it held is over: when it is      *)
(* emptied for level d, every vertex nearer than d has its distance.  A    *)
(* thread works on a level only when that level is complete, also after a  *)
(* jump.                                                                   *)
(***************************************************************************)
ReusedWhenOver ==
  \A v \in Vertex : dist[v] # Delta[v] =>
    /\ \A p \in {0, 1}, t \in Thread : nodes[p].owners[t].bucket.level <= Delta[v]
    /\ \A t \in Thread : Working(t) => my[t].level < Delta[v]

(***************************************************************************)
(* While a thread scans blocks, the vertices it takes for the frontier are *)
(* exactly those of its level, also when the others have left the level    *)
(* and reused its node.                                                    *)
(***************************************************************************)
FrontierTestExact ==
  \A t \in Thread : my[t].pc \in Scanning =>
    {v \in Vertex : InFrontier(t, v)} = Level(my[t].level)

(***************************************************************************)
(* What lets a block be skipped in the level a node is at is true, though  *)
(* threads of levels two or more back may still write into the same        *)
(* fields: the mark, the progress once the tag is there, the stamp.        *)
(***************************************************************************)
BlocksCovered ==
  \A p \in {0, 1}, o \in Thread :
    LET word == nodes[p].plan_word
        e == nodes[p].owners[o]
        counts == nodes[1 - p].owners[o].bucket.level = word.level + 1
    IN word.direction = "bottom_up" =>
         \A k \in 1 .. Owned(o) :
           \/ e.done >= word.level
           \/ counts /\ k <= e.last_done
           \/ helped_at[o][k] = word.level
           => \A v \in Begin(o, k) .. End(o, k) - 1 :
                Delta[v] = word.level + 1 => dist[v] # Unset

(***************************************************************************)
(* A thread never goes back, and a jump takes it to a later level that has *)
(* been chosen: falling behind costs it at most one jump per level.        *)
(***************************************************************************)
Jumps(t) ==
  /\ my'[t].level > my[t].level
  /\ \E p \in {0, 1} : my'[t].level <= nodes[p].plan_word.level

OnlyForward ==
  [][SearchAgain \/ \A t \in Thread :
       IF At(t, "jump_other") /\ my'[t] # my[t] THEN Jumps(t)
       ELSE my'[t].level >= my[t].level]_vars

(***************************************************************************)
(* With two nodes for all levels, the search does what the one with a node *)
(* per level does.                                                         *)
(***************************************************************************)
LevelOrder == INSTANCE LevelOrderBfs WITH
  finished <- {t \in Thread : At(t, "returned")}

ImplementsLevelOrder == LevelOrder!Spec

=============================================================================
