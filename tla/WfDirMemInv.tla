----------------------------- MODULE WfDirMemInv -----------------------------
(***************************************************************************)
(* The inductive invariant of WfDirMem.  The two nodes hold the levels     *)
(* Chosen and Chosen - 1.  All that is still to do is in the level Chosen: *)
(* the one before is over, or nobody would have got to choose.  Threads in *)
(* older levels are behind, and what they find to write is there already.  *)
(***************************************************************************)
EXTENDS WfDirMem

(***************************************************************************)
(* The labels, by the part of a level they belong to.                      *)
(***************************************************************************)
Reusing == {"reset", "empty", "retag"}
AtItem == {"visited", "neighbor", "push", "swap", "vis"}
Reading == {"entry", "at_level", "progress"} \cup AtItem
Starting == {"start_tag", "start"}
Looking == {"done", "this_level", "size", "load"}
Ending == {"finish", "mark_done"}
InTopDown == Looking \cup Starting \cup Reading
CodesLooking == {"codes", "codes_tag", "codes_size"}
CodesStarting == {"codes_start_tag", "codes_start"}
AtCode == {"code", "code_level", "write_code"}
InCodes == CodesLooking \cup CodesStarting \cup AtCode
           \cup {"codes_progress", "codes_finish", "mark_codes_done"}
Finding == {"found", "next_code", "mark"}
InBlock == {"gather", "test"} \cup Finding
Owning == {"own", "own_stamp", "own_progress"}
HelpBegun == {"help", "help_tag", "help_start"}
AtBlock == {"block_tag", "block_progress", "block_stamp"}
Helping == HelpBegun \cup {"block"} \cup AtBlock \cup {"stamp"}
InBottomUp == InBlock \cup Owning \cup Helping
Labels == Deciding \cup Reusing \cup InTopDown \cup Ending \cup InCodes \cup {"reserve"}
          \cup InBottomUp \cup {"advance", "returned"}

\* a thread that follows the word of its level
InLevel(t) == my[t].pc \notin Deciding

-----------------------------------------------------------------------------
(***************************************************************************)
(* The values of the variables.                                            *)
(***************************************************************************)
WordType == [level : Int, direction : {"top_down", "bottom_up", "search_done"},
             codes_first : BOOLEAN]
BucketType == [list : Seq(Vertex \cup {Junk}), size : Nat, level : Int]
OwnerShape == [bucket : BucketType, done : Int, last_done : Nat,
               codes_done : Int, codes_last_done : Nat]
ThreadShape ==
  [pc : Labels, level : Nat, direction : {"top_down", "bottom_up", "search_done"},
   codes_first : BOOLEAN, seen : WordType, owner : Thread, turn : 0 .. NumT - 1,
   sz : Nat, todo : SUBSET Nat, item : Nat, u : Vertex \cup {None}, j : Nat,
   cand : Seq(Vertex)]

Shape ==
  /\ dist \in [Vertex -> Int]
  /\ dist8 \in [Vertex -> 0 .. MaxCode]
  /\ vis \in [Vertex -> BOOLEAN]
  /\ helped_at \in [Thread -> [1 .. Owned(0) -> Int]]
  /\ nodes \in [{0, 1} -> [plan_word : WordType, owners : [Thread -> OwnerShape]]]
  /\ my \in [Thread -> ThreadShape]

-----------------------------------------------------------------------------
(***************************************************************************)
(* The two words, and where threads can be.                                *)
(***************************************************************************)
WordOf(p) == nodes[p].plan_word
Chosen == IF WordOf(0).level > WordOf(1).level THEN WordOf(0).level ELSE WordOf(1).level
Latest == WordOf(Chosen % 2)
Previous == WordOf((Chosen + 1) % 2)
Current(t) == my[t].level = Chosen
Next_(t) == my[t].level = Chosen + 1

WordsInOrder ==
  /\ \A p \in {0, 1} : WordOf(p).level % 2 = p
  /\ WordOf(0).level - WordOf(1).level \in {-1, 1} /\ Chosen >= -1
  /\ Latest.codes_first <=>
       /\ Latest.direction = "bottom_up" /\ Previous.direction = "top_down"
       /\ CodeOf(Chosen) # 0
  /\ Previous.direction # "search_done"

Place(t) ==
  /\ InLevel(t) => my[t].level <= Chosen
  /\ my[t].level <= Chosen + 1
  /\ Next_(t) => my[t].pc \in {"plan", "tag", "sum", "choose"}
                 /\ my[t].direction = Latest.direction
                 /\ my[t].direction # "search_done"
  /\ my[t].pc \in {"tag", "sum", "choose"} =>
       /\ my[t].seen.level < my[t].level
       /\ Curr(t).plan_word.level < my[t].level => Curr(t).plan_word = my[t].seen
  /\ my[t].pc = "jump" => my[t].level + 2 <= Chosen
  /\ my[t].pc = "jump_other" => my[t].level + 2 <= Chosen /\ my[t].item \in {0, 1}
                                /\ my[t].seen.level \in my[t].level + 1 .. Chosen

Followed(t) == Word(my[t].level, my[t].direction, my[t].codes_first)
OneWord ==
  \A t \in Thread : InLevel(t) =>
    /\ Curr(t).plan_word.level >= my[t].level
    /\ Curr(t).plan_word.level = my[t].level => Curr(t).plan_word = Followed(t)
    /\ \A s \in Thread : InLevel(s) /\ my[s].level = my[t].level => Followed(t) = Followed(s)

Directed(t) ==
  /\ my[t].pc \in InTopDown => my[t].direction = "top_down"
  /\ my[t].pc \in InCodes => my[t].direction = "bottom_up" /\ my[t].codes_first
  /\ my[t].pc \in InBottomUp \cup {"reserve"} => my[t].direction = "bottom_up"
  /\ InLevel(t) => (my[t].direction = "search_done" <=> my[t].pc = "returned")

WordsInv ==
  /\ WordsInOrder /\ OneWord
  /\ \A t \in Thread : Place(t) /\ Directed(t)

-----------------------------------------------------------------------------
(***************************************************************************)
(* Where a thread is in the ring of owners, in a bucket, and in the        *)
(* blocks.  A thread sees its own bucket and those of the level Chosen as  *)
(* they were when it looked at the tag.                                    *)
(***************************************************************************)
Turn(t, k) == IF t + k < NumT THEN t + k ELSE t + k - NumT
Order(t, o) == IF o >= t THEN o - t ELSE o + NumT - t

Rounds(t) ==
  /\ InLevel(t) => my[t].owner = Turn(t, my[t].turn)
  /\ my[t].pc \in Deciding \cup Reusing \cup Owning \cup {"reserve", "advance", "returned"} =>
       my[t].turn = 0
  /\ my[t].pc \in {"plan", "jump", "jump_other"} => my[t].owner = 0 /\ my[t].sz = 0
  /\ my[t].pc \in Helping => my[t].turn > 0

Bucket(p, o) == nodes[p].owners[o].bucket
At_(t) == Bucket(Here(t), my[t].owner)
Mine(t) == Bucket(There(t), t)
Firm(t) == Own(t) \/ Current(t)

Entries(t) ==
  /\ my[t].pc \in {"size", "load"} \cup Starting \cup Reading /\ Firm(t) =>
       At_(t).level = my[t].level
  /\ my[t].pc = "load" /\ Firm(t) => At_(t).size > 0
  /\ my[t].pc \in Starting \cup Reading => my[t].sz <= Len(At_(t).list)
  /\ my[t].pc \in Starting \cup Reading /\ Firm(t) => my[t].sz <= At_(t).size
  /\ my[t].pc \in Reading => my[t].todo \subseteq 1 .. my[t].sz
  /\ my[t].pc = "entry" => my[t].todo # {}
  /\ my[t].pc \in Reading \ {"entry"} =>
       /\ my[t].item \in 1 .. my[t].sz /\ my[t].item \notin my[t].todo
       /\ Own(t) => \A x \in my[t].todo : my[t].item < x
  /\ my[t].pc \in Starting \cup {"at_level"} => ~Own(t)
  /\ my[t].pc = "progress" => Own(t)
  /\ my[t].pc \in AtItem \cup {"at_level"} /\ Firm(t) => my[t].u = At_(t).list[my[t].item]
  /\ my[t].pc = "start" /\ Current(t) =>
       Bucket(There(t), my[t].owner).level = my[t].level + 1

ItemView(t) ==
  /\ my[t].pc \in AtItem => my[t].u \in Vertex /\ dist[my[t].u] = my[t].level
  /\ my[t].pc \in {"neighbor", "push", "swap"} => my[t].j \in 1 .. Len(adj[my[t].u])
  /\ my[t].pc = "vis" => my[t].j = Len(adj[my[t].u]) + 1
  /\ my[t].pc \in AtItem \ {"visited"} =>
       \A p \in 1 .. my[t].j - 1 : dist[adj[my[t].u][p]] # Unset
  /\ my[t].pc \in {"push", "swap"} => Delta[V(t)] = my[t].level + 1

CodeEntries(t) ==
  /\ my[t].pc \in {"codes_size", "codes_progress"} \cup CodesStarting \cup AtCode /\ Firm(t) =>
       At_(t).level = my[t].level
  /\ my[t].pc \in {"codes_progress"} \cup CodesStarting \cup AtCode =>
       my[t].sz <= Len(At_(t).list) /\ (Firm(t) => my[t].sz <= At_(t).size)
  /\ my[t].pc \in {"codes_progress"} \cup AtCode => my[t].item \in 1 .. my[t].sz
  /\ my[t].pc \in CodesStarting \cup {"code_level"} => ~Own(t)
  /\ my[t].pc = "codes_progress" => Own(t)
  /\ my[t].pc = "write_code" => my[t].u \in Vertex /\ dist[my[t].u] = my[t].level
  /\ my[t].pc \in {"code_level", "write_code"} /\ Firm(t) =>
       my[t].u = At_(t).list[my[t].item]
  /\ my[t].pc = "codes_start" /\ Current(t) =>
       Bucket(There(t), my[t].owner).level = my[t].level + 1

InRange(t, v) ==
  v \in Begin(my[t].owner, my[t].item) .. End(my[t].owner, my[t].item) - 1

BlockEntries(t) ==
  /\ my[t].pc = "own" => my[t].item \in 1 .. Owned(my[t].owner) + 1
  /\ my[t].pc \in {"own_stamp", "own_progress", "stamp"} \cup AtBlock \cup InBlock =>
       my[t].item \in 1 .. Owned(my[t].owner)
  /\ my[t].pc \in {"block", "stamp"} \cup AtBlock \cup InBlock /\ ~Own(t) =>
       my[t].todo \subseteq 1 .. Owned(my[t].owner)
  /\ my[t].pc = "block" => my[t].todo # {}
  /\ my[t].pc \in {"stamp"} \cup AtBlock \cup InBlock /\ ~Own(t) => my[t].item \notin my[t].todo
  /\ my[t].pc \notin InBlock => my[t].cand = <<>>
  /\ \A i \in 1 .. Len(my[t].cand) : InRange(t, my[t].cand[i])
  /\ my[t].pc = "gather" => InRange(t, my[t].j)
  /\ my[t].pc \in {"test"} \cup Finding => my[t].cand # <<>>
  /\ my[t].pc = "test" => my[t].j \in 1 .. Len(adj[C(t)]) + 1
  /\ my[t].pc \in Finding => my[t].j \in 1 .. Len(adj[C(t)])
  /\ my[t].pc \in {"help_start", "block_progress"} /\ Current(t) =>
       Bucket(There(t), my[t].owner).level = my[t].level + 1

CandidatesView(t) ==
  /\ \A i \in 1 .. Len(my[t].cand) : Delta[my[t].cand[i]] \notin 0 .. my[t].level
  /\ my[t].pc = "test" => \A p \in 1 .. my[t].j - 1 : Delta[adj[C(t)][p]] # my[t].level
  /\ my[t].pc \in Finding => Delta[C(t)] = my[t].level + 1

-----------------------------------------------------------------------------
(***************************************************************************)
(* Buckets.  Only its owner writes one, when it works on the level before. *)
(***************************************************************************)
Tags(t) ==
  /\ Bucket(Here(t), t).level <= my[t].level
  /\ my[t].pc \in Deciding \cup {"reset", "empty", "retag", "returned"} =>
       Mine(t).level <= my[t].level - 1
  /\ my[t].pc \notin Deciding \cup {"reset", "empty", "retag", "returned"} =>
       Mine(t).level = my[t].level + 1
  /\ my[t].pc \in {"retag", "reserve"} \cup InCodes => Mine(t).size = 0
  /\ my[t].pc \in {"empty", "retag"} =>
       nodes[Here(t)].owners[t].last_done = 0 /\ nodes[Here(t)].owners[t].codes_last_done = 0

BucketsSound ==
  \A p \in {0, 1}, o \in Thread :
    LET b == Bucket(p, o)
    IN b.level >= None /\ b.size <= Len(b.list) /\
       \A i \in 1 .. b.size : b.list[i] \in Vertex /\ Delta[b.list[i]] = b.level

EntryOf(d, o, v) ==
  LET b == Bucket(d % 2, o)
  IN b.level = d /\ \E i \in 1 .. b.size : b.list[i] = v

Kept ==
  \A v \in Vertex : dist[v] \in {Chosen, Chosen + 1} /\ dist[v] # Unset =>
    \E o \in Thread : EntryOf(dist[v], o, v)

PushedFirst ==
  \A t \in Thread :
    /\ my[t].pc = "swap" => EntryOf(my[t].level + 1, t, V(t))
    /\ my[t].pc \in {"next_code", "mark"} => EntryOf(my[t].level + 1, t, C(t))

-----------------------------------------------------------------------------
(***************************************************************************)
(* Distances.                                                              *)
(***************************************************************************)
DistSound == \A v \in Vertex : dist[v] \in {Unset, Delta[v]} /\ dist[v] <= Chosen + 1

Discovered(v) == dist[v] # Unset
Covered(u) == \A v \in Neighbors(u) : Discovered(v)
Found(d) == \A v \in Level(d) : Discovered(v)

LevelsFound ==
  /\ \A d \in 0 .. Chosen : Found(d)
  /\ \A t \in Thread : Next_(t) => Found(my[t].level)

VisCertificate == \A u \in Vertex : vis[u] => Covered(u)

\* A thread that adds up the sizes of a level misses no entry, and calls the level
\* empty only if it is.
Summed(t) ==
  my[t].pc \in {"tag", "sum", "choose"} /\ Next_(t) =>
    /\ my[t].pc = "sum" => At_(t).level = my[t].level
    /\ my[t].pc = "choose" /\ my[t].sz > 0 => Level(my[t].level) # {}
    /\ my[t].sz = 0 => \A v \in Level(my[t].level) :
         \E o \in Thread : o >= my[t].owner /\ my[t].pc # "choose"
                           /\ EntryOf(my[t].level, o, v)
    /\ my[t].pc \in {"tag", "sum"} => my[t].sz = 0

LevelsThere ==
  /\ Latest.direction = "search_done" <=> Chosen >= 0 /\ Level(Chosen) = {}
  /\ Chosen <= MaxDelta + 1

-----------------------------------------------------------------------------
(***************************************************************************)
(* Top-down levels: a vertex with a neighbour to be found has an entry     *)
(* nobody has declared done and every thread in the level will take.       *)
(***************************************************************************)
Done(o) == nodes[Chosen % 2].owners[o]
Counts(o) == Bucket((Chosen + 1) % 2, o).level = Chosen + 1

WillTake(t, o, i) ==
  \/ my[t].pc \in Deciding \cup Reusing
  \/ my[t].pc \in InTopDown \cup Ending /\ Order(t, o) > my[t].turn
  \/ /\ my[t].owner = o
     /\ \/ my[t].pc \in Looking
        \/ my[t].pc \in Starting /\ i <= my[t].sz
        \/ my[t].pc \in Reading /\ i \in my[t].todo
        \/ my[t].pc \in AtItem \cup {"at_level"} /\ i = my[t].item

NoneLost ==
  Latest.direction = "top_down" =>
    \A v \in Vertex : dist[v] = Chosen /\ Discovered(v) /\ ~Covered(v) =>
      \E o \in Thread : \E i \in 1 .. Done(o).bucket.size :
        /\ Done(o).bucket.level = Chosen /\ Done(o).bucket.list[i] = v
        /\ Done(o).done < Chosen
        /\ Counts(o) => Done(o).last_done < i
        /\ \A t \in Thread : Current(t) => WillTake(t, o, i)

-----------------------------------------------------------------------------
(***************************************************************************)
(* Codes.                                                                  *)
(***************************************************************************)
CodesSound ==
  \A v \in Vertex : dist8[v] # 0 => Delta[v] >= 0 /\ dist8[v] = CodeOf(Delta[v])

CodedLevel(d) == CodeOf(d) > 0 => \A v \in Level(d) : dist8[v] = CodeOf(d)

\* what a bottom-up level finds has its code before its distance
CodesPassed ==
  /\ \A p \in {0, 1} : WordOf(p).direction = "bottom_up" =>
       \A v \in Vertex : dist[v] = WordOf(p).level + 1 => dist8[v] = CodeOf(dist[v])
  /\ \A t \in Thread : my[t].pc = "mark" => dist8[C(t)] = CodeOf(my[t].level + 1)

PastCodes(t) ==
  \/ Next_(t)
  \/ Current(t) /\ InLevel(t) /\ my[t].pc \notin Reusing \cup InCodes

\* a level that a thread scans, or is over, has its codes
LevelsCoded ==
  /\ Latest.direction = "bottom_up" /\ (\E t \in Thread : PastCodes(t)) => CodedLevel(Chosen)
  /\ \A t \in Thread :
       InLevel(t) /\ my[t].direction = "bottom_up" /\ ~Current(t) => CodedLevel(my[t].level)
  /\ Previous.direction = "bottom_up" => CodedLevel(Previous.level)

WillCode(t, o, i) ==
  \/ my[t].pc \in Deciding \cup Reusing
  \/ my[t].pc \in InCodes /\ Order(t, o) > my[t].turn
  \/ /\ my[t].owner = o
     /\ \/ my[t].pc \in CodesLooking
        \/ my[t].pc \in CodesStarting /\ i <= my[t].sz
        \/ my[t].pc \in AtCode /\ i \in my[t].item .. my[t].sz
        \/ my[t].pc = "codes_progress" /\ i \in my[t].item + 1 .. my[t].sz

NoneUncoded ==
  Latest.codes_first =>
    \A v \in Level(Chosen) : dist8[v] # CodeOf(Chosen) =>
      \E o \in Thread : \E i \in 1 .. Done(o).bucket.size :
        /\ Done(o).bucket.level = Chosen /\ Done(o).bucket.list[i] = v
        /\ Done(o).codes_done < Chosen
        /\ Counts(o) => Done(o).codes_last_done < i
        /\ \A t \in Thread : Current(t) => WillCode(t, o, i)

-----------------------------------------------------------------------------
(***************************************************************************)
(* Bottom-up levels: a vertex to be found is in a block nobody has         *)
(* declared done and every thread in the level will scan.                  *)
(***************************************************************************)
InScan(t, x) ==
  \/ my[t].pc = "gather" /\ x >= my[t].j
  \/ \E i \in 1 .. Len(my[t].cand) : my[t].cand[i] = x

WillScan(t, o, k, x) ==
  \/ my[t].pc \in Deciding \cup Reusing \cup InCodes \cup {"reserve"}
  \/ my[t].pc \in InBottomUp \cup Ending /\ Order(t, o) > my[t].turn
  \/ /\ my[t].owner = o
     /\ \/ my[t].pc \in {"own", "own_stamp"} /\ my[t].item <= k
        \/ my[t].pc = "own_progress" /\ my[t].item < k
        \/ my[t].pc \in HelpBegun
        \/ my[t].pc \in {"block", "stamp"} \cup AtBlock /\ k \in my[t].todo
        \/ my[t].pc \in AtBlock /\ k = my[t].item
        \/ my[t].pc \in InBlock /\ my[t].item = k /\ InScan(t, x)
        \/ my[t].pc \in InBlock /\ Own(t) /\ my[t].item < k
        \/ my[t].pc \in InBlock /\ ~Own(t) /\ k \in my[t].todo

NoneUnscanned ==
  Latest.direction = "bottom_up" =>
    \A o \in Thread : \A k \in 1 .. Owned(o) : \A x \in Begin(o, k) .. End(o, k) - 1 :
      Delta[x] = Chosen + 1 /\ ~Discovered(x) =>
        /\ Done(o).done < Chosen
        /\ Counts(o) => Done(o).last_done < k
        /\ helped_at[o][k] # Chosen
        /\ \A t \in Thread : Current(t) => WillScan(t, o, k, x)

Untouched ==
  /\ \A p \in {0, 1}, o \in Thread :
       /\ nodes[p].owners[o].done \in {None} \cup 0 .. WordOf(p).level
       /\ nodes[p].owners[o].codes_done \in {None} \cup 0 .. WordOf(p).level
  /\ \A o \in Thread : \A k \in 1 .. Owned(0) :
       helped_at[o][k] >= None /\ helped_at[o][k] <= Chosen /\ helped_at[o][k] <= MaxDelta

-----------------------------------------------------------------------------
(***************************************************************************)
(* The inductive invariant.                                                *)
(***************************************************************************)
Positions ==
  \A t \in Thread :
    Rounds(t) /\ Entries(t) /\ ItemView(t) /\ CodeEntries(t) /\ BlockEntries(t)
    /\ CandidatesView(t) /\ Tags(t) /\ Summed(t)

LevelsInv == BucketsSound /\ Kept /\ PushedFirst /\ DistSound /\ LevelsFound /\ VisCertificate
             /\ LevelsThere
CodesInv == CodesSound /\ CodesPassed /\ LevelsCoded /\ NoneUncoded

IInv ==
  Shape /\ WordsInv /\ Positions /\ LevelsInv /\ CodesInv /\ NoneLost /\ NoneUnscanned /\ Untouched

=============================================================================
