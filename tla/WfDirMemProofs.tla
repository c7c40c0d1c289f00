--------------------------- MODULE WfDirMemProofs ---------------------------
(***************************************************************************)
(* What WfDirMem does, for every number of threads and vertices, every     *)
(* size of a block, every largest code and every direction rule: the       *)
(* invariant of WfDirMemInv holds in every state, and the properties of    *)
(* WfDirMem and the refinement of LevelOrderBfs follow from it.            *)
(*                                                                         *)
(* First what every step does to the words, buckets, marks and data of the *)
(* nodes (its writes) and to the thread that takes it (its path); then one *)
(* lemma per part of the invariant, named for the part: WordsKept,         *)
(* PositionsKept, KeptKept, NoneLostKept ...; then the theorems.           *)
(***************************************************************************)
EXTENDS WfDirMemInv, BfsGraphProofs

-----------------------------------------------------------------------------
(***************************************************************************)
(* The blocks cover the vertices.                                          *)
(***************************************************************************)
LEMMA BlocksFacts ==
  /\ Blocks \in Nat /\ Blocks >= 1
  /\ (Blocks - 1) * BlockSize < N
  /\ N <= Blocks * BlockSize
<1>1. N + BlockSize - 1 \in Nat /\ BlockSize \in Nat \ {0} /\ N \in Nat /\ N >= 1 /\ N + BlockSize - 1 >= BlockSize
  BY MemAssumption
<1> DEFINE b == (N + BlockSize - 1) \div BlockSize
<1>2. b \in Nat /\ b * BlockSize <= N + BlockSize - 1 /\ N + BlockSize - 1 < b * BlockSize + BlockSize
  BY <1>1, Quotients
<1> HIDE DEF b
<1>3. b # 0 BY <1>1, <1>2
<1>4. b >= 1 /\ (b - 1) * BlockSize < N /\ N <= b * BlockSize BY <1>1, <1>2, <1>3
<1> QED BY <1>2, <1>4 DEF b, Blocks

LEMMA OwnedFacts ==
  ASSUME NEW o \in Thread
  PROVE /\ Owned(o) \in Nat
        /\ \A k \in 1 .. Owned(o) : o + (k - 1) * NumT \in 0 .. Blocks - 1
        /\ Owned(o) <= Owned(0)
<1>0. o \in Nat /\ NumT \in Nat \ {0} /\ Blocks \in Nat \ {0} /\ 0 \in Thread
  BY BlocksFacts, MemAssumption DEF Thread
<1>1. CASE o < Blocks
 <2> DEFINE q == (Blocks - 1 - o) \div NumT
            q0 == (Blocks - 1 - 0) \div NumT
 <2>1. q \in Nat /\ q * NumT <= Blocks - 1 - o
  <3>1. Blocks - 1 - o \in Nat BY <1>0, <1>1
  <3> QED BY <1>0, <3>1, Quotients
 <2>2. q0 \in Nat /\ Blocks - 1 < q0 * NumT + NumT
  <3>1. Blocks - 1 - 0 \in Nat BY <1>0, <1>1
  <3> QED BY <1>0, <3>1, Quotients
 <2>3. Owned(o) = q + 1 /\ Owned(0) = q0 + 1 BY <1>0, <1>1 DEF Owned
 <2> HIDE DEF q, q0
 <2>4. q <= q0
  <3>1. SUFFICES ASSUME q >= q0 + 1 PROVE FALSE BY <2>1, <2>2
  <3>2. (q0 + 1) * NumT <= q * NumT BY <1>0, <2>1, <2>2, <3>1, Mult
  <3> QED BY <1>0, <2>1, <2>2, <3>2
 <2>5. ASSUME NEW k \in 1 .. q + 1 PROVE o + (k - 1) * NumT \in 0 .. Blocks - 1
  <3>1. k - 1 \in Nat /\ k - 1 <= q BY <2>1
  <3>2. (k - 1) * NumT <= q * NumT BY <1>0, <2>1, <3>1, Mult
  <3>3. (k - 1) * NumT \in Nat /\ q * NumT \in Nat BY <1>0, <2>1, <3>1
  <3> QED BY <1>0, <2>1, <3>2, <3>3
 <2> QED BY <2>1, <2>2, <2>3, <2>4, <2>5
<1>2. CASE ~(o < Blocks)
 <2>1. (Blocks - 1 - 0) \in Nat BY <1>0
 <2>2. (Blocks - 1 - 0) \div NumT \in Nat BY <1>0, <2>1, Quotients
 <2> QED BY <1>0, <1>2, <2>2 DEF Owned
<1> QED BY <1>1, <1>2

LEMMA BlockRange ==
  ASSUME NEW o \in Thread, NEW k \in 1 .. Owned(o)
  PROVE /\ Begin(o, k) \in Nat /\ End(o, k) \in Nat
        /\ Begin(o, k) < End(o, k) /\ End(o, k) <= N
<1> DEFINE b == o + (k - 1) * NumT
<1>0. BlockSize \in Nat \ {0} /\ N \in Nat BY MemAssumption
<1>1. b \in Nat /\ b <= Blocks - 1 /\ Blocks - 1 \in Nat BY OwnedFacts, BlocksFacts
<1>2. Begin(o, k) = b * BlockSize BY DEF Begin
<1> HIDE DEF b
<1>3. b * BlockSize \in Nat /\ b * BlockSize <= (Blocks - 1) * BlockSize BY <1>0, <1>1, Mult
<1>4. (Blocks - 1) * BlockSize \in Nat /\ (Blocks - 1) * BlockSize < N BY <1>0, <1>1, BlocksFacts
<1> QED BY <1>0, <1>2, <1>3, <1>4 DEF End

LEMMA InSomeBlock ==
  ASSUME NEW v \in Vertex
  PROVE  \E o \in Thread : \E k \in 1 .. Owned(o) : v \in Begin(o, k) .. End(o, k) - 1
<1> DEFINE b == v \div BlockSize
           q == b \div NumT
           o == b - q * NumT
<1>0. v \in Nat /\ v < N /\ BlockSize \in Nat \ {0} /\ NumT \in Nat \ {0} /\ N \in Nat
  BY MemAssumption
<1>1. b \in Nat /\ b * BlockSize <= v /\ v < b * BlockSize + BlockSize BY <1>0, Quotients
<1>2. b <= Blocks - 1
 <2> HIDE DEF b
 <2>0. Blocks \in Nat /\ N <= Blocks * BlockSize BY BlocksFacts
 <2>1. SUFFICES ASSUME b >= Blocks PROVE FALSE BY <1>1, <2>0
 <2>2. Blocks * BlockSize <= b * BlockSize BY <1>0, <1>1, <2>0, <2>1, Mult
 <2>3. Blocks * BlockSize \in Nat /\ b * BlockSize \in Nat BY <1>0, <1>1, <2>0
 <2> QED BY <1>0, <1>1, <2>0, <2>2, <2>3
<1>3. q \in Nat /\ q * NumT <= b /\ b < q * NumT + NumT BY <1>0, <1>1, Quotients
<1> HIDE DEF b, q
<1>4. q * NumT \in Nat BY <1>0, <1>3
<1>5. o \in Thread /\ o \in Nat /\ b = o + q * NumT BY <1>0, <1>1, <1>3, <1>4 DEF Thread
<1> HIDE DEF o
<1>6. q + 1 \in 1 .. Owned(o)
 <2>0. Blocks \in Nat BY BlocksFacts
 <2>1. o < Blocks /\ Blocks - 1 - o \in Nat /\ q * NumT <= Blocks - 1 - o
   BY <1>1, <1>2, <1>4, <1>5, <2>0
 <2> DEFINE p == (Blocks - 1 - o) \div NumT
 <2>2. p \in Nat /\ Blocks - 1 - o < p * NumT + NumT BY <1>0, <2>1, Quotients, Zenon
 <2>3. Owned(o) = p + 1 BY <2>1 DEF Owned
 <2> HIDE DEF p
 <2>4. q <= p
  <3>1. SUFFICES ASSUME q >= p + 1 PROVE FALSE BY <1>3, <2>2
  <3>2. (p + 1) * NumT <= q * NumT BY <1>0, <1>3, <2>2, <3>1, Mult
  <3> QED BY <1>0, <1>3, <2>1, <2>2, <3>2
 <2> QED BY <1>3, <2>2, <2>3, <2>4
<1>7. Begin(o, q + 1) = b * BlockSize
 <2>1. (q + 1) - 1 = q BY <1>3
 <2> QED BY <1>5, <2>1 DEF Begin
<1>8. b * BlockSize \in Nat BY <1>0, <1>1
<1>9. v \in Begin(o, q + 1) .. End(o, q + 1) - 1 BY <1>0, <1>1, <1>7, <1>8 DEF End
<1> QED BY <1>5, <1>6, <1>9

LEMMA ThreadTypes == NumT \in Nat \ {0} /\ 0 \in Thread /\ NumT - 1 \in Thread
  BY MemAssumption DEF Thread

LEMMA RingNext ==
  ASSUME NEW o \in Thread
  PROVE  (o + 1) % NumT = (IF o + 1 < NumT THEN o + 1 ELSE 0) /\ (o + 1) % NumT \in Thread
  BY ThreadTypes DEF Thread

LEMMA TurnNext ==
  ASSUME NEW t \in Thread, NEW k \in 0 .. NumT - 1
  PROVE  /\ Turn(t, k) \in Thread
         /\ k + 1 < NumT => Turn(t, k + 1) = (Turn(t, k) + 1) % NumT
         /\ Turn(t, 0) = t
         /\ Turn(t, k) = t => k = 0
<1>1. t \in Nat /\ t < NumT /\ k \in Nat /\ k < NumT /\ NumT \in Nat \ {0} BY ThreadTypes DEF Thread
<1>2. Turn(t, k) \in Thread BY <1>1 DEF Turn, Thread
<1>3. (Turn(t, k) + 1) % NumT = IF Turn(t, k) + 1 < NumT THEN Turn(t, k) + 1 ELSE 0
  BY <1>2, RingNext
<1>4. k + 1 < NumT => Turn(t, k + 1) = IF Turn(t, k) + 1 < NumT THEN Turn(t, k) + 1 ELSE 0
  BY <1>1 DEF Turn
<1>5. Turn(t, 0) = t /\ (Turn(t, k) = t => k = 0) BY <1>1 DEF Turn
<1> QED BY <1>2, <1>3, <1>4, <1>5

LEMMA Orders ==
  ASSUME NEW t \in Thread, NEW o \in Thread
  PROVE  /\ Order(t, o) \in Nat /\ Order(t, o) < NumT /\ NumT \in Nat
         /\ \A k \in Nat : k < NumT => (Order(t, o) = k <=> o = Turn(t, k))
<1>1. t \in Nat /\ o \in Nat /\ t < NumT /\ o < NumT /\ NumT \in Nat BY ThreadTypes DEF Thread
<1>2. Order(t, o) \in Nat /\ Order(t, o) < NumT BY <1>1 DEF Order
<1>3. \A k \in Nat : k < NumT => (Order(t, o) = k <=> o = Turn(t, k)) BY <1>1 DEF Order, Turn
<1> QED BY <1>1, <1>2, <1>3

LEMMA OneCloser ==
  ASSUME NEW v \in Vertex, NEW d \in Nat, Delta[v] = d + 1
  PROVE  \E u \in Vertex : Delta[u] = d /\ v \in Neighbors(u) /\ u \in Neighbors(v)
<1>1. PICK u \in Vertex : Delta[u] = Delta[v] - 1 /\ v \in Neighbors(u) BY DistanceAssumption
<1>2. Delta[u] = d BY <1>1
<1> QED BY <1>1, <1>2, SymmetryAssumption

LEMMA OwnerAt ==
  ASSUME my \in [Thread -> ThreadShape], NEW t \in Thread
  PROVE  my[t].owner \in Thread
  BY DEF ThreadShape

-----------------------------------------------------------------------------
(***************************************************************************)
(* What a step changes of its thread: the other threads stay where they    *)
(* are, and some fields stay as they are.                                  *)
(***************************************************************************)
Moves(t) ==
  /\ my' \in [Thread -> ThreadShape]
  /\ \A s \in Thread \ {t} : my'[s] = my[s]

SameLevel(t) ==
  my'[t].level = my[t].level /\ my'[t].direction = my[t].direction /\ my'[t].codes_first = my[t].codes_first
SameSeen(t) ==
  my'[t].seen = my[t].seen
SameOwner(t) ==
  my'[t].owner = my[t].owner /\ my'[t].turn = my[t].turn
SameItems(t) ==
  my'[t].sz = my[t].sz /\ my'[t].todo = my[t].todo /\ my'[t].item = my[t].item
SameView(t) ==
  my'[t].u = my[t].u /\ my'[t].j = my[t].j /\ my'[t].cand = my[t].cand

LEMMA LabelSet ==
  Labels = {"plan", "tag", "sum", "choose", "jump", "jump_other", "reset", "empty", "retag",
            "done", "this_level", "size", "load", "start_tag", "start", "entry", "at_level",
            "progress", "visited", "neighbor", "push", "swap", "vis", "finish", "mark_done",
            "codes", "codes_tag", "codes_size", "codes_start_tag", "codes_start", "code",
            "code_level", "write_code", "codes_progress", "codes_finish", "mark_codes_done",
            "reserve", "gather", "test", "found", "next_code", "mark", "own", "own_stamp",
            "own_progress", "help", "help_tag", "help_start", "block", "block_tag",
            "block_progress", "block_stamp", "stamp", "advance", "returned"}
  BY DEF Labels, Deciding, Reusing, InTopDown, Looking, Starting, Reading, AtItem, Ending, InCodes,
     CodesLooking, CodesStarting, AtCode, InBottomUp, InBlock, Finding, Owning, Helping, HelpBegun,
     AtBlock

LEMMA Update ==
  ASSUME my \in [Thread -> ThreadShape], NEW t \in Thread, NEW r \in ThreadShape,
         my' = [my EXCEPT ![t] = r]
  PROVE  Moves(t) /\ my'[t] = r
<1>1. my' \in [Thread -> ThreadShape] BY Zenon
<1>2. my'[t] = r /\ \A s \in Thread \ {t} : my'[s] = my[s] OBVIOUS
<1> QED BY <1>1, <1>2 DEF Moves

LEMMA GotoMoves ==
  ASSUME my \in [Thread -> ThreadShape], NEW t \in Thread, NEW l \in Labels,
         Goto(t, l)
  PROVE  /\ Moves(t) /\ my'[t].pc = l /\ SameLevel(t) /\ SameSeen(t) /\ SameOwner(t)
         /\ SameItems(t) /\ SameView(t)
<1> DEFINE r == [my[t] EXCEPT !.pc = l]
<1>0. my[t] \in ThreadShape OBVIOUS
<1>1. my' = [my EXCEPT ![t] = r] BY Zenon DEF Goto
<1>3. r \in ThreadShape BY <1>0, Zenon DEF ThreadShape
<1>4. Moves(t) /\ my'[t] = r BY <1>1, <1>3, Update, Zenon
<1> QED BY <1>0, <1>4 DEF ThreadShape, SameLevel, SameSeen, SameOwner, SameItems, SameView

LEMMA NextOwnerMoves ==
  ASSUME my \in [Thread -> ThreadShape], NEW t \in Thread, NEW a \in Labels, NEW b \in Labels,
         NextOwner(t, a, b)
  PROVE  /\ Moves(t) /\ my'[t].pc = (IF my[t].turn + 1 = NumT THEN b ELSE a) /\ my'[t].sz = 0
         /\ my'[t].todo = {} /\ my'[t].item = 0 /\ my'[t].u = None /\ my'[t].j = 0
         /\ my'[t].owner = (IF my[t].turn + 1 = NumT THEN t ELSE (my[t].owner + 1) % NumT)
         /\ my'[t].turn = (IF my[t].turn + 1 = NumT THEN 0 ELSE my[t].turn + 1)
         /\ SameLevel(t) /\ SameSeen(t) /\ my'[t].cand = my[t].cand
<1> DEFINE l == IF my[t].turn + 1 = NumT THEN b ELSE a
           x == IF my[t].turn + 1 = NumT THEN t ELSE (my[t].owner + 1) % NumT
           k == IF my[t].turn + 1 = NumT THEN 0 ELSE my[t].turn + 1
<1> DEFINE r == [my[t] EXCEPT !.pc = l, !.sz = 0, !.todo = {}, !.item = 0, !.u = None,
                              !.j = 0, !.owner = x, !.turn = k]
<1>0. my[t] \in ThreadShape OBVIOUS
<1>1. my' = [my EXCEPT ![t] = r] BY Zenon DEF NextOwner, AtRest
<1>2. x \in Thread /\ k \in 0 .. NumT - 1 /\ l \in Labels
  BY <1>0, RingNext, ThreadTypes DEF ThreadShape
<1> HIDE DEF l, x, k
<1>3. r \in ThreadShape BY <1>0, <1>2, Zenon DEF ThreadShape
<1>4. Moves(t) /\ my'[t] = r BY <1>1, <1>3, Update, Zenon
<1>5. my'[t].pc = l /\ my'[t].sz = 0 /\ my'[t].todo = {} /\ my'[t].item = 0 /\ my'[t].u = None /\ my'[t].j = 0 /\ my'[t].owner = x /\ my'[t].turn = k
  BY <1>0, <1>4 DEF ThreadShape
<1>6. SameLevel(t) /\ SameSeen(t) /\ my'[t].cand = my[t].cand
  BY <1>0, <1>4 DEF ThreadShape, SameLevel, SameSeen
<1> QED BY <1>4, <1>5, <1>6 DEF l, x, k

LEMMA MovedOnMoves ==
  ASSUME my \in [Thread -> ThreadShape], NEW t \in Thread,
         my' = [my EXCEPT ![t] = MovedOn(t)]
  PROVE  /\ Moves(t) /\ my'[t].pc = "jump" /\ my'[t].owner = 0 /\ my'[t].sz = 0
         /\ SameLevel(t) /\ SameSeen(t) /\ SameView(t) /\ my'[t].turn = my[t].turn
         /\ my'[t].todo = my[t].todo /\ my'[t].item = my[t].item
<1> DEFINE r == [my[t] EXCEPT !.pc = "jump", !.owner = 0, !.sz = 0]
<1>0. my[t] \in ThreadShape OBVIOUS
<1>1. my' = [my EXCEPT ![t] = r] BY Zenon DEF MovedOn
<1>2. "jump" \in Labels /\ 0 \in Thread BY <1>0, LabelSet, ThreadTypes
<1>3. r \in ThreadShape BY <1>0, <1>2, Zenon DEF ThreadShape
<1>4. Moves(t) /\ my'[t] = r BY <1>1, <1>3, Update, Zenon
<1> QED BY <1>0, <1>4 DEF ThreadShape, SameLevel, SameSeen, SameView

LEMMA FollowMoves ==
  ASSUME my \in [Thread -> ThreadShape], NEW t \in Thread, NEW word \in WordType,
         my' = [my EXCEPT ![t] = FollowWord(t, word)]
  PROVE  /\ Moves(t)
         /\ my'[t].pc = (IF word.direction = "search_done" THEN "returned" ELSE "reset")
         /\ my'[t].direction = word.direction /\ my'[t].codes_first = word.codes_first
         /\ my'[t].seen = Word(0, "top_down", FALSE) /\ my'[t].owner = t /\ my'[t].turn = 0
         /\ my'[t].sz = 0 /\ SameView(t) /\ my'[t].level = my[t].level
         /\ my'[t].todo = my[t].todo /\ my'[t].item = my[t].item
<1> DEFINE l == IF word.direction = "search_done" THEN "returned" ELSE "reset"
           d == word.direction
           c == word.codes_first
           w == Word(0, "top_down", FALSE)
<1> DEFINE r == [my[t] EXCEPT !.pc = l, !.direction = d, !.codes_first = c, !.seen = w,
                              !.owner = t, !.turn = 0, !.sz = 0]
<1>0. my[t] \in ThreadShape OBVIOUS
<1>1. my' = [my EXCEPT ![t] = r] BY Zenon DEF FollowWord
<1>2. l \in Labels /\ d \in {"top_down", "bottom_up", "search_done"} /\ c \in BOOLEAN
      /\ w \in WordType /\ 0 \in 0 .. NumT - 1
  BY <1>0, LabelSet, ThreadTypes DEF WordType, Word
<1> HIDE DEF l, d, c, w
<1>3. r \in ThreadShape BY <1>0, <1>2, Zenon DEF ThreadShape
<1>4. Moves(t) /\ my'[t] = r BY <1>1, <1>3, Update, Zenon
<1> QED BY <1>0, <1>4 DEF ThreadShape, SameView, l, d, c, w

LEMMA NextSizeMoves ==
  ASSUME my \in [Thread -> ThreadShape], NEW t \in Thread,
         NextSize(t)
  PROVE  /\ Moves(t) /\ my'[t].owner = (IF my[t].owner = NumT - 1 THEN 0 ELSE my[t].owner + 1)
         /\ my'[t].pc = (IF my[t].owner = NumT - 1 THEN "choose" ELSE "tag") /\ SameLevel(t)
         /\ SameSeen(t) /\ SameItems(t) /\ SameView(t) /\ my'[t].turn = my[t].turn
<1> DEFINE x == IF my[t].owner = NumT - 1 THEN 0 ELSE my[t].owner + 1
           l == IF my[t].owner = NumT - 1 THEN "choose" ELSE "tag"
<1> DEFINE r == [my[t] EXCEPT !.owner = x, !.pc = l]
<1>0. my[t] \in ThreadShape OBVIOUS
<1>1. my' = [my EXCEPT ![t] = r] BY Zenon DEF NextSize
<1>2. x \in Thread /\ l \in Labels BY <1>0, OwnerAt, LabelSet, ThreadTypes DEF Thread
<1> HIDE DEF x, l
<1>3. r \in ThreadShape BY <1>0, <1>2, Zenon DEF ThreadShape
<1>4. Moves(t) /\ my'[t] = r BY <1>1, <1>3, Update, Zenon
<1> QED BY <1>0, <1>4 DEF ThreadShape, SameLevel, SameSeen, SameItems, SameView, x, l

LEMMA HelpFromMoves ==
  ASSUME my \in [Thread -> ThreadShape], NEW t \in Thread, NEW start \in Nat,
         HelpFrom(t, start)
  PROVE  /\ Moves(t) /\ my'[t].todo = start .. my[t].sz
         /\ my'[t].pc = (IF start .. my[t].sz = {} THEN "finish" ELSE "entry") /\ SameLevel(t)
         /\ SameSeen(t) /\ SameOwner(t) /\ SameView(t) /\ my'[t].sz = my[t].sz
         /\ my'[t].item = my[t].item
<1> DEFINE x == start .. my[t].sz
           l == IF start .. my[t].sz = {} THEN "finish" ELSE "entry"
<1> DEFINE r == [my[t] EXCEPT !.todo = x, !.pc = l]
<1>0. my[t] \in ThreadShape OBVIOUS
<1>1. my' = [my EXCEPT ![t] = r] BY Zenon DEF HelpFrom
<1>2. x \in SUBSET Nat /\ l \in Labels BY <1>0, LabelSet DEF ThreadShape
<1> HIDE DEF x, l
<1>3. r \in ThreadShape BY <1>0, <1>2, Zenon DEF ThreadShape
<1>4. Moves(t) /\ my'[t] = r BY <1>1, <1>3, Update, Zenon
<1> QED BY <1>0, <1>4 DEF ThreadShape, SameLevel, SameSeen, SameOwner, SameView, x, l

LEMMA LeaveMoves ==
  ASSUME my \in [Thread -> ThreadShape], NEW t \in Thread,
         my' = [my EXCEPT ![t].u = None, ![t].item = 0, ![t].j = 0,
                          ![t].pc = IF my[t].todo = {} THEN "finish" ELSE "entry"]
  PROVE  /\ Moves(t) /\ my'[t].u = None /\ my'[t].item = 0 /\ my'[t].j = 0
         /\ my'[t].pc = (IF my[t].todo = {} THEN "finish" ELSE "entry") /\ SameLevel(t)
         /\ SameSeen(t) /\ SameOwner(t) /\ my'[t].sz = my[t].sz /\ my'[t].todo = my[t].todo
         /\ my'[t].cand = my[t].cand
<1> DEFINE l == IF my[t].todo = {} THEN "finish" ELSE "entry"
<1> DEFINE r == [my[t] EXCEPT !.u = None, !.item = 0, !.j = 0, !.pc = l]
<1>0. my[t] \in ThreadShape OBVIOUS
<1>1. my' = [my EXCEPT ![t] = r] BY Zenon
<1>2. l \in Labels BY <1>0, LabelSet
<1> HIDE DEF l
<1>3. r \in ThreadShape BY <1>0, <1>2, Zenon DEF ThreadShape
<1>4. Moves(t) /\ my'[t] = r BY <1>1, <1>3, Update, Zenon
<1> QED BY <1>0, <1>4 DEF ThreadShape, SameLevel, SameSeen, SameOwner, l

LEMMA FromNeighborMoves ==
  ASSUME my \in [Thread -> ThreadShape], NEW t \in Thread, NEW p \in Nat,
         FromNeighbor(t, p)
  PROVE  /\ Moves(t) /\ my'[t].j = p
         /\ my'[t].pc = (IF p <= Len(adj[my[t].u]) THEN "neighbor" ELSE "vis") /\ SameLevel(t)
         /\ SameSeen(t) /\ SameOwner(t) /\ SameItems(t) /\ my'[t].u = my[t].u
         /\ my'[t].cand = my[t].cand
<1> DEFINE l == IF p <= Len(adj[my[t].u]) THEN "neighbor" ELSE "vis"
<1> DEFINE r == [my[t] EXCEPT !.j = p, !.pc = l]
<1>0. my[t] \in ThreadShape OBVIOUS
<1>1. my' = [my EXCEPT ![t] = r] BY Zenon DEF FromNeighbor
<1>2. l \in Labels BY <1>0, LabelSet
<1> HIDE DEF l
<1>3. r \in ThreadShape BY <1>0, <1>2, Zenon DEF ThreadShape
<1>4. Moves(t) /\ my'[t] = r BY <1>1, <1>3, Update, Zenon
<1> QED BY <1>0, <1>4 DEF ThreadShape, SameLevel, SameSeen, SameOwner, SameItems, l

LEMMA FromEntryMoves ==
  ASSUME my \in [Thread -> ThreadShape], NEW t \in Thread, NEW i \in Nat, NEW sz \in Nat,
         FromEntry(t, i, sz)
  PROVE  /\ Moves(t) /\ my'[t].item = i /\ my'[t].sz = sz /\ my'[t].u = None
         /\ my'[t].pc = (IF i <= sz THEN "code" ELSE "codes_finish") /\ SameLevel(t)
         /\ SameSeen(t) /\ SameOwner(t) /\ my'[t].todo = my[t].todo /\ my'[t].j = my[t].j
         /\ my'[t].cand = my[t].cand
<1> DEFINE l == IF i <= sz THEN "code" ELSE "codes_finish"
<1> DEFINE r == [my[t] EXCEPT !.item = i, !.sz = sz, !.u = None, !.pc = l]
<1>0. my[t] \in ThreadShape OBVIOUS
<1>1. my' = [my EXCEPT ![t] = r] BY Zenon DEF FromEntry
<1>2. l \in Labels BY <1>0, LabelSet
<1> HIDE DEF l
<1>3. r \in ThreadShape BY <1>0, <1>2, Zenon DEF ThreadShape
<1>4. Moves(t) /\ my'[t] = r BY <1>1, <1>3, Update, Zenon
<1> QED BY <1>0, <1>4 DEF ThreadShape, SameLevel, SameSeen, SameOwner, l

LEMMA ScanMoves ==
  ASSUME my \in [Thread -> ThreadShape], NEW t \in Thread, Begin(my[t].owner, my[t].item) \in Nat,
         Scan(t)
  PROVE  /\ Moves(t) /\ my'[t].pc = "gather" /\ my'[t].j = Begin(my[t].owner, my[t].item)
         /\ SameLevel(t) /\ SameSeen(t) /\ SameOwner(t) /\ SameItems(t) /\ my'[t].u = my[t].u
         /\ my'[t].cand = my[t].cand
<1> DEFINE x == Begin(my[t].owner, my[t].item)
<1> DEFINE r == [my[t] EXCEPT !.pc = "gather", !.j = x]
<1>0. my[t] \in ThreadShape OBVIOUS
<1>1. my' = [my EXCEPT ![t] = r] BY Zenon DEF Scan
<1>2. x \in Nat /\ "gather" \in Labels BY <1>0, LabelSet
<1> HIDE DEF x
<1>3. r \in ThreadShape BY <1>0, <1>2, Zenon DEF ThreadShape
<1>4. Moves(t) /\ my'[t] = r BY <1>1, <1>3, Update, Zenon
<1> QED BY <1>0, <1>4 DEF ThreadShape, SameLevel, SameSeen, SameOwner, SameItems, x

LEMMA TestMoves ==
  ASSUME my \in [Thread -> ThreadShape], NEW t \in Thread, NEW cand \in Seq(Vertex),
         Test(t, cand)
  PROVE  /\ Moves(t) /\ my'[t].cand = cand /\ my'[t].j = (IF cand = <<>> THEN 0 ELSE 1)
         /\ my'[t].pc = (IF cand # <<>> THEN "test" ELSE IF Own(t) THEN "own_progress" ELSE "stamp")
         /\ SameLevel(t) /\ SameSeen(t) /\ SameOwner(t) /\ SameItems(t) /\ my'[t].u = my[t].u
<1> DEFINE x == IF cand = <<>> THEN 0 ELSE 1
           l == IF cand # <<>> THEN "test" ELSE IF Own(t) THEN "own_progress" ELSE "stamp"
<1> DEFINE r == [my[t] EXCEPT !.cand = cand, !.j = x, !.pc = l]
<1>0. my[t] \in ThreadShape OBVIOUS
<1>1. my' = [my EXCEPT ![t] = r] BY Zenon DEF Test
<1>2. x \in Nat /\ l \in Labels BY <1>0, LabelSet
<1> HIDE DEF x, l
<1>3. r \in ThreadShape BY <1>0, <1>2, Zenon DEF ThreadShape
<1>4. Moves(t) /\ my'[t] = r BY <1>1, <1>3, Update, Zenon
<1> QED BY <1>0, <1>4 DEF ThreadShape, SameLevel, SameSeen, SameOwner, SameItems, x, l

LEMMA NextBlockMoves ==
  ASSUME my \in [Thread -> ThreadShape], NEW t \in Thread,
         NextBlock(t)
  PROVE  /\ Moves(t) /\ my'[t].item = 0
         /\ my'[t].pc = (IF my[t].todo = {} THEN "finish" ELSE "block") /\ SameLevel(t)
         /\ SameSeen(t) /\ SameOwner(t) /\ SameView(t) /\ my'[t].sz = my[t].sz
         /\ my'[t].todo = my[t].todo
<1> DEFINE l == IF my[t].todo = {} THEN "finish" ELSE "block"
<1> DEFINE r == [my[t] EXCEPT !.item = 0, !.pc = l]
<1>0. my[t] \in ThreadShape OBVIOUS
<1>1. my' = [my EXCEPT ![t] = r] BY Zenon DEF NextBlock
<1>2. l \in Labels BY <1>0, LabelSet
<1> HIDE DEF l
<1>3. r \in ThreadShape BY <1>0, <1>2, Zenon DEF ThreadShape
<1>4. Moves(t) /\ my'[t] = r BY <1>1, <1>3, Update, Zenon
<1> QED BY <1>0, <1>4 DEF ThreadShape, SameLevel, SameSeen, SameOwner, SameView, l

LEMMA BlocksFromMoves ==
  ASSUME my \in [Thread -> ThreadShape], NEW t \in Thread, NEW start \in Nat,
         BlocksFrom(t, start)
  PROVE  /\ Moves(t) /\ my'[t].todo = start .. Owned(my[t].owner)
         /\ my'[t].pc = (IF start .. Owned(my[t].owner) = {} THEN "finish" ELSE "block")
         /\ SameLevel(t) /\ SameSeen(t) /\ SameOwner(t) /\ SameView(t) /\ my'[t].sz = my[t].sz
         /\ my'[t].item = my[t].item
<1> DEFINE x == start .. Owned(my[t].owner)
           l == IF start .. Owned(my[t].owner) = {} THEN "finish" ELSE "block"
<1> DEFINE r == [my[t] EXCEPT !.todo = x, !.pc = l]
<1>0. my[t] \in ThreadShape OBVIOUS
<1>1. my' = [my EXCEPT ![t] = r] BY Zenon DEF BlocksFrom
<1>2. x \in SUBSET Nat /\ l \in Labels BY <1>0, LabelSet, OwnedFacts DEF ThreadShape
<1> HIDE DEF x, l
<1>3. r \in ThreadShape BY <1>0, <1>2, Zenon DEF ThreadShape
<1>4. Moves(t) /\ my'[t] = r BY <1>1, <1>3, Update, Zenon
<1> QED BY <1>0, <1>4 DEF ThreadShape, SameLevel, SameSeen, SameOwner, SameView, x, l

LEMMA SeenMoves ==
  ASSUME my \in [Thread -> ThreadShape], NEW t \in Thread, NEW word \in WordType,
         my' = [my EXCEPT ![t] = [my[t] EXCEPT !.pc = "tag", !.seen = word]]
  PROVE  /\ Moves(t) /\ my'[t].pc = "tag" /\ my'[t].seen = word /\ SameLevel(t)
         /\ SameOwner(t) /\ SameItems(t) /\ SameView(t)
<1> DEFINE r == [my[t] EXCEPT !.pc = "tag", !.seen = word]
<1>0. my[t] \in ThreadShape OBVIOUS
<1>1. my' = [my EXCEPT ![t] = r] BY Zenon
<1>2. "tag" \in Labels BY <1>0, LabelSet
<1>3. r \in ThreadShape BY <1>0, <1>2, Zenon DEF ThreadShape
<1>4. Moves(t) /\ my'[t] = r BY <1>1, <1>3, Update, Zenon
<1> QED BY <1>0, <1>4 DEF ThreadShape, SameLevel, SameOwner, SameItems, SameView

LEMMA SizeMoves ==
  ASSUME my \in [Thread -> ThreadShape], NEW t \in Thread,
         my' = [my EXCEPT ![t].sz = 1, ![t].owner = 0, ![t].pc = "choose"]
  PROVE  /\ Moves(t) /\ my'[t].sz = 1 /\ my'[t].owner = 0 /\ my'[t].pc = "choose"
         /\ SameLevel(t) /\ SameSeen(t) /\ SameView(t) /\ my'[t].turn = my[t].turn
         /\ my'[t].todo = my[t].todo /\ my'[t].item = my[t].item
<1> DEFINE r == [my[t] EXCEPT !.sz = 1, !.owner = 0, !.pc = "choose"]
<1>0. my[t] \in ThreadShape OBVIOUS
<1>1. my' = [my EXCEPT ![t] = r] BY Zenon
<1>2. "choose" \in Labels /\ 0 \in Thread BY <1>0, LabelSet, ThreadTypes
<1>3. r \in ThreadShape BY <1>0, <1>2, Zenon DEF ThreadShape
<1>4. Moves(t) /\ my'[t] = r BY <1>1, <1>3, Update, Zenon
<1> QED BY <1>0, <1>4 DEF ThreadShape, SameLevel, SameSeen, SameView

LEMMA JumpMoves ==
  ASSUME my \in [Thread -> ThreadShape], NEW t \in Thread, NEW p \in {0, 1}, NEW word \in WordType,
         my' = [my EXCEPT ![t].pc = "jump_other", ![t].item = p, ![t].seen = word]
  PROVE  /\ Moves(t) /\ my'[t].pc = "jump_other" /\ my'[t].item = p /\ my'[t].seen = word
         /\ SameLevel(t) /\ SameOwner(t) /\ SameView(t) /\ my'[t].sz = my[t].sz
         /\ my'[t].todo = my[t].todo
<1> DEFINE r == [my[t] EXCEPT !.pc = "jump_other", !.item = p, !.seen = word]
<1>0. my[t] \in ThreadShape OBVIOUS
<1>1. my' = [my EXCEPT ![t] = r] BY Zenon
<1>2. "jump_other" \in Labels /\ p \in Nat BY <1>0, LabelSet
<1>3. r \in ThreadShape BY <1>0, <1>2, Zenon DEF ThreadShape
<1>4. Moves(t) /\ my'[t] = r BY <1>1, <1>3, Update, Zenon
<1> QED BY <1>0, <1>4 DEF ThreadShape, SameLevel, SameOwner, SameView

LEMMA JumpOtherMoves ==
  ASSUME my \in [Thread -> ThreadShape], NEW t \in Thread, NEW d \in Nat,
         my' = [my EXCEPT ![t].pc = "plan", ![t].item = 0,
                          ![t].seen = Word(0, "top_down", FALSE), ![t].level = d]
  PROVE  /\ Moves(t) /\ my'[t].pc = "plan" /\ my'[t].item = 0
         /\ my'[t].seen = Word(0, "top_down", FALSE) /\ my'[t].level = d /\ SameOwner(t)
         /\ SameView(t) /\ my'[t].direction = my[t].direction
         /\ my'[t].codes_first = my[t].codes_first /\ my'[t].sz = my[t].sz
         /\ my'[t].todo = my[t].todo
<1> DEFINE w == Word(0, "top_down", FALSE)
<1> DEFINE r == [my[t] EXCEPT !.pc = "plan", !.item = 0, !.seen = w, !.level = d]
<1>0. my[t] \in ThreadShape OBVIOUS
<1>1. my' = [my EXCEPT ![t] = r] BY Zenon
<1>2. "plan" \in Labels /\ w \in WordType BY <1>0, LabelSet DEF WordType, Word
<1> HIDE DEF w
<1>3. r \in ThreadShape BY <1>0, <1>2, Zenon DEF ThreadShape
<1>4. Moves(t) /\ my'[t] = r BY <1>1, <1>3, Update, Zenon
<1> QED BY <1>0, <1>4 DEF ThreadShape, SameOwner, SameView, w

LEMMA LoadSizeMoves ==
  ASSUME my \in [Thread -> ThreadShape], NEW t \in Thread, NEW size \in Nat,
         my' = [my EXCEPT ![t].sz = size, ![t].todo = IF Own(t) THEN 1 .. size ELSE {},
                          ![t].pc = IF Own(t) THEN "entry" ELSE "start_tag"]
  PROVE  /\ Moves(t) /\ my'[t].sz = size /\ my'[t].todo = (IF Own(t) THEN 1 .. size ELSE {})
         /\ my'[t].pc = (IF Own(t) THEN "entry" ELSE "start_tag") /\ SameLevel(t)
         /\ SameSeen(t) /\ SameOwner(t) /\ SameView(t) /\ my'[t].item = my[t].item
<1> DEFINE x == IF Own(t) THEN 1 .. size ELSE {}
           l == IF Own(t) THEN "entry" ELSE "start_tag"
<1> DEFINE r == [my[t] EXCEPT !.sz = size, !.todo = x, !.pc = l]
<1>0. my[t] \in ThreadShape OBVIOUS
<1>1. my' = [my EXCEPT ![t] = r] BY Zenon
<1>2. x \in SUBSET Nat /\ l \in Labels BY <1>0, LabelSet
<1> HIDE DEF x, l
<1>3. r \in ThreadShape BY <1>0, <1>2, Zenon DEF ThreadShape
<1>4. Moves(t) /\ my'[t] = r BY <1>1, <1>3, Update, Zenon
<1> QED BY <1>0, <1>4 DEF ThreadShape, SameLevel, SameSeen, SameOwner, SameView, x, l

LEMMA TakeMoves ==
  ASSUME my \in [Thread -> ThreadShape], NEW t \in Thread, NEW i \in Nat, NEW u \in Vertex \cup {None},
         my' = [my EXCEPT ![t].item = i, ![t].u = u, ![t].todo = @ \ {i},
                          ![t].pc = IF Own(t) THEN "visited" ELSE "at_level"]
  PROVE  /\ Moves(t) /\ my'[t].item = i /\ my'[t].u = u /\ my'[t].todo = my[t].todo \ {i}
         /\ my'[t].pc = (IF Own(t) THEN "visited" ELSE "at_level") /\ SameLevel(t)
         /\ SameSeen(t) /\ SameOwner(t) /\ my'[t].sz = my[t].sz /\ my'[t].j = my[t].j
         /\ my'[t].cand = my[t].cand
<1> DEFINE x == my[t].todo \ {i}
           l == IF Own(t) THEN "visited" ELSE "at_level"
<1> DEFINE r == [my[t] EXCEPT !.item = i, !.u = u, !.todo = x, !.pc = l]
<1>0. my[t] \in ThreadShape OBVIOUS
<1>1. my' = [my EXCEPT ![t] = r] BY Zenon
<1>2. x \in SUBSET Nat /\ l \in Labels BY <1>0, LabelSet DEF ThreadShape
<1> HIDE DEF x, l
<1>3. r \in ThreadShape BY <1>0, <1>2, Zenon DEF ThreadShape
<1>4. Moves(t) /\ my'[t] = r BY <1>1, <1>3, Update, Zenon
<1> QED BY <1>0, <1>4 DEF ThreadShape, SameLevel, SameSeen, SameOwner, x, l

LEMMA CodesSizeMoves ==
  ASSUME my \in [Thread -> ThreadShape], NEW t \in Thread, NEW size \in Nat,
         my' = [my EXCEPT ![t].sz = size, ![t].pc = "codes_start_tag"]
  PROVE  /\ Moves(t) /\ my'[t].sz = size /\ my'[t].pc = "codes_start_tag" /\ SameLevel(t)
         /\ SameSeen(t) /\ SameOwner(t) /\ SameView(t) /\ my'[t].todo = my[t].todo
         /\ my'[t].item = my[t].item
<1> DEFINE r == [my[t] EXCEPT !.sz = size, !.pc = "codes_start_tag"]
<1>0. my[t] \in ThreadShape OBVIOUS
<1>1. my' = [my EXCEPT ![t] = r] BY Zenon
<1>2. "codes_start_tag" \in Labels BY <1>0, LabelSet
<1>3. r \in ThreadShape BY <1>0, <1>2, Zenon DEF ThreadShape
<1>4. Moves(t) /\ my'[t] = r BY <1>1, <1>3, Update, Zenon
<1> QED BY <1>0, <1>4 DEF ThreadShape, SameLevel, SameSeen, SameOwner, SameView

LEMMA CodesEntryMoves ==
  ASSUME my \in [Thread -> ThreadShape], NEW t \in Thread, NEW u \in Vertex \cup {None},
         my' = [my EXCEPT ![t].u = u, ![t].pc = IF Own(t) THEN "write_code" ELSE "code_level"]
  PROVE  /\ Moves(t) /\ my'[t].u = u
         /\ my'[t].pc = (IF Own(t) THEN "write_code" ELSE "code_level") /\ SameLevel(t)
         /\ SameSeen(t) /\ SameOwner(t) /\ SameItems(t) /\ my'[t].j = my[t].j
         /\ my'[t].cand = my[t].cand
<1> DEFINE l == IF Own(t) THEN "write_code" ELSE "code_level"
<1> DEFINE r == [my[t] EXCEPT !.u = u, !.pc = l]
<1>0. my[t] \in ThreadShape OBVIOUS
<1>1. my' = [my EXCEPT ![t] = r] BY Zenon
<1>2. l \in Labels BY <1>0, LabelSet
<1> HIDE DEF l
<1>3. r \in ThreadShape BY <1>0, <1>2, Zenon DEF ThreadShape
<1>4. Moves(t) /\ my'[t] = r BY <1>1, <1>3, Update, Zenon
<1> QED BY <1>0, <1>4 DEF ThreadShape, SameLevel, SameSeen, SameOwner, SameItems, l

LEMMA ReserveMoves ==
  ASSUME my \in [Thread -> ThreadShape], NEW t \in Thread,
         my' = [my EXCEPT ![t].item = 1, ![t].pc = "own"]
  PROVE  /\ Moves(t) /\ my'[t].item = 1 /\ my'[t].pc = "own" /\ SameLevel(t) /\ SameSeen(t)
         /\ SameOwner(t) /\ SameView(t) /\ my'[t].sz = my[t].sz /\ my'[t].todo = my[t].todo
<1> DEFINE r == [my[t] EXCEPT !.item = 1, !.pc = "own"]
<1>0. my[t] \in ThreadShape OBVIOUS
<1>1. my' = [my EXCEPT ![t] = r] BY Zenon
<1>2. "own" \in Labels BY <1>0, LabelSet
<1>3. r \in ThreadShape BY <1>0, <1>2, Zenon DEF ThreadShape
<1>4. Moves(t) /\ my'[t] = r BY <1>1, <1>3, Update, Zenon
<1> QED BY <1>0, <1>4 DEF ThreadShape, SameLevel, SameSeen, SameOwner, SameView

LEMMA GatherMoves ==
  ASSUME my \in [Thread -> ThreadShape], NEW t \in Thread, NEW cand \in Seq(Vertex),
         my' = [my EXCEPT ![t].cand = cand, ![t].j = @ + 1]
  PROVE  /\ Moves(t) /\ my'[t].cand = cand /\ my'[t].j = my[t].j + 1 /\ SameLevel(t)
         /\ SameSeen(t) /\ SameOwner(t) /\ SameItems(t) /\ my'[t].u = my[t].u
<1> DEFINE x == my[t].j + 1
<1> DEFINE r == [my[t] EXCEPT !.cand = cand, !.j = x]
<1>0. my[t] \in ThreadShape OBVIOUS
<1>1. my' = [my EXCEPT ![t] = r] BY Zenon
<1>2. x \in Nat BY <1>0 DEF ThreadShape
<1> HIDE DEF x
<1>3. r \in ThreadShape BY <1>0, <1>2, Zenon DEF ThreadShape
<1>4. Moves(t) /\ my'[t] = r BY <1>1, <1>3, Update, Zenon
<1> QED BY <1>0, <1>4 DEF ThreadShape, SameLevel, SameSeen, SameOwner, SameItems, x

LEMMA CandidateMoves ==
  ASSUME my \in [Thread -> ThreadShape], NEW t \in Thread,
         my' = [my EXCEPT ![t].j = @ + 1]
  PROVE  /\ Moves(t) /\ my'[t].j = my[t].j + 1 /\ SameLevel(t) /\ SameSeen(t) /\ SameOwner(t)
         /\ SameItems(t) /\ my'[t].u = my[t].u /\ my'[t].cand = my[t].cand
<1> DEFINE x == my[t].j + 1
<1> DEFINE r == [my[t] EXCEPT !.j = x]
<1>0. my[t] \in ThreadShape OBVIOUS
<1>1. my' = [my EXCEPT ![t] = r] BY Zenon
<1>2. x \in Nat BY <1>0 DEF ThreadShape
<1> HIDE DEF x
<1>3. r \in ThreadShape BY <1>0, <1>2, Zenon DEF ThreadShape
<1>4. Moves(t) /\ my'[t] = r BY <1>1, <1>3, Update, Zenon
<1> QED BY <1>0, <1>4 DEF ThreadShape, SameLevel, SameSeen, SameOwner, SameItems, x

LEMMA OwnProgressMoves ==
  ASSUME my \in [Thread -> ThreadShape], NEW t \in Thread,
         my' = [my EXCEPT ![t].item = @ + 1, ![t].pc = "own"]
  PROVE  /\ Moves(t) /\ my'[t].item = my[t].item + 1 /\ my'[t].pc = "own" /\ SameLevel(t)
         /\ SameSeen(t) /\ SameOwner(t) /\ SameView(t) /\ my'[t].sz = my[t].sz
         /\ my'[t].todo = my[t].todo
<1> DEFINE x == my[t].item + 1
<1> DEFINE r == [my[t] EXCEPT !.item = x, !.pc = "own"]
<1>0. my[t] \in ThreadShape OBVIOUS
<1>1. my' = [my EXCEPT ![t] = r] BY Zenon
<1>2. x \in Nat /\ "own" \in Labels BY <1>0, LabelSet DEF ThreadShape
<1> HIDE DEF x
<1>3. r \in ThreadShape BY <1>0, <1>2, Zenon DEF ThreadShape
<1>4. Moves(t) /\ my'[t] = r BY <1>1, <1>3, Update, Zenon
<1> QED BY <1>0, <1>4 DEF ThreadShape, SameLevel, SameSeen, SameOwner, SameView, x

LEMMA NoBlockMoves ==
  ASSUME my \in [Thread -> ThreadShape], NEW t \in Thread,
         my' = [my EXCEPT ![t].todo = {}, ![t].pc = "finish"]
  PROVE  /\ Moves(t) /\ my'[t].todo = {} /\ my'[t].pc = "finish" /\ SameLevel(t)
         /\ SameSeen(t) /\ SameOwner(t) /\ SameView(t) /\ my'[t].sz = my[t].sz
         /\ my'[t].item = my[t].item
<1> DEFINE r == [my[t] EXCEPT !.todo = {}, !.pc = "finish"]
<1>0. my[t] \in ThreadShape OBVIOUS
<1>1. my' = [my EXCEPT ![t] = r] BY Zenon
<1>2. "finish" \in Labels BY <1>0, LabelSet
<1>3. r \in ThreadShape BY <1>0, <1>2, Zenon DEF ThreadShape
<1>4. Moves(t) /\ my'[t] = r BY <1>1, <1>3, Update, Zenon
<1> QED BY <1>0, <1>4 DEF ThreadShape, SameLevel, SameSeen, SameOwner, SameView

LEMMA BlockMoves ==
  ASSUME my \in [Thread -> ThreadShape], NEW t \in Thread, NEW k \in Nat,
         my' = [my EXCEPT ![t].item = k, ![t].todo = @ \ {k}, ![t].pc = "block_tag"]
  PROVE  /\ Moves(t) /\ my'[t].item = k /\ my'[t].todo = my[t].todo \ {k}
         /\ my'[t].pc = "block_tag" /\ SameLevel(t) /\ SameSeen(t) /\ SameOwner(t)
         /\ SameView(t) /\ my'[t].sz = my[t].sz
<1> DEFINE x == my[t].todo \ {k}
<1> DEFINE r == [my[t] EXCEPT !.item = k, !.todo = x, !.pc = "block_tag"]
<1>0. my[t] \in ThreadShape OBVIOUS
<1>1. my' = [my EXCEPT ![t] = r] BY Zenon
<1>2. x \in SUBSET Nat /\ "block_tag" \in Labels BY <1>0, LabelSet DEF ThreadShape
<1> HIDE DEF x
<1>3. r \in ThreadShape BY <1>0, <1>2, Zenon DEF ThreadShape
<1>4. Moves(t) /\ my'[t] = r BY <1>1, <1>3, Update, Zenon
<1> QED BY <1>0, <1>4 DEF ThreadShape, SameLevel, SameSeen, SameOwner, SameView, x

LEMMA AdvanceMoves ==
  ASSUME my \in [Thread -> ThreadShape], NEW t \in Thread,
         my' = [my EXCEPT ![t] = [AtRest(t, "plan") EXCEPT !.level = @ + 1, !.owner = 0]]
  PROVE  /\ Moves(t) /\ my'[t].pc = "plan" /\ my'[t].sz = 0 /\ my'[t].todo = {}
         /\ my'[t].item = 0 /\ my'[t].u = None /\ my'[t].j = 0
         /\ my'[t].level = my[t].level + 1 /\ my'[t].owner = 0 /\ SameSeen(t)
         /\ my'[t].direction = my[t].direction /\ my'[t].codes_first = my[t].codes_first
         /\ my'[t].turn = my[t].turn /\ my'[t].cand = my[t].cand
<1> DEFINE x == my[t].level + 1
<1> DEFINE r == [my[t] EXCEPT !.pc = "plan", !.sz = 0, !.todo = {}, !.item = 0, !.u = None,
                              !.j = 0, !.level = x, !.owner = 0]
<1>0. my[t] \in ThreadShape OBVIOUS
<1>1. my' = [my EXCEPT ![t] = r] BY Zenon DEF AtRest
<1>2. x \in Nat /\ "plan" \in Labels /\ 0 \in Thread BY <1>0, LabelSet, ThreadTypes DEF ThreadShape
<1> HIDE DEF x
<1>3. r \in ThreadShape BY <1>0, <1>2, Zenon DEF ThreadShape
<1>4. Moves(t) /\ my'[t] = r BY <1>1, <1>3, Update, Zenon
<1> QED BY <1>0, <1>4 DEF ThreadShape, SameSeen, x

(***************************************************************************)
(* The parts of the invariant.                                             *)
(***************************************************************************)
LEMMA ThreadFields ==
  ASSUME my \in [Thread -> ThreadShape], NEW t \in Thread
  PROVE  /\ my[t].pc \in Labels /\ my[t].level \in Nat
         /\ my[t].direction \in {"top_down", "bottom_up", "search_done"}
         /\ my[t].codes_first \in BOOLEAN /\ my[t].seen \in WordType
         /\ my[t].owner \in Thread /\ my[t].turn \in 0 .. NumT - 1
         /\ my[t].sz \in Nat /\ my[t].todo \in SUBSET Nat /\ my[t].item \in Nat
         /\ my[t].u \in Vertex \cup {None} /\ my[t].j \in Nat
         /\ my[t].cand \in Seq(Vertex)
<1>1. my[t] \in ThreadShape OBVIOUS
<1> QED BY <1>1 DEF ThreadShape

LEMMA WordFields ==
  ASSUME NEW w \in WordType
  PROVE  /\ w.level \in Int /\ w.direction \in {"top_down", "bottom_up", "search_done"}
         /\ w.codes_first \in BOOLEAN
  BY DEF WordType

NodesType == [{0, 1} -> [plan_word : WordType, owners : [Thread -> OwnerShape]]]

LEMMA BucketFields ==
  ASSUME NEW b \in BucketType
  PROVE  /\ b.list \in Seq(Vertex \cup {Junk}) /\ b.size \in Nat /\ b.level \in Int
         /\ Len(b.list) \in Nat
         /\ \A i \in 1 .. Len(b.list) : b.list[i] \in Vertex \cup {Junk}
<1>1. b.list \in Seq(Vertex \cup {Junk}) /\ b.size \in Nat /\ b.level \in Int BY DEF BucketType
<1> QED BY <1>1

LEMMA OwnerFields ==
  ASSUME NEW e \in OwnerShape
  PROVE  /\ e.bucket \in BucketType /\ e.done \in Int /\ e.last_done \in Nat
         /\ e.codes_done \in Int /\ e.codes_last_done \in Nat
  BY DEF OwnerShape

LEMMA NodeFields ==
  ASSUME nodes \in NodesType, NEW p \in {0, 1}
  PROVE  /\ WordOf(p) \in WordType /\ WordOf(p).level \in Int
         /\ \A o \in Thread : nodes[p].owners[o] \in OwnerShape /\ Bucket(p, o) \in BucketType
<1>1. nodes[p] \in [plan_word : WordType, owners : [Thread -> OwnerShape]] BY DEF NodesType
<1>2. nodes[p].plan_word \in WordType /\ nodes[p].owners \in [Thread -> OwnerShape] BY <1>1
<1>3. \A o \in Thread : nodes[p].owners[o] \in OwnerShape BY <1>2
<1> QED BY <1>2, <1>3, WordFields, OwnerFields DEF WordOf, Bucket

LEMMA BucketTypes ==
  ASSUME nodes \in NodesType, NEW p \in {0, 1}, NEW o \in Thread
  PROVE  /\ Bucket(p, o).list \in Seq(Vertex \cup {Junk}) /\ Len(Bucket(p, o).list) \in Nat
         /\ Bucket(p, o).size \in Nat /\ Bucket(p, o).level \in Int
         /\ \A i \in 1 .. Len(Bucket(p, o).list) : Bucket(p, o).list[i] \in Vertex \cup {Junk}
  BY NodeFields, BucketFields

LEMMA Sides ==
  ASSUME my \in [Thread -> ThreadShape], NEW t \in Thread
  PROVE  /\ Here(t) \in {0, 1} /\ There(t) \in {0, 1} /\ There(t) = 1 - Here(t)
         /\ Here(t) # There(t) /\ my[t].level \in Nat /\ my[t].owner \in Thread
<1>1. my[t].level \in Nat /\ my[t].owner \in Thread BY ThreadFields
<1>2. Here(t) \in {0, 1} /\ There(t) = 1 - Here(t) BY <1>1, Parity DEF Here, There
<1> QED BY <1>1, <1>2

-----------------------------------------------------------------------------
(***************************************************************************)
(* What a step writes into the nodes.                                      *)
(***************************************************************************)
WordsSame == \A p \in {0, 1} : WordOf(p)' = WordOf(p)
BucketsSame == \A p \in {0, 1}, o \in Thread : Bucket(p, o)' = Bucket(p, o)

DoneAt(p, o) == nodes[p].owners[o].done
LastAt(p, o) == nodes[p].owners[o].last_done
CodesDoneAt(p, o) == nodes[p].owners[o].codes_done
CodesLastAt(p, o) == nodes[p].owners[o].codes_last_done

MarksSame(p, o) ==
  /\ DoneAt(p, o)' = DoneAt(p, o) /\ LastAt(p, o)' = LastAt(p, o)
  /\ CodesDoneAt(p, o)' = CodesDoneAt(p, o) /\ CodesLastAt(p, o)' = CodesLastAt(p, o)

OnlyEntry(p, o, e) ==
  /\ nodes' \in NodesType
  /\ nodes'[p].owners[o] = e
  /\ WordsSame
  /\ \A q \in {0, 1}, x \in Thread : q # p \/ x # o =>
       nodes'[q].owners[x] = nodes[q].owners[x]

LEMMA EntryWrites ==
  ASSUME nodes \in NodesType, NEW p \in {0, 1}, NEW o \in Thread, NEW e \in OwnerShape,
         nodes' = [nodes EXCEPT ![p].owners[o] = e]
  PROVE  OnlyEntry(p, o, e)
<1> DEFINE w == [nodes[p].owners EXCEPT ![o] = e]
           n == [nodes[p] EXCEPT !.owners = w]
<1>1. /\ nodes[p] \in [plan_word : WordType, owners : [Thread -> OwnerShape]]
      /\ nodes[p].owners \in [Thread -> OwnerShape]
  BY DEF NodesType
<1>2. nodes' = [nodes EXCEPT ![p] = n] BY Zenon
<1>3. w \in [Thread -> OwnerShape] /\ w[o] = e
      /\ \A x \in Thread : x # o => w[x] = nodes[p].owners[x]
  BY <1>1
<1> HIDE DEF w
<1>4. /\ n \in [plan_word : WordType, owners : [Thread -> OwnerShape]]
      /\ n.owners = w /\ n.plan_word = nodes[p].plan_word
  BY <1>1, <1>3
<1> HIDE DEF n
<1>5. nodes' \in NodesType /\ nodes'[p] = n /\ \A q \in {0, 1} : q # p => nodes'[q] = nodes[q]
  BY <1>2, <1>4 DEF NodesType
<1> QED BY <1>3, <1>4, <1>5 DEF OnlyEntry, WordsSame, WordOf

LEMMA SetEntryWrites ==
  ASSUME Shape, NEW t \in Thread, NEW e \in OwnerShape, SetEntry(t, e)
  PROVE  OnlyEntry(Here(t), my[t].owner, e)
<1>1. nodes \in NodesType /\ Here(t) \in {0, 1} /\ my[t].owner \in Thread
  BY Sides DEF Shape, NodesType
<1>2. nodes' = [nodes EXCEPT ![Here(t)].owners[my[t].owner] = e] BY DEF SetEntry
<1> QED BY <1>1, <1>2, EntryWrites

\* Only bucket o of node p has changed, and it is b.
OnlyBucket(p, o, b) ==
  /\ nodes' \in NodesType /\ WordsSame
  /\ \A q \in {0, 1}, x \in Thread :
       /\ MarksSame(q, x)
       /\ Bucket(q, x)' = IF q = p /\ x = o THEN b ELSE Bucket(q, x)

LEMMA SetBucketWrites ==
  ASSUME Shape, NEW t \in Thread, NEW b \in BucketType, SetNextBucket(t, b)
  PROVE  OnlyBucket(There(t), t, b)
<1>1. nodes \in NodesType /\ There(t) \in {0, 1} BY Sides DEF Shape, NodesType
<1> DEFINE p == There(t)
           f == nodes[p].owners[t]
           e == [f EXCEPT !.bucket = b]
<1>2. f \in OwnerShape BY <1>1, NodeFields
<1>3. nodes' = [nodes EXCEPT ![p].owners[t] = e] BY Zenon DEF SetNextBucket
<1>4. /\ e \in OwnerShape /\ e.bucket = b /\ e.done = f.done /\ e.last_done = f.last_done
      /\ e.codes_done = f.codes_done /\ e.codes_last_done = f.codes_last_done
 <2> HIDE DEF f
 <2> QED BY <1>2 DEF OwnerShape
<1> HIDE DEF e
<1>5. OnlyEntry(p, t, e)
 <2> HIDE DEF p
 <2> QED BY <1>1, <1>3, <1>4, EntryWrites DEF p
<1>6. SUFFICES ASSUME NEW q \in {0, 1}, NEW x \in Thread
               PROVE  /\ MarksSame(q, x)
                      /\ Bucket(q, x)' = IF q = p /\ x = t THEN b ELSE Bucket(q, x)
  BY <1>5 DEF OnlyBucket, OnlyEntry
<1>7. CASE q = p /\ x = t
  BY <1>4, <1>5, <1>7 DEF OnlyEntry, MarksSame, Bucket, DoneAt, LastAt, CodesDoneAt, CodesLastAt
<1>8. CASE ~(q = p /\ x = t)
  BY <1>5, <1>8 DEF OnlyEntry, MarksSame, Bucket, DoneAt, LastAt, CodesDoneAt, CodesLastAt
<1> QED BY <1>7, <1>8

\* Only the marks of owner o of node p have changed.
OnlyMarks(p, o, e) ==
  /\ nodes' \in NodesType /\ WordsSame /\ BucketsSame
  /\ \A q \in {0, 1}, x \in Thread :
       IF q = p /\ x = o
       THEN /\ DoneAt(q, x)' = e.done /\ LastAt(q, x)' = e.last_done
            /\ CodesDoneAt(q, x)' = e.codes_done /\ CodesLastAt(q, x)' = e.codes_last_done
       ELSE MarksSame(q, x)

LEMMA SetMarksWrites ==
  ASSUME Shape, NEW t \in Thread, NEW e \in OwnerShape, SetEntry(t, e),
         e.bucket = Entry(t).bucket
  PROVE  OnlyMarks(Here(t), my[t].owner, e)
<1> DEFINE p == Here(t)
           o == my[t].owner
<1>1. OnlyEntry(p, o, e) /\ p \in {0, 1} /\ o \in Thread BY SetEntryWrites, Sides DEF Shape
<1>2. Entry(t) = nodes[p].owners[o] BY DEF Entry, Curr
<1> HIDE DEF p, o
<1>3. \A q \in {0, 1}, x \in Thread :
        q # p \/ x # o => MarksSame(q, x) /\ Bucket(q, x)' = Bucket(q, x)
  BY <1>1 DEF OnlyEntry, MarksSame, Bucket, DoneAt, LastAt, CodesDoneAt, CodesLastAt
<1>4. \A q \in {0, 1}, x \in Thread : q = p /\ x = o => Bucket(q, x)' = Bucket(q, x)
  BY <1>1, <1>2 DEF OnlyEntry, Bucket
<1>5. \A q \in {0, 1}, x \in Thread : q = p /\ x = o =>
        /\ DoneAt(q, x)' = e.done /\ LastAt(q, x)' = e.last_done
        /\ CodesDoneAt(q, x)' = e.codes_done /\ CodesLastAt(q, x)' = e.codes_last_done
  BY <1>1 DEF OnlyEntry, DoneAt, LastAt, CodesDoneAt, CodesLastAt
<1>6. nodes' \in NodesType /\ WordsSame BY <1>1 DEF OnlyEntry
<1> QED BY <1>3, <1>4, <1>5, <1>6 DEF OnlyMarks, BucketsSame, p, o

LEMMA WordWrites ==
  ASSUME nodes \in NodesType, NEW p \in {0, 1}, NEW w \in WordType,
         nodes' = [nodes EXCEPT ![p].plan_word = w]
  PROVE  /\ nodes' \in NodesType
         /\ \A q \in {0, 1} : WordOf(q)' = IF q = p THEN w ELSE WordOf(q)
         /\ BucketsSame /\ \A q \in {0, 1}, x \in Thread : MarksSame(q, x)
<1> DEFINE n == [nodes[p] EXCEPT !.plan_word = w]
<1>1. nodes[p] \in [plan_word : WordType, owners : [Thread -> OwnerShape]] BY DEF NodesType
<1>2. nodes' = [nodes EXCEPT ![p] = n] BY Zenon
<1>4. /\ n \in [plan_word : WordType, owners : [Thread -> OwnerShape]]
      /\ n.plan_word = w /\ n.owners = nodes[p].owners
  BY <1>1
<1> HIDE DEF n
<1>5. nodes' \in NodesType /\ nodes'[p] = n /\ \A q \in {0, 1} : q # p => nodes'[q] = nodes[q]
  BY <1>2, <1>4 DEF NodesType
<1>6. \A q \in {0, 1} : nodes'[q].owners = nodes[q].owners BY <1>4, <1>5
<1>7. \A q \in {0, 1} : WordOf(q)' = IF q = p THEN w ELSE WordOf(q) BY <1>4, <1>5 DEF WordOf
<1> QED
  BY <1>5, <1>6, <1>7 DEF BucketsSame, MarksSame, Bucket, DoneAt, LastAt, CodesDoneAt, CodesLastAt

LEMMA Parts ==
  ASSUME IInv, NEW t \in Thread
  PROVE  /\ Shape /\ nodes \in NodesType /\ my \in [Thread -> ThreadShape]
         /\ Place(t) /\ Directed(t) /\ Rounds(t) /\ Entries(t) /\ ItemView(t)
         /\ CodeEntries(t) /\ BlockEntries(t) /\ CandidatesView(t) /\ Tags(t) /\ Summed(t)
  BY DEF IInv, Shape, WordsInv, Positions, NodesType

-----------------------------------------------------------------------------
(***************************************************************************)
(* The steps that write into shared memory.                                *)
(***************************************************************************)
MarkWriters == {"reset", "mark_done", "progress", "own_progress", "codes_progress",
                "mark_codes_done"}
BucketWriters == {"empty", "retag", "push", "found", "reserve"}
DataWriters == {"swap", "mark", "vis", "write_code", "next_code", "stamp"}

LEMMA StepCases ==
  ASSUME NEW t \in Thread, Step(t)
  PROVE  \/ UNCHANGED memory
            /\ my[t].pc \notin {"choose"} \cup MarkWriters \cup BucketWriters \cup DataWriters
         \/ Choose(t)
         \/ ResetProgress(t) \/ MarkDone(t) \/ Progress(t) \/ OwnProgress(t)
            \/ CodesProgress(t) \/ MarkCodesDone(t)
         \/ EmptyBucket(t) \/ TagBucket(t) \/ PushVertex(t) \/ PushFound(t) \/ Reserve(t)
         \/ SwapDist(t) \/ MarkFound(t) \/ MarkVisited(t) \/ WriteCode(t) \/ WriteNextCode(t)
            \/ Stamp(t)
<1> USE DEF At, MarkWriters, BucketWriters, DataWriters
<1>1. CASE Plan(t) BY <1>1 DEF Plan, LoadWord, SumTag, SumSize, Jump, JumpOther
<1>2. CASE TestMark(t) \/ Advance(t) BY <1>2 DEF TestMark, Advance
<1>3. CASE TopDown(t)
  BY <1>3 DEF TopDown, TestDone, TestTag, TestSize, LoadSize, StartTag, StartHelping, TakeEntry,
     TestLevel, TestVisited, TestNeighbor
<1>4. CASE Codes(t)
  BY <1>4 DEF Codes, TestCodesDone, CodesTag, CodesSize, CodesStartTag, CodesStart, CodesEntry,
     CodeLevel, TestCodesMark
<1>5. CASE ScanBlock(t) BY <1>5 DEF ScanBlock, Gather, TestCandidate
<1>6. CASE BottomUp(t)
  BY <1>6 DEF BottomUp, OwnBlock, OwnStamp, Help, HelpTag, HelpStart, HelpBlock, BlockTag,
     TestProgress, TestStamp
<1> QED BY <1>1, <1>2, <1>3, <1>4, <1>5, <1>6 DEF Step

HereAt(t, p, o) == p = Here(t) /\ o = my[t].owner

\* What a step may write into the marks of owner o of node p.
MarkStep(t, p, o) ==
  /\ DoneAt(p, o)' = IF my[t].pc = "mark_done" /\ HereAt(t, p, o) THEN my[t].level
                     ELSE DoneAt(p, o)
  /\ CodesDoneAt(p, o)' = IF my[t].pc = "mark_codes_done" /\ HereAt(t, p, o) THEN my[t].level
                          ELSE CodesDoneAt(p, o)
  /\ LastAt(p, o)' = IF my[t].pc = "reset" /\ HereAt(t, p, o) THEN 0
                     ELSE IF my[t].pc \in {"progress", "own_progress"} /\ HereAt(t, p, o)
                     THEN my[t].item ELSE LastAt(p, o)
  /\ CodesLastAt(p, o)' = IF my[t].pc = "reset" /\ HereAt(t, p, o) THEN 0
                          ELSE IF my[t].pc = "codes_progress" /\ HereAt(t, p, o)
                          THEN my[t].item ELSE CodesLastAt(p, o)

MarkSteps(t) == \A p \in {0, 1}, o \in Thread : MarkStep(t, p, o)

\* x is pushed onto b, which is c then.
Pushed(b, c, x) ==
  /\ c.level = b.level /\ c.size = b.size + 1
  /\ c.size <= Len(c.list) /\ Len(b.list) <= Len(c.list)
  /\ c.list[c.size] = x
  /\ \A i \in 1 .. b.size : c.list[i] = b.list[i]

\* What a step may make of the next bucket of its thread.
BucketStep(t, b, c) ==
  \/ my[t].pc \notin {"empty", "retag", "push", "found"} /\ c = b
  \/ my[t].pc = "empty" /\ c.size = 0 /\ c.level = b.level /\ c.list = b.list
  \/ my[t].pc = "retag" /\ c.size = b.size /\ c.level = my[t].level + 1 /\ c.list = b.list
  \/ my[t].pc = "push" /\ Pushed(b, c, V(t))
  \/ my[t].pc = "found" /\ Pushed(b, c, C(t))
  \/ my[t].pc = "reserve" /\ c.size = b.size /\ c.level = b.level /\ Len(c.list) = Len(b.list)

BucketSteps(t) ==
  \A p \in {0, 1}, o \in Thread :
    IF p = There(t) /\ o = t THEN BucketStep(t, Bucket(p, o), Bucket(p, o)')
                             ELSE Bucket(p, o)' = Bucket(p, o)

LEMMA PushOn ==
  ASSUME NEW b \in BucketType, b.size <= Len(b.list), NEW x \in Vertex,
         NEW c, c = [b EXCEPT !.size = b.size + 1,
                              !.list = IF b.size < Len(b.list) THEN [b.list EXCEPT ![b.size + 1] = x]
                                       ELSE Append(b.list, x)]
  PROVE  c \in BucketType /\ Pushed(b, c, x)
<1>1. /\ b.list \in Seq(Vertex \cup {Junk}) /\ b.size \in Nat /\ b.level \in Int
      /\ Len(b.list) \in Nat
  BY BucketFields
<1> DEFINE l == IF b.size < Len(b.list) THEN [b.list EXCEPT ![b.size + 1] = x]
                ELSE Append(b.list, x)
<1>2. /\ l \in Seq(Vertex \cup {Junk}) /\ b.size + 1 <= Len(l) /\ Len(b.list) <= Len(l)
      /\ Len(l) \in Nat /\ l[b.size + 1] = x /\ \A i \in 1 .. b.size : l[i] = b.list[i]
 <2>1. CASE b.size < Len(b.list)
  <3>1. l = [b.list EXCEPT ![b.size + 1] = x] BY <2>1
  <3>2. b.size + 1 \in 1 .. Len(b.list) BY <1>1, <2>1
  <3> HIDE DEF l
  <3>3. l \in Seq(Vertex \cup {Junk}) /\ Len(l) = Len(b.list) BY <1>1, <3>1, <3>2
  <3>4. l[b.size + 1] = x /\ \A i \in 1 .. b.size : l[i] = b.list[i] BY <1>1, <3>1, <3>2
  <3> QED BY <1>1, <2>1, <3>3, <3>4
 <2>2. CASE ~(b.size < Len(b.list))
  <3>1. l = Append(b.list, x) /\ b.size = Len(b.list) BY <1>1, <2>2
  <3>2. x \in Vertex \cup {Junk} OBVIOUS
  <3> HIDE DEF l
  <3> QED BY <1>1, <3>1, <3>2, AppendEntries
 <2> QED BY <2>1, <2>2
<1>3. c = [b EXCEPT !.size = b.size + 1, !.list = l] OBVIOUS
<1> HIDE DEF l
<1>4. PICK n \in Nat : n = b.size + 1 BY <1>1
<1>5. c = [b EXCEPT !.size = n, !.list = l] BY <1>3, <1>4
<1>6. c \in BucketType BY <1>2, <1>5, Zenon DEF BucketType
<1>7. c.level = b.level /\ c.size = n /\ c.list = l BY <1>5 DEF BucketType
<1> QED BY <1>1, <1>2, <1>4, <1>6, <1>7 DEF Pushed

LEMMA MarkWrites ==
  ASSUME IInv, NEW t \in Thread,
         \/ ResetProgress(t) \/ MarkDone(t) \/ Progress(t) \/ OwnProgress(t)
         \/ CodesProgress(t) \/ MarkCodesDone(t)
  PROVE  nodes' \in NodesType /\ WordsSame /\ BucketsSame /\ MarkSteps(t)
         /\ my[t].pc \in MarkWriters /\ UNCHANGED <<dist, dist8, vis, helped_at>>
<1>0. /\ Shape /\ nodes \in NodesType /\ Here(t) \in {0, 1} /\ my[t].owner \in Thread
      /\ my[t].item \in Nat /\ my[t].level \in Nat
  BY Parts, Sides, ThreadFields
<1> DEFINE f == Entry(t)
           i == my[t].item
           d == my[t].level
<1>1. f \in OwnerShape /\ f = nodes[Here(t)].owners[my[t].owner] /\ i \in Nat /\ d \in Int
  BY <1>0, NodeFields DEF Entry, Curr
<1>2. ASSUME NEW e \in OwnerShape, SetEntry(t, e), e.bucket = Entry(t).bucket,
             /\ e.done = IF my[t].pc = "mark_done" THEN d ELSE f.done
             /\ e.codes_done = IF my[t].pc = "mark_codes_done" THEN d ELSE f.codes_done
             /\ e.last_done = IF my[t].pc = "reset" THEN 0
                              ELSE IF my[t].pc \in {"progress", "own_progress"} THEN i
                              ELSE f.last_done
             /\ e.codes_last_done = IF my[t].pc = "reset" THEN 0
                                    ELSE IF my[t].pc = "codes_progress" THEN i
                                    ELSE f.codes_last_done
      PROVE  nodes' \in NodesType /\ WordsSame /\ BucketsSame /\ MarkSteps(t)
 <2>1. OnlyMarks(Here(t), my[t].owner, e) BY <1>0, <1>2, SetMarksWrites
 <2>2. SUFFICES ASSUME NEW p \in {0, 1}, NEW o \in Thread PROVE MarkStep(t, p, o)
   BY <2>1 DEF OnlyMarks, MarkSteps
 <2>3. CASE HereAt(t, p, o)
  <3>1. /\ DoneAt(p, o)' = e.done /\ LastAt(p, o)' = e.last_done
        /\ CodesDoneAt(p, o)' = e.codes_done /\ CodesLastAt(p, o)' = e.codes_last_done
    BY <2>1, <2>3 DEF OnlyMarks, HereAt
  <3>2. /\ DoneAt(p, o) = f.done /\ LastAt(p, o) = f.last_done
        /\ CodesDoneAt(p, o) = f.codes_done /\ CodesLastAt(p, o) = f.codes_last_done
    BY <1>1, <2>3 DEF HereAt, DoneAt, LastAt, CodesDoneAt, CodesLastAt
  <3> QED BY <1>2, <2>3, <3>1, <3>2 DEF MarkStep
 <2>4. CASE ~HereAt(t, p, o)
  <3>1. MarksSame(p, o) BY <2>1, <2>4 DEF OnlyMarks, HereAt
  <3> QED BY <2>4, <3>1 DEF MarkStep, MarksSame
 <2> QED BY <2>3, <2>4
<1>3. ASSUME NEW e, SetEntry(t, e),
             \/ my[t].pc = "reset" /\ e = [f EXCEPT !.last_done = 0, !.codes_last_done = 0]
             \/ my[t].pc = "mark_done" /\ e = [f EXCEPT !.done = d]
             \/ my[t].pc \in {"progress", "own_progress"} /\ e = [f EXCEPT !.last_done = i]
             \/ my[t].pc = "codes_progress" /\ e = [f EXCEPT !.codes_last_done = i]
             \/ my[t].pc = "mark_codes_done" /\ e = [f EXCEPT !.codes_done = d]
      PROVE  nodes' \in NodesType /\ WordsSame /\ BucketsSame /\ MarkSteps(t)
 <2> HIDE DEF f, i, d
 <2>1. e \in OwnerShape
  <3>1. 0 \in Nat OBVIOUS
  <3> QED BY <1>1, <1>3, <3>1, Zenon DEF OwnerShape
 <2>2. /\ e.bucket = f.bucket
       /\ e.done = IF my[t].pc = "mark_done" THEN d ELSE f.done
       /\ e.codes_done = IF my[t].pc = "mark_codes_done" THEN d ELSE f.codes_done
       /\ e.last_done = IF my[t].pc = "reset" THEN 0
                        ELSE IF my[t].pc \in {"progress", "own_progress"} THEN i
                        ELSE f.last_done
       /\ e.codes_last_done = IF my[t].pc = "reset" THEN 0
                              ELSE IF my[t].pc = "codes_progress" THEN i
                              ELSE f.codes_last_done
   BY <1>1, <1>3 DEF OwnerShape
 <2>3. f = Entry(t) BY DEF f
 <2> QED BY <1>2, <1>3, <2>1, <2>2, <2>3
<1>4. CASE ResetProgress(t) BY <1>3, <1>4 DEF ResetProgress, At, MarkWriters
<1>5. CASE MarkDone(t) BY <1>3, <1>5 DEF MarkDone, At, MarkWriters
<1>6. CASE Progress(t) BY <1>3, <1>6 DEF Progress, At, MarkWriters
<1>7. CASE OwnProgress(t) BY <1>3, <1>7 DEF OwnProgress, At, MarkWriters
<1>8. CASE CodesProgress(t) BY <1>3, <1>8 DEF CodesProgress, At, MarkWriters
<1>9. CASE MarkCodesDone(t) BY <1>3, <1>9 DEF MarkCodesDone, At, MarkWriters
<1> QED BY <1>4, <1>5, <1>6, <1>7, <1>8, <1>9

LEMMA VFacts ==
  ASSUME IInv, NEW t \in Thread, my[t].pc \in {"neighbor", "push", "swap"}
  PROVE  /\ my[t].u \in Vertex /\ V(t) \in Vertex /\ V(t) \in Neighbors(my[t].u)
         /\ Len(adj[my[t].u]) \in Nat /\ my[t].j \in 1 .. Len(adj[my[t].u])
<1>1. my[t].u \in Vertex /\ my[t].j \in 1 .. Len(adj[my[t].u]) BY Parts DEF ItemView, AtItem
<1>2. adj[my[t].u] \in Seq(Vertex) BY <1>1, GraphAssumption
<1>3. V(t) \in Neighbors(my[t].u) /\ V(t) \in Vertex BY <1>1, GraphTypes DEF V
<1> QED BY <1>1, <1>2, <1>3

LEMMA CFacts ==
  ASSUME IInv, NEW t \in Thread, my[t].pc \in {"test"} \cup Finding
  PROVE  /\ my[t].cand \in Seq(Vertex) /\ my[t].cand # <<>> /\ Len(my[t].cand) \in Nat
         /\ Len(my[t].cand) >= 1 /\ C(t) = my[t].cand[1] /\ C(t) \in Vertex
         /\ adj[C(t)] \in Seq(Vertex) /\ Len(adj[C(t)]) \in Nat
         /\ my[t].pc \in Finding => Delta[C(t)] = my[t].level + 1
<1>1. my[t].cand # <<>> /\ (my[t].pc \in Finding => Delta[C(t)] = my[t].level + 1)
  BY Parts DEF BlockEntries, CandidatesView
<1>2. my[t].cand \in Seq(Vertex) BY Parts, ThreadFields
<1> DEFINE c == my[t].cand
<1>3. Len(c) \in Nat /\ Len(c) >= 1 /\ Head(c) = c[1] /\ c[1] \in Vertex
 <2> HIDE DEF c
 <2>1. c \in Seq(Vertex) /\ c # <<>> BY <1>1, <1>2 DEF c
 <2> QED BY <2>1
<1>4. C(t) = c[1] BY <1>3 DEF C
<1>5. adj[C(t)] \in Seq(Vertex) BY <1>3, <1>4, GraphAssumption
<1> QED BY <1>1, <1>2, <1>3, <1>4, <1>5

LEMMA SoundBucket ==
  ASSUME IInv, NEW p \in {0, 1}, NEW o \in Thread
  PROVE  /\ Bucket(p, o) \in BucketType /\ Bucket(p, o).level \in Int /\ Bucket(p, o).size \in Nat
         /\ Len(Bucket(p, o).list) \in Nat /\ Bucket(p, o).size <= Len(Bucket(p, o).list)
         /\ Bucket(p, o).level >= -1
         /\ \A i \in 1 .. Bucket(p, o).size :
              Bucket(p, o).list[i] \in Vertex /\ Delta[Bucket(p, o).list[i]] = Bucket(p, o).level
<1>1. nodes \in NodesType BY DEF IInv, Shape, NodesType
<1>2. /\ Bucket(p, o).level >= None /\ Bucket(p, o).size <= Len(Bucket(p, o).list)
      /\ \A i \in 1 .. Bucket(p, o).size :
           Bucket(p, o).list[i] \in Vertex /\ Delta[Bucket(p, o).list[i]] = Bucket(p, o).level
  BY DEF IInv, LevelsInv, BucketsSound
<1> QED BY <1>1, <1>2, BucketTypes, NodeFields DEF None

LEMMA BucketWrites ==
  ASSUME IInv, NEW t \in Thread,
         EmptyBucket(t) \/ TagBucket(t) \/ PushVertex(t) \/ PushFound(t) \/ Reserve(t)
  PROVE  nodes' \in NodesType /\ WordsSame /\ BucketSteps(t)
         /\ (\A p \in {0, 1}, o \in Thread : MarksSame(p, o))
         /\ my[t].pc \in BucketWriters /\ UNCHANGED <<dist, dist8, vis, helped_at>>
<1>0. /\ Shape /\ nodes \in NodesType /\ There(t) \in {0, 1} /\ my[t].level \in Nat
  BY Parts, Sides, ThreadFields
<1> DEFINE b == Bucket(There(t), t)
<1>1. b \in BucketType /\ b.size \in Nat /\ b.size <= Len(b.list) /\ b.level \in Int
      /\ b.list \in Seq(Vertex \cup {Junk}) /\ b = nodes[There(t)].owners[t].bucket
  BY <1>0, SoundBucket, BucketTypes DEF Bucket
<1>2. ASSUME NEW c \in BucketType, SetNextBucket(t, c), BucketStep(t, b, c)
      PROVE  nodes' \in NodesType /\ WordsSame /\ BucketSteps(t)
             /\ (\A p \in {0, 1}, o \in Thread : MarksSame(p, o))
 <2>1. OnlyBucket(There(t), t, c) BY <1>0, <1>2, SetBucketWrites
 <2>2. \A p \in {0, 1}, o \in Thread :
         Bucket(p, o)' = IF p = There(t) /\ o = t THEN c ELSE Bucket(p, o)
   BY <2>1 DEF OnlyBucket
 <2>3. BucketSteps(t) BY <1>2, <2>2 DEF BucketSteps
 <2> QED BY <2>1, <2>3 DEF OnlyBucket
<1> HIDE DEF b
<1>3. ASSUME NEW x \in Vertex, Push(t, x),
             (my[t].pc = "push" /\ x = V(t)) \/ (my[t].pc = "found" /\ x = C(t))
      PROVE  nodes' \in NodesType /\ WordsSame /\ BucketSteps(t)
             /\ (\A p \in {0, 1}, o \in Thread : MarksSame(p, o))
 <2>1. PICK c : c = [b EXCEPT !.size = b.size + 1,
                           !.list = IF b.size < Len(b.list) THEN [b.list EXCEPT ![b.size + 1] = x]
                                    ELSE Append(b.list, x)]
   OBVIOUS
 <2>2. c = [b EXCEPT !.size = @ + 1,
                     !.list = IF b.size < Len(@) THEN [@ EXCEPT ![b.size + 1] = x]
                              ELSE Append(@, x)]
   BY <2>1
 <2>3. SetNextBucket(t, c) BY <1>1, <1>3, <2>2 DEF Push
 <2>4. c \in BucketType /\ Pushed(b, c, x) BY <1>1, <2>1, PushOn
 <2>5. BucketStep(t, b, c) BY <1>3, <2>4 DEF BucketStep
 <2> QED BY <1>2, <2>3, <2>4, <2>5
<1>4. CASE EmptyBucket(t)
 <2>1. PICK c : c = [b EXCEPT !.size = 0] OBVIOUS
 <2>2. SetNextBucket(t, c) /\ my[t].pc = "empty" BY <1>1, <1>4, <2>1 DEF EmptyBucket, At
 <2>3. c \in BucketType /\ c.size = 0 /\ c.level = b.level /\ c.list = b.list
   BY <1>1, <2>1 DEF BucketType
 <2>4. BucketStep(t, b, c) BY <2>2, <2>3 DEF BucketStep
 <2> QED BY <1>2, <1>4, <2>2, <2>3, <2>4 DEF EmptyBucket, BucketWriters
<1>5. CASE TagBucket(t)
 <2>0. PICK n \in Int : n = my[t].level + 1 BY <1>0
 <2>1. PICK c : c = [b EXCEPT !.level = n] OBVIOUS
 <2>2. SetNextBucket(t, c) /\ my[t].pc = "retag" BY <1>1, <1>5, <2>0, <2>1 DEF TagBucket, At
 <2>3. c \in BucketType /\ c.size = b.size /\ c.level = n /\ c.list = b.list
   BY <1>1, <2>1 DEF BucketType
 <2>4. BucketStep(t, b, c) BY <2>0, <2>2, <2>3 DEF BucketStep
 <2> QED BY <1>2, <1>5, <2>2, <2>3, <2>4 DEF TagBucket, BucketWriters
<1>6. CASE PushVertex(t)
 <2>1. my[t].pc = "push" /\ Push(t, V(t)) BY <1>6 DEF PushVertex, At
 <2>2. V(t) \in Vertex BY <2>1, VFacts
 <2>3. UNCHANGED <<dist, dist8, vis, helped_at>> BY <1>6 DEF PushVertex
 <2> QED BY <1>3, <2>1, <2>2, <2>3 DEF BucketWriters
<1>7. CASE PushFound(t)
 <2>1. my[t].pc = "found" /\ Push(t, C(t)) BY <1>7 DEF PushFound, At
 <2>2. C(t) \in Vertex BY <2>1, CFacts DEF Finding
 <2>3. UNCHANGED <<dist, dist8, vis, helped_at>> BY <1>7 DEF PushFound
 <2> QED BY <1>3, <2>1, <2>2, <2>3 DEF BucketWriters
<1>8. CASE Reserve(t)
 <2>0. my[t].pc = "reserve" /\ UNCHANGED <<dist, dist8, vis, helped_at>> BY <1>8 DEF Reserve, At
 <2>1. CASE UNCHANGED nodes
  <3>1. /\ nodes' \in NodesType /\ WordsSame /\ \A p \in {0, 1}, o \in Thread : MarksSame(p, o)
        /\ \A p \in {0, 1}, o \in Thread : Bucket(p, o)' = Bucket(p, o)
    BY <1>0, <2>1 DEF WordsSame, MarksSame, WordOf, DoneAt, LastAt, CodesDoneAt, CodesLastAt, Bucket
  <3>2. BucketSteps(t) BY <2>0, <3>1 DEF BucketSteps, BucketStep
  <3> QED BY <2>0, <3>1, <3>2 DEF BucketWriters
 <2>2. CASE SetNextBucket(t, [b EXCEPT !.list = [i \in DOMAIN @ |-> Junk]])
  <3>1. PICK l : l = [i \in DOMAIN b.list |-> Junk] OBVIOUS
  <3>2. l \in Seq(Vertex \cup {Junk}) /\ Len(l) = Len(b.list)
   <4>1. PICK n \in Nat : n = Len(b.list) BY <1>1
   <4>2. DOMAIN b.list = 1 .. n BY <1>1, <4>1
   <4>3. l = [i \in 1 .. n |-> Junk] BY <3>1, <4>2
   <4>4. l \in [1 .. n -> Vertex \cup {Junk}] BY <4>3
   <4> QED BY <4>1, <4>3, <4>4
  <3>3. PICK c : c = [b EXCEPT !.list = l] OBVIOUS
  <3>4. SetNextBucket(t, c) BY <2>2, <3>1, <3>3
  <3>5. c \in BucketType /\ c.size = b.size /\ c.level = b.level /\ c.list = l
    BY <1>1, <3>2, <3>3 DEF BucketType
  <3>6. BucketStep(t, b, c) BY <2>0, <3>2, <3>5 DEF BucketStep
  <3> QED BY <1>2, <2>0, <3>4, <3>5, <3>6 DEF BucketWriters
 <2> QED BY <1>1, <1>8, <2>1, <2>2 DEF Reserve
<1> QED BY <1>4, <1>5, <1>6, <1>7, <1>8

(***************************************************************************)
(* The two words hold the levels Chosen and Chosen - 1.                    *)
(***************************************************************************)
LEMMA WordsKnown ==
  ASSUME nodes \in NodesType, WordsInOrder
  PROVE  /\ Chosen \in Int /\ Chosen >= -1
         /\ Chosen % 2 \in {0, 1} /\ (Chosen + 1) % 2 = 1 - (Chosen % 2)
         /\ Latest \in WordType /\ Latest.level = Chosen
         /\ Previous \in WordType /\ Previous.level = Chosen - 1
         /\ \A p \in {0, 1} : WordOf(p) \in WordType /\ WordOf(p).level \in Int
         /\ \A p \in {0, 1} :
              /\ p = Chosen % 2 => WordOf(p) = Latest
              /\ p # Chosen % 2 => WordOf(p) = Previous
<1>0. \A p \in {0, 1} : WordOf(p) \in WordType /\ WordOf(p).level \in Int BY NodeFields
<1> DEFINE a == WordOf(0).level
           b == WordOf(1).level
           k == Chosen
<1>1. a \in Int /\ b \in Int /\ a % 2 = 0 /\ b % 2 = 1 /\ a - b \in {-1, 1} /\ k >= -1
      /\ k = IF a > b THEN a ELSE b
  BY <1>0 DEF WordsInOrder, Chosen
<1> HIDE DEF a, b, k
<1>2. k \in Int BY <1>1
<1>3. k % 2 \in {0, 1} /\ (k + 1) % 2 = 1 - (k % 2) BY <1>2, Parity
<1>4. /\ k % 2 = 0 => a = k /\ b = k - 1
      /\ k % 2 = 1 => b = k /\ a = k - 1
  BY <1>1, <1>2
<1>5. Latest = WordOf(k % 2) /\ Previous = WordOf(1 - (k % 2)) BY <1>3 DEF Latest, Previous, k
<1>6. Latest.level = k /\ Previous.level = k - 1 /\ Latest \in WordType /\ Previous \in WordType
  BY <1>0, <1>3, <1>4, <1>5 DEF a, b
<1>7. \A p \in {0, 1} :
        /\ p = k % 2 => WordOf(p) = Latest
        /\ p # k % 2 => WordOf(p) = Previous
  BY <1>3, <1>5
<1> QED BY <1>0, <1>1, <1>2, <1>3, <1>6, <1>7 DEF k

LEMMA Words ==
  ASSUME IInv
  PROVE  /\ Chosen \in Int /\ Chosen >= -1
         /\ Chosen % 2 \in {0, 1} /\ (Chosen + 1) % 2 = 1 - (Chosen % 2)
         /\ Latest \in WordType /\ Latest.level = Chosen
         /\ Previous \in WordType /\ Previous.level = Chosen - 1
         /\ \A p \in {0, 1} : WordOf(p) \in WordType /\ WordOf(p).level \in Int
         /\ \A p \in {0, 1} :
              /\ p = Chosen % 2 => WordOf(p) = Latest
              /\ p # Chosen % 2 => WordOf(p) = Previous
  BY WordsKnown DEF IInv, Shape, NodesType, WordsInv

\* A level that is the next one, the current one or the one before has its node.
LEMMA LevelNode ==
  ASSUME IInv, NEW n \in Int
  PROVE  /\ n = Chosen \/ n = Chosen - 2 => n % 2 = Chosen % 2 /\ (n + 1) % 2 # Chosen % 2
         /\ n = Chosen + 1 \/ n = Chosen - 1 => n % 2 # Chosen % 2 /\ (n + 1) % 2 = Chosen % 2
         /\ n <= Chosen + 1 /\ n % 2 = Chosen % 2 => n = Chosen \/ n <= Chosen - 2
         /\ n <= Chosen + 1 /\ n % 2 # Chosen % 2 => n = Chosen + 1 \/ n <= Chosen - 1
         /\ n <= Chosen + 1 /\ (n + 1) % 2 = Chosen % 2 => n = Chosen + 1 \/ n <= Chosen - 1
         /\ n <= Chosen + 1 /\ (n + 1) % 2 # Chosen % 2 => n = Chosen \/ n <= Chosen - 2
<1>1. PICK k \in Int : k = Chosen BY Words
<1>2. /\ n = k \/ n = k - 2 => n % 2 = k % 2 /\ (n + 1) % 2 # k % 2
      /\ n = k + 1 \/ n = k - 1 => n % 2 # k % 2 /\ (n + 1) % 2 = k % 2
      /\ n <= k + 1 /\ n % 2 = k % 2 => n = k \/ n <= k - 2
      /\ n <= k + 1 /\ n % 2 # k % 2 => n = k + 1 \/ n <= k - 1
      /\ n <= k + 1 /\ (n + 1) % 2 = k % 2 => n = k + 1 \/ n <= k - 1
      /\ n <= k + 1 /\ (n + 1) % 2 # k % 2 => n = k \/ n <= k - 2
  OBVIOUS
<1> QED BY <1>1, <1>2, Zenon

LEMMA WordHere ==
  ASSUME IInv, NEW t \in Thread
  PROVE  /\ my[t].level \in Nat /\ my[t].level <= Chosen + 1
         /\ Curr(t).plan_word = WordOf(Here(t)) /\ Curr(t).plan_word \in WordType
         /\ Curr(t).plan_word.level \in Int
         /\ Current(t) => Curr(t).plan_word = Latest
         /\ Next_(t) => Curr(t).plan_word = Previous
         /\ Curr(t).plan_word.level \in {Chosen, Chosen - 1}
         /\ Curr(t).plan_word.level < my[t].level => Next_(t)
         /\ my[t].level >= Chosen - 1 /\ my[t].level <= Chosen =>
              Curr(t).plan_word.level = my[t].level
<1>1. my[t].level \in Nat /\ my[t].level <= Chosen + 1 /\ Here(t) \in {0, 1}
  BY Parts, ThreadFields, Sides DEF Place
<1>2. Curr(t).plan_word = WordOf(Here(t)) BY DEF Curr, WordOf
<1>3. Here(t) = my[t].level % 2 BY DEF Here
<1>4. /\ Current(t) => Here(t) = Chosen % 2
      /\ Next_(t) \/ my[t].level = Chosen - 1 => Here(t) # Chosen % 2
  BY <1>1, <1>3, LevelNode DEF Current, Next_
<1>5. /\ Current(t) => Curr(t).plan_word = Latest
      /\ Next_(t) \/ my[t].level = Chosen - 1 => Curr(t).plan_word = Previous
      /\ Curr(t).plan_word \in {Latest, Previous}
  BY <1>1, <1>2, <1>4, Words
<1>6. /\ Latest \in WordType /\ Latest.level = Chosen /\ Chosen \in Int
      /\ Previous \in WordType /\ Previous.level = Chosen - 1
  BY Words
<1> QED BY <1>1, <1>2, <1>5, <1>6 DEF Current, Next_

-----------------------------------------------------------------------------
LEMMA NextCodes ==
  ASSUME NEW n \in Nat
  PROVE  /\ CodeOf(n) \in 0 .. MaxCode /\ NextCode(CodeOf(n)) = CodeOf(n + 1)
         /\ CodeOf(n) > 0 <=> n < MaxCode
         /\ CodeOf(n) > 0 => CodeOf(n) = n + 1
  BY MemAssumption DEF CodeOf, NextCode

\* What a step may write into the arrays over the vertices and the stamps.
DataStep(t) ==
  /\ \A v \in Vertex : dist'[v] =
       IF (my[t].pc = "swap" /\ v = V(t) /\ dist[v] = Unset) \/ (my[t].pc = "mark" /\ v = C(t))
       THEN my[t].level + 1 ELSE dist[v]
  /\ \A v \in Vertex : dist8'[v] =
       IF my[t].pc = "write_code" /\ v = my[t].u THEN CodeOf(my[t].level)
       ELSE IF my[t].pc = "next_code" /\ v = C(t) THEN CodeOf(my[t].level + 1) ELSE dist8[v]
  /\ \A v \in Vertex : vis'[v] = IF my[t].pc = "vis" /\ v = my[t].u THEN TRUE ELSE vis[v]
  /\ \A o \in Thread : \A k \in 1 .. Owned(0) : helped_at'[o][k] =
       IF my[t].pc = "stamp" /\ o = my[t].owner /\ k = my[t].item THEN my[t].level
       ELSE helped_at[o][k]

DataTypes ==
  /\ dist \in [Vertex -> Int] /\ dist8 \in [Vertex -> 0 .. MaxCode] /\ vis \in [Vertex -> BOOLEAN]
  /\ helped_at \in [Thread -> [1 .. Owned(0) -> Int]]

LEMMA StampWrites ==
  ASSUME helped_at \in [Thread -> [1 .. Owned(0) -> Int]], NEW o \in Thread,
         NEW k \in 1 .. Owned(0), NEW n \in Int, helped_at' = [helped_at EXCEPT ![o][k] = n]
  PROVE  /\ helped_at' \in [Thread -> [1 .. Owned(0) -> Int]]
         /\ \A x \in Thread : \A i \in 1 .. Owned(0) :
              helped_at'[x][i] = IF x = o /\ i = k THEN n ELSE helped_at[x][i]
<1>1. PICK f : f = [helped_at[o] EXCEPT ![k] = n] OBVIOUS
<1>2. f \in [1 .. Owned(0) -> Int] /\ f[k] = n
      /\ \A i \in 1 .. Owned(0) : i # k => f[i] = helped_at[o][i]
  BY <1>1
<1>3. helped_at' = [helped_at EXCEPT ![o] = f] BY <1>1, Zenon
<1>4. helped_at' \in [Thread -> [1 .. Owned(0) -> Int]]
      /\ helped_at'[o] = f /\ \A x \in Thread : x # o => helped_at'[x] = helped_at[x]
  BY <1>2, <1>3
<1> QED BY <1>2, <1>4

LEMMA DataWrites ==
  ASSUME IInv, NEW t \in Thread,
         SwapDist(t) \/ MarkFound(t) \/ MarkVisited(t) \/ WriteCode(t) \/ WriteNextCode(t) \/ Stamp(t)
  PROVE  UNCHANGED nodes /\ DataStep(t) /\ DataTypes' /\ my[t].pc \in DataWriters
<1>0. DataTypes /\ my[t].level \in Nat /\ my[t].owner \in Thread
  BY Parts, ThreadFields DEF Shape, DataTypes
<1>00. PICK d \in Int : d = my[t].level + 1 BY <1>0
<1>1. CASE SwapDist(t)
 <2>1. my[t].pc = "swap" /\ V(t) \in Vertex BY <1>1, VFacts DEF SwapDist, At
 <2>2. PICK x : x = IF dist[V(t)] = Unset THEN d ELSE dist[V(t)] OBVIOUS
 <2>3. dist' = [dist EXCEPT ![V(t)] = x] /\ UNCHANGED <<dist8, vis, helped_at, nodes>>
   BY <1>1, <1>00, <2>2 DEF SwapDist
 <2>4. x \in Int BY <1>0, <2>1, <2>2 DEF DataTypes
 <2>5. dist' \in [Vertex -> Int] /\ \A v \in Vertex : dist'[v] = IF v = V(t) THEN x ELSE dist[v]
   BY <1>0, <2>1, <2>3, <2>4 DEF DataTypes
 <2> QED BY <1>0, <1>00, <2>1, <2>2, <2>3, <2>5 DEF DataTypes, DataStep, DataWriters
<1>2. CASE MarkFound(t)
 <2>1. my[t].pc = "mark" /\ C(t) \in Vertex BY <1>2, CFacts DEF MarkFound, At, Finding
 <2>2. dist' = [dist EXCEPT ![C(t)] = d] /\ UNCHANGED <<dist8, vis, helped_at, nodes>>
   BY <1>2, <1>00 DEF MarkFound
 <2>3. dist' \in [Vertex -> Int] /\ \A v \in Vertex : dist'[v] = IF v = C(t) THEN d ELSE dist[v]
   BY <1>0, <2>1, <2>2 DEF DataTypes
 <2> QED BY <1>0, <1>00, <2>1, <2>2, <2>3 DEF DataTypes, DataStep, DataWriters
<1>3. CASE MarkVisited(t)
 <2>1. my[t].pc = "vis" /\ my[t].u \in Vertex BY <1>3, Parts DEF MarkVisited, At, ItemView, AtItem
 <2>2. vis' = [vis EXCEPT ![my[t].u] = TRUE] /\ UNCHANGED <<dist, dist8, helped_at, nodes>>
   BY <1>3 DEF MarkVisited
 <2>3. vis' \in [Vertex -> BOOLEAN]
       /\ \A v \in Vertex : vis'[v] = IF v = my[t].u THEN TRUE ELSE vis[v]
   BY <1>0, <2>1, <2>2, Zenon DEF DataTypes
 <2> QED BY <1>0, <2>1, <2>2, <2>3 DEF DataTypes, DataStep, DataWriters
<1>4. CASE WriteCode(t)
 <2>1. my[t].pc = "write_code" /\ my[t].u \in Vertex BY <1>4, Parts DEF WriteCode, At, CodeEntries
 <2>2. PICK c : c = CodeOf(my[t].level) OBVIOUS
 <2>3. dist8' = [dist8 EXCEPT ![my[t].u] = c] /\ UNCHANGED <<dist, vis, helped_at, nodes>>
   BY <1>4, <2>2 DEF WriteCode
 <2>4. c \in 0 .. MaxCode BY <1>0, <2>2, NextCodes
 <2>5. dist8' \in [Vertex -> 0 .. MaxCode]
       /\ \A v \in Vertex : dist8'[v] = IF v = my[t].u THEN c ELSE dist8[v]
   BY <1>0, <2>1, <2>3, <2>4 DEF DataTypes
 <2> QED BY <1>0, <2>1, <2>2, <2>3, <2>5 DEF DataTypes, DataStep, DataWriters
<1>5. CASE WriteNextCode(t)
 <2>1. my[t].pc = "next_code" /\ C(t) \in Vertex BY <1>5, CFacts DEF WriteNextCode, At, Finding
 <2>2. PICK c : c = CodeOf(my[t].level + 1) OBVIOUS
 <2>3. dist8' = [dist8 EXCEPT ![C(t)] = c] /\ UNCHANGED <<dist, vis, helped_at, nodes>>
   BY <1>0, <1>5, <2>2, NextCodes DEF WriteNextCode
 <2>4. c \in 0 .. MaxCode
  <3>1. my[t].level + 1 \in Nat BY <1>0
  <3> QED BY <2>2, <3>1, NextCodes
 <2>5. dist8' \in [Vertex -> 0 .. MaxCode]
       /\ \A v \in Vertex : dist8'[v] = IF v = C(t) THEN c ELSE dist8[v]
   BY <1>0, <2>1, <2>3, <2>4 DEF DataTypes
 <2> QED BY <1>0, <2>1, <2>2, <2>3, <2>5 DEF DataTypes, DataStep, DataWriters
<1>6. CASE Stamp(t)
 <2>1. my[t].pc = "stamp" /\ my[t].item \in 1 .. Owned(my[t].owner)
   BY <1>6, Parts DEF Stamp, At, BlockEntries
 <2>2. my[t].item \in 1 .. Owned(0)
  <3>1. Owned(my[t].owner) <= Owned(0) /\ Owned(my[t].owner) \in Nat /\ Owned(0) \in Nat
    BY <1>0, OwnedFacts, ThreadTypes
  <3> QED BY <2>1, <3>1
 <2>3. helped_at' = [helped_at EXCEPT ![my[t].owner][my[t].item] = my[t].level]
       /\ UNCHANGED <<dist, dist8, vis, nodes>>
   BY <1>6 DEF Stamp
 <2>4. PICK o \in Thread : o = my[t].owner BY <1>0
 <2>5. PICK k \in 1 .. Owned(0) : k = my[t].item BY <2>2
 <2>6. PICK n \in Int : n = my[t].level BY <1>0
 <2>7. helped_at' = [helped_at EXCEPT ![o][k] = n] BY <2>3, <2>4, <2>5, <2>6
 <2>8. /\ helped_at' \in [Thread -> [1 .. Owned(0) -> Int]]
       /\ \A x \in Thread : \A i \in 1 .. Owned(0) :
            helped_at'[x][i] = IF x = o /\ i = k THEN n ELSE helped_at[x][i]
   BY ZenonT(40), <1>0, <2>7, StampWrites DEF DataTypes
 <2> QED BY <1>0, <2>1, <2>3, <2>4, <2>5, <2>6, <2>8 DEF DataTypes, DataStep, DataWriters
<1> QED BY <1>1, <1>2, <1>3, <1>4, <1>5, <1>6

(***************************************************************************)
(* The choice of a level.                                                  *)
(***************************************************************************)
LEMMA DirectionSet ==
  ASSUME IInv, NEW t \in Thread, Next_(t), my[t].pc = "choose"
  PROVE  /\ my[t].sz = 0 => Directions(t) = {"search_done"} /\ Level(my[t].level) = {}
         /\ my[t].sz # 0 => /\ Directions(t) \subseteq {"top_down", "bottom_up"}
                            /\ Level(my[t].level) # {} /\ my[t].level <= MaxDelta
<1>1. Summed(t) /\ my[t].level \in Nat /\ my[t].sz \in Nat BY Parts, ThreadFields
<1>2. CASE my[t].sz = 0
 <2>1. \A v \in Level(my[t].level) : FALSE BY <1>1, <1>2, Zenon DEF Summed
 <2> QED BY <1>2, <2>1 DEF Directions
<1>3. CASE my[t].sz # 0
 <2>1. Level(my[t].level) # {} BY <1>1, <1>3 DEF Summed
 <2>2. my[t].level \in 0 .. MaxDelta BY <1>1, <2>1, GraphTypes, GraphAssumption DEF Level
 <2>3. Directions(t) = Rule[my[t].level] BY <1>3 DEF Directions
 <2>4. Rule[my[t].level] \subseteq {"top_down", "bottom_up"} BY <2>2, MemAssumption
 <2> QED BY <1>3, <2>1, <2>2, <2>3, <2>4
<1> QED BY <1>2, <1>3

\* t chooses its level, the next one, with word w.
Wins(t, w) ==
  /\ my[t].pc = "choose" /\ Next_(t)
  /\ w \in WordType /\ w.level = my[t].level
  /\ w.direction \in Directions(t) /\ w.codes_first = CodesFirst(t, w.direction)
  /\ \A p \in {0, 1} : WordOf(p)' = IF p = Here(t) THEN w ELSE WordOf(p)
  /\ my' = [my EXCEPT ![t] = FollowWord(t, w)]

LEMMA ChooseWrites ==
  ASSUME IInv, NEW t \in Thread, Choose(t)
  PROVE  /\ UNCHANGED <<dist, dist8, vis, helped_at>> /\ my[t].pc = "choose"
         /\ nodes' \in NodesType /\ BucketsSame /\ \A p \in {0, 1}, o \in Thread : MarksSame(p, o)
         /\ \/ \E w \in WordType : Wins(t, w)
            \/ /\ UNCHANGED nodes
               /\ \/ Curr(t).plan_word.level > my[t].level
                     /\ my' = [my EXCEPT ![t] = MovedOn(t)]
                  \/ Curr(t).plan_word.level = my[t].level
                     /\ my' = [my EXCEPT ![t] = FollowWord(t, Curr(t).plan_word)]
<1> DEFINE word == Curr(t).plan_word
<1>1. /\ UNCHANGED <<dist, dist8, vis, helped_at>> /\ my[t].pc = "choose"
      /\ \/ /\ word = my[t].seen
            /\ \E direction \in Directions(t) :
                 LET new == Word(my[t].level, direction, CodesFirst(t, direction))
                 IN /\ nodes' = [nodes EXCEPT ![Here(t)].plan_word = new]
                    /\ my' = [my EXCEPT ![t] = FollowWord(t, new)]
         \/ /\ word # my[t].seen
            /\ my' = [my EXCEPT ![t] = IF word.level > my[t].level THEN MovedOn(t)
                                       ELSE FollowWord(t, word)]
            /\ UNCHANGED nodes
  BY Zenon DEF Choose, At
<1>2. /\ my[t].seen.level < my[t].level /\ (word.level < my[t].level => word = my[t].seen)
      /\ nodes \in NodesType /\ Here(t) \in {0, 1} /\ my[t].level \in Nat
      /\ my[t].direction \in {"top_down", "bottom_up", "search_done"}
  BY <1>1, Parts, Sides, ThreadFields DEF Place
<1>3. word.level \in Int /\ word = WordOf(Here(t)) /\ (word.level < my[t].level => Next_(t))
  BY WordHere
<1>4. CASE word = my[t].seen
 <2>1. Next_(t) BY <1>2, <1>3, <1>4
 <2>2. PICK d \in Directions(t) :
         LET new == Word(my[t].level, d, CodesFirst(t, d))
         IN /\ nodes' = [nodes EXCEPT ![Here(t)].plan_word = new]
            /\ my' = [my EXCEPT ![t] = FollowWord(t, new)]
   BY <1>1, <1>4, Zenon
 <2>3. PICK w : w = Word(my[t].level, d, CodesFirst(t, d)) OBVIOUS
 <2>4. d \in {"top_down", "bottom_up", "search_done"} BY <1>1, <2>1, DirectionSet
 <2>5. w \in WordType /\ w.level = my[t].level /\ w.direction = d
       /\ w.codes_first = CodesFirst(t, d)
   BY <1>2, <2>3, <2>4 DEF Word, WordType, CodesFirst
 <2>6. nodes' = [nodes EXCEPT ![Here(t)].plan_word = w]
       /\ my' = [my EXCEPT ![t] = FollowWord(t, w)]
   BY <2>2, <2>3
 <2>7. PICK p \in {0, 1} : p = Here(t) BY <1>2
 <2>8. nodes' = [nodes EXCEPT ![p].plan_word = w] BY <2>6, <2>7
 <2>9. /\ nodes' \in NodesType
       /\ \A q \in {0, 1} : WordOf(q)' = IF q = p THEN w ELSE WordOf(q)
       /\ BucketsSame /\ \A q \in {0, 1}, x \in Thread : MarksSame(q, x)
   BY <1>2, <2>5, <2>8, WordWrites
 <2>10. Wins(t, w) BY <1>1, <2>1, <2>5, <2>6, <2>7, <2>9 DEF Wins
 <2> QED BY <1>1, <2>5, <2>9, <2>10
<1>5. CASE word # my[t].seen
 <2>1. /\ my' = [my EXCEPT ![t] = IF word.level > my[t].level THEN MovedOn(t)
                                  ELSE FollowWord(t, word)]
       /\ UNCHANGED nodes
   BY <1>1, <1>5
 <2>2. word.level >= my[t].level BY <1>2, <1>3, <1>5
 <2>3. nodes' \in NodesType /\ BucketsSame /\ \A p \in {0, 1}, o \in Thread : MarksSame(p, o)
   BY <1>2, <2>1 DEF BucketsSame, MarksSame, DoneAt, LastAt, CodesDoneAt, CodesLastAt, Bucket
 <2>4. CASE word.level > my[t].level BY <1>1, <2>1, <2>3, <2>4
 <2>5. CASE word.level = my[t].level
  <3>1. ~(word.level > my[t].level) BY <1>2, <1>3, <2>5
  <3> QED BY <1>1, <2>1, <2>3, <2>5, <3>1
 <2> QED BY <1>2, <1>3, <2>2, <2>4, <2>5
<1> QED BY <1>4, <1>5

\* The levels in the nodes after the choice.
LEMMA WinWords ==
  ASSUME IInv, NEW t \in Thread, NEW w, Wins(t, w)
  PROVE  /\ Chosen' = Chosen + 1 /\ my[t].level = Chosen + 1
         /\ Latest' = w /\ Previous' = Latest /\ w.level = Chosen + 1
         /\ Chosen' \in Int
<1>1. my[t].level = Chosen + 1 /\ w.level = Chosen + 1 /\ w \in WordType BY DEF Wins, Next_
<1>2. PICK k \in Int : k = Chosen BY Words
<1>3. /\ k % 2 \in {0, 1} /\ (k + 1) % 2 = 1 - (k % 2) /\ (k + 2) % 2 = k % 2
      /\ Latest = WordOf(k % 2) /\ Latest.level = k
  BY <1>2, Parity, Words
<1>4. Here(t) = 1 - (k % 2) BY <1>1, <1>2, <1>3 DEF Here
<1>5. WordOf(1 - (k % 2))' = w /\ WordOf(k % 2)' = Latest
 <2>1. \A p \in {0, 1} : WordOf(p)' = IF p = Here(t) THEN w ELSE WordOf(p) BY DEF Wins
 <2>2. PICK p \in {0, 1} : p = k % 2 BY <1>3
 <2>3. WordOf(1 - p)' = w /\ WordOf(p)' = Latest BY <1>3, <1>4, <2>1, <2>2
 <2> QED BY <2>2, <2>3
<1>6. Chosen' = k + 1
 <2>1. CASE k % 2 = 0
  <3>1. WordOf(1)' = w /\ WordOf(0)' = Latest BY <1>5, <2>1
  <3> QED BY <1>1, <1>2, <1>3, <3>1 DEF Chosen
 <2>2. CASE k % 2 = 1
  <3>1. WordOf(0)' = w /\ WordOf(1)' = Latest BY <1>5, <2>2
  <3> QED BY <1>1, <1>2, <1>3, <3>1 DEF Chosen
 <2> QED BY <1>3, <2>1, <2>2
<1>7. Chosen' % 2 = 1 - (k % 2) /\ (Chosen' + 1) % 2 = k % 2 BY <1>2, <1>3, <1>6
<1>8. /\ Latest' = nodes'[Chosen' % 2].plan_word
      /\ Previous' = nodes'[(Chosen' + 1) % 2].plan_word
  BY DEF Latest, Previous, WordOf
<1>9. nodes'[1 - (k % 2)].plan_word = w /\ nodes'[k % 2].plan_word = Latest BY <1>5 DEF WordOf
<1>10. Latest' = w /\ Previous' = Latest BY <1>7, <1>8, <1>9
<1>11. Chosen' \in Int BY <1>6
<1> QED BY <1>1, <1>2, <1>6, <1>10, <1>11

LEMMA SameChosen ==
  ASSUME IInv, WordsSame
  PROVE  Chosen' = Chosen /\ Latest' = Latest /\ Previous' = Previous
<1>1. WordOf(0)' = WordOf(0) /\ WordOf(1)' = WordOf(1) BY DEF WordsSame
<1>2. Chosen' = Chosen BY <1>1 DEF Chosen
<1>3. PICK p \in {0, 1} : p = Chosen % 2 BY Words
<1>4. PICK q \in {0, 1} : q = (Chosen + 1) % 2 BY <1>3, Words
<1>5. WordOf(p)' = WordOf(p) /\ WordOf(q)' = WordOf(q) BY <1>1
<1>6. Latest' = WordOf(p)' /\ Previous' = WordOf(q)' BY <1>2, <1>3, <1>4 DEF Latest, Previous
<1>7. Latest = WordOf(p) /\ Previous = WordOf(q) BY <1>3, <1>4 DEF Latest, Previous
<1> QED BY <1>2, <1>5, <1>6, <1>7

-----------------------------------------------------------------------------
(***************************************************************************)
(* What a step may write.                                                  *)
(***************************************************************************)
LEMMA SameMarks ==
  ASSUME NEW t \in Thread, \A p \in {0, 1}, o \in Thread : MarksSame(p, o), my[t].pc \notin MarkWriters
  PROVE  MarkSteps(t)
  BY DEF MarkSteps, MarkStep, MarksSame, MarkWriters

LEMMA SameBuckets ==
  ASSUME NEW t \in Thread, BucketsSame, my[t].pc \notin BucketWriters
  PROVE  BucketSteps(t)
  BY DEF BucketSteps, BucketStep, BucketsSame, BucketWriters

LEMMA SameData ==
  ASSUME IInv, NEW t \in Thread, UNCHANGED <<dist, dist8, vis, helped_at>>,
         my[t].pc \notin DataWriters
  PROVE  DataStep(t) /\ DataTypes'
  BY DEF DataStep, DataTypes, IInv, Shape, DataWriters

LEMMA SameNodes ==
  ASSUME IInv, UNCHANGED nodes
  PROVE  /\ nodes' \in NodesType /\ WordsSame /\ BucketsSame
         /\ \A p \in {0, 1}, o \in Thread : MarksSame(p, o)
  BY DEF IInv, Shape, NodesType, WordsSame, BucketsSame, MarksSame, WordOf, Bucket, DoneAt, LastAt,
     CodesDoneAt, CodesLastAt

LEMMA Effects ==
  ASSUME IInv, NEW t \in Thread, Step(t)
  PROVE  /\ nodes' \in NodesType /\ DataTypes' /\ DataStep(t) /\ MarkSteps(t) /\ BucketSteps(t)
         /\ WordsSame \/ (Choose(t) /\ \E w \in WordType : Wins(t, w))
<1> USE DEF MarkWriters, BucketWriters, DataWriters
<1>1. CASE UNCHANGED memory
           /\ my[t].pc \notin {"choose"} \cup MarkWriters \cup BucketWriters \cup DataWriters
  BY <1>1, SameMarks, SameBuckets, SameData, SameNodes DEF memory
<1>2. CASE Choose(t)
 <2>1. CASE \E w \in WordType : Wins(t, w)
   BY <1>2, <2>1, ChooseWrites, SameMarks, SameBuckets, SameData
 <2>2. CASE UNCHANGED nodes BY <1>2, <2>2, ChooseWrites, SameMarks, SameBuckets, SameData, SameNodes
 <2> QED BY <1>2, <2>1, <2>2, ChooseWrites
<1>3. CASE ResetProgress(t) \/ MarkDone(t) \/ Progress(t) \/ OwnProgress(t)
           \/ CodesProgress(t) \/ MarkCodesDone(t)
  BY <1>3, MarkWrites, SameBuckets, SameData
<1>4. CASE EmptyBucket(t) \/ TagBucket(t) \/ PushVertex(t) \/ PushFound(t) \/ Reserve(t)
  BY <1>4, BucketWrites, SameMarks, SameData
<1>5. CASE SwapDist(t) \/ MarkFound(t) \/ MarkVisited(t) \/ WriteCode(t) \/ WriteNextCode(t)
           \/ Stamp(t)
  BY <1>5, DataWrites, SameMarks, SameBuckets, SameNodes
<1> QED BY <1>1, <1>2, <1>3, <1>4, <1>5, StepCases

(***************************************************************************)
(* The entries of the level Chosen and of the one after stay where they    *)
(* are, and arrays never get shorter.                                      *)
(***************************************************************************)
LEMMA TagBounds ==
  ASSUME IInv, NEW p \in {0, 1}, NEW o \in Thread
  PROVE  Bucket(p, o).level <= Chosen + 1
<1>1. Tags(o) /\ Place(o) /\ my[o].level \in Nat /\ Here(o) \in {0, 1} /\ There(o) = 1 - Here(o)
  BY Parts, ThreadFields, Sides
<1>2. Bucket(Here(o), o).level <= my[o].level /\ my[o].level <= Chosen + 1
      /\ Bucket(Here(o), o).level \in Int /\ Bucket(There(o), o).level \in Int /\ Chosen \in Int
  BY <1>1, SoundBucket, Words DEF Tags, Place
<1>3. Bucket(There(o), o).level <= Chosen + 1
 <2>1. CASE my[o].pc \in Deciding \cup {"reset", "empty", "retag", "returned"}
  <3>1. Mine(o).level <= my[o].level - 1 BY <1>1, <2>1 DEF Tags
  <3> QED BY <1>1, <1>2, <3>1 DEF Mine
 <2>2. CASE my[o].pc \notin Deciding \cup {"reset", "empty", "retag", "returned"}
  <3>1. Mine(o).level = my[o].level + 1 /\ my[o].level <= Chosen
    BY <1>1, <2>2 DEF Tags, Place, InLevel
  <3> QED BY <1>1, <1>2, <3>1 DEF Mine
 <2> QED BY <2>1, <2>2
<1>4. Bucket(Here(o), o).level <= Chosen + 1 BY <1>1, <1>2
<1>5. p = Here(o) \/ p = There(o) BY <1>1
<1> QED BY <1>3, <1>4, <1>5, Zenon

\* b becomes c, and keeps its level and its entries.
Grows(b, c) ==
  c.level = b.level /\ c.size >= b.size /\ \A i \in 1 .. b.size : c.list[i] = b.list[i]

LEMMA SteadyBuckets ==
  ASSUME IInv, NEW t \in Thread, BucketSteps(t), NEW p \in {0, 1}, NEW o \in Thread
  PROVE  /\ p # There(t) \/ o # t => Bucket(p, o)' = Bucket(p, o)
         /\ my[t].pc \notin BucketWriters => Bucket(p, o)' = Bucket(p, o)
         /\ Len(Bucket(p, o)'.list) >= Len(Bucket(p, o).list)
         /\ Bucket(p, o).level >= Chosen => Grows(Bucket(p, o), Bucket(p, o)')
         /\ Bucket(p, o)'.level # Bucket(p, o).level =>
              my[t].pc = "retag" /\ p = There(t) /\ o = t /\ Bucket(p, o)'.level = my[t].level + 1
<1> DEFINE b == Bucket(p, o)
           c == Bucket(p, o)'
<1>0. b.level \in Int /\ b.size \in Nat /\ Len(b.list) \in Nat /\ b.size <= Len(b.list)
  BY SoundBucket
<1>1. IF p = There(t) /\ o = t THEN BucketStep(t, b, c) ELSE c = b BY DEF BucketSteps
<1>2. CASE ~(p = There(t) /\ o = t) BY <1>0, <1>1, <1>2 DEF Grows
<1>3. CASE p = There(t) /\ o = t
 <2>0. Tags(t) /\ Place(t) /\ my[t].level \in Nat /\ Chosen \in Int /\ b = Mine(t)
   BY <1>3, Parts, ThreadFields, Words DEF Mine
 <2> HIDE DEF b, c
 <2>1. CASE my[t].pc \in {"empty", "retag"}
  <3>1. b.level <= my[t].level - 1 /\ my[t].level <= Chosen
    BY <2>0, <2>1 DEF Tags, Place, InLevel, Deciding
  <3>2. /\ c.list = b.list
        /\ c.level # b.level => my[t].pc = "retag" /\ c.level = my[t].level + 1
    BY <1>1, <1>3, <2>1 DEF BucketStep
  <3> QED BY <1>0, <1>3, <2>0, <2>1, <3>1, <3>2 DEF BucketWriters, b, c
 <2>2. CASE my[t].pc \in {"push", "found"}
  <3>1. \E x : Pushed(b, c, x) BY <1>1, <1>3, <2>2 DEF BucketStep
  <3>2. c.level = b.level /\ c.size = b.size + 1 /\ Len(b.list) <= Len(c.list)
        /\ \A i \in 1 .. b.size : c.list[i] = b.list[i]
    BY <3>1 DEF Pushed
  <3> QED BY <1>0, <1>3, <2>2, <3>2 DEF Grows, BucketWriters, b, c
 <2>3. CASE my[t].pc = "reserve" /\ c # b
  <3>1. c.size = b.size /\ c.level = b.level /\ Len(c.list) = Len(b.list)
    BY <1>1, <1>3, <2>3 DEF BucketStep
  <3>2. b.size = 0 BY <2>0, <2>3 DEF Tags
  <3>3. Grows(b, c) BY <3>1, <3>2 DEF Grows
  <3> QED BY <1>0, <1>3, <2>3, <3>1, <3>3 DEF BucketWriters, b, c
 <2>4. CASE my[t].pc \notin {"empty", "retag", "push", "found", "reserve"} \/ c = b
  <3>1. c = b BY <1>1, <1>3, <2>4 DEF BucketStep
  <3> QED BY <1>0, <1>3, <3>1 DEF Grows, b, c
 <2> QED BY <2>1, <2>2, <2>3, <2>4
<1> QED BY <1>2, <1>3

LEMMA EntryStays ==
  ASSUME IInv, NEW t \in Thread, BucketSteps(t), nodes' \in NodesType, NEW d \in Int, d >= Chosen, NEW o \in Thread,
         NEW v, EntryOf(d, o, v)
  PROVE  EntryOf(d, o, v)'
<1>1. PICK p \in {0, 1} : p = d % 2 BY Parity
<1>2. Bucket(p, o).level = d /\ \E i \in 1 .. Bucket(p, o).size : Bucket(p, o).list[i] = v
  BY <1>1 DEF EntryOf
<1>3. Grows(Bucket(p, o), Bucket(p, o)') BY <1>2, SteadyBuckets
<1>4. PICK i \in 1 .. Bucket(p, o).size : Bucket(p, o).list[i] = v BY <1>2
<1>5. Bucket(p, o).size \in Nat BY SoundBucket
<1>6. Bucket(p, o)'.size \in Nat BY DEF NodesType, OwnerShape, BucketType, Bucket
<1>7. Bucket(p, o)'.level = d /\ Bucket(p, o)'.list[i] = v /\ i <= Bucket(p, o)'.size
  BY <1>2, <1>3, <1>4, <1>5, <1>6 DEF Grows
<1>8. i \in 1 .. Bucket(p, o)'.size BY <1>4, <1>5, <1>6, <1>7
<1> QED BY <1>1, <1>7, <1>8 DEF EntryOf

-----------------------------------------------------------------------------
(***************************************************************************)
(* Distances and codes are written once.                                   *)
(***************************************************************************)
LEMMA DistKnown ==
  ASSUME IInv, NEW v \in Vertex
  PROVE  /\ dist[v] \in Int /\ dist[v] \in {-1, Delta[v]} /\ dist[v] <= Chosen + 1
         /\ Delta[v] \in Int /\ Delta[v] >= -1 /\ Delta[v] <= MaxDelta
         /\ dist[v] # Unset => Delta[v] = dist[v] /\ dist[v] >= 0
         /\ \A d \in 0 .. Chosen : Delta[v] = d => dist[v] = d
<1>1. dist[v] \in {Unset, Delta[v]} /\ dist[v] <= Chosen + 1 BY DEF IInv, LevelsInv, DistSound
<1>2. \A d \in 0 .. Chosen : Delta[v] = d => dist[v] # Unset
  BY DEF IInv, LevelsInv, LevelsFound, Found, Level, Discovered
<1> QED BY <1>1, <1>2, GraphTypes DEF Unset

\* v gets its distance from t.
Finds(t, v) ==
  (my[t].pc = "swap" /\ v = V(t) /\ dist[v] = Unset) \/ (my[t].pc = "mark" /\ v = C(t))

LEMMA DistStays ==
  ASSUME IInv, NEW t \in Thread, DataStep(t), NEW v \in Vertex
  PROVE  /\ dist[v] # Unset => dist'[v] = dist[v]
         /\ dist'[v] # dist[v] => /\ Finds(t, v) /\ dist[v] = Unset /\ dist'[v] = my[t].level + 1
                                  /\ Delta[v] = my[t].level + 1 /\ my[t].level <= Chosen
         /\ dist'[v] \in {-1, Delta[v]} /\ dist'[v] \in Int /\ dist'[v] <= Chosen + 1
         /\ vis[v] => vis'[v]
<1>0. my[t].level \in Nat /\ dist[v] \in Int /\ dist[v] \in {-1, Delta[v]}
      /\ (dist[v] # Unset => Delta[v] = dist[v]) /\ dist[v] <= Chosen + 1 /\ Chosen \in Int
  BY Parts, ThreadFields, DistKnown, Words
<1>1. dist'[v] = IF Finds(t, v) THEN my[t].level + 1 ELSE dist[v] BY DEF DataStep, Finds
<1>2. Finds(t, v) => Delta[v] = my[t].level + 1 BY Parts, CFacts DEF Finds, ItemView, Finding
<1>3. Finds(t, v) => my[t].level <= Chosen BY Parts DEF Finds, Place, InLevel, Deciding
<1>4. vis[v] => vis'[v] BY DEF DataStep
<1> QED BY <1>0, <1>1, <1>2, <1>3, <1>4 DEF Unset

LEMMA CodeStays ==
  ASSUME IInv, NEW t \in Thread, DataStep(t), NEW v \in Vertex
  PROVE  /\ dist8[v] \in Nat /\ (dist8[v] # 0 => Delta[v] >= 0 /\ dist8[v] = CodeOf(Delta[v]))
         /\ dist8'[v] # dist8[v] => Delta[v] >= 0 /\ dist8'[v] = CodeOf(Delta[v])
<1>1. dist8[v] \in Nat BY Parts, MemAssumption DEF Shape
<1>2. dist8[v] # 0 => Delta[v] >= 0 /\ dist8[v] = CodeOf(Delta[v]) BY DEF IInv, CodesInv, CodesSound
<1>3. my[t].pc = "write_code" /\ v = my[t].u => Delta[v] = my[t].level
 <2>1. my[t].pc = "write_code" => dist[my[t].u] = my[t].level BY Parts DEF CodeEntries
 <2>2. my[t].level \in Nat BY Parts, ThreadFields
 <2> QED BY <2>1, <2>2, DistKnown DEF Unset
<1>4. my[t].pc = "next_code" /\ v = C(t) => Delta[v] = my[t].level + 1 BY CFacts DEF Finding
<1>5. my[t].level \in Nat BY Parts, ThreadFields
<1> QED BY <1>1, <1>2, <1>3, <1>4, <1>5 DEF DataStep

LEMMA FoundStays ==
  ASSUME IInv, NEW t \in Thread, DataStep(t)
  PROVE  /\ \A v \in Vertex : Discovered(v) => Discovered(v)'
         /\ \A u \in Vertex : Covered(u) => Covered(u)'
         /\ \A d \in Int : Found(d) => Found(d)'
         /\ \A d \in Nat : CodedLevel(d) => CodedLevel(d)'
<1>1. \A v \in Vertex : Discovered(v) => Discovered(v)'
 <2> TAKE v \in Vertex
 <2> QED BY DistStays DEF Discovered
<1>2. \A u \in Vertex : Neighbors(u) \subseteq Vertex BY GraphTypes
<1>3. \A u \in Vertex : Covered(u) => Covered(u)' BY <1>1, <1>2 DEF Covered
<1>4. \A d \in Int : Found(d) => Found(d)' BY <1>1 DEF Found, Level
<1>5. ASSUME NEW d \in Nat, CodedLevel(d) PROVE CodedLevel(d)'
 <2>1. SUFFICES ASSUME CodeOf(d) > 0, NEW v \in Level(d) PROVE dist8'[v] = CodeOf(d)
   BY DEF CodedLevel
 <2>2. v \in Vertex /\ Delta[v] = d /\ dist8[v] = CodeOf(d) BY <1>5, <2>1 DEF CodedLevel, Level
 <2> QED BY <2>2, CodeStays
<1> QED BY <1>1, <1>3, <1>4, <1>5

LEMMA EntryParts ==
  ASSUME NEW t \in Thread
  PROVE  /\ Entry(t).bucket = At_(t) /\ Entry(t).done = DoneAt(Here(t), my[t].owner)
         /\ Entry(t).last_done = LastAt(Here(t), my[t].owner)
         /\ Entry(t).codes_done = CodesDoneAt(Here(t), my[t].owner)
         /\ Entry(t).codes_last_done = CodesLastAt(Here(t), my[t].owner)
         /\ Tagged(t) <=> Bucket(There(t), my[t].owner).level = my[t].level + 1
  BY DEF Entry, Curr, At_, Bucket, DoneAt, LastAt, CodesDoneAt, CodesLastAt, Tagged

LEMMA MarkTypes ==
  ASSUME IInv, NEW p \in {0, 1}, NEW o \in Thread
  PROVE  /\ DoneAt(p, o) \in Int /\ LastAt(p, o) \in Nat /\ CodesDoneAt(p, o) \in Int
         /\ CodesLastAt(p, o) \in Nat
  BY Parts, NodeFields, OwnerFields DEF DoneAt, LastAt, CodesDoneAt, CodesLastAt

\* What is known of a thread before its step.
LEMMA Before ==
  ASSUME IInv, NEW t \in Thread
  PROVE  /\ my \in [Thread -> ThreadShape] /\ my[t].level \in Nat /\ my[t].owner \in Thread
         /\ my[t].turn \in 0 .. NumT - 1 /\ my[t].sz \in Nat /\ my[t].todo \in SUBSET Nat
         /\ my[t].item \in Nat /\ my[t].j \in Nat /\ my[t].u \in Vertex \cup {None}
         /\ my[t].cand \in Seq(Vertex)
         /\ Here(t) \in {0, 1} /\ There(t) \in {0, 1} /\ Here(t) # There(t) /\ There(t) = 1 - Here(t)
         /\ At_(t).size \in Nat /\ At_(t).level \in Int /\ Len(At_(t).list) \in Nat
         /\ At_(t).size <= Len(At_(t).list)
         /\ Entry(t).done \in Int /\ Entry(t).last_done \in Nat /\ Entry(t).codes_done \in Int
         /\ Entry(t).codes_last_done \in Nat
<1>1. /\ my \in [Thread -> ThreadShape] /\ my[t].level \in Nat /\ my[t].owner \in Thread
      /\ my[t].turn \in 0 .. NumT - 1 /\ my[t].sz \in Nat /\ my[t].todo \in SUBSET Nat
      /\ my[t].item \in Nat /\ my[t].j \in Nat /\ my[t].u \in Vertex \cup {None}
      /\ my[t].cand \in Seq(Vertex)
      /\ Here(t) \in {0, 1} /\ There(t) \in {0, 1} /\ Here(t) # There(t) /\ There(t) = 1 - Here(t)
  BY Parts, ThreadFields, Sides
<1>2. At_(t).size \in Nat /\ At_(t).level \in Int /\ Len(At_(t).list) \in Nat
      /\ At_(t).size <= Len(At_(t).list)
  BY <1>1, SoundBucket DEF At_
<1>3. /\ Entry(t).done \in Int /\ Entry(t).last_done \in Nat /\ Entry(t).codes_done \in Int
      /\ Entry(t).codes_last_done \in Nat
  BY <1>1, EntryParts, MarkTypes
<1> QED BY <1>1, <1>2, <1>3

-----------------------------------------------------------------------------
(***************************************************************************)
(* The ways a step can take its thread.                                    *)
(***************************************************************************)
Stays(t) ==
  Moves(t) /\ SameLevel(t) /\ SameSeen(t) /\ SameOwner(t) /\ SameItems(t) /\ SameView(t)

Rests(t, a, b) ==
  /\ Moves(t) /\ SameLevel(t) /\ SameSeen(t) /\ my'[t].cand = my[t].cand
  /\ my'[t].sz = 0 /\ my'[t].todo = {} /\ my'[t].item = 0 /\ my'[t].u = None /\ my'[t].j = 0
  /\ my'[t].pc = (IF my[t].turn + 1 = NumT THEN b ELSE a)
  /\ my'[t].owner = (IF my[t].turn + 1 = NumT THEN t ELSE (my[t].owner + 1) % NumT)
  /\ my'[t].turn = (IF my[t].turn + 1 = NumT THEN 0 ELSE my[t].turn + 1)

HelpsFrom(t, start) ==
  /\ Moves(t) /\ SameLevel(t) /\ SameSeen(t) /\ SameOwner(t) /\ SameView(t)
  /\ my'[t].sz = my[t].sz /\ my'[t].item = my[t].item /\ my'[t].todo = start .. my[t].sz
  /\ my'[t].pc = (IF start .. my[t].sz = {} THEN "finish" ELSE "entry")

Leaves(t) ==
  /\ Moves(t) /\ SameLevel(t) /\ SameSeen(t) /\ SameOwner(t) /\ my'[t].cand = my[t].cand
  /\ my'[t].u = None /\ my'[t].item = 0 /\ my'[t].j = 0
  /\ my'[t].sz = my[t].sz /\ my'[t].todo = my[t].todo
  /\ my'[t].pc = (IF my[t].todo = {} THEN "finish" ELSE "entry")

AtNeighbor(t, n) ==
  /\ Moves(t) /\ SameLevel(t) /\ SameSeen(t) /\ SameOwner(t) /\ SameItems(t)
  /\ my'[t].u = my[t].u /\ my'[t].cand = my[t].cand /\ my'[t].j = n
  /\ my'[t].pc = (IF n <= Len(adj[my[t].u]) THEN "neighbor" ELSE "vis")

Loads(t) ==
  /\ Moves(t) /\ SameLevel(t) /\ SameSeen(t) /\ SameOwner(t) /\ SameView(t)
  /\ my'[t].item = my[t].item /\ my'[t].sz = At_(t).size
  /\ my'[t].todo = (IF Own(t) THEN 1 .. At_(t).size ELSE {})
  /\ my'[t].pc = (IF Own(t) THEN "entry" ELSE "start_tag")

Takes(t, i, u) ==
  /\ Moves(t) /\ SameLevel(t) /\ SameSeen(t) /\ SameOwner(t)
  /\ my'[t].sz = my[t].sz /\ my'[t].j = my[t].j /\ my'[t].cand = my[t].cand
  /\ my'[t].item = i /\ my'[t].u = u /\ my'[t].todo = my[t].todo \ {i}
  /\ my'[t].pc = (IF Own(t) THEN "visited" ELSE "at_level")

TopPath(t) ==
  \/ /\ Stays(t)
     /\ \/ my[t].pc = "done" /\ my'[t].pc = "this_level"
        \/ my[t].pc = "this_level" /\ my'[t].pc = "size" /\ At_(t).level = my[t].level
        \/ my[t].pc = "size" /\ my'[t].pc = "load" /\ At_(t).size > 0
        \/ my[t].pc = "start_tag" /\ my'[t].pc = "start"
           /\ Bucket(There(t), my[t].owner).level = my[t].level + 1
        \/ my[t].pc = "at_level" /\ my'[t].pc = "visited" /\ IsAtLevel(my[t].u, my[t].level)
        \/ my[t].pc = "visited" /\ my'[t].pc = "progress" /\ Own(t) /\ vis[my[t].u]
        \/ my[t].pc = "vis" /\ my'[t].pc = "progress" /\ Own(t)
        \/ my[t].pc = "neighbor" /\ my'[t].pc = "push" /\ dist[V(t)] = Unset
        \/ my[t].pc = "push" /\ my'[t].pc = "swap"
  \/ /\ Rests(t, "done", "advance")
     /\ \/ my[t].pc = "done" /\ Entry(t).done >= my[t].level
        \/ my[t].pc = "this_level" /\ At_(t).level # my[t].level
        \/ my[t].pc = "size" /\ At_(t).size = 0
  \/ Loads(t) /\ my[t].pc = "load"
  \/ HelpsFrom(t, 1) /\ my[t].pc = "start_tag"
  \/ /\ HelpsFrom(t, Entry(t).last_done + 1) /\ my[t].pc = "start"
  \/ /\ my[t].pc = "entry"
     /\ \E i \in my[t].todo :
          /\ Own(t) => \A x \in my[t].todo : i <= x
          /\ \E u \in Readable(At_(t).list[i]) : Takes(t, i, u)
  \/ /\ Leaves(t)
     /\ \/ my[t].pc = "at_level" /\ ~IsAtLevel(my[t].u, my[t].level)
        \/ my[t].pc = "visited" /\ vis[my[t].u] /\ ~Own(t)
        \/ my[t].pc = "vis" /\ ~Own(t)
        \/ my[t].pc = "progress"
  \/ AtNeighbor(t, 1) /\ my[t].pc = "visited"
  \/ AtNeighbor(t, my[t].j + 1) /\ my[t].pc = "neighbor" /\ dist[V(t)] # Unset
  \/ AtNeighbor(t, my[t].j + 1) /\ my[t].pc = "swap"

LEMMA GotoStays ==
  ASSUME IInv, NEW t \in Thread, NEW l \in Labels, Goto(t, l)
  PROVE  Stays(t) /\ my'[t].pc = l
  BY Parts, GotoMoves DEF Stays

LEMMA NextOwnerRests ==
  ASSUME IInv, NEW t \in Thread, NEW a \in Labels, NEW b \in Labels, NextOwner(t, a, b)
  PROVE  Rests(t, a, b)
  BY Parts, NextOwnerMoves DEF Rests

LEMMA Reads ==
  ASSUME IInv, NEW t \in Thread, NEW i \in 1 .. Len(At_(t).list), NEW u \in Readable(At_(t).list[i])
  PROVE  u \in Vertex \cup {None}
<1>1. At_(t).list[i] \in Vertex \cup {Junk} BY Before, Parts, BucketTypes DEF At_
<1> QED BY <1>1 DEF Readable

LEMMA TakeTakes ==
  ASSUME IInv, NEW t \in Thread, NEW n \in Nat, NEW x \in Vertex \cup {None},
         my' = [my EXCEPT ![t].item = n, ![t].u = x, ![t].todo = @ \ {n},
                          ![t].pc = IF Own(t) THEN "visited" ELSE "at_level"]
  PROVE  Takes(t, n, x)
<1>1. my \in [Thread -> ThreadShape] /\ my[t] \in ThreadShape BY Parts
<1>2. my'[t].u = x BY <1>1 DEF ThreadShape
<1>3. /\ Moves(t) /\ my'[t].item = n /\ my'[t].todo = my[t].todo \ {n}
      /\ my'[t].pc = (IF Own(t) THEN "visited" ELSE "at_level") /\ SameLevel(t)
      /\ SameSeen(t) /\ SameOwner(t) /\ my'[t].sz = my[t].sz /\ my'[t].j = my[t].j
      /\ my'[t].cand = my[t].cand
  BY <1>1, TakeMoves
<1> QED BY <1>2, <1>3 DEF Takes

LEMMA TopDownPath ==
  ASSUME IInv, NEW t \in Thread, TopDown(t)
  PROVE  TopPath(t)
<1> USE DEF At
<1>0. /\ my \in [Thread -> ThreadShape] /\ my[t].j \in Nat /\ my[t].level \in Nat
      /\ Entry(t).bucket = At_(t) /\ Entry(t).done \in Int /\ Entry(t).last_done \in Nat
      /\ At_(t).size \in Nat /\ At_(t).level \in Int
      /\ (Tagged(t) <=> Bucket(There(t), my[t].owner).level = my[t].level + 1)
  BY Before, EntryParts
<1>00. my[t].pc = "at_level" => ~Own(t) BY Parts DEF Entries
<1>000. {"done", "advance", "this_level", "size", "load", "start", "visited", "progress", "push",
         "swap"} \subseteq Labels
  BY LabelSet
<1>1. CASE TestDone(t) BY <1>0, <1>000, <1>1, GotoStays, NextOwnerRests DEF TestDone, TopPath
<1>2. CASE TestTag(t) BY <1>0, <1>000, <1>2, GotoStays, NextOwnerRests DEF TestTag, TopPath
<1>3. CASE TestSize(t) BY <1>0, <1>000, <1>3, GotoStays, NextOwnerRests DEF TestSize, TopPath
<1>4. CASE LoadSize(t)
 <2>1. PICK size \in Nat : size = At_(t).size BY <1>0
 <2>2. my' = [my EXCEPT ![t].sz = size, ![t].todo = IF Own(t) THEN 1 .. size ELSE {},
                        ![t].pc = IF Own(t) THEN "entry" ELSE "start_tag"]
   BY <1>0, <1>4, <2>1 DEF LoadSize
 <2>3. Loads(t) BY <1>0, <2>1, <2>2, LoadSizeMoves DEF Loads
 <2> QED BY <1>4, <2>3 DEF LoadSize, TopPath
<1>5. CASE StartTag(t)
 <2>1. CASE Tagged(t) BY <1>0, <1>000, <1>5, <2>1, GotoStays DEF StartTag, TopPath
 <2>2. CASE ~Tagged(t)
  <3>1. HelpFrom(t, 1) /\ my[t].pc = "start_tag" BY <1>5, <2>2 DEF StartTag
  <3>2. HelpsFrom(t, 1) BY <1>0, <3>1, HelpFromMoves DEF HelpsFrom
  <3> QED BY <3>1, <3>2 DEF TopPath
 <2> QED BY <2>1, <2>2
<1>6. CASE StartHelping(t)
 <2>1. HelpFrom(t, Entry(t).last_done + 1) /\ my[t].pc = "start" BY <1>6 DEF StartHelping
 <2>2. PICK n \in Nat : n = Entry(t).last_done + 1 BY <1>0
 <2>3. HelpsFrom(t, n) BY <1>0, <2>1, <2>2, HelpFromMoves DEF HelpsFrom
 <2> QED BY <2>1, <2>2, <2>3 DEF TopPath
<1>7. CASE TakeEntry(t)
 <2>1. PICK i \in my[t].todo :
         /\ Own(t) => \A x \in my[t].todo : i <= x
         /\ \E u \in Readable(Entry(t).bucket.list[i]) :
              my' = [my EXCEPT ![t].item = i, ![t].u = u, ![t].todo = @ \ {i},
                               ![t].pc = IF Own(t) THEN "visited" ELSE "at_level"]
   BY <1>7 DEF TakeEntry
 <2>2. PICK u \in Readable(At_(t).list[i]) :
         my' = [my EXCEPT ![t].item = i, ![t].u = u, ![t].todo = @ \ {i},
                          ![t].pc = IF Own(t) THEN "visited" ELSE "at_level"]
   BY <1>0, <2>1
 <2>3. my[t].pc = "entry" BY <1>7 DEF TakeEntry
 <2>4. i \in Nat /\ i \in 1 .. Len(At_(t).list)
  <3>1. my[t].sz <= Len(At_(t).list) /\ my[t].todo \subseteq 1 .. my[t].sz
    BY <2>3, Parts DEF Entries, Reading
  <3> QED BY <2>1, <3>1, Before
 <2>5. u \in Vertex \cup {None} BY <2>4, Reads
 <2>6. Takes(t, i, u)
  <3>1. PICK n \in Nat : n = i BY <2>4
  <3>2. PICK x \in Vertex \cup {None} : x = u BY <2>5
  <3>3. my' = [my EXCEPT ![t].item = n, ![t].u = x, ![t].todo = @ \ {n},
                         ![t].pc = IF Own(t) THEN "visited" ELSE "at_level"]
    BY <2>2, <3>1, <3>2
  <3>4. Takes(t, n, x) BY <3>3, TakeTakes
  <3> QED BY <3>1, <3>2, <3>4
 <2> QED BY <2>1, <2>3, <2>6, Zenon DEF TopPath
<1>8. ASSUME AfterEntry(t), my[t].pc \in {"at_level", "visited", "vis"}
      PROVE  IF Own(t) THEN Stays(t) /\ my'[t].pc = "progress" ELSE Leaves(t)
  BY <1>0, <1>000, <1>8, GotoStays, LeaveMoves DEF AfterEntry, Leaves
<1>9. ASSUME NEW n \in Nat, FromNeighbor(t, n) PROVE AtNeighbor(t, n)
  BY <1>0, <1>9, FromNeighborMoves DEF AtNeighbor
<1>10. CASE TestLevel(t) BY <1>00, <1>000, <1>8, <1>10, GotoStays DEF TestLevel, TopPath
<1>11. CASE TestVisited(t)
 <2>1. CASE vis[my[t].u]
  <3>1. AfterEntry(t) /\ my[t].pc = "visited" BY <1>11, <2>1 DEF TestVisited
  <3>2. IF Own(t) THEN Stays(t) /\ my'[t].pc = "progress" ELSE Leaves(t) BY <1>8, <3>1
  <3> QED BY <2>1, <3>1, <3>2 DEF TopPath
 <2>2. CASE ~vis[my[t].u]
  <3>1. FromNeighbor(t, 1) /\ my[t].pc = "visited" BY <1>11, <2>2 DEF TestVisited
  <3> QED BY <1>9, <3>1 DEF TopPath
 <2> QED BY <2>1, <2>2
<1>12. my[t].j + 1 \in Nat BY <1>0
<1>13. CASE TestNeighbor(t) BY <1>000, <1>9, <1>12, <1>13, GotoStays DEF TestNeighbor, TopPath
<1>14. CASE PushVertex(t) BY <1>000, <1>14, GotoStays DEF PushVertex, TopPath
<1>15. CASE SwapDist(t) BY <1>9, <1>12, <1>15 DEF SwapDist, TopPath
<1>16. CASE MarkVisited(t) BY <1>8, <1>16 DEF MarkVisited, TopPath
<1>17. CASE Progress(t)
 <2>1. Leaves(t) BY <1>0, <1>17, LeaveMoves DEF Progress, Leaves
 <2> QED BY <1>17, <2>1 DEF Progress, TopPath
<1> QED
  BY <1>1, <1>2, <1>3, <1>4, <1>5, <1>6, <1>7, <1>10, <1>11, <1>13, <1>14, <1>15, <1>16, <1>17 DEF
     TopDown

AtEntry(t, i, sz) ==
  /\ Moves(t) /\ SameLevel(t) /\ SameSeen(t) /\ SameOwner(t)
  /\ my'[t].todo = my[t].todo /\ my'[t].j = my[t].j /\ my'[t].cand = my[t].cand
  /\ my'[t].item = i /\ my'[t].sz = sz /\ my'[t].u = None
  /\ my'[t].pc = (IF i <= sz THEN "code" ELSE "codes_finish")

LoadsCodes(t) ==
  /\ Moves(t) /\ SameLevel(t) /\ SameSeen(t) /\ SameOwner(t) /\ SameView(t)
  /\ my'[t].todo = my[t].todo /\ my'[t].item = my[t].item
  /\ my'[t].sz = At_(t).size /\ my'[t].pc = "codes_start_tag"

TakesCode(t, u) ==
  /\ Moves(t) /\ SameLevel(t) /\ SameSeen(t) /\ SameOwner(t) /\ SameItems(t)
  /\ my'[t].j = my[t].j /\ my'[t].cand = my[t].cand /\ my'[t].u = u
  /\ my'[t].pc = (IF Own(t) THEN "write_code" ELSE "code_level")

CodesPath(t) ==
  \/ /\ Stays(t)
     /\ \/ my[t].pc = "codes" /\ my'[t].pc = "codes_tag"
        \/ my[t].pc = "codes_tag" /\ my'[t].pc = "codes_size" /\ At_(t).level = my[t].level
        \/ my[t].pc = "codes_tag" /\ my'[t].pc = "codes_finish" /\ At_(t).level # my[t].level
        \/ my[t].pc = "codes_start_tag" /\ my'[t].pc = "codes_start"
           /\ Bucket(There(t), my[t].owner).level = my[t].level + 1
        \/ my[t].pc = "code_level" /\ my'[t].pc = "write_code" /\ IsAtLevel(my[t].u, my[t].level)
        \/ my[t].pc = "write_code" /\ my'[t].pc = "codes_progress" /\ Own(t)
        \/ my[t].pc = "codes_finish" /\ my'[t].pc = "mark_codes_done"
  \/ /\ Rests(t, "codes", "reserve")
     /\ \/ my[t].pc = "codes" /\ Entry(t).codes_done >= my[t].level
        \/ my[t].pc = "codes_finish"
        \/ my[t].pc = "mark_codes_done"
  \/ AtEntry(t, 1, At_(t).size) /\ my[t].pc = "codes_size" /\ Own(t)
  \/ LoadsCodes(t) /\ my[t].pc = "codes_size" /\ ~Own(t)
  \/ AtEntry(t, 1, my[t].sz) /\ my[t].pc = "codes_start_tag"
  \/ AtEntry(t, Entry(t).codes_last_done + 1, my[t].sz) /\ my[t].pc = "codes_start"
  \/ my[t].pc = "code" /\ \E u \in Readable(At_(t).list[my[t].item]) : TakesCode(t, u)
  \/ /\ AtEntry(t, my[t].item + 1, my[t].sz)
     /\ \/ my[t].pc = "code_level" /\ ~IsAtLevel(my[t].u, my[t].level)
        \/ my[t].pc = "write_code" /\ ~Own(t)
        \/ my[t].pc = "codes_progress"

LEMMA CodesPaths ==
  ASSUME IInv, NEW t \in Thread, Codes(t)
  PROVE  CodesPath(t)
<1> USE DEF At
<1>0. /\ my \in [Thread -> ThreadShape] /\ my[t].level \in Nat
      /\ my[t].item \in Nat /\ my[t].sz \in Nat
      /\ Entry(t).bucket = At_(t) /\ Entry(t).codes_last_done \in Nat
      /\ At_(t).size \in Nat /\ At_(t).level \in Int
      /\ (Tagged(t) <=> Bucket(There(t), my[t].owner).level = my[t].level + 1)
  BY Before, EntryParts
<1>00. my[t].pc = "code_level" => ~Own(t) BY Parts DEF CodeEntries
<1>000. {"codes_tag", "codes_size", "codes_finish", "codes_start", "write_code",
         "codes_progress", "mark_codes_done", "codes", "reserve"} \subseteq Labels
  BY LabelSet
<1>1. CASE TestCodesDone(t)
  BY <1>0, <1>000, <1>1, GotoStays, NextOwnerRests DEF TestCodesDone, CodesPath
<1>2. CASE CodesTag(t)
 <2>1. CASE At_(t).level = my[t].level
  <3>1. Goto(t, "codes_size") /\ my[t].pc = "codes_tag" BY <1>0, <1>2, <2>1 DEF CodesTag
  <3> QED BY <1>000, <2>1, <3>1, GotoStays DEF CodesPath
 <2>2. CASE At_(t).level # my[t].level
  <3>1. Goto(t, "codes_finish") /\ my[t].pc = "codes_tag" BY <1>0, <1>2, <2>2 DEF CodesTag
  <3> QED BY <1>000, <2>2, <3>1, GotoStays DEF CodesPath
 <2> QED BY <2>1, <2>2
<1>3. ASSUME NEW i \in Nat, NEW sz \in Nat, FromEntry(t, i, sz) PROVE AtEntry(t, i, sz)
  BY <1>0, <1>3, FromEntryMoves DEF AtEntry
<1>4. CASE CodesSize(t)
 <2>1. PICK size \in Nat : size = At_(t).size BY <1>0
 <2>2. my[t].pc = "codes_size" /\ Entry(t).bucket.size = size BY <1>0, <1>4, <2>1 DEF CodesSize
 <2>3. CASE Own(t)
  <3>1. FromEntry(t, 1, size) BY <1>4, <2>2, <2>3 DEF CodesSize
  <3>2. AtEntry(t, 1, size) BY <1>3, <3>1
  <3> QED BY <2>1, <2>2, <2>3, <3>2 DEF CodesPath
 <2>4. CASE ~Own(t)
  <3>1. my' = [my EXCEPT ![t].sz = size, ![t].pc = "codes_start_tag"]
    BY <1>4, <2>2, <2>4 DEF CodesSize
  <3>2. LoadsCodes(t) BY <1>0, <2>1, <3>1, CodesSizeMoves DEF LoadsCodes
  <3> QED BY <2>2, <2>4, <3>2 DEF CodesPath
 <2> QED BY <2>3, <2>4
<1>5. CASE CodesStartTag(t)
 <2>1. CASE Tagged(t) BY <1>0, <1>000, <1>5, <2>1, GotoStays DEF CodesStartTag, CodesPath
 <2>2. CASE ~Tagged(t)
  <3>1. FromEntry(t, 1, my[t].sz) /\ my[t].pc = "codes_start_tag" BY <1>5, <2>2 DEF CodesStartTag
  <3>2. AtEntry(t, 1, my[t].sz) BY <1>0, <1>3, <3>1
  <3> QED BY <3>1, <3>2 DEF CodesPath
 <2> QED BY <2>1, <2>2
<1>6. CASE CodesStart(t)
 <2>1. FromEntry(t, Entry(t).codes_last_done + 1, my[t].sz) /\ my[t].pc = "codes_start"
   BY <1>6 DEF CodesStart
 <2>2. Entry(t).codes_last_done + 1 \in Nat BY <1>0
 <2>3. AtEntry(t, Entry(t).codes_last_done + 1, my[t].sz) BY <1>0, <1>3, <2>1, <2>2
 <2> QED BY <2>1, <2>3 DEF CodesPath
<1>7. my[t].item + 1 \in Nat BY <1>0
<1>8. CASE CodesEntry(t)
 <2>1. my[t].pc = "code" BY <1>8 DEF CodesEntry
 <2>2. PICK u \in Readable(At_(t).list[my[t].item]) :
         my' = [my EXCEPT ![t].u = u, ![t].pc = IF Own(t) THEN "write_code" ELSE "code_level"]
   BY <1>0, <1>8 DEF CodesEntry
 <2>3. my[t].item \in 1 .. Len(At_(t).list)
  <3>1. my[t].sz <= Len(At_(t).list) /\ my[t].item \in 1 .. my[t].sz
    BY <2>1, Parts DEF CodeEntries, AtCode
  <3> QED BY <3>1, Before
 <2>4. u \in Vertex \cup {None} BY <2>3, Reads
 <2>5. TakesCode(t, u) BY <1>0, <2>2, <2>4, CodesEntryMoves DEF TakesCode
 <2> QED BY <2>1, <2>5 DEF CodesPath
<1>9. CASE CodeLevel(t)
 <2>1. CASE IsAtLevel(my[t].u, my[t].level)
  <3>1. Goto(t, "write_code") /\ my[t].pc = "code_level" BY <1>9, <2>1 DEF CodeLevel
  <3> QED BY <1>000, <2>1, <3>1, GotoStays DEF CodesPath
 <2>2. CASE ~IsAtLevel(my[t].u, my[t].level)
  <3>1. FromEntry(t, my[t].item + 1, my[t].sz) /\ my[t].pc = "code_level"
    BY <1>9, <2>2 DEF CodeLevel
  <3> QED BY <1>0, <1>3, <1>7, <2>2, <3>1 DEF CodesPath
 <2> QED BY <2>1, <2>2
<1>10. CASE WriteCode(t)
 <2>1. CASE Own(t)
  <3>1. Goto(t, "codes_progress") /\ my[t].pc = "write_code" BY <1>10, <2>1 DEF WriteCode
  <3> QED BY <1>000, <2>1, <3>1, GotoStays DEF CodesPath
 <2>2. CASE ~Own(t)
  <3>1. FromEntry(t, my[t].item + 1, my[t].sz) /\ my[t].pc = "write_code"
    BY <1>10, <2>2 DEF WriteCode
  <3> QED BY <1>0, <1>3, <1>7, <2>2, <3>1 DEF CodesPath
 <2> QED BY <2>1, <2>2
<1>11. CASE CodesProgress(t)
 <2>1. FromEntry(t, my[t].item + 1, my[t].sz) /\ my[t].pc = "codes_progress"
   BY <1>11 DEF CodesProgress
 <2> QED BY <1>0, <1>3, <1>7, <2>1 DEF CodesPath
<1>12. CASE TestCodesMark(t)
  BY <1>000, <1>12, GotoStays, NextOwnerRests DEF TestCodesMark, CodesPath
<1>13. CASE MarkCodesDone(t) BY <1>000, <1>13, NextOwnerRests DEF MarkCodesDone, CodesPath
<1> QED BY <1>1, <1>2, <1>4, <1>5, <1>6, <1>8, <1>9, <1>10, <1>11, <1>12, <1>13 DEF Codes

-----------------------------------------------------------------------------
Ends(t) == Rests(t, IF my[t].direction = "top_down" THEN "done" ELSE "help", "advance")

MarkPath(t) ==
  \/ Stays(t) /\ my[t].pc = "finish" /\ my'[t].pc = "mark_done"
  \/ Ends(t) /\ my[t].pc \in {"finish", "mark_done"}

LEMMA MarkPaths ==
  ASSUME IInv, NEW t \in Thread, TestMark(t) \/ MarkDone(t)
  PROVE  MarkPath(t)
<1> DEFINE l == IF my[t].direction = "top_down" THEN "done" ELSE "help"
<1>1. {"mark_done", "done", "help", "advance"} \subseteq Labels BY LabelSet
<1>2. PICK a \in Labels : a = l BY <1>1
<1>3. NextOwner(t, l, "advance") => Ends(t) BY <1>1, <1>2, NextOwnerRests DEF Ends
<1> HIDE DEF l
<1>4. CASE TestMark(t) BY <1>1, <1>3, <1>4, GotoStays DEF TestMark, At, MarkPath, l
<1>5. CASE MarkDone(t) BY <1>3, <1>5 DEF MarkDone, At, MarkPath, l
<1> QED BY <1>4, <1>5

AdvancePath(t) ==
  /\ Moves(t) /\ my[t].pc = "advance" /\ my'[t].pc = "plan"
  /\ my'[t].sz = 0 /\ my'[t].todo = {} /\ my'[t].item = 0 /\ my'[t].u = None /\ my'[t].j = 0
  /\ my'[t].level = my[t].level + 1 /\ my'[t].owner = 0 /\ SameSeen(t)
  /\ my'[t].direction = my[t].direction /\ my'[t].codes_first = my[t].codes_first
  /\ my'[t].turn = my[t].turn /\ my'[t].cand = my[t].cand

LEMMA AdvancePaths ==
  ASSUME IInv, NEW t \in Thread, Advance(t)
  PROVE  AdvancePath(t)
  BY Parts, AdvanceMoves DEF Advance, At, AdvancePath

Scans(t) ==
  /\ Moves(t) /\ SameLevel(t) /\ SameSeen(t) /\ SameOwner(t) /\ SameItems(t)
  /\ my'[t].u = my[t].u /\ my'[t].cand = my[t].cand
  /\ my'[t].pc = "gather" /\ my'[t].j = Begin(my[t].owner, my[t].item)

Gathers(t, cand) ==
  /\ Moves(t) /\ SameLevel(t) /\ SameSeen(t) /\ SameOwner(t) /\ SameItems(t)
  /\ my'[t].u = my[t].u /\ my'[t].cand = cand /\ my'[t].j = my[t].j + 1
  /\ my'[t].pc = "gather"

Tests(t, cand) ==
  /\ Moves(t) /\ SameLevel(t) /\ SameSeen(t) /\ SameOwner(t) /\ SameItems(t)
  /\ my'[t].u = my[t].u /\ my'[t].cand = cand /\ my'[t].j = (IF cand = <<>> THEN 0 ELSE 1)
  /\ my'[t].pc = (IF cand # <<>> THEN "test" ELSE IF Own(t) THEN "own_progress" ELSE "stamp")

NextNeighbor(t) ==
  /\ Moves(t) /\ SameLevel(t) /\ SameSeen(t) /\ SameOwner(t) /\ SameItems(t)
  /\ my'[t].u = my[t].u /\ my'[t].cand = my[t].cand /\ my'[t].j = my[t].j + 1
  /\ my'[t].pc = "test"

\* the candidates after the test of vertex j
Candidates(t) == IF dist[my[t].j] = Unset THEN Append(my[t].cand, my[t].j) ELSE my[t].cand

ScanPath(t) ==
  \/ /\ my[t].pc = "gather"
     /\ \/ Gathers(t, Candidates(t)) /\ my[t].j + 1 < End(my[t].owner, my[t].item)
        \/ Tests(t, Candidates(t)) /\ ~(my[t].j + 1 < End(my[t].owner, my[t].item))
  \/ /\ my[t].pc = "test"
     /\ \/ Tests(t, Tail(my[t].cand)) /\ my[t].j > Len(adj[C(t)])
        \/ /\ ~(my[t].j > Len(adj[C(t)]))
           /\ \/ Stays(t) /\ my'[t].pc = "found" /\ InFrontier(t, adj[C(t)][my[t].j])
              \/ NextNeighbor(t) /\ ~InFrontier(t, adj[C(t)][my[t].j])
  \/ Stays(t) /\ my[t].pc = "found" /\ my'[t].pc = "next_code"
  \/ Stays(t) /\ my[t].pc = "next_code" /\ my'[t].pc = "mark"
  \/ Tests(t, Tail(my[t].cand)) /\ my[t].pc = "mark"

LEMMA GatherFacts ==
  ASSUME IInv, NEW t \in Thread, my[t].pc = "gather"
  PROVE  /\ my[t].j \in Vertex /\ my[t].j \in Nat /\ Candidates(t) \in Seq(Vertex)
         /\ my[t].item \in 1 .. Owned(my[t].owner) /\ InRange(t, my[t].j)
         /\ Begin(my[t].owner, my[t].item) \in Nat /\ End(my[t].owner, my[t].item) \in Nat
         /\ End(my[t].owner, my[t].item) <= N
<1>1. InRange(t, my[t].j) /\ my[t].item \in 1 .. Owned(my[t].owner)
  BY Parts DEF BlockEntries, InBlock
<1>2. my[t].owner \in Thread /\ my[t].j \in Nat /\ my[t].cand \in Seq(Vertex) BY Before
<1>3. /\ Begin(my[t].owner, my[t].item) \in Nat /\ End(my[t].owner, my[t].item) \in Nat
      /\ End(my[t].owner, my[t].item) <= N
  BY <1>1, <1>2, BlockRange
<1>4. my[t].j \in Vertex BY <1>1, <1>2, <1>3, MemAssumption DEF InRange
<1>5. Candidates(t) \in Seq(Vertex) BY <1>2, <1>4, AppendEntries DEF Candidates
<1> QED BY <1>1, <1>2, <1>3, <1>4, <1>5

LEMMA ScanPaths ==
  ASSUME IInv, NEW t \in Thread, ScanBlock(t)
  PROVE  ScanPath(t)
<1> USE DEF At
<1>0. my \in [Thread -> ThreadShape] /\ my[t].j \in Nat BY Before
<1>00. {"found", "next_code", "mark"} \subseteq Labels BY LabelSet
<1>1. ASSUME NEW c \in Seq(Vertex), Test(t, c) PROVE Tests(t, c) BY <1>0, <1>1, TestMoves DEF Tests
<1>2. CASE Gather(t)
 <2>1. my[t].pc = "gather" BY <1>2 DEF Gather
 <2>2. PICK c \in Seq(Vertex) : c = Candidates(t) BY <2>1, GatherFacts
 <2>3. IF my[t].j + 1 < End(my[t].owner, my[t].item)
       THEN my' = [my EXCEPT ![t].cand = c, ![t].j = @ + 1] ELSE Test(t, c)
   BY <1>2, <2>2 DEF Gather, Candidates
 <2>4. CASE my[t].j + 1 < End(my[t].owner, my[t].item)
  <3>1. my' = [my EXCEPT ![t].cand = c, ![t].j = @ + 1] BY <2>3, <2>4
  <3>2. my'[t].pc = my[t].pc BY <1>0, <3>1 DEF ThreadShape
  <3>3. Gathers(t, c) BY <1>0, <2>1, <3>1, <3>2, GatherMoves DEF Gathers
  <3> QED BY <2>1, <2>2, <2>4, <3>3 DEF ScanPath
 <2>5. CASE ~(my[t].j + 1 < End(my[t].owner, my[t].item))
   BY <1>1, <2>1, <2>2, <2>3, <2>5 DEF ScanPath
 <2> QED BY <2>4, <2>5
<1>3. ASSUME my[t].pc \in {"test", "mark"} PROVE Tail(my[t].cand) \in Seq(Vertex)
  BY <1>3, CFacts, TailEntries DEF Finding
<1>4. CASE TestCandidate(t)
 <2>1. my[t].pc = "test" BY <1>4 DEF TestCandidate
 <2>2. CASE my[t].j > Len(adj[C(t)])
  <3>1. Test(t, Tail(my[t].cand)) BY <1>4, <2>2 DEF TestCandidate
  <3> QED BY <1>1, <1>3, <2>1, <2>2, <3>1 DEF ScanPath
 <2>3. CASE ~(my[t].j > Len(adj[C(t)])) /\ InFrontier(t, adj[C(t)][my[t].j])
  <3>1. Goto(t, "found") BY <1>4, <2>3 DEF TestCandidate
  <3> QED BY <1>00, <2>1, <2>3, <3>1, GotoStays DEF ScanPath
 <2>4. CASE ~(my[t].j > Len(adj[C(t)])) /\ ~InFrontier(t, adj[C(t)][my[t].j])
  <3>1. my' = [my EXCEPT ![t].j = @ + 1] BY <1>4, <2>4 DEF TestCandidate
  <3>2. my'[t].pc = my[t].pc BY <1>0, <3>1 DEF ThreadShape
  <3>3. NextNeighbor(t) BY <1>0, <2>1, <3>1, <3>2, CandidateMoves DEF NextNeighbor
  <3> QED BY <2>1, <2>4, <3>3 DEF ScanPath
 <2> QED BY <2>2, <2>3, <2>4
<1>5. CASE PushFound(t) BY <1>00, <1>5, GotoStays DEF PushFound, ScanPath
<1>6. CASE WriteNextCode(t) BY <1>00, <1>6, GotoStays DEF WriteNextCode, ScanPath
<1>7. CASE MarkFound(t) BY <1>1, <1>3, <1>7 DEF MarkFound, ScanPath
<1> QED BY <1>2, <1>4, <1>5, <1>6, <1>7 DEF ScanBlock

-----------------------------------------------------------------------------
Reserves(t) ==
  /\ Moves(t) /\ SameLevel(t) /\ SameSeen(t) /\ SameOwner(t) /\ SameView(t)
  /\ my'[t].sz = my[t].sz /\ my'[t].todo = my[t].todo /\ my'[t].item = 1 /\ my'[t].pc = "own"

NextOwn(t) ==
  /\ Moves(t) /\ SameLevel(t) /\ SameSeen(t) /\ SameOwner(t) /\ SameView(t)
  /\ my'[t].sz = my[t].sz /\ my'[t].todo = my[t].todo /\ my'[t].item = my[t].item + 1
  /\ my'[t].pc = "own"

ToBlock(t) ==
  /\ Moves(t) /\ SameLevel(t) /\ SameSeen(t) /\ SameOwner(t) /\ SameView(t)
  /\ my'[t].sz = my[t].sz /\ my'[t].todo = my[t].todo /\ my'[t].item = 0
  /\ my'[t].pc = (IF my[t].todo = {} THEN "finish" ELSE "block")

FromBlock(t, start) ==
  /\ Moves(t) /\ SameLevel(t) /\ SameSeen(t) /\ SameOwner(t) /\ SameView(t)
  /\ my'[t].sz = my[t].sz /\ my'[t].item = my[t].item
  /\ my'[t].todo = start .. Owned(my[t].owner)
  /\ my'[t].pc = (IF start .. Owned(my[t].owner) = {} THEN "finish" ELSE "block")

NoMoreBlocks(t) ==
  /\ Moves(t) /\ SameLevel(t) /\ SameSeen(t) /\ SameOwner(t) /\ SameView(t)
  /\ my'[t].sz = my[t].sz /\ my'[t].item = my[t].item /\ my'[t].todo = {}
  /\ my'[t].pc = "finish"

TakesBlock(t, k) ==
  /\ Moves(t) /\ SameLevel(t) /\ SameSeen(t) /\ SameOwner(t) /\ SameView(t)
  /\ my'[t].sz = my[t].sz /\ my'[t].item = k /\ my'[t].todo = my[t].todo \ {k}
  /\ my'[t].pc = "block_tag"

BlocksPath(t) ==
  \/ Reserves(t) /\ my[t].pc = "reserve"
  \/ /\ Stays(t)
     /\ \/ my[t].pc = "own" /\ my'[t].pc = "own_stamp" /\ my[t].item <= Owned(t)
        \/ my[t].pc = "own" /\ my'[t].pc = "finish"
             /\ (my[t].item > Owned(t) \/ Entry(t).done >= my[t].level)
        \/ my[t].pc = "own_stamp" /\ my'[t].pc = "own_progress" /\ Stamped(t)
        \/ my[t].pc = "help" /\ my'[t].pc = "help_tag"
        \/ my[t].pc = "help_tag" /\ my'[t].pc = "help_start"
             /\ Bucket(There(t), my[t].owner).level = my[t].level + 1
        \/ my[t].pc = "block_tag" /\ my'[t].pc = "block_progress"
             /\ Bucket(There(t), my[t].owner).level = my[t].level + 1
        \/ my[t].pc = "block_tag" /\ my'[t].pc = "block_stamp"
        \/ my[t].pc = "block_progress" /\ my'[t].pc = "block_stamp"
  \/ Scans(t) /\ my[t].pc \in {"own_stamp", "block_stamp"}
  \/ NextOwn(t) /\ my[t].pc = "own_progress"
  \/ Rests(t, "help", "advance") /\ my[t].pc = "help" /\ Entry(t).done >= my[t].level
  \/ FromBlock(t, 1) /\ my[t].pc = "help_tag"
  \/ FromBlock(t, Entry(t).last_done + 1) /\ my[t].pc = "help_start"
  \/ NoMoreBlocks(t) /\ my[t].pc = "block" /\ Entry(t).done >= my[t].level
  \/ my[t].pc = "block" /\ \E k \in my[t].todo : TakesBlock(t, k)
  \/ /\ ToBlock(t)
     /\ \/ my[t].pc = "block_progress" /\ my[t].item <= Entry(t).last_done
        \/ my[t].pc = "block_stamp" /\ Stamped(t)
        \/ my[t].pc = "stamp"

LEMMA BlocksPaths ==
  ASSUME IInv, NEW t \in Thread, BottomUp(t)
  PROVE  BlocksPath(t)
<1> USE DEF At
<1>0. /\ my \in [Thread -> ThreadShape] /\ my[t].item \in Nat /\ my[t].level \in Nat
      /\ my[t].owner \in Thread /\ my[t].todo \in SUBSET Nat
      /\ Entry(t).done \in Int /\ Entry(t).last_done \in Nat
      /\ (Tagged(t) <=> Bucket(There(t), my[t].owner).level = my[t].level + 1)
  BY Before, EntryParts
<1>00. {"own_stamp", "finish", "own_progress", "help_tag", "help_start", "block_progress",
        "block_stamp", "help", "advance"} \subseteq Labels
  BY LabelSet
<1>1. CASE Reserve(t)
 <2>1. Reserves(t) BY <1>0, <1>1, ReserveMoves DEF Reserve, Reserves
 <2> QED BY <1>1, <2>1 DEF Reserve, BlocksPath
<1>2. CASE OwnBlock(t)
 <2>1. my[t].pc = "own" BY <1>2 DEF OwnBlock
 <2>2. CASE my[t].item <= Owned(t) /\ Entry(t).done < my[t].level
  <3>1. Goto(t, "own_stamp") BY <1>2, <2>2 DEF OwnBlock
  <3> QED BY <1>00, <2>1, <2>2, <3>1, GotoStays DEF BlocksPath
 <2>3. CASE ~(my[t].item <= Owned(t) /\ Entry(t).done < my[t].level)
  <3>1. Goto(t, "finish") BY <1>2, <2>3 DEF OwnBlock
  <3>2. my[t].item > Owned(t) \/ Entry(t).done >= my[t].level BY <1>0, <2>3, OwnedFacts
  <3> QED BY <1>00, <2>1, <3>1, <3>2, GotoStays DEF BlocksPath
 <2> QED BY <2>2, <2>3
<1>3. ASSUME Scan(t), my[t].pc \in {"own_stamp", "block_stamp"} PROVE Scans(t)
 <2>1. my[t].item \in 1 .. Owned(my[t].owner) BY <1>3, Parts DEF BlockEntries, AtBlock
 <2>2. Begin(my[t].owner, my[t].item) \in Nat BY <1>0, <2>1, BlockRange
 <2> QED BY <1>0, <1>3, <2>2, ScanMoves DEF Scans
<1>4. CASE OwnStamp(t) BY <1>00, <1>3, <1>4, GotoStays DEF OwnStamp, BlocksPath
<1>5. CASE OwnProgress(t)
 <2>1. NextOwn(t) BY <1>0, <1>5, OwnProgressMoves DEF OwnProgress, NextOwn
 <2> QED BY <1>5, <2>1 DEF OwnProgress, BlocksPath
<1>6. CASE Help(t) BY <1>0, <1>00, <1>6, GotoStays, NextOwnerRests DEF Help, BlocksPath
<1>7. ASSUME NEW n \in Nat, BlocksFrom(t, n) PROVE FromBlock(t, n)
  BY <1>0, <1>7, BlocksFromMoves DEF FromBlock
<1>8. CASE HelpTag(t)
 <2>1. CASE Tagged(t) BY <1>0, <1>00, <1>8, <2>1, GotoStays DEF HelpTag, BlocksPath
 <2>2. CASE ~Tagged(t)
  <3>1. BlocksFrom(t, 1) /\ my[t].pc = "help_tag" BY <1>8, <2>2 DEF HelpTag
  <3> QED BY <1>7, <3>1 DEF BlocksPath
 <2> QED BY <2>1, <2>2
<1>9. CASE HelpStart(t)
 <2>1. BlocksFrom(t, Entry(t).last_done + 1) /\ my[t].pc = "help_start" BY <1>9 DEF HelpStart
 <2>2. Entry(t).last_done + 1 \in Nat BY <1>0
 <2> QED BY <1>7, <2>1, <2>2 DEF BlocksPath
<1>10. CASE HelpBlock(t)
 <2>1. my[t].pc = "block" BY <1>10 DEF HelpBlock
 <2>2. CASE Entry(t).done >= my[t].level
  <3>1. my' = [my EXCEPT ![t].todo = {}, ![t].pc = "finish"] BY <1>10, <2>2 DEF HelpBlock
  <3>2. NoMoreBlocks(t) BY <1>0, <3>1, NoBlockMoves DEF NoMoreBlocks
  <3> QED BY <2>1, <2>2, <3>2 DEF BlocksPath
 <2>3. CASE ~(Entry(t).done >= my[t].level)
  <3>1. PICK k \in my[t].todo :
          my' = [my EXCEPT ![t].item = k, ![t].todo = @ \ {k}, ![t].pc = "block_tag"]
    BY <1>10, <2>3 DEF HelpBlock
  <3>2. PICK n \in Nat : n = k BY <1>0
  <3>3. my' = [my EXCEPT ![t].item = n, ![t].todo = @ \ {n}, ![t].pc = "block_tag"] BY <3>1, <3>2
  <3>4. TakesBlock(t, n) BY <1>0, <3>3, BlockMoves DEF TakesBlock
  <3> QED BY <2>1, <3>2, <3>4 DEF BlocksPath
 <2> QED BY <2>2, <2>3
<1>11. CASE BlockTag(t)
 <2>1. CASE Tagged(t)
  <3>1. Goto(t, "block_progress") /\ my[t].pc = "block_tag" BY <1>11, <2>1 DEF BlockTag
  <3> QED BY <1>0, <1>00, <2>1, <3>1, GotoStays DEF BlocksPath
 <2>2. CASE ~Tagged(t)
  <3>1. Goto(t, "block_stamp") /\ my[t].pc = "block_tag" BY <1>11, <2>2 DEF BlockTag
  <3> QED BY <1>00, <3>1, GotoStays DEF BlocksPath
 <2> QED BY <2>1, <2>2
<1>12. NextBlock(t) => ToBlock(t) BY <1>0, NextBlockMoves DEF ToBlock
<1>13. CASE TestProgress(t)
 <2>1. my[t].pc = "block_progress" BY <1>13 DEF TestProgress
 <2>2. CASE my[t].item > Entry(t).last_done
   BY <1>00, <1>13, <2>1, <2>2, GotoStays DEF TestProgress, BlocksPath
 <2>3. CASE ~(my[t].item > Entry(t).last_done)
  <3>1. NextBlock(t) /\ my[t].item <= Entry(t).last_done BY <1>0, <1>13, <2>3 DEF TestProgress
  <3> QED BY <1>12, <2>1, <3>1 DEF BlocksPath
 <2> QED BY <2>2, <2>3
<1>14. CASE TestStamp(t) BY <1>3, <1>12, <1>14 DEF TestStamp, BlocksPath
<1>15. CASE Stamp(t) BY <1>12, <1>15 DEF Stamp, BlocksPath
<1> QED BY <1>1, <1>2, <1>4, <1>5, <1>6, <1>8, <1>9, <1>10, <1>11, <1>13, <1>14, <1>15 DEF BottomUp

(***************************************************************************)
(* The steps of the plan.                                                  *)
(***************************************************************************)
MovesOn(t) ==
  /\ Moves(t) /\ SameLevel(t) /\ SameSeen(t) /\ SameView(t)
  /\ my'[t].pc = "jump" /\ my'[t].owner = 0 /\ my'[t].sz = 0
  /\ my'[t].turn = my[t].turn /\ my'[t].todo = my[t].todo /\ my'[t].item = my[t].item

Follows(t, word) ==
  /\ Moves(t) /\ SameView(t) /\ my'[t].level = my[t].level
  /\ my'[t].pc = (IF word.direction = "search_done" THEN "returned" ELSE "reset")
  /\ my'[t].direction = word.direction /\ my'[t].codes_first = word.codes_first
  /\ my'[t].owner = t /\ my'[t].turn = 0 /\ my'[t].sz = 0
  /\ my'[t].todo = my[t].todo /\ my'[t].item = my[t].item

Sees(t) ==
  /\ Moves(t) /\ SameLevel(t) /\ SameOwner(t) /\ SameItems(t) /\ SameView(t)
  /\ my'[t].pc = "tag" /\ my'[t].seen = Curr(t).plan_word

SumsUp(t) ==
  /\ Moves(t) /\ SameLevel(t) /\ SameSeen(t) /\ SameItems(t) /\ SameView(t)
  /\ my'[t].owner = (IF my[t].owner = NumT - 1 THEN 0 ELSE my[t].owner + 1)
  /\ my'[t].pc = (IF my[t].owner = NumT - 1 THEN "choose" ELSE "tag")
  /\ my'[t].turn = my[t].turn

HasSize(t) ==
  /\ Moves(t) /\ SameLevel(t) /\ SameSeen(t) /\ SameView(t)
  /\ my'[t].sz = 1 /\ my'[t].owner = 0 /\ my'[t].pc = "choose"
  /\ my'[t].turn = my[t].turn /\ my'[t].todo = my[t].todo /\ my'[t].item = my[t].item

Jumps_(t, p) ==
  /\ Moves(t) /\ SameLevel(t) /\ SameOwner(t) /\ SameView(t)
  /\ my'[t].pc = "jump_other" /\ my'[t].item = p /\ my'[t].seen = WordOf(p)
  /\ my'[t].sz = my[t].sz /\ my'[t].todo = my[t].todo

Lands(t, d) ==
  /\ Moves(t) /\ SameOwner(t) /\ SameView(t) /\ my'[t].pc = "plan" /\ my'[t].item = 0
  /\ my'[t].level = d /\ my'[t].direction = my[t].direction
  /\ my'[t].codes_first = my[t].codes_first
  /\ my'[t].sz = my[t].sz /\ my'[t].todo = my[t].todo

\* t follows the word it finds, or the one it wrote.
Joins(t) ==
  /\ my[t].pc \in {"plan", "choose"} /\ Follows(t, Curr(t).plan_word)
  /\ Curr(t).plan_word.level = my[t].level
WinsLevel(t, w) == Wins(t, w) /\ Follows(t, w)

SumPath(t) ==
  \/ Sees(t) /\ my[t].pc = "plan" /\ Curr(t).plan_word.level < my[t].level
  \/ /\ SumsUp(t)
     /\ \/ my[t].pc = "tag" /\ At_(t).level # my[t].level
        \/ my[t].pc = "sum" /\ At_(t).size = 0
  \/ Stays(t) /\ my[t].pc = "tag" /\ my'[t].pc = "sum" /\ At_(t).level = my[t].level
  \/ HasSize(t) /\ my[t].pc = "sum" /\ At_(t).size > 0

JumpPath(t) ==
  \/ /\ MovesOn(t) /\ my[t].pc \in {"plan", "choose"}
     /\ Curr(t).plan_word.level > my[t].level
  \/ my[t].pc = "jump" /\ \E p \in {0, 1} : Jumps_(t, p)
  \/ my[t].pc = "jump_other" /\ \E d \in my[t].level + 1 .. Chosen : Lands(t, d)

ReusePath(t) ==
  /\ Stays(t)
  /\ \/ my[t].pc = "reset" /\ my'[t].pc = "empty"
     \/ my[t].pc = "empty" /\ my'[t].pc = "retag"
     \/ my[t].pc = "retag"
        /\ my'[t].pc = (IF my[t].direction = "top_down" THEN "done"
                        ELSE IF my[t].codes_first THEN "codes" ELSE "reserve")

PlanPath(t) ==
  (\E w \in WordType : WinsLevel(t, w)) \/ Joins(t) \/ SumPath(t) \/ JumpPath(t) \/ ReusePath(t)

\* A jump goes to the lower of two levels later than the thread's own.
LEMMA Landing ==
  ASSUME IInv, NEW t \in Thread, my[t].pc = "jump_other"
  PROVE  Older(my[t].seen.level, nodes[1 - my[t].item].plan_word.level) \in my[t].level + 1 .. Chosen
<1>1. /\ my[t].level \in Nat /\ my[t].level + 2 <= Chosen /\ my[t].item \in {0, 1}
      /\ my[t].seen.level \in my[t].level + 1 .. Chosen
  BY Parts, ThreadFields DEF Place
<1>2. PICK q \in {0, 1} : q = 1 - my[t].item BY <1>1
<1>3. WordOf(q).level \in {Chosen, Chosen - 1} BY Words
<1>4. nodes[1 - my[t].item].plan_word.level \in {Chosen, Chosen - 1} BY <1>2, <1>3 DEF WordOf
<1> QED BY <1>1, <1>4, Words DEF Older

LEMMA PlanPaths ==
  ASSUME IInv, NEW t \in Thread, Plan(t)
  PROVE  PlanPath(t)
<1>0. /\ my \in [Thread -> ThreadShape] /\ my[t].level \in Nat /\ my[t].owner \in Thread
      /\ Entry(t).bucket = At_(t) /\ At_(t).size \in Nat /\ At_(t).level \in Int
      /\ Curr(t).plan_word \in WordType /\ Curr(t).plan_word.level \in Int
  BY Before, EntryParts, WordHere
<1>00. {"sum", "empty", "retag", "done", "codes", "reserve"} \subseteq Labels BY LabelSet
<1>1. my' = [my EXCEPT ![t] = MovedOn(t)] => MovesOn(t) BY <1>0, MovedOnMoves DEF MovesOn
<1>2. ASSUME NEW w \in WordType, my' = [my EXCEPT ![t] = FollowWord(t, w)] PROVE Follows(t, w)
  BY <1>0, <1>2, FollowMoves DEF Follows
<1>3. CASE LoadWord(t)
 <2> DEFINE word == Curr(t).plan_word
 <2>1. my[t].pc = "plan" /\ UNCHANGED memory
       /\ my' = [my EXCEPT ![t] =
              IF word.level > my[t].level THEN MovedOn(t)
              ELSE IF word.level = my[t].level THEN FollowWord(t, word)
              ELSE [my[t] EXCEPT !.pc = "tag", !.seen = word]]
   BY <1>3 DEF LoadWord, At
 <2>3. CASE word.level > my[t].level BY <1>1, <2>1, <2>3 DEF JumpPath, PlanPath
 <2>4. CASE word.level = my[t].level
  <3>1. PICK w \in WordType : w = word BY <1>0
  <3>2. my' = [my EXCEPT ![t] = FollowWord(t, w)]
   <4>1. ~(word.level > my[t].level) BY <1>0, <2>4
   <4>2. my' = [my EXCEPT ![t] = FollowWord(t, word)] BY <2>1, <2>4, <4>1, Zenon
   <4> QED BY <3>1, <4>2, Zenon
  <3>3. Follows(t, w) BY <1>2, <3>2
  <3> QED BY <2>1, <2>4, <3>1, <3>3 DEF Joins, PlanPath
 <2>5. CASE word.level < my[t].level
  <3>1. PICK w \in WordType : w = word BY <1>0
  <3>2. my' = [my EXCEPT ![t] = [my[t] EXCEPT !.pc = "tag", !.seen = w]]
   <4>1. ~(word.level > my[t].level) /\ word.level # my[t].level BY <1>0, <2>5
   <4>2. my' = [my EXCEPT ![t] = [my[t] EXCEPT !.pc = "tag", !.seen = word]] BY <2>1, <4>1, Zenon
   <4> QED BY <3>1, <4>2, Zenon
  <3>3. Sees(t) BY <1>0, <3>1, <3>2, SeenMoves DEF Sees
  <3> QED BY <2>1, <2>5, <3>3 DEF SumPath, PlanPath
 <2> QED BY <1>0, <2>3, <2>4, <2>5
<1>4. CASE SumTag(t)
 <2>1. CASE At_(t).level # my[t].level
  <3>1. NextSize(t) /\ my[t].pc = "tag" BY <1>0, <1>4, <2>1 DEF SumTag, At
  <3> QED BY <1>0, <2>1, <3>1, NextSizeMoves DEF SumsUp, SumPath, PlanPath
 <2>2. CASE At_(t).level = my[t].level
  <3>1. Goto(t, "sum") /\ my[t].pc = "tag" BY <1>0, <1>4, <2>2 DEF SumTag, At
  <3> QED BY <1>00, <2>2, <3>1, GotoStays DEF SumPath, PlanPath
 <2> QED BY <2>1, <2>2
<1>5. CASE SumSize(t)
 <2>1. CASE At_(t).size > 0
  <3>1. my' = [my EXCEPT ![t].sz = 1, ![t].owner = 0, ![t].pc = "choose"] /\ my[t].pc = "sum"
    BY <1>0, <1>5, <2>1 DEF SumSize, At
  <3> QED BY <1>0, <2>1, <3>1, SizeMoves DEF HasSize, SumPath, PlanPath
 <2>2. CASE At_(t).size = 0
  <3>1. NextSize(t) /\ my[t].pc = "sum" BY <1>0, <1>5, <2>2 DEF SumSize, At
  <3> QED BY <1>0, <2>2, <3>1, NextSizeMoves DEF SumsUp, SumPath, PlanPath
 <2> QED BY <1>0, <2>1, <2>2
<1>6. CASE Choose(t)
 <2>1. /\ my[t].pc = "choose"
       /\ \/ \E w \in WordType : Wins(t, w)
          \/ /\ UNCHANGED nodes
             /\ \/ Curr(t).plan_word.level > my[t].level
                   /\ my' = [my EXCEPT ![t] = MovedOn(t)]
                \/ Curr(t).plan_word.level = my[t].level
                   /\ my' = [my EXCEPT ![t] = FollowWord(t, Curr(t).plan_word)]
   BY <1>6, ChooseWrites
 <2>2. ASSUME NEW w \in WordType, Wins(t, w) PROVE PlanPath(t)
  <3>1. my' = [my EXCEPT ![t] = FollowWord(t, w)] BY <2>2 DEF Wins
  <3>2. Follows(t, w) BY <1>2, <3>1
  <3> QED BY <2>2, <3>2 DEF WinsLevel, PlanPath
 <2>3. ASSUME Curr(t).plan_word.level > my[t].level, my' = [my EXCEPT ![t] = MovedOn(t)]
       PROVE PlanPath(t)
   BY <1>1, <2>1, <2>3 DEF JumpPath, PlanPath
 <2>4. ASSUME Curr(t).plan_word.level = my[t].level, UNCHANGED nodes,
              my' = [my EXCEPT ![t] = FollowWord(t, Curr(t).plan_word)]
       PROVE PlanPath(t)
  <3>1. PICK w \in WordType : w = Curr(t).plan_word BY <1>0
  <3>2. my' = [my EXCEPT ![t] = FollowWord(t, w)] BY <2>4, <3>1
  <3>3. Follows(t, w) BY <1>2, <3>2
  <3> QED BY <2>1, <2>4, <3>1, <3>3 DEF Joins, PlanPath
 <2> QED BY <2>1, <2>2, <2>3, <2>4
<1>7. CASE Jump(t)
 <2>1. PICK p \in {0, 1} : my[t].pc = "jump" /\
         my' = [my EXCEPT ![t].pc = "jump_other", ![t].item = p, ![t].seen = nodes[p].plan_word]
   BY <1>7 DEF Jump, At
 <2>2. PICK w \in WordType : w = WordOf(p) BY Words
 <2>3. my' = [my EXCEPT ![t].pc = "jump_other", ![t].item = p, ![t].seen = w]
   BY <2>1, <2>2 DEF WordOf
 <2>4. Jumps_(t, p) BY <1>0, <2>2, <2>3, JumpMoves DEF Jumps_
 <2> QED BY <2>1, <2>4 DEF JumpPath, PlanPath
<1>8. CASE JumpOther(t)
 <2>1. my[t].pc = "jump_other" BY <1>8 DEF JumpOther, At
 <2>2. PICK d \in my[t].level + 1 .. Chosen :
         d = Older(my[t].seen.level, nodes[1 - my[t].item].plan_word.level)
   BY <2>1, Landing
 <2>3. d \in Nat BY <1>0, <2>2, Words
 <2>4. my' = [my EXCEPT ![t].pc = "plan", ![t].item = 0,
                       ![t].seen = Word(0, "top_down", FALSE), ![t].level = d]
   BY <1>8, <2>2 DEF JumpOther
 <2>5. Lands(t, d) BY <1>0, <2>3, <2>4, JumpOtherMoves DEF Lands
 <2> QED BY <2>1, <2>5 DEF JumpPath, PlanPath
<1>9. CASE ResetProgress(t) BY <1>00, <1>9, GotoStays DEF ResetProgress, At, ReusePath, PlanPath
<1>10. CASE EmptyBucket(t) BY <1>00, <1>10, GotoStays DEF EmptyBucket, At, ReusePath, PlanPath
<1>11. CASE TagBucket(t)
 <2>1. PICK l : l = IF my[t].direction = "top_down" THEN "done"
                    ELSE IF my[t].codes_first THEN "codes" ELSE "reserve"
   OBVIOUS
 <2>2. l \in Labels /\ Goto(t, l) /\ my[t].pc = "retag" BY <1>00, <1>11, <2>1 DEF TagBucket, At
 <2>3. Stays(t) /\ my'[t].pc = l BY <2>2, GotoStays
 <2> QED BY <2>1, <2>2, <2>3 DEF ReusePath, PlanPath
<1> QED BY <1>3, <1>4, <1>5, <1>6, <1>7, <1>8, <1>9, <1>10, <1>11 DEF Plan

(***************************************************************************)
(* Where the steps within a level lead, and the ring of owners.            *)
(***************************************************************************)
Ringed(t) ==
  /\ my'[t].owner = Turn(t, my'[t].turn)
  /\ my'[t].pc \in Reusing \cup Owning \cup {"reserve", "advance", "returned"} => my'[t].turn = 0
  /\ my'[t].pc \in Helping => my'[t].turn > 0

LEMMA RingAt ==
  ASSUME IInv, NEW t \in Thread, InLevel(t)
  PROVE  /\ my[t].owner = Turn(t, my[t].turn) /\ my[t].turn \in Nat /\ my[t].turn < NumT /\ NumT \in Nat
         /\ Own(t) <=> my[t].turn = 0
         /\ my[t].pc \in Reusing \cup Owning \cup {"reserve", "advance", "returned"} =>
              my[t].turn = 0
         /\ my[t].pc \in Helping => my[t].turn > 0
<1>1. Rounds(t) /\ my[t].turn \in 0 .. NumT - 1 /\ NumT \in Nat \ {0} BY Parts, Before, ThreadTypes
<1>2. my[t].owner = Turn(t, my[t].turn) BY <1>1 DEF Rounds
<1>3. Turn(t, 0) = t /\ (Turn(t, my[t].turn) = t => my[t].turn = 0) BY <1>1, TurnNext
<1> QED BY <1>1, <1>2, <1>3 DEF Rounds, Own

LEMMA RestRings ==
  ASSUME IInv, NEW t \in Thread, InLevel(t), NEW a \in {"done", "help", "codes"},
         NEW b \in {"advance", "reserve"}, Rests(t, a, b)
  PROVE  Ringed(t) /\ my'[t].pc \in {a, b} /\ SameLevel(t) /\ Moves(t) /\ SameSeen(t)
<1>1. my[t].owner = Turn(t, my[t].turn) /\ my[t].turn \in Nat /\ my[t].turn < NumT /\ NumT \in Nat
  BY RingAt
<1>2. CASE my[t].turn + 1 = NumT
 <2>1. my'[t].owner = t /\ my'[t].turn = 0 /\ my'[t].pc = b BY <1>2 DEF Rests
 <2>2. Turn(t, 0) = t BY TurnNext, ThreadTypes, <1>1
 <2> QED BY <2>1, <2>2 DEF Rests, Ringed, Helping, HelpBegun, AtBlock
<1>3. CASE my[t].turn + 1 # NumT
 <2>1. my'[t].owner = (my[t].owner + 1) % NumT /\ my'[t].turn = my[t].turn + 1 /\ my'[t].pc = a
   BY <1>3 DEF Rests
 <2>2. Turn(t, my[t].turn + 1) = (Turn(t, my[t].turn) + 1) % NumT BY <1>1, <1>3, TurnNext
 <2> QED BY <1>1, <2>1, <2>2 DEF Rests, Ringed, Reusing, Owning
<1> QED BY <1>2, <1>3

\* t stays in its level, with these labels.
Within(t, S) ==
  /\ Moves(t) /\ SameLevel(t) /\ SameSeen(t) /\ Ringed(t) /\ my'[t].pc \in S

LEMMA TopWithin ==
  ASSUME IInv, NEW t \in Thread, TopPath(t)
  PROVE  my[t].pc \in InTopDown /\ Within(t, InTopDown \cup {"finish", "advance"})
<1> USE DEF InTopDown, Looking, Starting, Reading, AtItem
<1>1. my[t].pc \in InTopDown BY DEF TopPath
<1>2. InLevel(t) BY <1>1 DEF InLevel, Deciding
<1>3. CASE Rests(t, "done", "advance") BY <1>1, <1>2, <1>3, RestRings DEF Within
<1>4. CASE ~Rests(t, "done", "advance")
 <2>1. /\ Moves(t) /\ SameLevel(t) /\ SameSeen(t) /\ SameOwner(t)
       /\ my'[t].pc \in InTopDown \cup {"finish"}
  <3>1. ASSUME NEW n, HelpsFrom(t, n)
        PROVE  /\ Moves(t) /\ SameLevel(t) /\ SameSeen(t) /\ SameOwner(t)
               /\ my'[t].pc \in InTopDown \cup {"finish"}
    BY <3>1 DEF HelpsFrom
  <3>2. ASSUME NEW n, AtNeighbor(t, n)
        PROVE  /\ Moves(t) /\ SameLevel(t) /\ SameSeen(t) /\ SameOwner(t)
               /\ my'[t].pc \in InTopDown \cup {"finish"}
    BY <3>2 DEF AtNeighbor
  <3>3. ASSUME NEW n, NEW u, Takes(t, n, u)
        PROVE  /\ Moves(t) /\ SameLevel(t) /\ SameSeen(t) /\ SameOwner(t)
               /\ my'[t].pc \in InTopDown \cup {"finish"}
    BY <3>3 DEF Takes
  <3>4. ASSUME Loads(t) \/ Leaves(t)
        PROVE  /\ Moves(t) /\ SameLevel(t) /\ SameSeen(t) /\ SameOwner(t)
               /\ my'[t].pc \in InTopDown \cup {"finish"}
    BY <3>4 DEF Loads, Leaves
  <3> QED BY <1>4, <3>1, <3>2, <3>3, <3>4 DEF TopPath, Stays
 <2>2. Ringed(t)
   BY <1>2, <2>1, RingAt DEF Ringed, SameOwner, Helping, HelpBegun, AtBlock, Reusing, Owning
 <2> QED BY <1>1, <2>1, <2>2 DEF Within
<1> QED BY <1>3, <1>4

LEMMA CodesWithin ==
  ASSUME IInv, NEW t \in Thread, CodesPath(t)
  PROVE  my[t].pc \in InCodes /\ Within(t, InCodes \cup {"reserve"})
<1> USE DEF InCodes, CodesLooking, CodesStarting, AtCode
<1>1. my[t].pc \in InCodes BY DEF CodesPath
<1>2. InLevel(t) BY <1>1 DEF InLevel, Deciding
<1>3. CASE Rests(t, "codes", "reserve") BY <1>1, <1>2, <1>3, RestRings DEF Within
<1>4. CASE ~Rests(t, "codes", "reserve")
 <2>1. Moves(t) /\ SameLevel(t) /\ SameSeen(t) /\ SameOwner(t) /\ my'[t].pc \in InCodes
  <3>1. ASSUME NEW n, NEW s, AtEntry(t, n, s)
        PROVE  Moves(t) /\ SameLevel(t) /\ SameSeen(t) /\ SameOwner(t) /\ my'[t].pc \in InCodes
    BY <3>1 DEF AtEntry
  <3>2. ASSUME NEW u, TakesCode(t, u)
        PROVE  Moves(t) /\ SameLevel(t) /\ SameSeen(t) /\ SameOwner(t) /\ my'[t].pc \in InCodes
    BY <3>2 DEF TakesCode
  <3>3. ASSUME LoadsCodes(t)
        PROVE  Moves(t) /\ SameLevel(t) /\ SameSeen(t) /\ SameOwner(t) /\ my'[t].pc \in InCodes
    BY <3>3 DEF LoadsCodes
  <3> QED BY <1>4, <3>1, <3>2, <3>3 DEF CodesPath, Stays
 <2>2. Ringed(t)
   BY <1>2, <2>1, RingAt DEF Ringed, SameOwner, Helping, HelpBegun, AtBlock, Reusing, Owning
 <2> QED BY <1>1, <2>1, <2>2 DEF Within
<1> QED BY <1>3, <1>4

LEMMA ScanWithin ==
  ASSUME IInv, NEW t \in Thread, ScanPath(t)
  PROVE  my[t].pc \in InBlock /\ Within(t, InBlock \cup {"own_progress", "stamp"})
         /\ SameOwner(t)
<1> USE DEF InBlock, Finding
<1>1. my[t].pc \in InBlock BY DEF ScanPath
<1>2. InLevel(t) BY <1>1 DEF InLevel, Deciding
<1>3. /\ Moves(t) /\ SameLevel(t) /\ SameSeen(t) /\ SameOwner(t)
      /\ \/ my'[t].pc \in InBlock
         \/ my'[t].pc = "own_progress" /\ Own(t)
         \/ my'[t].pc = "stamp" /\ ~Own(t)
 <2>1. ASSUME NEW c, Tests(t, c)
       PROVE  /\ Moves(t) /\ SameLevel(t) /\ SameSeen(t) /\ SameOwner(t)
              /\ \/ my'[t].pc \in InBlock
                 \/ my'[t].pc = "own_progress" /\ Own(t)
                 \/ my'[t].pc = "stamp" /\ ~Own(t)
   BY <2>1 DEF Tests
 <2>2. ASSUME NEW c, Gathers(t, c)
       PROVE  Moves(t) /\ SameLevel(t) /\ SameSeen(t) /\ SameOwner(t) /\ my'[t].pc \in InBlock
   BY <2>2 DEF Gathers
 <2>3. ASSUME NextNeighbor(t)
       PROVE  Moves(t) /\ SameLevel(t) /\ SameSeen(t) /\ SameOwner(t) /\ my'[t].pc \in InBlock
   BY <2>3 DEF NextNeighbor
 <2> QED BY <2>1, <2>2, <2>3 DEF ScanPath, Stays
<1>4. Ringed(t)
  BY <1>2, <1>3, RingAt DEF Ringed, SameOwner, Helping, HelpBegun, AtBlock, Reusing, Owning
<1> QED BY <1>1, <1>3, <1>4 DEF Within

InBlocks == Owning \cup Helping \cup {"reserve"}

LEMMA BlocksWithin ==
  ASSUME IInv, NEW t \in Thread, BlocksPath(t)
  PROVE  my[t].pc \in InBlocks /\ Within(t, Owning \cup Helping \cup {"gather", "finish", "advance"})
<1> USE DEF InBlocks, Owning, Helping, HelpBegun, AtBlock
<1>1. my[t].pc \in InBlocks BY DEF BlocksPath
<1>2. InLevel(t) BY <1>1 DEF InLevel, Deciding
<1>3. CASE Rests(t, "help", "advance") BY <1>1, <1>2, <1>3, RestRings DEF Within
<1>4. CASE ~Rests(t, "help", "advance")
 <2> DEFINE P == /\ Moves(t) /\ SameLevel(t) /\ SameSeen(t) /\ SameOwner(t)
                 /\ \/ my'[t].pc \in Owning /\ my[t].pc \in Owning \cup {"reserve"}
                    \/ my'[t].pc \in Helping /\ my[t].pc \in Helping
                    \/ my'[t].pc \in {"gather", "finish"}
 <2>1. P
  <3>1. ASSUME Reserves(t) /\ my[t].pc = "reserve" PROVE P BY <3>1 DEF Reserves
  <3>2. ASSUME Scans(t) PROVE P BY <3>2 DEF Scans
  <3>3. ASSUME NextOwn(t) /\ my[t].pc = "own_progress" PROVE P BY <3>3 DEF NextOwn
  <3>4. ASSUME NEW n, FromBlock(t, n), my[t].pc \in Helping PROVE P BY <3>4 DEF FromBlock
  <3>5. ASSUME NoMoreBlocks(t) PROVE P BY <3>5 DEF NoMoreBlocks
  <3>6. ASSUME NEW k, TakesBlock(t, k), my[t].pc = "block" PROVE P BY <3>6 DEF TakesBlock
  <3>7. ASSUME ToBlock(t), my[t].pc \in Helping PROVE P BY <3>7 DEF ToBlock
  <3>8. ASSUME Stays(t),
               \/ my[t].pc \in Owning /\ my'[t].pc \in Owning \cup {"finish"}
               \/ my[t].pc \in Helping /\ my'[t].pc \in Helping
        PROVE  P
    BY <3>8 DEF Stays
  <3> HIDE DEF P
  <3> QED BY <1>4, <3>1, <3>2, <3>3, <3>4, <3>5, <3>6, <3>7, <3>8 DEF BlocksPath
 <2>2. Ringed(t) BY <1>2, <2>1, RingAt DEF Ringed, SameOwner, Reusing
 <2> QED BY <1>1, <2>1, <2>2 DEF Within
<1> QED BY <1>3, <1>4

LEMMA MarkWithin ==
  ASSUME IInv, NEW t \in Thread, MarkPath(t)
  PROVE  /\ my[t].pc \in Ending
         /\ Within(t, {"mark_done", IF my[t].direction = "top_down" THEN "done" ELSE "help", "advance"})
<1>1. my[t].pc \in Ending BY DEF MarkPath, Ending
<1>2. InLevel(t) BY <1>1 DEF InLevel, Deciding, Ending
<1>3. CASE Ends(t)
 <2>1. PICK a \in {"done", "help", "codes"} : a = IF my[t].direction = "top_down" THEN "done" ELSE "help"
   OBVIOUS
 <2>2. Rests(t, a, "advance") BY <1>3, <2>1 DEF Ends
 <2>3. Ringed(t) /\ my'[t].pc \in {a, "advance"} /\ SameLevel(t) /\ Moves(t) /\ SameSeen(t)
   BY <1>2, <2>2, RestRings
 <2> QED BY <1>1, <2>1, <2>3 DEF Within
<1>4. CASE Stays(t) /\ my'[t].pc = "mark_done"
  BY <1>1, <1>2, <1>4, RingAt DEF Within, Stays, Ringed, SameOwner, Reusing, Owning, Helping,
     HelpBegun, AtBlock
<1> QED BY <1>1, <1>3, <1>4 DEF MarkPath

LEMMA ReuseWithin ==
  ASSUME IInv, NEW t \in Thread, ReusePath(t)
  PROVE  /\ my[t].pc \in Reusing
         /\ Within(t, {"empty", "retag"} \cup (IF my[t].pc # "retag" THEN {}
                       ELSE {IF my[t].direction = "top_down" THEN "done"
                             ELSE IF my[t].codes_first THEN "codes" ELSE "reserve"}))
<1>1. my[t].pc \in Reusing BY DEF ReusePath, Reusing
<1>2. InLevel(t) BY <1>1 DEF InLevel, Deciding, Reusing
<1>3. Ringed(t)
  BY <1>1, <1>2, RingAt DEF ReusePath, Stays, Ringed, SameOwner, Reusing, Owning, Helping, HelpBegun, AtBlock
<1> QED BY <1>1, <1>3 DEF ReusePath, Stays, Within

(***************************************************************************)
(* The paths of a step, and the invariants of the words.                   *)
(***************************************************************************)
LevelPath(t) ==
  ReusePath(t) \/ TopPath(t) \/ CodesPath(t) \/ ScanPath(t) \/ BlocksPath(t) \/ MarkPath(t)
QuietPath(t) == Joins(t) \/ SumPath(t) \/ JumpPath(t) \/ LevelPath(t) \/ AdvancePath(t)
QuietStep(t) ==
  /\ QuietPath(t) /\ WordsSame
  /\ Chosen' = Chosen /\ Latest' = Latest /\ Previous' = Previous

LEMMA StepPaths ==
  ASSUME IInv, NEW t \in Thread, Step(t)
  PROVE  (\E w \in WordType : WinsLevel(t, w)) \/ QuietStep(t)
<1>1. (\E w \in WordType : WinsLevel(t, w)) \/ QuietPath(t)
  BY PlanPaths, MarkPaths, TopDownPath, CodesPaths, ScanPaths, BlocksPaths, AdvancePaths DEF Step,
     QuietPath, LevelPath, PlanPath
<1>2. ASSUME NEW w \in WordType, Wins(t, w) PROVE \E x \in WordType : WinsLevel(t, x)
 <2>1. my' = [my EXCEPT ![t] = FollowWord(t, w)] BY <1>2 DEF Wins
 <2>2. Follows(t, w) BY <2>1, Before, FollowMoves DEF Follows
 <2> QED BY <1>2, <2>2 DEF WinsLevel
<1>3. WordsSame \/ \E w \in WordType : WinsLevel(t, w) BY Effects, <1>2
<1>4. WordsSame => Chosen' = Chosen /\ Latest' = Latest /\ Previous' = Previous BY SameChosen
<1> QED BY <1>1, <1>3, <1>4 DEF QuietStep

InnerStep(t) ==
  /\ Moves(t) /\ SameLevel(t) /\ SameSeen(t) /\ Ringed(t)
  /\ my[t].pc \notin Deciding \cup {"advance", "returned"}
  /\ my'[t].pc \notin Deciding \cup {"returned"}
  /\ my'[t].pc \in InTopDown => my[t].direction = "top_down"
  /\ my'[t].pc \in InCodes => my[t].direction = "bottom_up" /\ my[t].codes_first
  /\ my'[t].pc \in InBottomUp \cup {"reserve"} => my[t].direction = "bottom_up"

LEMMA Inner ==
  ASSUME IInv, NEW t \in Thread, LevelPath(t)
  PROVE  InnerStep(t)
<1> USE DEF Deciding, InTopDown, Looking, Starting, Reading, AtItem, InCodes, CodesLooking,
            CodesStarting, AtCode, InBottomUp, InBlock, Finding, Owning, Helping, HelpBegun, AtBlock
<1>1. Directed(t) /\ my[t].direction \in {"top_down", "bottom_up", "search_done"}
      /\ my[t].codes_first \in BOOLEAN
  BY Parts, ThreadFields
<1>2. CASE ReusePath(t)
 <2>1. my[t].pc \in Reusing /\ my[t].direction # "search_done"
   BY <1>1, <1>2, ReuseWithin DEF Reusing, Directed, InLevel
 <2>2. my[t].pc = "retag" \/ my'[t].pc \in {"empty", "retag"} BY <1>2 DEF ReusePath
 <2>3. CASE my'[t].pc \in {"empty", "retag"}
   BY <1>2, <2>1, <2>3, ReuseWithin DEF Within, Reusing, InnerStep
 <2>4. CASE my[t].pc = "retag"
  <3>1. my'[t].pc = (IF my[t].direction = "top_down" THEN "done"
                     ELSE IF my[t].codes_first THEN "codes" ELSE "reserve")
    BY <1>2, <2>4 DEF ReusePath
  <3>2. Moves(t) /\ SameLevel(t) /\ SameSeen(t) /\ Ringed(t) BY <1>2, ReuseWithin DEF Within
  <3> QED BY <1>1, <2>1, <2>4, <3>1, <3>2 DEF InnerStep
 <2> QED BY <2>2, <2>3, <2>4
<1>3. CASE TopPath(t) BY <1>1, <1>3, TopWithin DEF Within, InnerStep, Directed
<1>4. CASE CodesPath(t) BY <1>1, <1>4, CodesWithin DEF Within, InnerStep, Directed
<1>5. CASE ScanPath(t) BY <1>1, <1>5, ScanWithin DEF Within, InnerStep, Directed
<1>6. CASE BlocksPath(t)
 <2>1. my[t].direction = "bottom_up" /\ my[t].pc \in InBlocks
   BY <1>1, <1>6, BlocksWithin DEF Directed, InBlocks
 <2> QED BY <1>6, <2>1, BlocksWithin DEF Within, InnerStep, InBlocks
<1>7. CASE MarkPath(t)
 <2>1. my[t].direction \in {"top_down", "bottom_up"} /\ my[t].pc \in Ending
   BY <1>1, <1>7, MarkWithin DEF Directed, InLevel, Ending
 <2> QED BY <1>7, <2>1, MarkWithin DEF Within, InnerStep, Ending
<1> QED BY <1>2, <1>3, <1>4, <1>5, <1>6, <1>7 DEF LevelPath

LEMMA WordsInOrderKept ==
  ASSUME IInv, NEW t \in Thread, Step(t)
  PROVE  WordsInOrder'
<1>1. WordsInOrder BY DEF IInv, WordsInv
<1>2. CASE QuietStep(t)
 <2>1. \A p \in {0, 1} : WordOf(p)' = WordOf(p) BY <1>2 DEF QuietStep, WordsSame
 <2>2. Chosen' = Chosen /\ Latest' = Latest /\ Previous' = Previous BY <1>2 DEF QuietStep
 <2>3. /\ \A p \in {0, 1} : WordOf(p)'.level % 2 = p
       /\ WordOf(0)'.level - WordOf(1)'.level \in {-1, 1}
   BY <1>1, <2>1 DEF WordsInOrder
 <2>4. /\ Latest'.codes_first <=>
            /\ Latest'.direction = "bottom_up" /\ Previous'.direction = "top_down"
            /\ CodeOf(Chosen') # 0
       /\ Previous'.direction # "search_done" /\ Chosen' >= -1
   BY <1>1, <2>2 DEF WordsInOrder
 <2> QED BY <2>3, <2>4 DEF WordsInOrder
<1>3. CASE \E w \in WordType : WinsLevel(t, w)
 <2>1. PICK w \in WordType : WinsLevel(t, w) BY <1>3
 <2>2. Wins(t, w) /\ Next_(t) /\ w.level = my[t].level /\ w.codes_first = CodesFirst(t, w.direction)
       /\ \A p \in {0, 1} : WordOf(p)' = IF p = Here(t) THEN w ELSE WordOf(p)
   BY <2>1 DEF WinsLevel, Wins
 <2>3. Chosen' = Chosen + 1 /\ Latest' = w /\ Previous' = Latest /\ my[t].level = Chosen + 1
       /\ w.level = Chosen + 1 /\ Chosen \in Int /\ Chosen >= -1
   BY <2>2, WinWords, Words
 <2>4. my[t].direction = Latest.direction /\ my[t].direction # "search_done"
   BY <2>2, Parts DEF Place
 <2>5. \A p \in {0, 1} : WordOf(p)'.level % 2 = p BY <1>1, <2>2 DEF WordsInOrder, Here
 <2>6. WordOf(0)'.level - WordOf(1)'.level \in {-1, 1}
  <3>1. Here(t) = 1 - (Chosen % 2) /\ Chosen % 2 \in {0, 1}
   <4>1. PICK k \in Int : k = Chosen BY <2>3
   <4>2. k % 2 \in {0, 1} /\ (k + 1) % 2 = 1 - (k % 2) BY Parity
   <4> QED BY <2>3, <4>1, <4>2 DEF Here
  <3>2. WordOf(Chosen % 2) = Latest /\ Latest.level = Chosen BY Words
  <3>3. CASE Chosen % 2 = 0
   <4>1. WordOf(0)' = WordOf(0) /\ WordOf(1)' = w BY <2>2, <3>1, <3>3
   <4> QED BY <2>3, <3>2, <3>3, <4>1
  <3>4. CASE Chosen % 2 = 1
   <4>1. WordOf(1)' = WordOf(1) /\ WordOf(0)' = w BY <2>2, <3>1, <3>4
   <4> QED BY <2>3, <3>2, <3>4, <4>1
  <3> QED BY <3>1, <3>3, <3>4
 <2>7. w.codes_first <=> w.direction = "bottom_up" /\ Latest.direction = "top_down" /\ CodeOf(Chosen + 1) # 0
   BY <2>2, <2>3, <2>4 DEF CodesFirst
 <2>8. /\ Latest'.codes_first <=>
            /\ Latest'.direction = "bottom_up" /\ Previous'.direction = "top_down"
            /\ CodeOf(Chosen') # 0
       /\ Previous'.direction # "search_done" /\ Chosen' >= -1
   BY <2>3, <2>4, <2>7
 <2> QED BY <2>5, <2>6, <2>8 DEF WordsInOrder
<1> QED BY <1>2, <1>3, StepPaths

LEMMA RoundsKept ==
  ASSUME IInv, NEW t \in Thread, Step(t)
  PROVE  \A s \in Thread : Rounds(s)'
<1> USE DEF Deciding, Reusing, Owning, Helping, HelpBegun, AtBlock
<1>1. Rounds(t) /\ my[t].turn \in Nat /\ NumT \in Nat \ {0} /\ Turn(t, 0) = t
  BY Parts, Before, ThreadTypes, TurnNext
<1>2. ASSUME NEW s \in Thread, s # t, Moves(t) PROVE Rounds(s)'
 <2>1. my'[s] = my[s] /\ Rounds(s) BY <1>2, Parts DEF Moves
 <2> QED BY <2>1 DEF Rounds, InLevel
<1>3. ASSUME NEW w, Follows(t, w) PROVE Rounds(t)' /\ Moves(t)
  BY <1>1, <1>3 DEF Follows, Rounds, InLevel
<1>4. ASSUME SumPath(t) PROVE Rounds(t)' /\ Moves(t)
 <2>1. Moves(t) /\ my'[t].pc \in {"tag", "sum", "choose"} /\ my'[t].turn = my[t].turn
   BY <1>4 DEF SumPath, Sees, SumsUp, Stays, HasSize, SameOwner
 <2>2. my[t].turn = 0 BY <1>1, <1>4 DEF SumPath, Rounds
 <2> QED BY <2>1, <2>2 DEF Rounds, InLevel
<1>5. ASSUME JumpPath(t) PROVE Rounds(t)' /\ Moves(t)
 <2>1. /\ my[t].pc \in {"plan", "choose", "jump", "jump_other"}
       /\ my[t].turn = 0
   BY <1>1, <1>5 DEF JumpPath, Rounds
 <2>2. MovesOn(t) \/ (my[t].owner = 0 /\ my[t].sz = 0)
  <3>1. MovesOn(t) \/ my[t].pc = "jump" \/ my[t].pc = "jump_other" BY <1>5, Zenon DEF JumpPath
  <3> QED BY <1>1, <3>1 DEF Rounds
 <2>3. /\ Moves(t) /\ my'[t].pc \in {"plan", "jump", "jump_other"} /\ my'[t].turn = 0
       /\ my'[t].owner = 0 /\ my'[t].sz = 0
  <3>1. CASE MovesOn(t) BY <2>1, <3>1 DEF MovesOn
  <3>2. CASE \E p \in {0, 1} : Jumps_(t, p) BY <2>1, <2>2, <3>2 DEF Jumps_, SameOwner, MovesOn
  <3>3. CASE \E d \in my[t].level + 1 .. Chosen : Lands(t, d)
    BY <2>1, <2>2, <3>3 DEF Lands, SameOwner, MovesOn
  <3> QED BY <1>5, <3>1, <3>2, <3>3 DEF JumpPath
 <2> QED BY <2>3 DEF Rounds, InLevel
<1>6. ASSUME AdvancePath(t) PROVE Rounds(t)' /\ Moves(t)
  BY <1>1, <1>6 DEF AdvancePath, Rounds, InLevel
<1>7. ASSUME LevelPath(t) PROVE Rounds(t)' /\ Moves(t)
  BY <1>7, Inner DEF InnerStep, Ringed, Rounds, InLevel
<1>8. Rounds(t)' /\ Moves(t)
 <2>1. (\E w : Follows(t, w)) \/ SumPath(t) \/ JumpPath(t) \/ AdvancePath(t) \/ LevelPath(t)
   BY StepPaths DEF WinsLevel, QuietStep, QuietPath, Joins
 <2> QED BY <1>3, <1>4, <1>5, <1>6, <1>7, <2>1
<1> QED BY <1>2, <1>8

LEMMA Moved ==
  ASSUME IInv, NEW t \in Thread, Step(t)
  PROVE  Moves(t) /\ my' \in [Thread -> ThreadShape] /\ \A s \in Thread : s # t => my'[s] = my[s]
<1>1. Moves(t)
 <2>1. SumPath(t) => Moves(t) BY DEF SumPath, Sees, SumsUp, Stays, HasSize
 <2>2. JumpPath(t) => Moves(t) BY DEF JumpPath, MovesOn, Jumps_, Lands
 <2>3. LevelPath(t) => Moves(t) BY Inner DEF InnerStep
 <2>4. AdvancePath(t) => Moves(t) BY DEF AdvancePath
 <2>5. ASSUME NEW w, Follows(t, w) PROVE Moves(t) BY <2>5 DEF Follows
 <2> QED BY StepPaths, <2>1, <2>2, <2>3, <2>4, <2>5 DEF WinsLevel, QuietStep, QuietPath, Joins
<1> QED BY <1>1 DEF Moves

LEMMA DirectedKept ==
  ASSUME IInv, NEW t \in Thread, Step(t)
  PROVE  \A s \in Thread : Directed(s)'
<1> USE DEF Deciding, Reusing, InTopDown, Looking, Starting, Reading, AtItem, InCodes,
            CodesLooking, CodesStarting, AtCode, InBottomUp, InBlock, Finding, Owning, Helping,
            HelpBegun, AtBlock
<1>1. ASSUME NEW s \in Thread, s # t PROVE Directed(s)'
 <2>1. my'[s] = my[s] /\ Directed(s) BY <1>1, Parts, Moved
 <2> QED BY <2>1 DEF Directed, InLevel
<1>2. ASSUME NEW w, Follows(t, w) PROVE Directed(t)' BY <1>2 DEF Follows, Directed, InLevel
<1>3. ASSUME SumPath(t) PROVE my'[t].pc \in Deciding
  BY <1>3 DEF SumPath, Sees, SumsUp, Stays, HasSize
<1>4. ASSUME JumpPath(t) \/ AdvancePath(t) PROVE my'[t].pc \in Deciding
  BY <1>4 DEF JumpPath, MovesOn, Jumps_, Lands, AdvancePath
<1>5. ASSUME my'[t].pc \in Deciding PROVE Directed(t)' BY <1>5 DEF Directed, InLevel
<1>6. ASSUME LevelPath(t) PROVE Directed(t)'
 <2>1. InnerStep(t) /\ Directed(t) BY <1>6, Inner, Parts
 <2> QED BY <2>1 DEF InnerStep, SameLevel, Directed, InLevel
<1>7. Directed(t)'
  BY StepPaths, <1>2, <1>3, <1>4, <1>5, <1>6 DEF WinsLevel, QuietStep, QuietPath, Joins
<1> QED BY <1>1, <1>7

\* A word as its parts.
LEMMA WordParts ==
  ASSUME NEW w \in WordType
  PROVE  w = Word(w.level, w.direction, w.codes_first)
  BY DEF WordType, Word

LEMMA Behind ==
  ASSUME IInv, NEW t \in Thread, Curr(t).plan_word.level > my[t].level
  PROVE  my[t].level + 2 <= Chosen
  BY WordHere, Words

\* The word of a thread's node after a step of another.
LEMMA OtherWord ==
  ASSUME IInv, NEW t \in Thread, Step(t), NEW s \in Thread, my'[s].level = my[s].level,
         my[s].level <= Chosen
  PROVE  /\ Curr(s).plan_word'.level \in Int /\ my[s].level \in Nat
         /\ \/ Curr(s).plan_word' = Curr(s).plan_word
            \/ Curr(s).plan_word'.level > my[s].level
<1>0. Curr(s).plan_word'.level \in Int
 <2>1. Here(s)' \in {0, 1} /\ nodes' \in NodesType BY Parts, Sides, Effects DEF Here
 <2> QED BY <2>1 DEF Curr, NodesType, WordType
<1>1. Here(s) \in {0, 1} /\ Here(s)' = Here(s) /\ my[s].level \in Nat /\ Chosen \in Int
  BY Parts, Sides, Words DEF Here
<1>2. Curr(s).plan_word' = nodes'[Here(s)].plan_word /\ Curr(s).plan_word = WordOf(Here(s))
  BY <1>1 DEF Curr, WordOf
<1>3. CASE QuietStep(t) BY <1>0, <1>1, <1>2, <1>3 DEF QuietStep, WordsSame, WordOf
<1>4. CASE \E w \in WordType : WinsLevel(t, w)
 <2>1. PICK w \in WordType : WinsLevel(t, w) BY <1>4
 <2>2. w.level = Chosen + 1
       /\ \A p \in {0, 1} : WordOf(p)' = IF p = Here(t) THEN w ELSE WordOf(p)
   BY <2>1, WinWords DEF WinsLevel, Wins
 <2>3. nodes'[Here(s)].plan_word = IF Here(s) = Here(t) THEN w ELSE WordOf(Here(s))
   BY <1>1, <2>2 DEF WordOf
 <2> QED BY <1>0, <1>1, <1>2, <2>2, <2>3
<1> QED BY <1>3, <1>4, StepPaths

LEMMA PlaceKept ==
  ASSUME IInv, NEW t \in Thread, Step(t)
  PROVE  \A s \in Thread : Place(s)'
<1> USE DEF Deciding, InLevel
<1>0. Chosen \in Int /\ Chosen' \in Int /\ (Chosen' = Chosen \/ Chosen' = Chosen + 1)
      /\ (\A s \in Thread : Place(s) /\ my[s].level \in Nat) /\ my[t].seen.level \in Int
  BY StepPaths, Words, WinWords, Parts, ThreadFields, WordFields DEF QuietStep, WinsLevel
<1>1. ASSUME NEW s \in Thread, s # t PROVE Place(s)'
 <2>1. my'[s] = my[s] /\ Place(s) /\ my[s].level \in Nat /\ my[s].seen \in WordType
       /\ my[s].seen.level \in Int
   BY <1>1, Parts, Moved, ThreadFields, WordFields
 <2>2. CASE QuietStep(t)
  <3>1. Curr(s).plan_word' = Curr(s).plan_word
   <4>1. Here(s) \in {0, 1} /\ Here(s)' = Here(s) BY <2>1, Parts, Sides DEF Here
   <4> QED BY <2>2, <4>1 DEF Curr, QuietStep, WordsSame, WordOf
  <3>2. Chosen' = Chosen /\ Latest' = Latest BY <2>2 DEF QuietStep
  <3> QED BY <2>1, <3>1, <3>2 DEF Place, Next_
 <2>3. CASE \E w \in WordType : WinsLevel(t, w)
  <3>1. Chosen' = Chosen + 1 /\ my[t].level = Chosen + 1 BY <2>3, WinWords DEF WinsLevel
  <3>2. my[s].level <= Chosen + 1 BY <2>1 DEF Place
  <3>3. \/ Curr(s).plan_word' = Curr(s).plan_word
        \/ Curr(s).plan_word'.level >= my[s].level
   <4>1. CASE my[s].level <= Chosen BY <1>0, <2>1, <4>1, OtherWord, WordHere
   <4>2. CASE my[s].level = Chosen + 1
    <5>1. PICK w \in WordType : WinsLevel(t, w) BY <2>3
    <5>2. w.level = my[t].level /\ Here(t) \in {0, 1}
          /\ \A p \in {0, 1} : WordOf(p)' = IF p = Here(t) THEN w ELSE WordOf(p)
      BY <5>1, Parts, Sides DEF WinsLevel, Wins
    <5>3. Here(s)' = Here(t) BY <2>1, <3>1, <4>2 DEF Here
    <5>4. Curr(s).plan_word' = nodes'[Here(t)].plan_word BY <5>3 DEF Curr
    <5>5. nodes'[Here(t)].plan_word = w BY <5>2 DEF WordOf
    <5> QED BY <3>1, <4>2, <5>2, <5>4, <5>5, <1>0
   <4> QED BY <1>0, <3>2, <4>1, <4>2
  <3>4. /\ my'[s].level <= Chosen' /\ ~Next_(s)'
        /\ my[s].pc \in {"tag", "sum", "choose"} => my[s].seen.level < my[s].level /\
             (Curr(s).plan_word'.level < my[s].level => Curr(s).plan_word' = my[s].seen)
   <4>1. my'[s].level <= Chosen' /\ ~Next_(s)' BY <1>0, <2>1, <3>1, <3>2 DEF Next_
   <4>2. CASE Curr(s).plan_word' = Curr(s).plan_word BY <2>1, <4>1, <4>2 DEF Place
   <4>3. CASE Curr(s).plan_word'.level >= my[s].level
    <5>1. Curr(s).plan_word'.level \in Int
     <6>1. Here(s)' \in {0, 1} /\ nodes' \in NodesType BY <2>1, Parts, Sides, Effects DEF Here
     <6> QED BY <6>1 DEF Curr, NodesType, WordType
    <5> QED BY <2>1, <4>1, <4>3, <5>1 DEF Place
   <4> QED BY <3>3, <4>2, <4>3
  <3> QED BY <1>0, <2>1, <3>1, <3>4 DEF Place
 <2> QED BY StepPaths, <2>2, <2>3
<1>2. ASSUME \E w \in WordType : WinsLevel(t, w) PROVE Place(t)'
  BY <1>0, <1>2, WinWords DEF WinsLevel, Follows, Place, Next_
<1>3. ASSUME QuietStep(t) PROVE Place(t)'
 <2>1. Chosen' = Chosen /\ Latest' = Latest /\ (\A p \in {0, 1} : WordOf(p)' = WordOf(p))
       /\ Here(t) \in {0, 1}
   BY <1>3, Parts, Sides DEF QuietStep, WordsSame
 <2>2. SameLevel(t) => Curr(t).plan_word' = Curr(t).plan_word
   BY <2>1 DEF SameLevel, Here, Curr, WordOf
 <2>3. CASE Joins(t) BY <1>0, <2>1, <2>3, WordHere DEF Joins, Follows, Place, Next_
 <2>4. CASE SumPath(t)
  <3>1. SameLevel(t) /\ my'[t].pc \in {"tag", "sum", "choose"}
    BY <2>4 DEF SumPath, Sees, SumsUp, Stays, HasSize
  <3>2. my'[t].seen.level < my[t].level
        /\ (Curr(t).plan_word.level < my[t].level => Curr(t).plan_word = my'[t].seen)
   <4>1. CASE Sees(t) /\ my[t].pc = "plan" /\ Curr(t).plan_word.level < my[t].level BY <4>1 DEF Sees
   <4>2. CASE SameSeen(t) /\ my[t].pc \in {"tag", "sum"} BY <1>0, <4>2 DEF SameSeen, Place
   <4> QED BY <2>4, <4>1, <4>2 DEF SumPath, SumsUp, Stays, HasSize
  <3>3. my[t].pc \in {"plan", "tag", "sum"} BY <2>4 DEF SumPath
  <3> QED BY <1>0, <2>1, <2>2, <3>1, <3>2, <3>3 DEF Place, Next_, SameLevel
 <2>5. CASE JumpPath(t)
  <3>1. CASE MovesOn(t) /\ Curr(t).plan_word.level > my[t].level
    BY <1>0, <2>1, <3>1, Behind DEF MovesOn, SameLevel, Place, Next_
  <3>2. CASE my[t].pc = "jump" /\ \E p \in {0, 1} : Jumps_(t, p)
   <4>1. PICK p \in {0, 1} : Jumps_(t, p) BY <3>2
   <4>2. WordOf(p).level \in {Chosen, Chosen - 1} /\ my[t].level + 2 <= Chosen
     BY <1>0, <3>2, Words DEF Place
   <4> QED BY <1>0, <2>1, <4>1, <4>2 DEF Jumps_, SameLevel, Place, Next_
  <3>3. CASE \E d \in my[t].level + 1 .. Chosen : Lands(t, d)
    BY <1>0, <2>1, <3>3 DEF Lands, Place, Next_
  <3> QED BY <2>5, <3>1, <3>2, <3>3 DEF JumpPath
 <2>6. CASE LevelPath(t)
  <3>1. InnerStep(t) BY <2>6, Inner
  <3> QED BY <1>0, <2>1, <3>1 DEF InnerStep, SameLevel, Place, Next_
 <2>7. CASE AdvancePath(t)
  <3>1. my[t].pc = "advance" /\ my'[t].pc = "plan" /\ my'[t].level = my[t].level + 1
        /\ my'[t].direction = my[t].direction
    BY <2>7 DEF AdvancePath
  <3>2. Current(t) => my[t].direction = Latest.direction /\ my[t].direction # "search_done"
   <4>1. Current(t) => Curr(t).plan_word = Latest /\ Latest.level = Chosen BY WordHere, Words
   <4>2. Directed(t) /\ (Curr(t).plan_word.level = my[t].level => Curr(t).plan_word = Followed(t))
     BY <3>1, Parts DEF IInv, WordsInv, OneWord
   <4>3. Current(t) => Latest = Followed(t) BY <4>1, <4>2 DEF Current
   <4> QED BY <3>1, <4>2, <4>3 DEF Directed, Followed, Word
  <3> QED BY <1>0, <2>1, <3>1, <3>2 DEF Place, Next_, Current
 <2> QED BY <1>3, <2>3, <2>4, <2>5, <2>6, <2>7 DEF QuietStep, QuietPath
<1> QED BY StepPaths, <1>1, <1>2, <1>3

LEMMA WordOfLevel ==
  ASSUME IInv, NEW s \in Thread, InLevel(s)
  PROVE  /\ my[s].level \in Nat /\ my[s].level <= Chosen /\ Curr(s).plan_word.level >= my[s].level
         /\ Curr(s).plan_word.level = my[s].level => Curr(s).plan_word = Followed(s)
         /\ \A r \in Thread : InLevel(r) /\ my[r].level = my[s].level => Followed(s) = Followed(r)
<1>1. OneWord /\ Place(s) /\ my[s].level \in Nat BY Parts, ThreadFields DEF IInv, WordsInv
<1> QED BY <1>1 DEF OneWord, Place

LEMMA OneWordKept ==
  ASSUME IInv, NEW t \in Thread, Step(t)
  PROVE  OneWord'
<1> DEFINE F(s) == Word(my'[s].level, my'[s].direction, my'[s].codes_first)
           W(s) == Curr(s).plan_word'
           L(s) == my'[s].pc \notin Deciding
<1>0. Chosen \in Int /\ (\A s \in Thread : my[s].level \in Nat) /\ Moves(t)
  BY Words, Parts, ThreadFields, Moved
<1>1. ASSUME NEW s \in Thread, s # t, L(s)
      PROVE  /\ InLevel(s) /\ F(s) = Followed(s) /\ my'[s] = my[s] /\ my[s].level <= Chosen
             /\ W(s).level >= my'[s].level /\ (W(s).level = my'[s].level => W(s) = F(s))
 <2>1. my'[s] = my[s] /\ InLevel(s) BY <1>1, Moved DEF InLevel
 <2>2. F(s) = Followed(s) BY <2>1 DEF Followed
 <2>3. /\ my[s].level <= Chosen /\ Curr(s).plan_word.level >= my[s].level
       /\ Curr(s).plan_word.level = my[s].level => Curr(s).plan_word = Followed(s)
   BY <2>1, WordOfLevel
 <2>4. /\ W(s).level \in Int /\ my[s].level \in Nat
       /\ W(s) = Curr(s).plan_word \/ W(s).level > my[s].level
   BY <2>1, <2>3, OtherWord
 <2>5. CASE W(s) = Curr(s).plan_word BY <2>1, <2>2, <2>3, <2>5
 <2>6. CASE W(s).level > my[s].level BY <2>1, <2>2, <2>3, <2>4, <2>6
 <2> QED BY <2>4, <2>5, <2>6
<1>2. ASSUME L(t)
      PROVE  /\ W(t).level >= my'[t].level /\ (W(t).level = my'[t].level => W(t) = F(t))
             /\ \A s \in Thread : s # t /\ L(s) /\ my'[s].level = my'[t].level => F(s) = F(t)
 <2>1. CASE \E w \in WordType : WinsLevel(t, w)
  <3>1. PICK w \in WordType : WinsLevel(t, w) BY <2>1
  <3>2. my[t].level = Chosen + 1 /\ w.level = Chosen + 1 BY <3>1, WinWords DEF WinsLevel
  <3>3. F(t) = w /\ my'[t].level = my[t].level BY <3>1, <3>2, WordParts DEF WinsLevel, Follows
  <3>4. W(t) = w
   <4>1. Here(t)' = Here(t) /\ Here(t) \in {0, 1} BY <3>3, Parts, Sides DEF Here
   <4>2. WordOf(Here(t))' = w BY <3>1, <4>1 DEF WinsLevel, Wins
   <4> QED BY <4>1, <4>2 DEF Curr, WordOf
  <3>5. \A s \in Thread : s # t /\ L(s) => my'[s].level # my'[t].level BY <1>0, <1>1, <3>2, <3>3
  <3> QED BY <1>0, <3>2, <3>3, <3>4, <3>5
 <2>2. ASSUME QuietStep(t), my'[t].level = my[t].level PROVE W(t) = Curr(t).plan_word
  <3>1. Here(t)' = Here(t) /\ Here(t) \in {0, 1} BY <2>2, Parts, Sides DEF Here
  <3> QED BY <2>2, <3>1 DEF QuietStep, WordsSame, Curr, WordOf
 <2>3. CASE QuietStep(t) /\ Joins(t)
  <3> DEFINE w == Curr(t).plan_word
  <3>1. w \in WordType /\ w.level = my[t].level /\ Follows(t, w) BY <2>3, WordHere DEF Joins
  <3>2. F(t) = w /\ my'[t].level = my[t].level /\ W(t) = w
    BY <2>2, <2>3, <3>1, WordParts DEF Follows
  <3>3. ASSUME NEW s \in Thread, s # t, L(s), my'[s].level = my'[t].level PROVE F(s) = F(t)
   <4>1. InLevel(s) /\ F(s) = Followed(s) /\ my'[s] = my[s] BY <1>1, <3>3
   <4>2. Curr(s) = Curr(t) /\ my[s].level = my[t].level BY <3>2, <3>3, <4>1 DEF Curr, Here
   <4>3. Curr(s).plan_word = Followed(s) BY <3>1, <4>1, <4>2, WordOfLevel
   <4> QED BY <3>2, <4>1, <4>2, <4>3
  <3> QED BY <1>0, <3>1, <3>2, <3>3
 <2>4. CASE QuietStep(t) /\ LevelPath(t)
  <3>1. InnerStep(t) /\ InLevel(t) BY <2>4, Inner DEF InnerStep, InLevel
  <3>2. SameLevel(t) /\ F(t) = Followed(t) /\ W(t) = Curr(t).plan_word
    BY <2>2, <2>4, <3>1 DEF InnerStep, SameLevel, Followed
  <3>3. /\ Curr(t).plan_word.level >= my[t].level
        /\ Curr(t).plan_word.level = my[t].level => Curr(t).plan_word = Followed(t)
        /\ \A r \in Thread : InLevel(r) /\ my[r].level = my[t].level => Followed(t) = Followed(r)
    BY <3>1, WordOfLevel
  <3>4. ASSUME NEW s \in Thread, s # t, L(s), my'[s].level = my'[t].level PROVE F(s) = F(t)
   <4>1. InLevel(s) /\ F(s) = Followed(s) /\ my'[s] = my[s] BY <1>1, <3>4
   <4> QED BY <3>2, <3>3, <3>4, <4>1 DEF SameLevel
  <3> QED BY <3>2, <3>3, <3>4 DEF SameLevel
 <2>5. ~(SumPath(t) \/ JumpPath(t) \/ AdvancePath(t))
   BY <1>2 DEF SumPath, Sees, SumsUp, Stays, HasSize, JumpPath, MovesOn, Jumps_, Lands, AdvancePath,
      Deciding
 <2> QED BY StepPaths, <2>1, <2>3, <2>4, <2>5 DEF QuietStep, QuietPath
<1> HIDE DEF F, W, L
<1>3. \A s \in Thread : L(s) =>
        /\ W(s).level >= my'[s].level /\ (W(s).level = my'[s].level => W(s) = F(s))
        /\ \A r \in Thread : L(r) /\ my'[r].level = my'[s].level => F(s) = F(r)
 <2> SUFFICES ASSUME NEW s \in Thread, L(s)
              PROVE  /\ W(s).level >= my'[s].level /\ (W(s).level = my'[s].level => W(s) = F(s))
                     /\ \A r \in Thread : L(r) /\ my'[r].level = my'[s].level => F(s) = F(r)
   OBVIOUS
 <2>1. W(s).level >= my'[s].level /\ (W(s).level = my'[s].level => W(s) = F(s)) BY <1>1, <1>2
 <2>2. ASSUME NEW r \in Thread, L(r), my'[r].level = my'[s].level PROVE F(s) = F(r)
  <3>1. CASE s # t /\ r # t
   <4>1. InLevel(s) /\ F(s) = Followed(s) /\ my'[s] = my[s] BY <1>1, <3>1
   <4>2. InLevel(r) /\ F(r) = Followed(r) /\ my'[r] = my[r] BY <1>1, <2>2, <3>1
   <4> QED BY <2>2, <4>1, <4>2, WordOfLevel
  <3>2. CASE s = t BY <1>2, <2>2, <3>2
  <3>3. CASE r = t BY <1>2, <2>2, <3>3
  <3> QED BY <3>1, <3>2, <3>3
 <2> QED BY <2>1, <2>2
<1> QED BY <1>3 DEF OneWord, InLevel, Followed, F, W, L, Word

LEMMA WordsKept ==
  ASSUME IInv, NEW t \in Thread, Step(t)
  PROVE  WordsInv'
  BY WordsInOrderKept, OneWordKept, PlaceKept, DirectedKept DEF WordsInv

(***************************************************************************)
(* The tags.                                                               *)
(***************************************************************************)
LEMMA OwnsIt ==
  ASSUME IInv, NEW t \in Thread,
         my[t].pc \in {"reset", "progress", "own_progress", "codes_progress"}
  PROVE  my[t].owner = t
<1>1. InLevel(t) /\ Entries(t) /\ CodeEntries(t) BY Parts DEF InLevel, Deciding
<1> QED BY <1>1, RingAt DEF Entries, CodeEntries, Own, Reusing, Owning

\* Only a thread itself moves its progress.
LEMMA OthersProgress ==
  ASSUME IInv, NEW t \in Thread, MarkSteps(t), NEW p \in {0, 1}, NEW o \in Thread, o # t
  PROVE  LastAt(p, o)' = LastAt(p, o) /\ CodesLastAt(p, o)' = CodesLastAt(p, o)
<1>1. MarkStep(t, p, o) BY DEF MarkSteps
<1>2. my[t].pc \in {"reset", "progress", "own_progress", "codes_progress"} => ~HereAt(t, p, o)
  BY OwnsIt DEF HereAt
<1> QED BY <1>1, <1>2 DEF MarkStep

Ready == Deciding \cup {"reset", "empty", "retag", "returned"}

LEMMA TagsAt ==
  ASSUME IInv, NEW t \in Thread
  PROVE  /\ Bucket(Here(t), t).level <= my[t].level /\ Bucket(Here(t), t).level \in Int
         /\ Mine(t).level \in Int /\ Mine(t).size \in Nat /\ my[t].level \in Nat
         /\ my[t].pc \in Ready => Mine(t).level <= my[t].level - 1
         /\ my[t].pc \notin Ready => Mine(t).level = my[t].level + 1
         /\ my[t].pc \in {"retag", "reserve"} \cup InCodes => Mine(t).size = 0
         /\ my[t].pc \in {"empty", "retag"} =>
              LastAt(Here(t), t) = 0 /\ CodesLastAt(Here(t), t) = 0
<1>1. Tags(t) /\ Here(t) \in {0, 1} /\ There(t) \in {0, 1} /\ my[t].level \in Nat BY Parts, Sides
<1>2. Bucket(Here(t), t).level \in Int /\ Mine(t).level \in Int /\ Mine(t).size \in Nat
  BY <1>1, SoundBucket DEF Mine
<1> QED BY <1>1, <1>2 DEF Tags, Ready, LastAt, CodesLastAt

\* The buckets of a thread for two levels, after a step in which it keeps its level.
LEMMA SidesStay ==
  ASSUME IInv, NEW t \in Thread, Step(t), NEW s \in Thread, my'[s].level = my[s].level
  PROVE  /\ Here(s)' = Here(s) /\ There(s)' = There(s) /\ Here(s) \in {0, 1} /\ There(s) \in {0, 1}
         /\ Mine(s)' = Bucket(There(s), s)'
         /\ Bucket(Here(s), s)' = Bucket(Here(s), s)
         /\ s # t => Mine(s)' = Mine(s)
         /\ s = t => BucketStep(t, Mine(t), Mine(t)')
<1>1. Here(s)' = Here(s) /\ There(s)' = There(s) /\ Here(s) \in {0, 1} /\ There(s) \in {0, 1}
      /\ Here(s) # There(s) /\ There(t) \in {0, 1}
  BY Parts, Sides DEF Here, There
<1>2. BucketSteps(t) BY Effects
<1>3. \A o \in Thread : Bucket(There(s), o)' = nodes'[There(s)].owners[o].bucket BY <1>1 DEF Bucket
<1>4. Mine(s)' = nodes'[There(s)].owners[s].bucket BY <1>1 DEF Mine, Bucket
<1>5. s = t => BucketStep(t, Mine(t), Mine(t)')
 <2>1. PICK p \in {0, 1} : p = There(t) BY <1>1
 <2>2. BucketStep(t, Bucket(p, t), Bucket(p, t)') BY <1>2, <2>1 DEF BucketSteps
 <2>3. Bucket(p, t) = Mine(t) /\ (s = t => Bucket(p, t)' = Mine(t)')
   BY <1>1, <1>4, <2>1 DEF Mine, Bucket
 <2> QED BY <2>2, <2>3
<1>6. s # t => Bucket(There(s), s)' = Bucket(There(s), s) BY <1>1, <1>2 DEF BucketSteps
<1>7. Bucket(Here(s), s)' = Bucket(Here(s), s)
 <2>1. PICK p \in {0, 1} : p = Here(s) BY <1>1
 <2>2. p # There(t) \/ s # t BY <1>1, <2>1
 <2>3. Bucket(p, s)' = Bucket(p, s) BY <1>2, <2>2 DEF BucketSteps
 <2> QED BY <1>1, <2>1, <2>3 DEF Bucket
<1> QED BY <1>1, <1>3, <1>4, <1>5, <1>6, <1>7 DEF Mine

LEMMA TagsIf ==
  ASSUME NEW s \in Thread,
         Bucket(Here(s), s)'.level <= my'[s].level,
         my'[s].pc \in Ready => Mine(s)'.level <= my'[s].level - 1,
         my'[s].pc \notin Ready => Mine(s)'.level = my'[s].level + 1,
         my'[s].pc \in {"retag", "reserve"} \cup InCodes => Mine(s)'.size = 0,
         my'[s].pc \in {"empty", "retag"} =>
           nodes'[Here(s)'].owners[s].last_done = 0 /\ nodes'[Here(s)'].owners[s].codes_last_done = 0
  PROVE  Tags(s)'
  BY DEF Tags, Ready

LEMMA OtherTags ==
  ASSUME IInv, NEW t \in Thread, Step(t), NEW s \in Thread, s # t
  PROVE  Tags(s)'
<1>1. my'[s] = my[s] /\ MarkSteps(t) BY Moved, Effects
<1>2. Here(s)' = Here(s) /\ Here(s) \in {0, 1} /\ Bucket(Here(s), s)' = Bucket(Here(s), s)
      /\ Mine(s)' = Mine(s)
  BY <1>1, SidesStay
<1>3. PICK p \in {0, 1} : p = Here(s) BY <1>2
<1>4. LastAt(p, s)' = LastAt(p, s) /\ CodesLastAt(p, s)' = CodesLastAt(p, s) BY <1>1, OthersProgress
<1>5. nodes'[Here(s)'].owners[s].last_done = LastAt(Here(s), s)
      /\ nodes'[Here(s)'].owners[s].codes_last_done = CodesLastAt(Here(s), s)
  BY <1>2, <1>3, <1>4 DEF LastAt, CodesLastAt
<1> QED BY <1>1, <1>2, <1>5, TagsAt, TagsIf

LEMMA OwnTags ==
  ASSUME IInv, NEW t \in Thread, Step(t)
  PROVE  Tags(t)'
<1> USE DEF Ready, Deciding
<1>0. /\ Bucket(Here(t), t).level <= my[t].level /\ Bucket(Here(t), t).level \in Int
      /\ Mine(t).level \in Int /\ Mine(t).size \in Nat /\ my[t].level \in Nat
      /\ my[t].pc \in Ready => Mine(t).level <= my[t].level - 1
      /\ my[t].pc \notin Ready => Mine(t).level = my[t].level + 1
      /\ my[t].pc \in {"retag", "reserve"} \cup InCodes => Mine(t).size = 0
      /\ my[t].pc \in {"empty", "retag"} => LastAt(Here(t), t) = 0 /\ CodesLastAt(Here(t), t) = 0
  BY TagsAt
<1>1. my'[t].level = my[t].level =>
        /\ Here(t)' = Here(t) /\ Here(t) \in {0, 1}
        /\ Bucket(Here(t), t)' = Bucket(Here(t), t) /\ BucketStep(t, Mine(t), Mine(t)')
  BY SidesStay
<1>2. ASSUME my'[t].level = my[t].level, my[t].pc \in Deciding,
             my'[t].pc \in Deciding \cup {"reset", "returned"}
      PROVE  Tags(t)'
 <2>1. Mine(t)' = Mine(t) BY <1>1, <1>2 DEF BucketStep
 <2> QED BY <1>0, <1>1, <1>2, <2>1, TagsIf DEF InCodes, CodesLooking, CodesStarting, AtCode
<1>3. ASSUME NEW w, Follows(t, w), my[t].pc \in Deciding PROVE Tags(t)' BY <1>2, <1>3 DEF Follows
<1>4. ASSUME SumPath(t) PROVE Tags(t)'
 <2>1. my'[t].level = my[t].level /\ my[t].pc \in Deciding /\ my'[t].pc \in Deciding
   BY <1>4 DEF SumPath, Sees, SumsUp, Stays, HasSize, SameLevel
 <2> QED BY <1>2, <2>1
<1>5. ASSUME my'[t].level > my[t].level, my[t].pc \in Ready \/ my'[t].level = my[t].level + 1,
             my[t].pc \in {"jump_other", "advance"}, my'[t].pc = "plan"
      PROVE  Tags(t)'
 <2>1. my'[t].level \in Nat BY Moved, ThreadFields DEF ThreadShape
 <2>2. \A q \in {0, 1} : Bucket(q, t)' = Bucket(q, t)
  <3>1. BucketSteps(t) BY Effects
  <3> QED BY <1>5, <3>1 DEF BucketSteps, BucketStep
 <2>3. Here(t)' \in {0, 1} /\ There(t)' \in {0, 1} /\ Here(t) \in {0, 1} /\ There(t) = 1 - Here(t)
       /\ There(t)' = 1 - Here(t)'
   BY <2>1, Parts, Sides, Parity DEF Here, There
 <2>4. nodes'[Here(t)'].owners[t].bucket = nodes[Here(t)'].owners[t].bucket
       /\ nodes'[There(t)'].owners[t].bucket = nodes[There(t)'].owners[t].bucket
   BY <2>2, <2>3 DEF Bucket
 <2>5. CASE Here(t)' = Here(t)
  <3>1. Bucket(Here(t), t)' = Bucket(Here(t), t) /\ Mine(t)' = Mine(t)
    BY <2>3, <2>4, <2>5 DEF Bucket, Mine
  <3>2. my'[t].level # my[t].level + 1 BY <1>0, <2>1, <2>5, Parity DEF Here
  <3> QED BY <1>0, <1>5, <2>1, <3>1, <3>2, TagsIf DEF InCodes, CodesLooking, CodesStarting, AtCode
 <2>6. CASE Here(t)' = There(t)
  <3>1. There(t)' = Here(t) BY <2>3, <2>6
  <3>2. Bucket(Here(t), t)' = Mine(t) /\ Mine(t)' = Bucket(Here(t), t)
    BY <2>3, <2>4, <2>6, <3>1 DEF Bucket, Mine
  <3> QED BY <1>0, <1>5, <2>1, <3>2, TagsIf DEF InCodes, CodesLooking, CodesStarting, AtCode
 <2> QED BY <2>3, <2>5, <2>6
<1>6. ASSUME JumpPath(t) PROVE Tags(t)'
 <2>1. ASSUME MovesOn(t), my[t].pc \in {"plan", "choose"} PROVE Tags(t)'
   BY <1>2, <2>1 DEF MovesOn, SameLevel
 <2>2. ASSUME my[t].pc = "jump", NEW p \in {0, 1}, Jumps_(t, p) PROVE Tags(t)'
   BY <1>2, <2>2 DEF Jumps_, SameLevel
 <2>3. ASSUME my[t].pc = "jump_other", NEW d \in my[t].level + 1 .. Chosen, Lands(t, d)
       PROVE  Tags(t)'
   BY <1>0, <1>5, <2>3, Words DEF Lands
 <2> QED BY <1>6, <2>1, <2>2, <2>3 DEF JumpPath
<1>7. ASSUME AdvancePath(t) PROVE Tags(t)' BY <1>0, <1>5, <1>7 DEF AdvancePath
<1>8. ASSUME ReusePath(t) PROVE Tags(t)'
 <2>1. my'[t].level = my[t].level /\ MarkSteps(t) /\ my[t].owner = t
  <3>1. my[t].turn = 0 /\ (Own(t) <=> my[t].turn = 0)
    BY <1>8, RingAt, ReuseWithin DEF InLevel, Reusing
  <3> QED BY <1>8, <3>1, Effects DEF ReusePath, Stays, SameLevel, Own
 <2>2. PICK p \in {0, 1} : p = Here(t) BY <1>1, <2>1
 <2>3. MarkStep(t, p, t) /\ HereAt(t, p, t) BY <2>1, <2>2 DEF MarkSteps, HereAt
 <2>4. LastAt(p, t)' = nodes'[Here(t)'].owners[t].last_done
       /\ CodesLastAt(p, t)' = nodes'[Here(t)'].owners[t].codes_last_done
   BY <1>1, <2>1, <2>2 DEF LastAt, CodesLastAt
 <2>5. CASE my[t].pc = "reset" /\ my'[t].pc = "empty"
  <3>1. LastAt(p, t)' = 0 /\ CodesLastAt(p, t)' = 0 BY <2>3, <2>5 DEF MarkStep
  <3>2. Mine(t)' = Mine(t) BY <1>1, <2>1, <2>5 DEF BucketStep
  <3> QED
    BY <1>0, <1>1, <2>1, <2>4, <2>5, <3>1, <3>2, TagsIf DEF InCodes, CodesLooking, CodesStarting, AtCode
 <2>6. CASE my[t].pc = "empty" /\ my'[t].pc = "retag"
  <3>1. LastAt(p, t)' = 0 /\ CodesLastAt(p, t)' = 0 BY <1>0, <2>2, <2>3, <2>6 DEF MarkStep
  <3>2. Mine(t)'.size = 0 /\ Mine(t)'.level = Mine(t).level BY <1>1, <2>1, <2>6 DEF BucketStep
  <3> QED BY <1>0, <1>1, <2>1, <2>4, <2>6, <3>1, <3>2, TagsIf
 <2>7. CASE my[t].pc = "retag"
  <3>1. my'[t].pc \in {"done", "codes", "reserve"} BY <1>8, <2>7 DEF ReusePath
  <3>2. Mine(t)'.size = 0 /\ Mine(t)'.level = my[t].level + 1
    BY <1>0, <1>1, <2>1, <2>7 DEF BucketStep
  <3> QED BY <1>0, <1>1, <2>1, <3>1, <3>2, TagsIf
 <2> QED BY <1>8, <2>5, <2>6, <2>7 DEF ReusePath
<1>9. ASSUME my'[t].level = my[t].level, my[t].pc \notin Ready, my'[t].pc \notin Ready,
             my'[t].pc \in {"reserve"} \cup InCodes => my[t].pc \in InCodes
      PROVE  Tags(t)'
 <2>1. Mine(t)'.level = Mine(t).level BY <1>1, <1>9 DEF BucketStep, Pushed
 <2>2. my[t].pc \in InCodes => Mine(t)' = Mine(t)
   BY <1>1, <1>9 DEF BucketStep, InCodes, CodesLooking, CodesStarting, AtCode
 <2> QED BY <1>0, <1>1, <1>9, <2>1, <2>2, TagsIf
<1>10. ASSUME TopPath(t) \/ CodesPath(t) \/ ScanPath(t) \/ BlocksPath(t) \/ MarkPath(t)
       PROVE  Tags(t)'
 <2>1. /\ my'[t].level = my[t].level /\ my[t].pc \notin Ready /\ my'[t].pc \notin Ready
       /\ my'[t].pc \in {"reserve"} \cup InCodes => my[t].pc \in InCodes
   BY <1>10, TopWithin, CodesWithin, ScanWithin, BlocksWithin, MarkWithin DEF Within, SameLevel,
      InTopDown, Looking, Starting, Reading, AtItem, InCodes, CodesLooking, CodesStarting, AtCode,
      InBlock, Finding, InBlocks, Owning, Helping, HelpBegun, AtBlock, Ending
 <2> QED BY <1>9, <2>1
<1>11. ASSUME NEW w, WinsLevel(t, w) PROVE Tags(t)'
 <2>1. my[t].pc \in Deciding /\ Follows(t, w) BY <1>11 DEF WinsLevel, Wins
 <2> QED BY <1>3, <2>1
<1>12. ASSUME Joins(t) PROVE Tags(t)'
 <2>1. my[t].pc \in Deciding /\ \E w : Follows(t, w) BY <1>12 DEF Joins
 <2> QED BY <1>3, <2>1
<1> QED
  BY StepPaths, <1>4, <1>6, <1>7, <1>8, <1>10, <1>11, <1>12 DEF QuietStep, QuietPath, LevelPath

LEMMA TagsKept ==
  ASSUME IInv, NEW t \in Thread, Step(t)
  PROVE  \A s \in Thread : Tags(s)'
  BY OtherTags, OwnTags

LEMMA BucketsSoundKept ==
  ASSUME IInv, NEW t \in Thread, Step(t)
  PROVE  BucketsSound'
<1>1. SUFFICES ASSUME NEW p \in {0, 1}, NEW o \in Thread
               PROVE  LET b == Bucket(p, o)'
                      IN /\ b.level >= None /\ b.size <= Len(b.list)
                         /\ \A i \in 1 .. b.size : b.list[i] \in Vertex /\ Delta[b.list[i]] = b.level
  BY DEF BucketsSound
<1> DEFINE b == Bucket(p, o)
           c == Bucket(p, o)'
<1>2. /\ b.level \in Int /\ b.size \in Nat /\ Len(b.list) \in Nat /\ b.size <= Len(b.list)
      /\ b.level >= None
      /\ \A i \in 1 .. b.size : b.list[i] \in Vertex /\ Delta[b.list[i]] = b.level
  BY SoundBucket DEF None
<1>3. BucketSteps(t) BY Effects
<1> HIDE DEF b, c
<1>4. CASE p = There(t) /\ o = t
 <2>1. BucketStep(t, b, c) /\ b = Mine(t) BY <1>3, <1>4 DEF BucketSteps, b, c, Mine
 <2>2. /\ my[t].pc \in {"retag", "reserve"} => b.size = 0
       /\ my[t].pc \in {"push", "found"} => b.level = my[t].level + 1
       /\ my[t].level \in Nat
   BY <2>1, TagsAt DEF Ready, Deciding
 <2>3. /\ my[t].pc = "push" => V(t) \in Vertex /\ Delta[V(t)] = my[t].level + 1
       /\ my[t].pc = "found" => C(t) \in Vertex /\ Delta[C(t)] = my[t].level + 1
   BY VFacts, CFacts, Parts DEF ItemView, Finding
 <2>4. ASSUME NEW x \in Vertex, Pushed(b, c, x), Delta[x] = b.level
       PROVE  /\ c.level >= None /\ c.size <= Len(c.list)
              /\ \A i \in 1 .. c.size : c.list[i] \in Vertex /\ Delta[c.list[i]] = c.level
  <3>1. c.level = b.level /\ c.size = b.size + 1 /\ c.size <= Len(c.list) /\ c.list[c.size] = x
        /\ \A i \in 1 .. b.size : c.list[i] = b.list[i]
    BY <2>4 DEF Pushed
  <3>2. ASSUME NEW i \in 1 .. c.size PROVE c.list[i] \in Vertex /\ Delta[c.list[i]] = c.level
   <4>1. CASE i = c.size BY <2>4, <3>1, <4>1
   <4>2. CASE i \in 1 .. b.size BY <1>2, <3>1, <4>2
   <4> QED BY <1>2, <3>1, <3>2, <4>1, <4>2
  <3> QED BY <1>2, <3>1, <3>2
 <2>5. CASE my[t].pc \in {"push", "found"}
  <3>1. PICK x \in Vertex : Pushed(b, c, x) /\ Delta[x] = b.level
    BY <2>1, <2>2, <2>3, <2>5 DEF BucketStep
  <3> QED BY <2>4, <3>1 DEF c
 <2>6. CASE my[t].pc \notin {"push", "found"}
  <3>1. /\ c.level >= None /\ c.size <= Len(c.list)
        /\ \A i \in 1 .. c.size : c.list[i] \in Vertex /\ Delta[c.list[i]] = c.level
    BY <1>2, <2>1, <2>2, <2>6 DEF BucketStep, None
  <3> QED BY <3>1 DEF c
 <2> QED BY <2>5, <2>6
<1>5. CASE ~(p = There(t) /\ o = t)
 <2>1. c = b BY <1>3, <1>5 DEF BucketSteps, b, c
 <2> QED BY <1>2, <2>1 DEF b, c
<1> QED BY <1>4, <1>5

(***************************************************************************)
(* What a thread sees stays as it is when another thread takes a step.     *)
(***************************************************************************)
LEMMA ChosenGrows ==
  ASSUME IInv, NEW t \in Thread, Step(t)
  PROVE  Chosen \in Int /\ Chosen' \in Int /\ Chosen' >= Chosen /\ Chosen >= -1
  BY StepPaths, Words, WinWords DEF QuietStep, WinsLevel

LEMMA OthersView ==
  ASSUME IInv, NEW t \in Thread, Step(t), NEW s \in Thread, s # t
  PROVE  /\ my'[s] = my[s]
         /\ InLevel(s) /\ Current(s)' => Current(s)
         /\ At_(s).size \in Nat /\ Len(At_(s).list) \in Nat /\ Len(At_(s)'.list) \in Nat
         /\ At_(s)'.size \in Nat
         /\ Len(At_(s)'.list) >= Len(At_(s).list)
         /\ Firm(s) /\ At_(s).level = my[s].level => Grows(At_(s), At_(s)')
         /\ Current(s) /\ Bucket(There(s), my[s].owner).level = my[s].level + 1 =>
              Bucket(There(s), my[s].owner)'.level = my[s].level + 1
<1>1. my'[s] = my[s] /\ BucketSteps(t) /\ nodes' \in NodesType BY Moved, Effects
<1>2. Here(s)' = Here(s) /\ There(s)' = There(s) /\ Here(s) \in {0, 1} /\ There(s) \in {0, 1}
      /\ Here(s) # There(s) /\ my[s].owner \in Thread /\ my[s].level \in Nat
  BY <1>1, Parts, Sides DEF Here, There
<1>3. InLevel(s) /\ Current(s)' => Current(s)
 <2>1. InLevel(s) => my[s].level <= Chosen BY Parts DEF Place
 <2> QED BY <1>1, <1>2, <2>1, ChosenGrows DEF Current
<1>4. PICK p \in {0, 1} : p = Here(s) BY <1>2
<1>5. PICK q \in {0, 1} : q = There(s) BY <1>2
<1>6. PICK o \in Thread : o = my[s].owner BY <1>2
<1>7. At_(s) = Bucket(p, o) /\ At_(s)' = Bucket(p, o)' BY <1>1, <1>2, <1>4, <1>6 DEF At_, Bucket
<1>8. Bucket(There(s), my[s].owner) = Bucket(q, o)
      /\ Bucket(There(s), my[s].owner)' = Bucket(q, o)'
  BY <1>1, <1>2, <1>5, <1>6 DEF Bucket
<1>9. Bucket(p, o) \in BucketType /\ Bucket(p, o)' \in BucketType /\ Bucket(p, o).level \in Int
  BY <1>1, Parts, NodeFields, SoundBucket DEF NodesType, OwnerShape, Bucket
<1>10. Bucket(p, o).size \in Nat /\ Len(Bucket(p, o).list) \in Nat
       /\ Bucket(p, o)'.size \in Nat /\ Len(Bucket(p, o)'.list) \in Nat
  BY <1>9, BucketFields
<1>11. ASSUME Firm(s), Bucket(p, o).level = my[s].level PROVE Grows(Bucket(p, o), Bucket(p, o)')
 <2>1. CASE Own(s)
  <3>1. Bucket(p, o)' = Bucket(p, o) BY <1>1, <1>6, <2>1, SteadyBuckets DEF Own
  <3> QED BY <1>10, <3>1 DEF Grows
 <2>2. CASE Current(s)
  <3>1. Bucket(p, o).level >= Chosen BY <1>11, <2>2, Words DEF Current
  <3> QED BY <1>1, <3>1, SteadyBuckets
 <2> QED BY <1>11, <2>1, <2>2 DEF Firm
<1>12. ASSUME Current(s), Bucket(q, o).level = my[s].level + 1
       PROVE  Bucket(q, o)'.level = my[s].level + 1
 <2>1. Bucket(q, o).level >= Chosen BY <1>12, Words DEF Current
 <2> QED BY <1>1, <1>12, <2>1, SteadyBuckets DEF Grows
<1>13. Len(Bucket(p, o)'.list) >= Len(Bucket(p, o).list) BY <1>1, SteadyBuckets
<1> QED BY <1>1, <1>3, <1>7, <1>8, <1>10, <1>11, <1>12, <1>13

LEMMA OtherEntries ==
  ASSUME IInv, NEW t \in Thread, Step(t), NEW s \in Thread, s # t
  PROVE  Entries(s)'
<1> DEFINE A == At_(s)
           B == At_(s)'
<1>1. /\ my'[s] = my[s] /\ (InLevel(s) /\ Current(s)' => Current(s))
      /\ A.size \in Nat /\ Len(A.list) \in Nat /\ Len(B.list) \in Nat /\ B.size \in Nat
      /\ Len(B.list) >= Len(A.list)
      /\ Firm(s) /\ A.level = my[s].level => Grows(A, B)
      /\ Current(s) /\ Bucket(There(s), my[s].owner).level = my[s].level + 1 =>
            Bucket(There(s), my[s].owner)'.level = my[s].level + 1
  BY OthersView
<1>2. Entries(s) /\ my[s].sz \in Nat /\ my[s].item \in Nat BY Parts, ThreadFields
<1>3. CASE my[s].pc \in {"size", "load"} \cup Starting \cup Reading
 <2>1. InLevel(s) BY <1>3 DEF Starting, Reading, AtItem, InLevel, Deciding
 <2>2. Firm(s)' => Firm(s) /\ A.level = my[s].level /\ Grows(A, B)
   BY <1>1, <1>2, <1>3, <2>1 DEF Firm, Own, Entries
 <2>3. Firm(s)' => B.level = my[s].level /\ (A.size > 0 => B.size > 0)
       /\ (my[s].sz <= A.size => my[s].sz <= B.size)
   BY <1>1, <1>2, <2>2 DEF Grows
 <2>4. my[s].pc \in Starting \cup Reading => my[s].sz <= Len(B.list) BY <1>1, <1>2 DEF Entries
 <2>5. my[s].pc \in AtItem \cup {"at_level"} /\ Firm(s)' => my[s].u = B.list[my[s].item]
  <3>1. ASSUME my[s].pc \in AtItem \cup {"at_level"}, Firm(s)' PROVE my[s].u = B.list[my[s].item]
   <4>1. my[s].pc \in Reading \ {"entry"} BY <3>1 DEF Reading, AtItem
   <4>2. my[s].item \in 1 .. my[s].sz /\ my[s].sz <= A.size /\ my[s].u = A.list[my[s].item]
     BY <1>2, <2>2, <3>1, <4>1 DEF Entries
   <4>3. my[s].item \in 1 .. A.size BY <1>1, <1>2, <4>2
   <4> QED BY <2>2, <3>1, <4>2, <4>3 DEF Grows
  <3> QED BY <3>1
 <2>6. my[s].pc = "start" /\ Current(s)' => Bucket(There(s), my[s].owner)'.level = my[s].level + 1
   BY <1>1, <1>2, <2>1 DEF Entries
 <2>7. /\ my[s].pc = "load" /\ Firm(s)' => B.size > 0
       /\ my[s].pc \in Starting \cup Reading /\ Firm(s)' => my[s].sz <= B.size
       /\ my[s].pc \in {"size", "load"} \cup Starting \cup Reading /\ Firm(s)' =>
            B.level = my[s].level
   BY <1>2, <2>2, <2>3 DEF Entries
 <2> HIDE DEF A, B
 <2>8. /\ my'[s].pc \in Reading => my'[s].todo \subseteq 1 .. my'[s].sz
       /\ my'[s].pc = "entry" => my'[s].todo # {}
       /\ my'[s].pc \in Reading \ {"entry"} =>
            /\ my'[s].item \in 1 .. my'[s].sz /\ my'[s].item \notin my'[s].todo
            /\ Own(s)' => \A x \in my'[s].todo : my'[s].item < x
       /\ my'[s].pc \in Starting \cup {"at_level"} => ~Own(s)'
       /\ my'[s].pc = "progress" => Own(s)'
   BY <1>1, <1>2 DEF Entries, Own
 <2> QED BY <1>1, <2>4, <2>5, <2>6, <2>7, <2>8 DEF Entries, A, B
<1>4. CASE my[s].pc \notin {"size", "load"} \cup Starting \cup Reading
 <2>1. my'[s].pc \notin {"size", "load"} \cup Starting \cup Reading BY <1>1, <1>4
 <2> QED BY <2>1 DEF Entries, Starting, Reading, AtItem
<1> QED BY <1>3, <1>4

LEMMA OtherCodeEntries ==
  ASSUME IInv, NEW t \in Thread, Step(t), NEW s \in Thread, s # t
  PROVE  CodeEntries(s)'
<1> DEFINE A == At_(s)
           B == At_(s)'
           P == {"codes_size", "codes_progress"} \cup CodesStarting \cup AtCode
<1>1. /\ my'[s] = my[s] /\ (InLevel(s) /\ Current(s)' => Current(s))
      /\ A.size \in Nat /\ Len(A.list) \in Nat /\ Len(B.list) \in Nat /\ B.size \in Nat
      /\ Len(B.list) >= Len(A.list)
      /\ Firm(s) /\ A.level = my[s].level => Grows(A, B)
      /\ Current(s) /\ Bucket(There(s), my[s].owner).level = my[s].level + 1 =>
            Bucket(There(s), my[s].owner)'.level = my[s].level + 1
  BY OthersView
<1>2. CodeEntries(s) /\ my[s].sz \in Nat /\ my[s].item \in Nat BY Parts, ThreadFields
<1>3. CASE my[s].pc \in P
 <2>1. InLevel(s) BY <1>3 DEF CodesStarting, AtCode, InLevel, Deciding
 <2>2. Firm(s)' => Firm(s) /\ A.level = my[s].level /\ Grows(A, B)
   BY <1>1, <1>2, <1>3, <2>1 DEF Firm, Own, CodeEntries
 <2>3. Firm(s)' => B.level = my[s].level /\ (my[s].sz <= A.size => my[s].sz <= B.size)
   BY <1>1, <1>2, <2>2 DEF Grows
 <2>4. my[s].pc \in {"codes_progress"} \cup CodesStarting \cup AtCode =>
         my[s].sz <= Len(B.list) /\ (Firm(s)' => my[s].sz <= B.size)
   BY <1>1, <1>2, <2>2, <2>3 DEF CodeEntries
 <2>5. my[s].pc \in {"code_level", "write_code"} /\ Firm(s)' => my[s].u = B.list[my[s].item]
  <3>1. ASSUME my[s].pc \in {"code_level", "write_code"}, Firm(s)'
        PROVE  my[s].u = B.list[my[s].item]
   <4>1. my[s].item \in 1 .. my[s].sz /\ my[s].sz <= A.size /\ my[s].u = A.list[my[s].item]
     BY <1>2, <2>2, <3>1 DEF CodeEntries, AtCode
   <4>2. my[s].item \in 1 .. A.size BY <1>1, <1>2, <4>1
   <4> QED BY <2>2, <3>1, <4>1, <4>2 DEF Grows
  <3> QED BY <3>1
 <2>6. my[s].pc = "codes_start" /\ Current(s)' =>
         Bucket(There(s), my[s].owner)'.level = my[s].level + 1
   BY <1>1, <1>2, <2>1 DEF CodeEntries
 <2>7. my[s].pc = "write_code" => my[s].u \in Vertex /\ dist'[my[s].u] = my[s].level
  <3>1. my[s].pc = "write_code" => my[s].u \in Vertex /\ dist[my[s].u] = my[s].level
    BY <1>2 DEF CodeEntries
  <3>2. my[s].level \in Nat BY Parts, ThreadFields
  <3> QED BY <3>1, <3>2, Effects, DistStays DEF Unset
 <2> HIDE DEF A, B
 <2>8. /\ my'[s].pc \in {"codes_progress"} \cup AtCode => my'[s].item \in 1 .. my'[s].sz
       /\ my'[s].pc \in CodesStarting \cup {"code_level"} => ~Own(s)'
       /\ my'[s].pc = "codes_progress" => Own(s)'
   BY <1>1, <1>2 DEF CodeEntries, Own
 <2> QED BY <1>1, <2>3, <2>4, <2>5, <2>6, <2>7, <2>8 DEF CodeEntries, A, B
<1>4. CASE my[s].pc \notin P
 <2>1. my'[s].pc \notin P BY <1>1, <1>4
 <2> QED BY <2>1 DEF CodeEntries, CodesStarting, AtCode
<1> QED BY <1>3, <1>4

LEMMA OtherBlocks ==
  ASSUME IInv, NEW t \in Thread, Step(t), NEW s \in Thread, s # t
  PROVE  BlockEntries(s)' /\ CandidatesView(s)'
<1>1. /\ my'[s] = my[s] /\ (InLevel(s) /\ Current(s)' => Current(s))
      /\ Current(s) /\ Bucket(There(s), my[s].owner).level = my[s].level + 1 =>
            Bucket(There(s), my[s].owner)'.level = my[s].level + 1
  BY OthersView
<1>2. BlockEntries(s) /\ CandidatesView(s) BY Parts
<1>3. CandidatesView(s)' BY <1>1, <1>2 DEF CandidatesView, C
<1>4. my'[s].pc \in {"help_start", "block_progress"} /\ Current(s)' =>
        Bucket(There(s), my[s].owner)'.level = my'[s].level + 1
 <2>1. my[s].pc \in {"help_start", "block_progress"} => InLevel(s) BY DEF InLevel, Deciding
 <2> QED BY <1>1, <1>2, <2>1 DEF BlockEntries
<1>5. BlockEntries(s)' BY <1>1, <1>2, <1>4 DEF BlockEntries, C, InRange, Own
<1> QED BY <1>3, <1>5

LEMMA OtherItems ==
  ASSUME IInv, NEW t \in Thread, Step(t), NEW s \in Thread, s # t
  PROVE  ItemView(s)'
<1>1. my'[s] = my[s] /\ DataStep(t) /\ ItemView(s) /\ my[s].level \in Nat
  BY Moved, Effects, Parts, ThreadFields
<1>2. \A v \in Vertex : dist[v] # Unset => dist'[v] = dist[v] BY <1>1, DistStays
<1>3. my[s].pc \in AtItem => my[s].u \in Vertex /\ dist'[my[s].u] = my[s].level
  BY <1>1, <1>2 DEF ItemView, Unset
<1>4. my[s].pc \in AtItem \ {"visited"} =>
        \A p \in 1 .. my[s].j - 1 : dist'[adj[my[s].u][p]] # Unset
 <2> SUFFICES ASSUME my[s].pc \in AtItem \ {"visited"}, NEW p \in 1 .. my[s].j - 1
              PROVE  dist'[adj[my[s].u][p]] # Unset
   OBVIOUS
 <2>1. dist[adj[my[s].u][p]] # Unset /\ my[s].u \in Vertex BY <1>1 DEF ItemView
 <2>2. adj[my[s].u][p] \in Vertex
  <3>1. adj[my[s].u] \in Seq(Vertex) /\ my[s].j \in Nat
    BY <2>1, GraphAssumption, Parts, ThreadFields
  <3>2. my[s].j <= Len(adj[my[s].u]) + 1 /\ Len(adj[my[s].u]) \in Nat
    BY <1>1, <3>1 DEF ItemView, AtItem
  <3> QED BY <3>1, <3>2
 <2> QED BY <1>2, <2>1, <2>2
<1> QED BY <1>1, <1>3, <1>4 DEF ItemView, V

(***************************************************************************)
(* What a thread sees after its own step, while it keeps its level.        *)
(***************************************************************************)
LEMMA HereSteady ==
  ASSUME IInv, NEW t \in Thread, Step(t), my'[t].level = my[t].level
  PROVE  /\ Here(t)' = Here(t) /\ There(t)' = There(t)
         /\ \A o \in Thread : Bucket(Here(t), o)' = Bucket(Here(t), o)
         /\ \A o \in Thread : o # t => Bucket(There(t), o)' = Bucket(There(t), o)
         /\ my[t].pc \notin BucketWriters =>
              \A o \in Thread : Bucket(There(t), o)' = Bucket(There(t), o)
<1>1. Here(t)' = Here(t) /\ There(t)' = There(t) /\ Here(t) \in {0, 1} /\ There(t) \in {0, 1}
      /\ Here(t) # There(t) /\ BucketSteps(t)
  BY Parts, Sides, Effects DEF Here, There
<1>2. PICK p \in {0, 1} : p = Here(t) BY <1>1
<1>3. PICK q \in {0, 1} : q = There(t) BY <1>1
<1>4. \A o \in Thread : Bucket(p, o)' = Bucket(p, o) BY <1>1, <1>2, SteadyBuckets
<1>5. \A o \in Thread : (o # t \/ my[t].pc \notin BucketWriters) => Bucket(q, o)' = Bucket(q, o)
  BY <1>1, <1>3, SteadyBuckets
<1>6. \A o \in Thread : Bucket(p, o)' = Bucket(Here(t), o)' /\ Bucket(q, o)' = Bucket(There(t), o)'
  BY <1>1, <1>2, <1>3 DEF Bucket
<1> QED BY <1>1, <1>2, <1>3, <1>4, <1>5, <1>6

LEMMA OwnView ==
  ASSUME IInv, NEW t \in Thread, Step(t), QuietStep(t), SameLevel(t), SameOwner(t)
  PROVE  /\ At_(t)' = At_(t) /\ (Own(t)' <=> Own(t)) /\ (Current(t)' <=> Current(t))
         /\ (Firm(t)' <=> Firm(t))
         /\ my[t].pc \notin BucketWriters \/ ~Own(t) =>
              Bucket(There(t), my[t].owner)' = Bucket(There(t), my[t].owner)
<1>1. my[t].owner \in Thread /\ my'[t].owner = my[t].owner /\ my'[t].level = my[t].level
  BY Before DEF SameLevel, SameOwner
<1>2. Current(t)' <=> Current(t) BY <1>1 DEF Current, QuietStep
<1>3. Own(t)' <=> Own(t) BY <1>1 DEF Own
<1>4. PICK o \in Thread : o = my[t].owner BY <1>1
<1>5. /\ Bucket(Here(t), o)' = Bucket(Here(t), o)
      /\ my[t].pc \notin BucketWriters \/ o # t => Bucket(There(t), o)' = Bucket(There(t), o)
  BY <1>1, HereSteady
<1>6. Bucket(Here(t), o)' = At_(t)' /\ Bucket(There(t), o)' = Bucket(There(t), my[t].owner)'
  BY <1>1, <1>4 DEF At_, Bucket
<1> QED BY <1>1, <1>2, <1>3, <1>4, <1>5, <1>6 DEF Firm, At_, Own

\* What a thread in its own bucket, or in the level Chosen, reads at a position in use.
LEMMA FirmReads ==
  ASSUME IInv, NEW t \in Thread, InLevel(t), NEW i \in 1 .. At_(t).size, At_(t).level = my[t].level,
         NEW u \in Readable(At_(t).list[i])
  PROVE  u = At_(t).list[i] /\ u \in Vertex /\ dist[u] = my[t].level
<1>1. Here(t) \in {0, 1} /\ my[t].owner \in Thread /\ my[t].level \in Nat BY Before
<1>2. At_(t).list[i] \in Vertex /\ Delta[At_(t).list[i]] = my[t].level BY <1>1, SoundBucket DEF At_
<1>3. At_(t).list[i] # Junk BY <1>2, MemAssumption DEF Junk
<1>4. u = At_(t).list[i] BY <1>3 DEF Readable
<1>5. my[t].level \in 0 .. Chosen BY <1>1, Parts, Words DEF Place
<1> QED BY <1>2, <1>4, <1>5, DistKnown

LEMMA NoEntries ==
  ASSUME NEW t \in Thread, my'[t].pc \notin {"size", "load"} \cup Starting \cup Reading
  PROVE  Entries(t)' /\ ItemView(t)'
  BY DEF Entries, ItemView, Starting, Reading, AtItem

LEMMA TopEntries ==
  ASSUME IInv, NEW t \in Thread, Step(t), QuietStep(t), TopPath(t)
  PROVE  Entries(t)'
<1>0. Entries(t) /\ my[t].sz \in Nat /\ my[t].todo \in SUBSET Nat /\ my[t].item \in Nat
      /\ At_(t).size \in Nat /\ Len(At_(t).list) \in Nat /\ At_(t).size <= Len(At_(t).list)
      /\ Entry(t).last_done \in Nat /\ InLevel(t) /\ my[t].level \in Nat
  BY Parts, Before, TopWithin DEF InTopDown, Looking, Starting, Reading, AtItem, InLevel, Deciding
<1>1. SameLevel(t) /\ SameOwner(t) =>
        /\ At_(t)' = At_(t) /\ (Own(t)' <=> Own(t)) /\ (Current(t)' <=> Current(t))
        /\ (Firm(t)' <=> Firm(t))
        /\ my[t].pc \notin BucketWriters \/ ~Own(t) =>
             Bucket(There(t), my[t].owner)' = Bucket(There(t), my[t].owner)
  BY OwnView
<1> USE DEF Starting, Reading, AtItem
<1>2. Stays(t) =>
        /\ At_(t)' = At_(t) /\ (Own(t)' <=> Own(t)) /\ (Firm(t)' <=> Firm(t))
        /\ (Current(t)' <=> Current(t)) /\ my'[t].level = my[t].level
        /\ my'[t].sz = my[t].sz /\ my'[t].todo = my[t].todo /\ my'[t].item = my[t].item
        /\ my'[t].u = my[t].u
  BY <1>1 DEF Stays, SameLevel, SameItems, SameView
<1>3. ASSUME my'[t].pc \in {"this_level", "finish", "done", "advance"} PROVE Entries(t)'
  BY <1>3, NoEntries
<1>4. CASE Stays(t) /\ my'[t].pc = "size" /\ At_(t).level = my[t].level BY <1>2, <1>4 DEF Entries
<1>5. CASE Stays(t) /\ my[t].pc = "size" /\ my'[t].pc = "load" /\ At_(t).size > 0
  BY <1>0, <1>2, <1>5 DEF Entries
<1>6. CASE Stays(t) /\ my[t].pc = "start_tag" /\ my'[t].pc = "start"
           /\ Bucket(There(t), my[t].owner).level = my[t].level + 1
 <2>1. Bucket(There(t), my[t].owner)' = Bucket(There(t), my[t].owner)
   BY <1>1, <1>6 DEF Stays, BucketWriters
 <2> QED BY <1>0, <1>2, <1>6, <2>1 DEF Entries
<1>7. CASE Stays(t) /\ my[t].pc = "at_level" /\ my'[t].pc = "visited"
  BY <1>0, <1>2, <1>7 DEF Entries
<1>8. CASE Stays(t) /\ my[t].pc \in {"visited", "vis"} /\ my'[t].pc = "progress" /\ Own(t)
  BY <1>0, <1>2, <1>8 DEF Entries
<1>9. CASE Stays(t) /\ my[t].pc \in {"neighbor", "push"} /\ my'[t].pc \in {"push", "swap"}
  BY <1>0, <1>2, <1>9 DEF Entries
<1>10. CASE Loads(t) /\ my[t].pc = "load"
 <2>1. At_(t)' = At_(t) /\ (Own(t)' <=> Own(t)) /\ (Firm(t)' <=> Firm(t)) /\ my'[t].level = my[t].level
   BY <1>1, <1>10 DEF Loads, SameLevel
 <2>2. my'[t].sz = At_(t).size /\ my'[t].todo = (IF Own(t) THEN 1 .. At_(t).size ELSE {})
       /\ my'[t].pc = (IF Own(t) THEN "entry" ELSE "start_tag")
   BY <1>10 DEF Loads
 <2>3. Firm(t) => At_(t).level = my[t].level /\ At_(t).size > 0 BY <1>0, <1>10 DEF Entries
 <2>4. Own(t) => Firm(t) BY DEF Firm
 <2>5. CASE Own(t)
  <3>1. 1 \in 1 .. At_(t).size BY <1>0, <2>3, <2>4, <2>5
  <3> QED BY <1>0, <2>1, <2>2, <2>3, <2>5, <3>1 DEF Entries
 <2>6. CASE ~Own(t) BY <1>0, <2>1, <2>2, <2>3, <2>6 DEF Entries
 <2> QED BY <2>5, <2>6
<1>11. ASSUME NEW n \in Nat, n >= 1, HelpsFrom(t, n), my[t].pc \in {"start_tag", "start"}
       PROVE  Entries(t)'
 <2>1. At_(t)' = At_(t) /\ (Own(t)' <=> Own(t)) /\ (Firm(t)' <=> Firm(t)) /\ my'[t].level = my[t].level
   BY <1>1, <1>11 DEF HelpsFrom, SameLevel
 <2>2. my'[t].sz = my[t].sz /\ my'[t].todo = n .. my[t].sz
       /\ my'[t].pc = (IF n .. my[t].sz = {} THEN "finish" ELSE "entry")
   BY <1>11 DEF HelpsFrom
 <2>3. n .. my[t].sz \subseteq 1 .. my[t].sz BY <1>0, <1>11
 <2>4. CASE n .. my[t].sz = {} BY <1>3, <2>2, <2>4
 <2>5. CASE n .. my[t].sz # {} BY <1>0, <1>11, <2>1, <2>2, <2>3, <2>5 DEF Entries
 <2> QED BY <2>4, <2>5
<1>12. CASE my[t].pc = "entry" /\ \E i \in my[t].todo :
              /\ Own(t) => \A x \in my[t].todo : i <= x
              /\ \E u \in Readable(At_(t).list[i]) : Takes(t, i, u)
 <2>1. PICK i \in my[t].todo :
             /\ Own(t) => \A x \in my[t].todo : i <= x
             /\ \E u \in Readable(At_(t).list[i]) : Takes(t, i, u)
   BY <1>12
 <2>2. PICK u \in Readable(At_(t).list[i]) : Takes(t, i, u) BY <2>1
 <2>3. At_(t)' = At_(t) /\ (Own(t)' <=> Own(t)) /\ (Firm(t)' <=> Firm(t)) /\ my'[t].level = my[t].level
   BY <1>1, <2>2 DEF Takes, SameLevel
 <2>4. my'[t].sz = my[t].sz /\ my'[t].item = i /\ my'[t].u = u /\ my'[t].todo = my[t].todo \ {i}
       /\ my'[t].pc = (IF Own(t) THEN "visited" ELSE "at_level")
   BY <2>2 DEF Takes
 <2>5. my[t].todo \subseteq 1 .. my[t].sz /\ i \in 1 .. my[t].sz /\ i \in Nat
       /\ my[t].sz <= Len(At_(t).list)
       /\ (Firm(t) => my[t].sz <= At_(t).size /\ At_(t).level = my[t].level)
   BY <1>0, <1>12, <2>1 DEF Entries
 <2>6. Own(t) => \A x \in my[t].todo \ {i} : i < x BY <1>0, <2>1, <2>5
 <2>7. Firm(t) => u = At_(t).list[i]
  <3>1. ASSUME Firm(t) PROVE i \in 1 .. At_(t).size BY <1>0, <2>5, <3>1
  <3> QED BY ZenonT(40), <1>0, <2>5, <3>1, FirmReads
 <2> QED BY <1>0, <2>3, <2>4, <2>5, <2>6, <2>7 DEF Entries
<1>13. CASE Leaves(t) /\ my[t].pc \in {"at_level", "visited", "vis", "progress"}
 <2>1. At_(t)' = At_(t) /\ (Own(t)' <=> Own(t)) /\ (Firm(t)' <=> Firm(t)) /\ my'[t].level = my[t].level
   BY <1>1, <1>13 DEF Leaves, SameLevel
 <2>2. my'[t].sz = my[t].sz /\ my'[t].todo = my[t].todo
       /\ my'[t].pc = (IF my[t].todo = {} THEN "finish" ELSE "entry")
   BY <1>13 DEF Leaves
 <2>3. CASE my[t].todo = {} BY <1>3, <2>2, <2>3
 <2>4. CASE my[t].todo # {} BY <1>0, <1>13, <2>1, <2>2, <2>4 DEF Entries
 <2> QED BY <2>3, <2>4
<1>14. ASSUME NEW n, AtNeighbor(t, n), my[t].pc \in {"visited", "neighbor", "swap"}
       PROVE  Entries(t)'
 <2>1. At_(t)' = At_(t) /\ (Own(t)' <=> Own(t)) /\ (Firm(t)' <=> Firm(t)) /\ my'[t].level = my[t].level
   BY <1>1, <1>14 DEF AtNeighbor, SameLevel
 <2>2. my'[t].sz = my[t].sz /\ my'[t].todo = my[t].todo /\ my'[t].item = my[t].item
       /\ my'[t].u = my[t].u /\ my'[t].pc \in {"neighbor", "vis"}
   BY <1>14 DEF AtNeighbor, SameItems
 <2> QED BY <1>0, <1>14, <2>1, <2>2 DEF Entries
<1>15. CASE Rests(t, "done", "advance") BY <1>3, <1>15 DEF Rests
<1>16. Entry(t).last_done + 1 \in Nat /\ Entry(t).last_done + 1 >= 1 BY <1>0
<1>17. Stays(t) /\ my[t].pc = "done" /\ my'[t].pc = "this_level" => Entries(t)' BY <1>3
<1> QED
  BY <1>4, <1>5, <1>6, <1>7, <1>8, <1>9, <1>10, <1>11, <1>12, <1>13, <1>14, <1>15, <1>16, <1>17 DEF
     TopPath

\* A vertex next to one of the level that has no distance yet is of the level after it.
LEMMA NextIsNear ==
  ASSUME IInv, NEW t \in Thread, InLevel(t), NEW u \in Vertex, dist[u] = my[t].level,
         NEW v \in Neighbors(u)
  PROVE  /\ v \in Vertex /\ Delta[v] \in 0 .. my[t].level + 1
         /\ dist[v] = Unset => Delta[v] = my[t].level + 1
<1>1. my[t].level \in Nat /\ my[t].level <= Chosen /\ Chosen \in Int
  BY Parts, ThreadFields, Words DEF Place
<1>2. Delta[u] = my[t].level /\ Delta[u] # Unset BY <1>1, DistKnown DEF Unset
<1>3. v \in Vertex /\ Delta[v] \in 0 .. my[t].level + 1
 <2>1. v \in Vertex BY GraphTypes
 <2>2. Delta[v] \in 0 .. Delta[u] + 1 BY <1>2, DistanceAssumption
 <2> QED BY <1>2, <2>1, <2>2
<1>4. Delta[v] \in 0 .. Chosen => dist[v] # Unset BY <1>1, <1>3, DistKnown DEF Unset
<1>5. Delta[v] # my[t].level + 1 => Delta[v] \in 0 .. Chosen BY <1>1, <1>3
<1> QED BY <1>3, <1>4, <1>5

LEMMA NoItems ==
  ASSUME NEW t \in Thread, my'[t].pc \notin AtItem
  PROVE  ItemView(t)'
  BY DEF ItemView, AtItem

LEMMA TopItems ==
  ASSUME IInv, NEW t \in Thread, Step(t), QuietStep(t), TopPath(t)
  PROVE  ItemView(t)'
<1>0. ItemView(t) /\ InLevel(t) /\ my[t].level \in Nat /\ my[t].j \in Nat /\ DataStep(t)
      /\ my[t].owner \in Thread
  BY Parts, Before, TopWithin, Effects DEF InTopDown, Looking, Starting, Reading, AtItem, InLevel, Deciding
<1>1. \A v \in Vertex : dist[v] # Unset => dist'[v] = dist[v] BY <1>0, DistStays
<1> USE DEF AtItem
<1>2. ASSUME my[t].pc \in {"visited", "neighbor", "push", "swap"}
      PROVE  /\ my[t].u \in Vertex /\ dist'[my[t].u] = my[t].level /\ dist[my[t].u] = my[t].level
             /\ adj[my[t].u] \in Seq(Vertex) /\ Len(adj[my[t].u]) \in Nat
 <2>1. my[t].u \in Vertex /\ dist[my[t].u] = my[t].level BY <1>0, <1>2 DEF ItemView
 <2>2. dist'[my[t].u] = my[t].level BY <1>0, <1>1, <2>1 DEF Unset
 <2>3. adj[my[t].u] \in Seq(Vertex) BY <2>1, GraphAssumption
 <2> QED BY <2>1, <2>2, <2>3
<1>3. ASSUME my[t].pc \in {"neighbor", "push", "swap"}
      PROVE  /\ my[t].j \in 1 .. Len(adj[my[t].u])
             /\ \A p \in 1 .. my[t].j - 1 : dist'[adj[my[t].u][p]] # Unset
 <2>1. my[t].j \in 1 .. Len(adj[my[t].u])
       /\ \A p \in 1 .. my[t].j - 1 : dist[adj[my[t].u][p]] # Unset
   BY <1>0, <1>3 DEF ItemView
 <2>2. ASSUME NEW p \in 1 .. my[t].j - 1 PROVE dist'[adj[my[t].u][p]] # Unset
  <3>1. adj[my[t].u][p] \in Vertex BY <1>2, <1>3, <2>1
  <3> QED BY <1>1, <2>1, <3>1
 <2> QED BY <2>1, <2>2
<1>4. ASSUME my'[t].pc \notin AtItem PROVE ItemView(t)' BY <1>4, NoItems
<1>5. ASSUME NEW n \in Nat, AtNeighbor(t, n), n >= 1,
             my[t].pc \in {"visited", "neighbor", "swap"}, n <= Len(adj[my[t].u]) + 1,
             \A p \in 1 .. n - 1 : dist'[adj[my[t].u][p]] # Unset
      PROVE  ItemView(t)'
 <2>1. my'[t].u = my[t].u /\ my'[t].j = n /\ my'[t].level = my[t].level
       /\ my'[t].pc = (IF n <= Len(adj[my[t].u]) THEN "neighbor" ELSE "vis")
   BY <1>5 DEF AtNeighbor, SameLevel
 <2> QED BY <1>2, <1>5, <2>1 DEF ItemView
<1>6. CASE Stays(t) /\ my[t].pc = "at_level" /\ my'[t].pc = "visited" /\ IsAtLevel(my[t].u, my[t].level)
 <2>1. my'[t].u = my[t].u /\ my'[t].level = my[t].level /\ my[t].u \in Vertex
       /\ dist[my[t].u] = my[t].level
   BY <1>6 DEF Stays, SameView, SameLevel, IsAtLevel
 <2>2. dist'[my[t].u] = my[t].level BY <1>0, <1>1, <2>1 DEF Unset
 <2> QED BY <1>6, <2>1, <2>2 DEF ItemView
<1>7. CASE Stays(t) /\ my[t].pc = "neighbor" /\ my'[t].pc = "push" /\ dist[V(t)] = Unset
 <2>1. my'[t].u = my[t].u /\ my'[t].level = my[t].level /\ my'[t].j = my[t].j
   BY <1>7 DEF Stays, SameView, SameLevel
 <2>2. V(t) \in Neighbors(my[t].u) BY <1>7, VFacts
 <2>3. Delta[V(t)] = my[t].level + 1 BY <1>0, <1>2, <1>7, <2>2, NextIsNear
 <2>4. V(t)' = V(t) BY <2>1 DEF V
 <2> QED BY <1>2, <1>3, <1>7, <2>1, <2>3, <2>4 DEF ItemView
<1>8. CASE Stays(t) /\ my[t].pc = "push" /\ my'[t].pc = "swap"
 <2>1. my'[t].u = my[t].u /\ my'[t].level = my[t].level /\ my'[t].j = my[t].j
   BY <1>8 DEF Stays, SameView, SameLevel
 <2>2. V(t)' = V(t) /\ Delta[V(t)] = my[t].level + 1 BY <1>0, <1>8, <2>1 DEF V, ItemView
 <2> QED BY <1>2, <1>3, <1>8, <2>1, <2>2 DEF ItemView
<1>9. CASE my[t].pc = "entry" /\ \E i \in my[t].todo :
              /\ Own(t) => \A x \in my[t].todo : i <= x
              /\ \E u \in Readable(At_(t).list[i]) : Takes(t, i, u)
 <2>1. PICK i \in my[t].todo : \E u \in Readable(At_(t).list[i]) : Takes(t, i, u) BY <1>9
 <2>2. PICK u \in Readable(At_(t).list[i]) : Takes(t, i, u) BY <2>1
 <2>3. my'[t].u = u /\ my'[t].level = my[t].level
       /\ my'[t].pc = (IF Own(t) THEN "visited" ELSE "at_level")
   BY <2>2 DEF Takes, SameLevel
 <2>4. CASE Own(t)
  <3>1. At_(t).level = my[t].level /\ i \in 1 .. At_(t).size
   <4>1. At_(t).level = my[t].level /\ my[t].sz <= At_(t).size /\ my[t].todo \subseteq 1 .. my[t].sz
     BY <1>9, <2>4, Parts DEF Entries, Firm, Reading
   <4> QED BY <2>1, <4>1, Before
  <3>2. u \in Vertex /\ dist[u] = my[t].level BY <1>0, <3>1, <2>2, FirmReads
  <3>3. dist'[u] = my[t].level BY <1>0, <1>1, <3>2 DEF Unset
  <3> QED BY <2>3, <2>4, <3>2, <3>3 DEF ItemView
 <2>5. CASE ~Own(t) BY <1>4, <2>3, <2>5
 <2> QED BY <2>4, <2>5
<1>10. CASE AtNeighbor(t, 1) /\ my[t].pc = "visited"
 <2>1. 1 <= Len(adj[my[t].u]) + 1 BY <1>2, <1>10
 <2> QED BY <1>5, <1>10, <2>1
<1>11. CASE AtNeighbor(t, my[t].j + 1) /\ my[t].pc \in {"neighbor", "swap"}
            /\ (my[t].pc = "neighbor" => dist[V(t)] # Unset)
 <2>1. V(t) \in Vertex /\ V(t) = adj[my[t].u][my[t].j] BY <1>11, VFacts DEF V
 <2>2. dist'[V(t)] # Unset
  <3>1. my[t].pc = "swap" /\ dist[V(t)] = Unset => dist'[V(t)] = my[t].level + 1
    BY <1>0, <2>1 DEF DataStep
  <3> QED BY <1>0, <1>1, <1>11, <2>1, <3>1 DEF Unset
 <2>3. /\ my[t].j \in 1 .. Len(adj[my[t].u]) /\ Len(adj[my[t].u]) \in Nat
       /\ \A p \in 1 .. my[t].j - 1 : dist'[adj[my[t].u][p]] # Unset
   BY <1>2, <1>3, <1>11
 <2>4. \A p \in 1 .. my[t].j : dist'[adj[my[t].u][p]] # Unset
  <3> SUFFICES ASSUME NEW p \in 1 .. my[t].j PROVE dist'[adj[my[t].u][p]] # Unset OBVIOUS
  <3>1. p \in 1 .. my[t].j - 1 \/ p = my[t].j BY <2>3
  <3> QED BY <2>1, <2>2, <2>3, <3>1
 <2>5. PICK n \in Nat : n = my[t].j + 1 BY <1>0
 <2>6. n >= 1 /\ n <= Len(adj[my[t].u]) + 1 /\ n - 1 = my[t].j BY <1>0, <2>3, <2>5
 <2> QED BY <1>5, <1>11, <2>4, <2>5, <2>6
<1>12. ASSUME Loads(t) \/ Leaves(t) \/ (\E n : HelpsFrom(t, n)) \/ Rests(t, "done", "advance")
       PROVE  ItemView(t)'
 <2>1. my'[t].pc \notin AtItem BY <1>12 DEF Loads, Leaves, HelpsFrom, Rests
 <2> QED BY <1>4, <2>1
<1>13. ASSUME my'[t].pc \in {"this_level", "size", "load", "start", "progress"} PROVE ItemView(t)'
  BY <1>4, <1>13
<1> QED BY <1>6, <1>7, <1>8, <1>9, <1>10, <1>11, <1>12, <1>13 DEF TopPath

-----------------------------------------------------------------------------
LEMMA NoCodeEntries ==
  ASSUME NEW t \in Thread, my'[t].pc \notin {"codes_size", "codes_progress"} \cup CodesStarting \cup AtCode
  PROVE  CodeEntries(t)'
  BY DEF CodeEntries, CodesStarting, AtCode

LEMMA CodesEntries ==
  ASSUME IInv, NEW t \in Thread, Step(t), QuietStep(t), CodesPath(t)
  PROVE  CodeEntries(t)'
<1>0. CodeEntries(t) /\ my[t].sz \in Nat /\ my[t].item \in Nat
      /\ At_(t).size \in Nat /\ Len(At_(t).list) \in Nat /\ At_(t).size <= Len(At_(t).list)
      /\ Entry(t).codes_last_done \in Nat /\ InLevel(t) /\ my[t].level \in Nat /\ DataStep(t)
  BY Parts, Before, CodesWithin, Effects DEF InCodes, CodesLooking, CodesStarting, AtCode, InLevel, Deciding
<1>1. SameLevel(t) /\ SameOwner(t) =>
        /\ At_(t)' = At_(t) /\ (Own(t)' <=> Own(t)) /\ (Current(t)' <=> Current(t))
        /\ (Firm(t)' <=> Firm(t))
        /\ my[t].pc \notin BucketWriters \/ ~Own(t) =>
             Bucket(There(t), my[t].owner)' = Bucket(There(t), my[t].owner)
  BY OwnView
<1> USE DEF CodesStarting, AtCode
<1>2. Stays(t) =>
        /\ At_(t)' = At_(t) /\ (Own(t)' <=> Own(t)) /\ (Firm(t)' <=> Firm(t))
        /\ (Current(t)' <=> Current(t)) /\ my'[t].level = my[t].level
        /\ my'[t].sz = my[t].sz /\ my'[t].item = my[t].item /\ my'[t].u = my[t].u
  BY <1>1 DEF Stays, SameLevel, SameItems, SameView
<1>3. ASSUME my'[t].pc \in {"codes", "codes_tag", "codes_finish", "mark_codes_done", "reserve"}
      PROVE  CodeEntries(t)'
  BY <1>3, NoCodeEntries
<1>4. CASE Stays(t) /\ my'[t].pc = "codes_size" /\ At_(t).level = my[t].level
  BY <1>2, <1>4 DEF CodeEntries
<1>5. CASE Stays(t) /\ my[t].pc = "codes_start_tag" /\ my'[t].pc = "codes_start"
           /\ Bucket(There(t), my[t].owner).level = my[t].level + 1
 <2>1. Bucket(There(t), my[t].owner)' = Bucket(There(t), my[t].owner)
   BY <1>1, <1>5 DEF Stays, BucketWriters
 <2> QED BY <1>0, <1>2, <1>5, <2>1 DEF CodeEntries
<1>6. CASE Stays(t) /\ my[t].pc = "code_level" /\ my'[t].pc = "write_code"
           /\ IsAtLevel(my[t].u, my[t].level)
 <2>1. my[t].u \in Vertex /\ dist'[my[t].u] = my[t].level
   BY <1>0, <1>6, DistStays DEF IsAtLevel, Unset
 <2> QED BY <1>0, <1>2, <1>6, <2>1 DEF CodeEntries
<1>7. CASE Stays(t) /\ my[t].pc = "write_code" /\ my'[t].pc = "codes_progress" /\ Own(t)
  BY <1>0, <1>2, <1>7 DEF CodeEntries
<1>8. ASSUME NEW n \in Nat, n >= 1, NEW z \in Nat, AtEntry(t, n, z), z <= Len(At_(t).list),
             Firm(t) => At_(t).level = my[t].level /\ z <= At_(t).size
      PROVE  CodeEntries(t)'
 <2>1. At_(t)' = At_(t) /\ (Own(t)' <=> Own(t)) /\ (Firm(t)' <=> Firm(t)) /\ my'[t].level = my[t].level
   BY <1>1, <1>8 DEF AtEntry, SameLevel
 <2>2. my'[t].item = n /\ my'[t].sz = z /\ my'[t].pc = (IF n <= z THEN "code" ELSE "codes_finish")
   BY <1>8 DEF AtEntry
 <2> QED BY <1>8, <2>1, <2>2 DEF CodeEntries
<1>9. CASE AtEntry(t, 1, At_(t).size) /\ my[t].pc = "codes_size" /\ Own(t)
 <2>1. Firm(t) => At_(t).level = my[t].level BY <1>0, <1>9 DEF CodeEntries
 <2> QED BY <1>0, <1>8, <1>9, <2>1
<1>10. CASE LoadsCodes(t) /\ my[t].pc = "codes_size" /\ ~Own(t)
 <2>1. At_(t)' = At_(t) /\ (Own(t)' <=> Own(t)) /\ (Firm(t)' <=> Firm(t)) /\ my'[t].level = my[t].level
   BY <1>1, <1>10 DEF LoadsCodes, SameLevel
 <2>2. my'[t].sz = At_(t).size /\ my'[t].pc = "codes_start_tag" BY <1>10 DEF LoadsCodes
 <2> QED BY <1>0, <1>10, <2>1, <2>2 DEF CodeEntries
<1>11. ASSUME my[t].pc \in {"codes_start_tag", "codes_start", "code_level", "write_code", "codes_progress"}
       PROVE  my[t].sz <= Len(At_(t).list)
              /\ (Firm(t) => At_(t).level = my[t].level /\ my[t].sz <= At_(t).size)
  BY <1>0, <1>11 DEF CodeEntries
<1>12. CASE AtEntry(t, 1, my[t].sz) /\ my[t].pc = "codes_start_tag" BY <1>0, <1>8, <1>11, <1>12
<1>13. CASE AtEntry(t, Entry(t).codes_last_done + 1, my[t].sz) /\ my[t].pc = "codes_start"
 <2>1. PICK n \in Nat : n = Entry(t).codes_last_done + 1 /\ n >= 1 BY <1>0
 <2> QED BY <1>0, <1>8, <1>11, <1>13, <2>1
<1>14. CASE my[t].pc = "code" /\ \E u \in Readable(At_(t).list[my[t].item]) : TakesCode(t, u)
 <2>1. PICK u \in Readable(At_(t).list[my[t].item]) : TakesCode(t, u) BY <1>14
 <2>2. At_(t)' = At_(t) /\ (Own(t)' <=> Own(t)) /\ (Firm(t)' <=> Firm(t)) /\ my'[t].level = my[t].level
   BY <1>1, <2>1 DEF TakesCode, SameLevel
 <2>3. my'[t].sz = my[t].sz /\ my'[t].item = my[t].item /\ my'[t].u = u
       /\ my'[t].pc = (IF Own(t) THEN "write_code" ELSE "code_level")
   BY <2>1 DEF TakesCode, SameItems
 <2>4. my[t].item \in 1 .. my[t].sz /\ my[t].sz <= Len(At_(t).list)
       /\ (Firm(t) => At_(t).level = my[t].level /\ my[t].sz <= At_(t).size)
   BY <1>0, <1>14 DEF CodeEntries
 <2>5. ASSUME Firm(t) PROVE u = At_(t).list[my[t].item] /\ u \in Vertex /\ dist'[u] = my[t].level
  <3>1. PICK i \in 1 .. At_(t).size : i = my[t].item BY <1>0, <2>4, <2>5
  <3>2. u = At_(t).list[i] /\ u \in Vertex /\ dist[u] = my[t].level
    BY ZenonT(40), <1>0, <2>1, <2>4, <2>5, <3>1, FirmReads
  <3> QED BY <1>0, <3>1, <3>2, DistStays DEF Unset
 <2>6. Own(t) => Firm(t) BY DEF Firm
 <2> QED BY <2>2, <2>3, <2>4, <2>5, <2>6 DEF CodeEntries
<1>15. CASE AtEntry(t, my[t].item + 1, my[t].sz)
            /\ my[t].pc \in {"code_level", "write_code", "codes_progress"}
 <2>1. PICK n \in Nat : n = my[t].item + 1 /\ n >= 1 BY <1>0
 <2> QED BY <1>0, <1>8, <1>11, <1>15, <2>1
<1>16. CASE Rests(t, "codes", "reserve") BY <1>3, <1>16 DEF Rests
<1> QED
  BY <1>3, <1>4, <1>5, <1>6, <1>7, <1>9, <1>10, <1>12, <1>13, <1>14, <1>15, <1>16 DEF CodesPath

\* The frontier a thread sees in a bottom-up level is the level.
LEMMA FrontierExact ==
  ASSUME IInv, NEW t \in Thread, my[t].pc \in Scanning, NEW v \in Vertex
  PROVE  InFrontier(t, v) <=> Delta[v] = my[t].level
<1>1. /\ InLevel(t) /\ my[t].pc \in InBottomUp /\ my[t].direction = "bottom_up"
      /\ my[t].pc \notin Reusing \cup InCodes
 <2>1. InLevel(t) /\ my[t].pc \in InBottomUp /\ my[t].pc \notin Reusing \cup InCodes
   BY DEF InLevel, Deciding, Scanning, InBottomUp, InBlock, Finding, Owning, Helping, HelpBegun,
      AtBlock, Reusing, InCodes, CodesLooking, CodesStarting, AtCode
 <2> QED BY <2>1, Parts DEF Directed
<1>2. my[t].level \in Nat /\ my[t].level <= Chosen /\ Chosen \in Int
  BY <1>1, Parts, ThreadFields, Words DEF Place
<1>3. CodedLevel(my[t].level)
 <2>1. CASE Current(t)
  <3>1. Latest.direction = "bottom_up"
   <4>1. Curr(t).plan_word = Latest /\ Latest.level = Chosen BY <2>1, WordHere, Words
   <4>2. Latest = Followed(t) BY <1>1, <4>1, <2>1, WordOfLevel DEF Current
   <4> QED BY <1>1, <4>2 DEF Followed, Word
  <3>2. PastCodes(t) BY <1>1, <2>1 DEF PastCodes
  <3> QED BY <2>1, <3>1, <3>2 DEF IInv, CodesInv, LevelsCoded, Current
 <2>2. CASE ~Current(t) BY <1>1, <2>2 DEF IInv, CodesInv, LevelsCoded
 <2> QED BY <2>1, <2>2
<1>4. /\ Delta[v] \in Int /\ Delta[v] >= -1 /\ dist8[v] \in 0 .. MaxCode /\ MaxCode \in Nat
      /\ dist8[v] # 0 => Delta[v] >= 0 /\ dist8[v] = CodeOf(Delta[v])
  BY DistKnown, MemAssumption DEF IInv, CodesInv, CodesSound, Shape
<1>5. dist[v] = my[t].level <=> Delta[v] = my[t].level
 <2>1. dist[v] \in {-1, Delta[v]} /\ (Delta[v] \in 0 .. Chosen => dist[v] = Delta[v])
   BY <1>2, DistKnown
 <2> QED BY <1>2, <1>4, <2>1
<1>6. CodeOf(my[t].level) \in Nat BY <1>2, NextCodes
<1>7. CASE CodeOf(my[t].level) > 0
 <2>1. Delta[v] = my[t].level => dist8[v] = CodeOf(my[t].level) BY <1>3, <1>7 DEF CodedLevel, Level
 <2>2. dist8[v] = CodeOf(my[t].level) => Delta[v] = my[t].level BY <1>2, <1>4, <1>7 DEF CodeOf
 <2> QED BY <1>7, <2>1, <2>2 DEF InFrontier
<1>8. CASE ~(CodeOf(my[t].level) > 0) BY <1>5, <1>8 DEF InFrontier
<1> QED BY <1>7, <1>8

-----------------------------------------------------------------------------
\* c may be what is left of a block that t scans.
Fits(t, c) ==
  \A i \in 1 .. Len(c) : c[i] \in Vertex /\ InRange(t, c[i]) /\ Delta[c[i]] \notin 0 .. my[t].level

LEMMA FitNow ==
  ASSUME IInv, NEW t \in Thread
  PROVE  Fits(t, my[t].cand)
<1>1. my[t].cand \in Seq(Vertex) BY Before
<1>2. \A i \in 1 .. Len(my[t].cand) : my[t].cand[i] \in Vertex BY <1>1
<1> QED BY <1>2, Parts DEF Fits, BlockEntries, CandidatesView

LEMMA FitTail ==
  ASSUME IInv, NEW t \in Thread, my[t].cand # <<>>
  PROVE  Fits(t, Tail(my[t].cand)) /\ Tail(my[t].cand) \in Seq(Vertex)
<1>1. my[t].cand \in Seq(Vertex) /\ Fits(t, my[t].cand) BY Before, FitNow
<1>2. /\ Tail(my[t].cand) \in Seq(Vertex)
      /\ \A i \in 1 .. Len(Tail(my[t].cand)) :
           i + 1 \in 1 .. Len(my[t].cand) /\ Tail(my[t].cand)[i] = my[t].cand[i + 1]
  BY <1>1, TailEntries
<1> QED BY <1>1, <1>2 DEF Fits

LEMMA FitGather ==
  ASSUME IInv, NEW t \in Thread, my[t].pc = "gather"
  PROVE  Fits(t, Candidates(t))
<1>1. /\ my[t].j \in Vertex /\ InRange(t, my[t].j) /\ my[t].cand \in Seq(Vertex)
      /\ Fits(t, my[t].cand) /\ InLevel(t)
  BY Before, FitNow, GatherFacts DEF InLevel, Deciding
<1>2. CASE dist[my[t].j] = Unset
 <2>1. Candidates(t) = Append(my[t].cand, my[t].j) BY <1>2 DEF Candidates
 <2>2. Delta[my[t].j] \notin 0 .. my[t].level
  <3>1. my[t].level \in Nat /\ my[t].level <= Chosen /\ Chosen \in Int
    BY <1>1, Parts, ThreadFields, Words DEF Place
  <3>2. Delta[my[t].j] \in 0 .. Chosen => dist[my[t].j] # Unset BY <1>1, <3>1, DistKnown DEF Unset
  <3> QED BY <1>2, <3>1, <3>2
 <2>3. /\ Len(my[t].cand) \in Nat /\ Len(Candidates(t)) = Len(my[t].cand) + 1
       /\ Candidates(t)[Len(my[t].cand) + 1] = my[t].j
       /\ \A i \in 1 .. Len(my[t].cand) : Candidates(t)[i] = my[t].cand[i]
   BY <1>1, <2>1, AppendEntries
 <2> SUFFICES ASSUME NEW i \in 1 .. Len(Candidates(t))
              PROVE  /\ Candidates(t)[i] \in Vertex /\ InRange(t, Candidates(t)[i])
                     /\ Delta[Candidates(t)[i]] \notin 0 .. my[t].level
   BY DEF Fits
 <2>4. i \in 1 .. Len(my[t].cand) \/ i = Len(my[t].cand) + 1 BY <2>3
 <2> QED BY <1>1, <2>2, <2>3, <2>4 DEF Fits
<1>3. CASE dist[my[t].j] # Unset BY <1>1, <1>3 DEF Candidates
<1> QED BY <1>2, <1>3

\* Positions in the blocks for a thread with no candidate.
LEMMA EmptyBlock ==
  ASSUME NEW t \in Thread, my'[t].cand = <<>>, my'[t].pc \notin {"test"} \cup Finding,
         my'[t].pc = "own" => my'[t].item \in 1 .. Owned(my'[t].owner) + 1,
         my'[t].pc \in {"own_stamp", "own_progress", "stamp", "gather"} \cup AtBlock =>
           my'[t].item \in 1 .. Owned(my'[t].owner),
         my'[t].pc \in {"block", "stamp", "gather"} \cup AtBlock /\ my'[t].owner # t =>
           my'[t].todo \subseteq 1 .. Owned(my'[t].owner),
         my'[t].pc = "block" => my'[t].todo # {},
         my'[t].pc \in {"stamp", "gather"} \cup AtBlock /\ my'[t].owner # t =>
           my'[t].item \notin my'[t].todo,
         my'[t].pc = "gather" => my'[t].j \in Begin(my'[t].owner, my'[t].item) .. End(my'[t].owner, my'[t].item) - 1,
         my'[t].pc \in {"help_start", "block_progress"} /\ Current(t)' =>
           Bucket(There(t), my[t].owner)'.level = my'[t].level + 1
  PROVE  BlockEntries(t)' /\ CandidatesView(t)'
<1>1. Len(my'[t].cand) = 0 /\ \A i \in 1 .. Len(my'[t].cand) : FALSE OBVIOUS
<1>2. CandidatesView(t)' BY <1>1 DEF CandidatesView
<1>3. my'[t].pc \in InBlock => my'[t].pc = "gather" BY DEF InBlock
<1>4. \A i \in 1 .. Len(my'[t].cand) : InRange(t, my[t].cand[i])' BY <1>1
<1>5. my'[t].pc = "gather" => InRange(t, my[t].j)' BY DEF InRange
<1>6. Own(t)' <=> my'[t].owner = t BY DEF Own
<1> QED BY <1>2, <1>3, <1>4, <1>5, <1>6 DEF BlockEntries

LEMMA NoBlock ==
  ASSUME NEW t \in Thread, my'[t].cand = <<>>,
         my'[t].pc \notin {"own", "own_stamp", "own_progress", "stamp", "block", "help_start"}
                          \cup AtBlock \cup InBlock
  PROVE  BlockEntries(t)' /\ CandidatesView(t)'
<1>1. my'[t].pc \notin {"test", "gather", "block_progress"} \cup Finding BY DEF InBlock, AtBlock
<1> QED BY <1>1, EmptyBlock

LEMMA OwnBlocks ==
  ASSUME IInv, NEW t \in Thread, Step(t), QuietStep(t), BlocksPath(t)
  PROVE  BlockEntries(t)' /\ CandidatesView(t)'
<1>0. /\ my[t].pc \in InBlocks /\ InLevel(t) /\ BlockEntries(t) /\ my[t].owner \in Thread
      /\ my[t].item \in Nat /\ Entry(t).last_done \in Nat /\ my[t].todo \in SUBSET Nat
      /\ Owned(my[t].owner) \in Nat /\ my[t].pc \notin BucketWriters \ {"reserve"}
  BY Parts, Before, BlocksWithin, OwnedFacts DEF InLevel, Deciding, InBlocks, Owning, Helping,
     HelpBegun, AtBlock, BucketWriters
<1>1. my[t].cand = <<>>
 <2>1. my[t].pc \notin InBlock
   BY <1>0 DEF InBlocks, Owning, Helping, HelpBegun, AtBlock, InBlock, Finding
 <2> QED BY <1>0, <2>1 DEF BlockEntries
<1>2. /\ my[t].pc \in {"own", "own_stamp", "own_progress", "reserve"} => my[t].owner = t
      /\ my[t].pc \in Helping => my[t].owner # t
  BY <1>0, RingAt DEF Owning, Own
<1>3. SameLevel(t) /\ SameOwner(t) /\ my[t].pc # "reserve" =>
        /\ Bucket(There(t), my[t].owner)' = Bucket(There(t), my[t].owner)
        /\ my'[t].level = my[t].level /\ my'[t].owner = my[t].owner
  BY <1>0, OwnView DEF SameLevel, SameOwner, BucketWriters
<1> USE DEF AtBlock, Helping, HelpBegun, Finding
<1>4. CASE Reserves(t) /\ my[t].pc = "reserve"
 <2>1. my'[t].pc = "own" /\ my'[t].item = 1 /\ my'[t].owner = my[t].owner /\ my'[t].cand = <<>>
   BY <1>1, <1>4 DEF Reserves, SameOwner, SameView
 <2>2. my'[t].item \in 1 .. Owned(my'[t].owner) + 1 BY <1>0, <2>1
 <2> QED BY <2>1, <2>2, EmptyBlock
<1>5. CASE /\ Stays(t)
           /\ \/ my[t].pc = "own" /\ my'[t].pc = "own_stamp" /\ my[t].item <= Owned(t)
              \/ my[t].pc = "own" /\ my'[t].pc = "finish"
                   /\ (my[t].item > Owned(t) \/ Entry(t).done >= my[t].level)
              \/ my[t].pc = "own_stamp" /\ my'[t].pc = "own_progress" /\ Stamped(t)
              \/ my[t].pc = "help" /\ my'[t].pc = "help_tag"
              \/ my[t].pc = "help_tag" /\ my'[t].pc = "help_start"
                   /\ Bucket(There(t), my[t].owner).level = my[t].level + 1
              \/ my[t].pc = "block_tag" /\ my'[t].pc = "block_progress"
                   /\ Bucket(There(t), my[t].owner).level = my[t].level + 1
              \/ my[t].pc = "block_tag" /\ my'[t].pc = "block_stamp"
              \/ my[t].pc = "block_progress" /\ my'[t].pc = "block_stamp"
 <2>1. /\ my'[t].item = my[t].item /\ my'[t].owner = my[t].owner /\ my'[t].cand = <<>>
       /\ my'[t].todo = my[t].todo /\ my'[t].level = my[t].level
   BY <1>1, <1>5 DEF Stays, SameOwner, SameView, SameItems, SameLevel
 <2>2. CASE my[t].pc = "own" /\ my'[t].pc = "own_stamp" /\ my[t].item <= Owned(t)
  <3>1. my'[t].item \in 1 .. Owned(my'[t].owner) BY <1>0, <1>2, <2>1, <2>2 DEF BlockEntries
  <3> QED BY <2>1, <2>2, <3>1, EmptyBlock
 <2>3. CASE my[t].pc = "own_stamp" /\ my'[t].pc = "own_progress"
  <3>1. my'[t].item \in 1 .. Owned(my'[t].owner) BY <1>0, <2>1, <2>3 DEF BlockEntries
  <3> QED BY <2>1, <2>3, <3>1, EmptyBlock
 <2>4. CASE my[t].pc = "help_tag" /\ my'[t].pc = "help_start"
            /\ Bucket(There(t), my[t].owner).level = my[t].level + 1
  <3>1. Bucket(There(t), my[t].owner)'.level = my'[t].level + 1 BY <1>3, <1>5, <2>1, <2>4 DEF Stays
  <3> QED BY <2>1, <2>4, <3>1, EmptyBlock
 <2>5. CASE my[t].pc \in {"block_tag", "block_progress"} /\ my'[t].pc \in {"block_progress", "block_stamp"}
            /\ (my'[t].pc = "block_progress" => Bucket(There(t), my[t].owner).level = my[t].level + 1)
  <3>1. my'[t].pc = "block_progress" => Bucket(There(t), my[t].owner)'.level = my'[t].level + 1
    BY <1>3, <1>5, <2>1, <2>5 DEF Stays
  <3>2. /\ my'[t].item \in 1 .. Owned(my'[t].owner) /\ my'[t].todo \subseteq 1 .. Owned(my'[t].owner)
        /\ my'[t].item \notin my'[t].todo
    BY <1>0, <1>2, <2>1, <2>5 DEF BlockEntries, Own
  <3> QED BY <2>1, <2>5, <3>1, <3>2, EmptyBlock
 <2>6. ASSUME my'[t].pc \in {"finish", "help_tag"} PROVE BlockEntries(t)' /\ CandidatesView(t)'
   BY <2>1, <2>6, NoBlock DEF InBlock
 <2> QED BY <1>5, <2>2, <2>3, <2>4, <2>5, <2>6
<1>6. CASE Scans(t) /\ my[t].pc \in {"own_stamp", "block_stamp"}
 <2>1. /\ my'[t].item = my[t].item /\ my'[t].owner = my[t].owner /\ my'[t].cand = <<>>
       /\ my'[t].todo = my[t].todo /\ my'[t].pc = "gather"
       /\ my'[t].j = Begin(my[t].owner, my[t].item)
   BY <1>1, <1>6 DEF Scans, SameOwner, SameItems
 <2>2. /\ my[t].item \in 1 .. Owned(my[t].owner)
       /\ my[t].owner # t => my[t].todo \subseteq 1 .. Owned(my[t].owner) /\ my[t].item \notin my[t].todo
   BY <1>0, <1>2, <1>6 DEF BlockEntries, Own
 <2>3. my'[t].j \in Begin(my'[t].owner, my'[t].item) .. End(my'[t].owner, my'[t].item) - 1
   BY <1>0, <2>1, <2>2, BlockRange
 <2> QED BY <2>1, <2>2, <2>3, EmptyBlock
<1>7. CASE NextOwn(t) /\ my[t].pc = "own_progress"
 <2>1. my'[t].pc = "own" /\ my'[t].item = my[t].item + 1 /\ my'[t].owner = my[t].owner /\ my'[t].cand = <<>>
   BY <1>1, <1>7 DEF NextOwn, SameOwner, SameView
 <2>2. my'[t].item \in 1 .. Owned(my'[t].owner) + 1 BY <1>0, <1>7, <2>1 DEF BlockEntries
 <2> QED BY <2>1, <2>2, EmptyBlock
<1>8. CASE Rests(t, "help", "advance") /\ my[t].pc = "help"
  BY <1>1, <1>8, NoBlock DEF Rests, InBlock
<1>9. ASSUME NEW n \in Nat, n >= 1, FromBlock(t, n), my[t].pc \in {"help_tag", "help_start"}
      PROVE  BlockEntries(t)' /\ CandidatesView(t)'
 <2>1. /\ my'[t].owner = my[t].owner /\ my'[t].cand = <<>> /\ my'[t].todo = n .. Owned(my[t].owner)
       /\ my'[t].pc = (IF n .. Owned(my[t].owner) = {} THEN "finish" ELSE "block")
   BY <1>1, <1>9 DEF FromBlock, SameOwner, SameView
 <2>2. my'[t].todo \subseteq 1 .. Owned(my'[t].owner) BY <1>0, <1>9, <2>1
 <2> QED BY <2>1, <2>2, EmptyBlock
<1>10. CASE FromBlock(t, 1) /\ my[t].pc = "help_tag" BY <1>9, <1>10
<1>11. CASE FromBlock(t, Entry(t).last_done + 1) /\ my[t].pc = "help_start"
 <2>1. PICK n \in Nat : n = Entry(t).last_done + 1 /\ n >= 1 BY <1>0
 <2> QED BY <1>9, <1>11, <2>1
<1>12. CASE NoMoreBlocks(t) /\ my[t].pc = "block"
  BY <1>1, <1>12, NoBlock DEF NoMoreBlocks, SameView, InBlock
<1>13. CASE my[t].pc = "block" /\ \E k \in my[t].todo : TakesBlock(t, k)
 <2>1. PICK k \in my[t].todo : TakesBlock(t, k) BY <1>13
 <2>2. /\ my'[t].owner = my[t].owner /\ my'[t].cand = <<>> /\ my'[t].todo = my[t].todo \ {k}
       /\ my'[t].pc = "block_tag" /\ my'[t].item = k
   BY <1>1, <2>1 DEF TakesBlock, SameOwner, SameView
 <2>3. my[t].todo \subseteq 1 .. Owned(my[t].owner) BY <1>0, <1>2, <1>13 DEF BlockEntries, Own
 <2> QED BY <2>1, <2>2, <2>3, EmptyBlock
<1>14. CASE ToBlock(t) /\ my[t].pc \in {"block_progress", "block_stamp", "stamp"}
 <2>1. /\ my'[t].owner = my[t].owner /\ my'[t].cand = <<>> /\ my'[t].todo = my[t].todo
       /\ my'[t].pc = (IF my[t].todo = {} THEN "finish" ELSE "block")
   BY <1>1, <1>14 DEF ToBlock, SameOwner, SameView
 <2>2. my[t].todo \subseteq 1 .. Owned(my[t].owner) BY <1>0, <1>2, <1>14 DEF BlockEntries, Own
 <2> QED BY <2>1, <2>2, EmptyBlock
<1> QED BY <1>4, <1>5, <1>6, <1>7, <1>8, <1>10, <1>11, <1>12, <1>13, <1>14 DEF BlocksPath

\* Positions in a block after a step inside the block.
LEMMA FullBlock ==
  ASSUME IInv, NEW t \in Thread, my[t].pc \in InBlock, NEW c, c \in Seq(Vertex), Fits(t, c),
         my'[t].cand = c, SameLevel(t), SameOwner(t), SameItems(t),
         my'[t].pc \in InBlock \cup {"own_progress", "stamp"},
         my'[t].pc \notin InBlock => c = <<>>,
         my'[t].pc = "gather" => InRange(t, my'[t].j),
         my'[t].pc \in {"test"} \cup Finding => c # <<>>,
         my'[t].pc = "test" => /\ my'[t].j \in 1 .. Len(adj[Head(c)]) + 1
                               /\ \A p \in 1 .. my'[t].j - 1 : Delta[adj[Head(c)][p]] # my[t].level,
         my'[t].pc \in Finding => /\ my'[t].j \in 1 .. Len(adj[Head(c)])
                                  /\ Delta[Head(c)] = my[t].level + 1
  PROVE  BlockEntries(t)' /\ CandidatesView(t)'
<1>1. /\ my[t].item \in 1 .. Owned(my[t].owner)
      /\ my[t].owner # t => my[t].todo \subseteq 1 .. Owned(my[t].owner) /\ my[t].item \notin my[t].todo
  BY Parts DEF BlockEntries, Own
<1>2. /\ my'[t].item = my[t].item /\ my'[t].owner = my[t].owner /\ my'[t].todo = my[t].todo
      /\ my'[t].level = my[t].level
  BY DEF SameLevel, SameOwner, SameItems
<1>3. C(t)' = Head(c) /\ (Own(t)' <=> my[t].owner = t) BY <1>2 DEF C, Own
<1>4. \A i \in 1 .. Len(my'[t].cand) : InRange(t, my[t].cand[i])' BY <1>2 DEF Fits, InRange
<1>5. my'[t].pc = "gather" => InRange(t, my[t].j)' BY <1>2 DEF InRange
<1>6. /\ my'[t].pc \notin {"own", "own_stamp", "block", "help_start"} \cup AtBlock
      /\ my'[t].pc # "block_progress"
  BY DEF InBlock, Finding, AtBlock
<1>7. BlockEntries(t)' BY <1>1, <1>2, <1>3, <1>4, <1>5, <1>6 DEF BlockEntries
<1>8. CandidatesView(t)' BY <1>2, <1>3 DEF CandidatesView, Fits
<1> QED BY <1>7, <1>8

LEMMA ScanTests ==
  ASSUME IInv, NEW t \in Thread, my[t].pc \in InBlock, NEW c, c \in Seq(Vertex), Fits(t, c), Tests(t, c)
  PROVE  BlockEntries(t)' /\ CandidatesView(t)'
<1>1. /\ my'[t].cand = c /\ SameLevel(t) /\ SameOwner(t) /\ SameItems(t)
      /\ my'[t].j = (IF c = <<>> THEN 0 ELSE 1)
      /\ my'[t].pc = (IF c # <<>> THEN "test" ELSE IF Own(t) THEN "own_progress" ELSE "stamp")
  BY DEF Tests
<1>2. my'[t].pc = "test" => /\ my'[t].j \in 1 .. Len(adj[Head(c)]) + 1
                            /\ \A p \in 1 .. my'[t].j - 1 : Delta[adj[Head(c)][p]] # my[t].level
 <2> SUFFICES ASSUME my'[t].pc = "test"
              PROVE  /\ my'[t].j \in 1 .. Len(adj[Head(c)]) + 1
                     /\ \A p \in 1 .. my'[t].j - 1 : Delta[adj[Head(c)][p]] # my[t].level
   OBVIOUS
 <2>1. c # <<>> /\ my'[t].j = 1 BY <1>1
 <2>2. Head(c) \in Vertex BY <2>1
 <2>3. Len(adj[Head(c)]) \in Nat BY <2>2, GraphAssumption
 <2> QED BY <2>1, <2>3
<1>3. /\ my'[t].pc \in InBlock \cup {"own_progress", "stamp"}
      /\ my'[t].pc \notin InBlock => c = <<>>
      /\ my'[t].pc # "gather" /\ my'[t].pc \notin Finding
      /\ my'[t].pc \in {"test"} \cup Finding => c # <<>>
  BY <1>1 DEF InBlock, Finding
<1> QED BY <1>1, <1>2, <1>3, FullBlock

LEMMA OwnScan ==
  ASSUME IInv, NEW t \in Thread, Step(t), QuietStep(t), ScanPath(t)
  PROVE  BlockEntries(t)' /\ CandidatesView(t)'
<1>0. /\ my[t].pc \in InBlock /\ my[t].pc \in Scanning /\ BlockEntries(t) /\ CandidatesView(t)
      /\ my[t].level \in Nat /\ my[t].j \in Nat /\ InLevel(t)
      /\ my[t].cand \in Seq(Vertex) /\ Fits(t, my[t].cand)
  BY Parts, Before, ScanWithin, FitNow DEF InBlock, Finding, Scanning, InLevel, Deciding
<1>1. CASE my[t].pc = "gather" /\ Gathers(t, Candidates(t)) /\ my[t].j + 1 < End(my[t].owner, my[t].item)
 <2>1. Candidates(t) \in Seq(Vertex) /\ Fits(t, Candidates(t)) BY <1>1, GatherFacts, FitGather
 <2>2. InRange(t, my[t].j + 1) BY <1>0, <1>1, GatherFacts DEF InRange
 <2>3. PICK c : c = Candidates(t) OBVIOUS
 <2>4. /\ my'[t].cand = c /\ SameLevel(t) /\ SameOwner(t) /\ SameItems(t)
       /\ my'[t].j = my[t].j + 1 /\ my'[t].pc = "gather"
   BY <1>1, <2>3 DEF Gathers
 <2>5. my'[t].pc \in InBlock /\ my'[t].pc \notin {"test"} \cup Finding BY <2>4 DEF InBlock, Finding
 <2> QED BY <1>0, <2>1, <2>2, <2>3, <2>4, <2>5, FullBlock
<1>2. CASE my[t].pc = "gather" /\ Tests(t, Candidates(t))
 <2>1. Candidates(t) \in Seq(Vertex) /\ Fits(t, Candidates(t)) BY <1>2, GatherFacts, FitGather
 <2>3. PICK c : c = Candidates(t) OBVIOUS
 <2> QED BY <1>0, <1>2, <2>1, <2>3, ScanTests
<1>3. CASE my[t].pc \in {"test", "mark"} /\ Tests(t, Tail(my[t].cand))
 <2>1. my[t].cand # <<>> BY <1>3, CFacts DEF Finding
 <2>2. Tail(my[t].cand) \in Seq(Vertex) /\ Fits(t, Tail(my[t].cand)) BY <2>1, FitTail
 <2>3. PICK c : c = Tail(my[t].cand) OBVIOUS
 <2> QED BY <1>0, <1>3, <2>2, <2>3, ScanTests
<1>4. CASE my[t].pc = "test" /\ ~(my[t].j > Len(adj[C(t)])) /\ Stays(t) /\ my'[t].pc = "found"
           /\ InFrontier(t, adj[C(t)][my[t].j])
 <2>1. /\ my'[t].cand = my[t].cand /\ SameLevel(t) /\ SameOwner(t) /\ SameItems(t)
       /\ my'[t].j = my[t].j
   BY <1>4 DEF Stays, SameView
 <2>2. /\ my[t].cand # <<>> /\ C(t) \in Vertex /\ C(t) = Head(my[t].cand)
       /\ Len(adj[C(t)]) \in Nat /\ C(t) = my[t].cand[1] /\ 1 \in 1 .. Len(my[t].cand)
   BY <1>4, CFacts DEF C
 <2>3. my[t].j \in 1 .. Len(adj[C(t)]) BY <1>0, <1>4, <2>2 DEF BlockEntries
 <2>4. PICK w : w = adj[C(t)][my[t].j] OBVIOUS
 <2>5. w \in Neighbors(C(t)) /\ w \in Vertex /\ C(t) \in Neighbors(w)
   BY <2>2, <2>3, <2>4, GraphTypes, SymmetryAssumption
 <2>6. Delta[w] = my[t].level BY <1>0, <1>4, <2>4, <2>5, FrontierExact
 <2>7. Delta[C(t)] \in 0 .. my[t].level + 1
  <3>1. Delta[w] # Unset BY <1>0, <2>6 DEF Unset
  <3>2. Delta[C(t)] \in 0 .. Delta[w] + 1 BY <2>5, <3>1, DistanceAssumption
  <3> QED BY <2>6, <3>2
 <2>8. Delta[C(t)] \notin 0 .. my[t].level BY <1>0, <2>2 DEF Fits
 <2>9. Delta[C(t)] = my[t].level + 1 BY <1>0, <2>7, <2>8
 <2>10. my'[t].pc \in InBlock /\ my'[t].pc \in Finding /\ my'[t].pc \notin {"gather", "test"}
   BY <1>4 DEF InBlock, Finding
 <2> QED BY <1>0, <2>1, <2>2, <2>3, <2>9, <2>10, FullBlock
<1>5. CASE my[t].pc = "test" /\ ~(my[t].j > Len(adj[C(t)])) /\ NextNeighbor(t)
           /\ ~InFrontier(t, adj[C(t)][my[t].j])
 <2>1. /\ my'[t].cand = my[t].cand /\ SameLevel(t) /\ SameOwner(t) /\ SameItems(t)
       /\ my'[t].j = my[t].j + 1 /\ my'[t].pc = "test"
   BY <1>5 DEF NextNeighbor
 <2>2. /\ my[t].cand # <<>> /\ C(t) \in Vertex /\ C(t) = Head(my[t].cand)
       /\ Len(adj[C(t)]) \in Nat
   BY <1>5, CFacts DEF C
 <2>3. my[t].j \in 1 .. Len(adj[C(t)]) BY <1>0, <1>5, <2>2 DEF BlockEntries
 <2>4. PICK w : w = adj[C(t)][my[t].j] OBVIOUS
 <2>5. w \in Vertex BY <2>2, <2>3, <2>4, GraphTypes
 <2>6. Delta[w] # my[t].level BY <1>0, <1>5, <2>4, <2>5, FrontierExact
 <2>7. \A p \in 1 .. my[t].j - 1 : Delta[adj[C(t)][p]] # my[t].level
   BY <1>0, <1>5 DEF CandidatesView
 <2>8. \A p \in 1 .. my'[t].j - 1 : Delta[adj[C(t)][p]] # my[t].level
  <3> SUFFICES ASSUME NEW p \in 1 .. my'[t].j - 1 PROVE Delta[adj[C(t)][p]] # my[t].level OBVIOUS
  <3>1. p \in 1 .. my[t].j - 1 \/ p = my[t].j BY <1>0, <2>1
  <3> QED BY <2>4, <2>6, <2>7, <3>1
 <2>9. my'[t].j \in 1 .. Len(adj[C(t)]) + 1 BY <1>0, <2>1, <2>2, <2>3
 <2>10. my'[t].pc \in InBlock /\ my'[t].pc \notin {"gather"} \cup Finding
   BY <2>1 DEF InBlock, Finding
 <2> QED BY <1>0, <2>1, <2>2, <2>8, <2>9, <2>10, FullBlock
<1>6. CASE my[t].pc \in {"found", "next_code"} /\ Stays(t) /\ my'[t].pc \in {"next_code", "mark"}
 <2>1. /\ my'[t].cand = my[t].cand /\ SameLevel(t) /\ SameOwner(t) /\ SameItems(t)
       /\ my'[t].j = my[t].j
   BY <1>6 DEF Stays, SameView
 <2>2. /\ my[t].cand # <<>> /\ C(t) = Head(my[t].cand) /\ Delta[C(t)] = my[t].level + 1
       /\ my[t].j \in 1 .. Len(adj[C(t)])
   BY <1>0, <1>6, CFacts DEF C, Finding, BlockEntries
 <2>3. my'[t].pc \in InBlock /\ my'[t].pc \in Finding /\ my'[t].pc \notin {"gather", "test"}
   BY <1>6 DEF InBlock, Finding
 <2> QED BY <1>0, <2>1, <2>2, <2>3, FullBlock
<1> QED BY <1>1, <1>2, <1>3, <1>4, <1>5, <1>6 DEF ScanPath

-----------------------------------------------------------------------------
\* The positions of a thread after its own step, but for the sums.
LEMMA OtherPaths ==
  ASSUME IInv, NEW t \in Thread, my[t].pc \notin InBlock, my'[t].cand = my[t].cand,
         my'[t].pc \notin {"own", "own_stamp", "own_progress", "stamp", "block", "help_start"}
                          \cup AtBlock \cup InBlock
  PROVE  BlockEntries(t)' /\ CandidatesView(t)'
<1>1. my[t].cand = <<>> BY Parts DEF BlockEntries
<1> QED BY <1>1, NoBlock

LEMMA Restart ==
  ASSUME IInv, NEW t \in Thread, my[t].pc \notin InBlock, my'[t].cand = my[t].cand,
         my'[t].pc \in Deciding \cup Reusing \cup Ending \cup {"done", "help", "codes", "reserve", "advance", "returned"}
  PROVE  /\ Entries(t)' /\ ItemView(t)' /\ CodeEntries(t)' /\ BlockEntries(t)' /\ CandidatesView(t)'
<1>1. /\ my'[t].pc \notin {"size", "load"} \cup Starting \cup Reading
      /\ my'[t].pc \notin {"codes_size", "codes_progress"} \cup CodesStarting \cup AtCode
      /\ my'[t].pc \notin {"own", "own_stamp", "own_progress", "stamp", "block", "help_start"}
                        \cup AtBlock \cup InBlock
  BY DEF Deciding, Reusing, Ending, Starting, Reading, AtItem, CodesStarting, AtCode, AtBlock, InBlock, Finding
<1> QED BY <1>1, NoEntries, NoCodeEntries, OtherPaths

LEMMA OwnPositions ==
  ASSUME IInv, NEW t \in Thread, Step(t)
  PROVE  /\ Entries(t)' /\ ItemView(t)' /\ CodeEntries(t)' /\ BlockEntries(t)' /\ CandidatesView(t)'
<1>1. ASSUME NEW w \in WordType, WinsLevel(t, w)
      PROVE  Entries(t)' /\ ItemView(t)' /\ CodeEntries(t)' /\ BlockEntries(t)' /\ CandidatesView(t)'
 <2>1. /\ my[t].pc \notin InBlock /\ my'[t].cand = my[t].cand
       /\ my'[t].pc \in {"returned", "reset"}
   BY <1>1 DEF WinsLevel, Wins, Follows, SameView, InBlock, Finding
 <2> QED BY <2>1, Restart DEF Reusing
<1>2. ASSUME QuietStep(t)
      PROVE  Entries(t)' /\ ItemView(t)' /\ CodeEntries(t)' /\ BlockEntries(t)' /\ CandidatesView(t)'
 <2>1. CASE Joins(t)
  <3>1. /\ my[t].pc \notin InBlock /\ my'[t].cand = my[t].cand
        /\ my'[t].pc \in {"returned", "reset"}
    BY <2>1 DEF Joins, Follows, SameView, InBlock, Finding
  <3> QED BY <3>1, Restart DEF Reusing
 <2>2. CASE SumPath(t)
  <3>1. /\ my[t].pc \notin InBlock /\ my'[t].cand = my[t].cand
        /\ my'[t].pc \in Deciding
    BY <2>2 DEF SumPath, Sees, SumsUp, Stays, HasSize, SameView, InBlock, Finding, Deciding
  <3> QED BY <3>1, Restart
 <2>3. CASE JumpPath(t)
  <3>1. /\ my[t].pc \notin InBlock /\ my'[t].cand = my[t].cand
        /\ my'[t].pc \in Deciding
    BY <2>3 DEF JumpPath, MovesOn, Jumps_, Lands, SameView, InBlock, Finding, Deciding
  <3> QED BY <3>1, Restart
 <2>4. CASE ReusePath(t)
  <3>1. /\ my[t].pc \notin InBlock /\ my'[t].cand = my[t].cand
        /\ my'[t].pc \in Reusing \cup {"done", "codes", "reserve"}
    BY <2>4 DEF ReusePath, Stays, SameView, InBlock, Finding, Reusing
  <3> QED BY <3>1, Restart
 <2>5. CASE AdvancePath(t)
  <3>1. /\ my[t].pc \notin InBlock /\ my'[t].cand = my[t].cand
        /\ my'[t].pc \in Deciding
    BY <2>5 DEF AdvancePath, InBlock, Finding, Deciding
  <3> QED BY <3>1, Restart
 <2>6. CASE MarkPath(t)
  <3>1. /\ my[t].pc \notin InBlock /\ my'[t].cand = my[t].cand
        /\ my'[t].pc \in {"mark_done", "done", "help", "advance"}
   <4>1. my[t].pc \in Ending BY <2>6, MarkWithin
   <4> QED BY <2>6, <4>1 DEF MarkPath, Ends, Rests, Stays, SameView, InBlock, Finding, Ending
  <3> QED BY <3>1, Restart DEF Ending
 <2>7. CASE TopPath(t)
  <3>1. /\ my[t].pc \in InTopDown /\ my'[t].pc \in InTopDown \cup {"finish", "advance"}
    BY <2>7, TopWithin DEF Within
  <3>2. my'[t].cand = my[t].cand
    BY <2>7 DEF TopPath, Stays, Rests, Loads, HelpsFrom, Takes, Leaves, AtNeighbor, SameView
  <3>3. /\ my[t].pc \notin InBlock
        /\ my'[t].pc \notin {"codes_size", "codes_progress"} \cup CodesStarting \cup AtCode
        /\ my'[t].pc \notin {"own", "own_stamp", "own_progress", "stamp", "block", "help_start"}
                            \cup AtBlock \cup InBlock
    BY <3>1 DEF InTopDown, Looking, Starting, Reading, AtItem, CodesStarting, AtCode, AtBlock,
       InBlock, Finding
  <3> QED BY <1>2, <2>7, <3>2, <3>3, TopEntries, TopItems, NoCodeEntries, OtherPaths
 <2>8. CASE CodesPath(t)
  <3>1. /\ my[t].pc \in InCodes /\ my'[t].pc \in InCodes \cup {"reserve"}
    BY <2>8, CodesWithin DEF Within
  <3>2. my'[t].cand = my[t].cand
    BY <2>8 DEF CodesPath, Stays, Rests, AtEntry, LoadsCodes, TakesCode, SameView
  <3>3. /\ my[t].pc \notin InBlock
        /\ my'[t].pc \notin {"size", "load"} \cup Starting \cup Reading
        /\ my'[t].pc \notin {"own", "own_stamp", "own_progress", "stamp", "block", "help_start"}
                            \cup AtBlock \cup InBlock
    BY <3>1 DEF InCodes, CodesLooking, Starting, Reading, AtItem, CodesStarting, AtCode, AtBlock,
       InBlock, Finding
  <3> QED BY <1>2, <2>8, <3>2, <3>3, CodesEntries, NoEntries, OtherPaths
 <2>9. CASE ScanPath(t) \/ BlocksPath(t)
  <3>1. my'[t].pc \in InBlock \cup Owning \cup Helping \cup {"finish", "advance"}
    BY <2>9, ScanWithin, BlocksWithin DEF Within, InBlock, Owning, Helping
  <3>2. /\ my'[t].pc \notin {"size", "load"} \cup Starting \cup Reading
        /\ my'[t].pc \notin {"codes_size", "codes_progress"} \cup CodesStarting \cup AtCode
    BY <3>1 DEF InBlock, Finding, Owning, Helping, HelpBegun, AtBlock, Starting, Reading, AtItem,
       CodesStarting, AtCode
  <3> QED BY <1>2, <2>9, <3>2, OwnScan, OwnBlocks, NoEntries, NoCodeEntries
 <2> QED
   BY <1>2, <2>1, <2>2, <2>3, <2>4, <2>5, <2>6, <2>7, <2>8, <2>9 DEF QuietStep, QuietPath, LevelPath
<1> QED BY <1>1, <1>2, StepPaths

\* After a choice nobody is in the next level.
LEMMA NobodyNext ==
  ASSUME IInv, NEW t \in Thread, Step(t), NEW w \in WordType, WinsLevel(t, w), NEW s \in Thread
  PROVE  ~Next_(s)'
<1>1. Chosen' = Chosen + 1 /\ my[t].level = Chosen + 1 /\ Chosen \in Int
  BY WinWords, Words DEF WinsLevel
<1>2. my'[s].level = my[s].level /\ my[s].level \in Nat /\ my[s].level <= Chosen + 1
 <2>1. my'[s].level = my[s].level BY Moved DEF WinsLevel, Follows
 <2> QED BY <2>1, Parts, ThreadFields DEF Place
<1> QED BY <1>1, <1>2 DEF Next_

LEMMA SummedIf ==
  ASSUME NEW s \in Thread,
         my'[s].pc \in {"tag", "sum", "choose"} /\ Next_(s)' =>
           /\ my'[s].pc = "sum" => At_(s)'.level = my'[s].level
           /\ my'[s].pc = "choose" /\ my'[s].sz > 0 => Level(my'[s].level) # {}
           /\ my'[s].sz = 0 => \A v \in Level(my'[s].level) :
                \E o \in Thread : /\ o >= my'[s].owner /\ my'[s].pc # "choose"
                                  /\ EntryOf(my[s].level, o, v)'
           /\ my'[s].pc \in {"tag", "sum"} => my'[s].sz = 0
  PROVE  Summed(s)'
<1>1. Level(my[s].level)' = Level(my'[s].level) BY DEF Level
<1> QED BY <1>1 DEF Summed

LEMMA NextEntries ==
  ASSUME IInv, NEW t \in Thread, Step(t), QuietStep(t), NEW s \in Thread, Next_(s),
         my'[s].level = my[s].level
  PROVE  /\ \A o \in Thread : \A v : EntryOf(my[s].level, o, v) => EntryOf(my[s].level, o, v)'
         /\ my'[s].owner = my[s].owner /\ At_(s).level = my[s].level =>
              At_(s)'.level = my[s].level
<1>1. my[s].level \in Nat /\ my[s].level >= Chosen /\ Chosen \in Int /\ my[s].level \in Int
      /\ my[s].owner \in Thread
  BY Parts, ThreadFields, Words DEF Next_
<1>2. BucketSteps(t) /\ nodes' \in NodesType BY Effects
<1>3. PICK d \in Int : d = my[s].level BY <1>1
<1>4. ASSUME NEW o \in Thread, NEW v, EntryOf(my[s].level, o, v) PROVE EntryOf(my[s].level, o, v)'
 <2>1. EntryOf(d, o, v) BY <1>3, <1>4
 <2>2. EntryOf(d, o, v)' BY <1>1, <1>2, <1>3, <2>1, EntryStays
 <2> QED BY <1>3, <2>2 DEF EntryOf
<1>5. ASSUME my'[s].owner = my[s].owner, At_(s).level = my[s].level
      PROVE  At_(s)'.level = my[s].level
 <2>1. PICK p \in {0, 1} : p = Here(s) BY Before
 <2>2. PICK o \in Thread : o = my[s].owner BY <1>1
 <2>3. At_(s)' = Bucket(p, o)' /\ At_(s) = Bucket(p, o) BY <1>5, <2>1, <2>2 DEF At_, Bucket, Here
 <2>4. Grows(Bucket(p, o), Bucket(p, o)') BY <1>1, <1>2, <1>5, <2>3, SteadyBuckets
 <2> QED BY <1>5, <2>3, <2>4 DEF Grows
<1> QED BY <1>4, <1>5

LEMMA SummedKept ==
  ASSUME IInv, NEW t \in Thread, Step(t)
  PROVE  \A s \in Thread : Summed(s)'
<1> SUFFICES ASSUME NEW s \in Thread PROVE Summed(s)' OBVIOUS
<1>1. CASE \E w \in WordType : WinsLevel(t, w) BY <1>1, NobodyNext, SummedIf
<1>2. CASE QuietStep(t)
 <2>1. Chosen' = Chosen BY <1>2 DEF QuietStep
 <2>2. CASE s # t
  <3>1. my'[s] = my[s] /\ (Next_(s)' <=> Next_(s)) /\ Summed(s)
    BY <2>1, <2>2, Moved, Parts DEF Next_
  <3> SUFFICES ASSUME my[s].pc \in {"tag", "sum", "choose"}, Next_(s)
               PROVE  /\ my[s].pc = "sum" => At_(s)'.level = my[s].level
                      /\ my[s].pc = "choose" /\ my[s].sz > 0 => Level(my[s].level) # {}
                      /\ my[s].sz = 0 => \A v \in Level(my[s].level) :
                           \E o \in Thread : /\ o >= my[s].owner /\ my[s].pc # "choose"
                                             /\ EntryOf(my[s].level, o, v)'
                      /\ my[s].pc \in {"tag", "sum"} => my[s].sz = 0
    BY <3>1, SummedIf
  <3>2. /\ my[s].pc = "sum" => At_(s).level = my[s].level
        /\ my[s].pc = "choose" /\ my[s].sz > 0 => Level(my[s].level) # {}
        /\ my[s].sz = 0 => \A v \in Level(my[s].level) :
             \E o \in Thread : o >= my[s].owner /\ my[s].pc # "choose"
                               /\ EntryOf(my[s].level, o, v)
        /\ my[s].pc \in {"tag", "sum"} => my[s].sz = 0
    BY <3>1 DEF Summed
  <3>3. /\ \A o \in Thread : \A v : EntryOf(my[s].level, o, v) => EntryOf(my[s].level, o, v)'
        /\ my[s].pc = "sum" => At_(s)'.level = my[s].level
    BY <1>2, <3>1, <3>2, NextEntries
  <3> QED BY <3>2, <3>3
 <2>3. CASE s = t /\ SumPath(t)
  <3>1. /\ my'[t].level = my[t].level /\ (Next_(t)' <=> Next_(t)) /\ Summed(t)
        /\ my[t].level \in Nat /\ my[t].owner \in Thread
        /\ my[t].pc \in {"plan", "tag", "sum"}
    BY <2>1, <2>3, Parts, Before DEF Next_, SumPath, Sees, SumsUp, Stays, HasSize, SameLevel
  <3> SUFFICES ASSUME Next_(t), my'[t].pc \in {"tag", "sum", "choose"}
               PROVE  /\ my'[t].pc = "sum" => At_(t)'.level = my[t].level
                      /\ my'[t].pc = "choose" /\ my'[t].sz > 0 => Level(my[t].level) # {}
                      /\ my'[t].sz = 0 => \A v \in Level(my[t].level) :
                           \E o \in Thread : /\ o >= my'[t].owner /\ my'[t].pc # "choose"
                                             /\ EntryOf(my[t].level, o, v)'
                      /\ my'[t].pc \in {"tag", "sum"} => my'[t].sz = 0
    BY <2>3, <3>1, SummedIf
  <3>2. /\ \A o \in Thread : \A v : EntryOf(my[t].level, o, v) => EntryOf(my[t].level, o, v)'
        /\ my'[t].owner = my[t].owner /\ At_(t).level = my[t].level =>
             At_(t)'.level = my[t].level
    BY <1>2, <3>1, NextEntries
  <3>3. CASE Sees(t) /\ my[t].pc = "plan"
   <4>1. my'[t].pc = "tag" /\ my'[t].owner = 0 /\ my'[t].sz = 0
     BY <3>3, Parts DEF Sees, SameOwner, SameItems, Rounds
   <4>2. ASSUME NEW v \in Level(my[t].level)
         PROVE  \E o \in Thread : o >= 0 /\ EntryOf(my[t].level, o, v)
    <5>1. v \in Vertex /\ dist[v] # Unset /\ dist[v] = my[t].level
     <6>1. v \in Vertex /\ Delta[v] = my[t].level BY <4>2 DEF Level
     <6>2. dist[v] # Unset BY <4>2 DEF IInv, LevelsInv, LevelsFound, Found, Discovered
     <6> QED BY <6>1, <6>2, DistKnown
    <5>2. dist[v] = Chosen + 1 BY <5>1 DEF Next_
    <5>3. \E o \in Thread : EntryOf(dist[v], o, v) BY <5>1, <5>2 DEF IInv, LevelsInv, Kept
    <5>4. \A o \in Thread : o >= 0 BY MemAssumption DEF Thread
    <5> QED BY <5>1, <5>3, <5>4
   <4> QED BY <3>2, <4>1, <4>2
  <3>4. ASSUME my[t].pc \in {"tag", "sum"}
        PROVE  /\ my[t].sz = 0
               /\ \A v \in Level(my[t].level) :
                    \E o \in Thread : o >= my[t].owner /\ EntryOf(my[t].level, o, v)
               /\ my[t].pc = "sum" => At_(t).level = my[t].level
    BY <3>1, <3>4 DEF Summed
  <3>5. CASE SumsUp(t) /\ my[t].pc \in {"tag", "sum"}
             /\ (At_(t).level # my[t].level \/ At_(t).size = 0)
   <4>1. my'[t].sz = 0 /\ my'[t].owner = (IF my[t].owner = NumT - 1 THEN 0 ELSE my[t].owner + 1)
         /\ my'[t].pc = (IF my[t].owner = NumT - 1 THEN "choose" ELSE "tag")
     BY <3>4, <3>5 DEF SumsUp, SameItems
   <4>2. ASSUME NEW v \in Level(my[t].level), NEW o \in Thread, o >= my[t].owner,
                EntryOf(my[t].level, o, v)
         PROVE  my[t].owner # NumT - 1 /\ o >= my[t].owner + 1
    <5>1. ~EntryOf(my[t].level, my[t].owner, v) BY <3>1, <3>5 DEF EntryOf, At_, Here
    <5>2. o # my[t].owner BY <4>2, <5>1
    <5>3. o \in 0 .. NumT - 1 /\ NumT \in Nat /\ my[t].owner \in 0 .. NumT - 1
      BY <3>1, MemAssumption DEF Thread
    <5> QED BY <4>2, <5>2, <5>3
   <4>3. ASSUME NEW v \in Level(my[t].level)
         PROVE  \E o \in Thread : /\ o >= my'[t].owner /\ my'[t].pc # "choose"
                                  /\ EntryOf(my[t].level, o, v)'
    <5>1. PICK o \in Thread : o >= my[t].owner /\ EntryOf(my[t].level, o, v) BY <3>4, <3>5
    <5>2. my[t].owner # NumT - 1 /\ o >= my[t].owner + 1 BY <4>2, <5>1
    <5>3. my'[t].owner = my[t].owner + 1 /\ my'[t].pc = "tag" BY <4>1, <5>2
    <5> QED BY <3>2, <5>1, <5>2, <5>3
   <4> QED BY <4>1, <4>3
  <3>6. CASE Stays(t) /\ my[t].pc = "tag" /\ my'[t].pc = "sum" /\ At_(t).level = my[t].level
   <4>1. my'[t].sz = 0 /\ my'[t].owner = my[t].owner BY <3>4, <3>6 DEF Stays, SameOwner, SameItems
   <4> QED BY <3>2, <3>4, <3>6, <4>1
  <3>7. CASE HasSize(t) /\ my[t].pc = "sum" /\ At_(t).size > 0
   <4>1. my'[t].sz = 1 /\ my'[t].pc = "choose" BY <3>7 DEF HasSize
   <4>2. Level(my[t].level) # {}
    <5>1. PICK p \in {0, 1} : p = Here(t) BY Before
    <5>2. PICK o \in Thread : o = my[t].owner BY <3>1
    <5>3. Bucket(p, o) = At_(t) /\ At_(t).level = my[t].level BY <3>4, <3>7, <5>1, <5>2 DEF At_
    <5>4. 1 \in 1 .. Bucket(p, o).size BY <3>7, <5>3, SoundBucket
    <5>5. Bucket(p, o).list[1] \in Vertex /\ Delta[Bucket(p, o).list[1]] = my[t].level
      BY <5>3, <5>4, SoundBucket
    <5> QED BY <5>5 DEF Level
   <4> QED BY <4>1, <4>2
  <3> QED BY <2>3, <3>3, <3>5, <3>6, <3>7 DEF SumPath
 <2>4. CASE s = t /\ ~SumPath(t)
  <3>1. my'[t].pc \notin {"tag", "sum", "choose"}
   <4>1. CASE LevelPath(t) BY <4>1, Inner DEF InnerStep, Deciding
   <4>2. CASE Joins(t) \/ JumpPath(t) \/ AdvancePath(t)
     BY <4>2 DEF Joins, Follows, JumpPath, MovesOn, Jumps_, Lands, AdvancePath
   <4> QED BY <1>2, <2>4, <4>1, <4>2 DEF QuietStep, QuietPath
  <3> QED BY <2>4, <3>1, SummedIf
 <2> QED BY <2>2, <2>3, <2>4
<1> QED BY <1>1, <1>2, StepPaths

LEMMA PositionsKept ==
  ASSUME IInv, NEW t \in Thread, Step(t)
  PROVE  Positions'
<1>1. \A s \in Thread : Rounds(s)' /\ Tags(s)' /\ Summed(s)' BY RoundsKept, TagsKept, SummedKept
<1>2. \A s \in Thread : Entries(s)' /\ ItemView(s)' /\ CodeEntries(s)' /\ BlockEntries(s)'
                        /\ CandidatesView(s)'
  BY OwnPositions, OtherEntries, OtherItems, OtherCodeEntries, OtherBlocks
<1> QED BY <1>1, <1>2 DEF Positions

LEMMA ShapeKept ==
  ASSUME IInv, NEW t \in Thread, Step(t)
  PROVE  Shape'
  BY Effects, Moved DEF DataTypes, Shape, NodesType

\* A step either starts the next level or leaves the words as they are.
LEMMA ChosenOr ==
  ASSUME IInv, NEW t \in Thread, Step(t)
  PROVE  /\ Chosen' = Chosen \/ (Chosen' = Chosen + 1 /\ my[t].pc = "choose")
         /\ Chosen' \in Int /\ Chosen \in Int /\ Chosen >= -1
         /\ BucketSteps(t) /\ nodes' \in NodesType /\ DataStep(t) /\ MarkSteps(t)
<1>1. Chosen' = Chosen \/ (Chosen' = Chosen + 1 /\ my[t].pc = "choose")
  BY StepPaths, WinWords DEF WinsLevel, QuietStep, Wins
<1> QED BY <1>1, Words, Effects

LEMMA LatestFollowed ==
  ASSUME IInv, NEW t \in Thread, InLevel(t), Current(t)
  PROVE  Latest = Followed(t) /\ Latest.direction = my[t].direction
         /\ Latest.codes_first = my[t].codes_first
<1>1. Curr(t).plan_word = Latest /\ Latest.level = Chosen BY WordHere, Words
<1>2. Latest = Followed(t) BY <1>1, WordOfLevel DEF Current
<1> QED BY <1>2 DEF Followed, Word

LEMMA KeptKept ==
  ASSUME IInv, NEW t \in Thread, Step(t)
  PROVE  Kept'
<1>0. /\ Chosen' = Chosen \/ (Chosen' = Chosen + 1 /\ my[t].pc = "choose")
      /\ Chosen' \in Int /\ Chosen \in Int /\ BucketSteps(t) /\ nodes' \in NodesType /\ DataStep(t)
  BY ChosenOr
<1> SUFFICES ASSUME NEW v \in Vertex, NEW d, d = dist'[v], d \in {Chosen', Chosen' + 1}, d # Unset
             PROVE  \E o \in Thread : EntryOf(d, o, v)'
  BY DEF Kept, EntryOf
<1>1. /\ dist[v] # Unset => dist'[v] = dist[v] /\ dist[v] \in Int /\ dist[v] <= Chosen + 1
      /\ dist'[v] # dist[v] => /\ Finds(t, v) /\ dist[v] = Unset /\ dist'[v] = my[t].level + 1
      /\ d \in Int
  BY <1>0, DistStays, DistKnown
<1>2. CASE dist'[v] = dist[v]
 <2>1. d = dist[v] /\ d \in {Chosen, Chosen + 1} BY <1>0, <1>1, <1>2
 <2>2. PICK o \in Thread : EntryOf(d, o, v) BY <2>1 DEF IInv, LevelsInv, Kept
 <2> QED BY <1>0, <1>1, <2>1, <2>2, EntryStays
<1>3. CASE dist'[v] # dist[v]
 <2>1. Chosen' = Chosen /\ EntryOf(d, t, v)
   BY <1>0, <1>1, <1>3 DEF Finds, IInv, LevelsInv, PushedFirst
 <2>2. d >= Chosen BY <1>0, <2>1
 <2> QED BY <1>0, <1>1, <2>1, <2>2, EntryStays
<1> QED BY <1>2, <1>3

LEMMA PushingPaths ==
  ASSUME IInv, NEW t \in Thread, Step(t), my'[t].pc \in {"swap", "next_code", "mark"}
  PROVE  /\ Stays(t)
         /\ my'[t].pc = "swap" => my[t].pc = "push"
         /\ my'[t].pc = "next_code" => my[t].pc = "found"
         /\ my'[t].pc = "mark" => my[t].pc = "next_code"
<1>1. LevelPath(t)
  BY StepPaths DEF WinsLevel, Follows, QuietStep, QuietPath, Joins, SumPath, Sees, SumsUp, HasSize,
     JumpPath, MovesOn, Jumps_, Lands, AdvancePath
<1>2. CASE TopPath(t)
 <2>1. ~(\E i \in my[t].todo : \E u \in Readable(At_(t).list[i]) : Takes(t, i, u)) BY DEF Takes
 <2> QED BY <1>2, <2>1 DEF TopPath, Rests, Loads, HelpsFrom, Leaves, AtNeighbor
<1>3. CASE ScanPath(t) BY <1>3 DEF ScanPath, Gathers, Tests, NextNeighbor
<1>4. my'[t].pc \notin InCodes \cup {"reserve"} \cup Owning \cup Helping
                       \cup {"gather", "finish", "advance", "done", "help", "mark_done", "empty", "retag", "codes"}
  BY DEF InCodes, CodesLooking, CodesStarting, AtCode, Owning, Helping, HelpBegun, AtBlock
<1>5. ~CodesPath(t) /\ ~BlocksPath(t) /\ ~MarkPath(t) /\ ~ReusePath(t)
  BY <1>4, CodesWithin, BlocksWithin, MarkWithin, ReuseWithin DEF Within
<1> QED BY <1>1, <1>2, <1>3, <1>5 DEF LevelPath

LEMMA PushedFirstKept ==
  ASSUME IInv, NEW t \in Thread, Step(t)
  PROVE  PushedFirst'
<1>0. BucketSteps(t) /\ nodes' \in NodesType BY ChosenOr
<1> SUFFICES ASSUME NEW s \in Thread
             PROVE  /\ my'[s].pc = "swap" => EntryOf(my[s].level + 1, s, V(s))'
                    /\ my'[s].pc \in {"next_code", "mark"} => EntryOf(my[s].level + 1, s, C(s))'
  BY DEF PushedFirst
<1>1. /\ my[s].pc = "swap" => EntryOf(my[s].level + 1, s, V(s))
      /\ my[s].pc \in {"next_code", "mark"} => EntryOf(my[s].level + 1, s, C(s))
  BY DEF IInv, LevelsInv, PushedFirst
<1>2. PICK p \in {0, 1} : p = There(s) /\ p = (my[s].level + 1) % 2 BY Before DEF There
<1>3. CASE s # t
 <2>1. my'[s] = my[s] BY <1>3, Moved
 <2>2. Bucket(p, s)' = Bucket(p, s) BY <1>0, <1>3, SteadyBuckets
 <2>3. Bucket((my[s].level + 1) % 2, s)' = Bucket((my[s].level + 1) % 2, s)
   BY <1>2, <2>1, <2>2 DEF Bucket
 <2>4. V(s)' = V(s) /\ C(s)' = C(s) BY <2>1 DEF V, C
 <2> QED BY <1>1, <2>1, <2>3, <2>4 DEF EntryOf
<1>4. CASE s = t
 <2> SUFFICES ASSUME my'[t].pc \in {"swap", "next_code", "mark"}
              PROVE  /\ my'[t].pc = "swap" => EntryOf(my[t].level + 1, t, V(t))'
                     /\ my'[t].pc \in {"next_code", "mark"} => EntryOf(my[t].level + 1, t, C(t))'
   BY <1>4
 <2>1. /\ Stays(t)
       /\ my'[t].pc = "swap" => my[t].pc = "push"
       /\ my'[t].pc = "next_code" => my[t].pc = "found"
       /\ my'[t].pc = "mark" => my[t].pc = "next_code"
   BY PushingPaths
 <2>2. my'[t].level = my[t].level /\ V(t)' = V(t) /\ C(t)' = C(t)
   BY <2>1 DEF Stays, SameLevel, SameView, V, C
 <2>3. BucketStep(t, Bucket(p, t), Bucket(p, t)') BY <1>0, <1>2, <1>4 DEF BucketSteps
 <2>4. Bucket(p, t).level = my[t].level + 1 /\ Bucket(p, t).size \in Nat
  <3>1. my[t].pc \notin Ready BY <2>1 DEF Ready, Deciding
  <3> QED BY <1>2, <1>4, <3>1, TagsAt DEF Mine
 <2>5. ASSUME NEW x, Pushed(Bucket(p, t), Bucket(p, t)', x)
       PROVE  Bucket(p, t)'.level = my'[t].level + 1
              /\ \E i \in 1 .. Bucket(p, t)'.size : Bucket(p, t)'.list[i] = x
  <3>1. PICK b : b = Bucket(p, t)' OBVIOUS
  <3>2. b.level = my[t].level + 1 /\ b.size = Bucket(p, t).size + 1 /\ b.list[b.size] = x
    BY <2>4, <2>5, <3>1 DEF Pushed
  <3>3. b.size \in 1 .. b.size BY <2>4, <3>2
  <3> QED BY <2>2, <3>1, <3>2, <3>3
 <2>6. ASSUME NEW x, Bucket(p, t)'.level = my'[t].level + 1
                     /\ \E i \in 1 .. Bucket(p, t)'.size : Bucket(p, t)'.list[i] = x
       PROVE  /\ V(t) = x => EntryOf(my[t].level + 1, t, V(t))'
              /\ C(t) = x => EntryOf(my[t].level + 1, t, C(t))'
  <3>1. Bucket((my[t].level + 1) % 2, t)' = Bucket(p, t)' BY <1>2, <1>4, <2>2 DEF Bucket
  <3> QED BY <2>2, <2>6, <3>1 DEF EntryOf
 <2>7. CASE my'[t].pc = "swap"
  <3>1. Pushed(Bucket(p, t), Bucket(p, t)', V(t)) BY <2>1, <2>3, <2>7 DEF BucketStep
  <3>2. PICK x : x = V(t) OBVIOUS
  <3> QED BY <2>5, <2>6, <2>7, <3>1, <3>2
 <2>8. CASE my'[t].pc = "next_code"
  <3>1. Pushed(Bucket(p, t), Bucket(p, t)', C(t)) BY <2>1, <2>3, <2>8 DEF BucketStep
  <3>2. PICK x : x = C(t) OBVIOUS
  <3> QED BY <2>5, <2>6, <2>8, <3>1, <3>2
 <2>9. CASE my'[t].pc = "mark"
  <3>1. Bucket(p, t)' = Bucket(p, t) /\ EntryOf(my[t].level + 1, t, C(t))
    BY <1>1, <1>4, <2>1, <2>3, <2>9 DEF BucketStep
  <3>2. PICK x : x = C(t) OBVIOUS
  <3>3. \E i \in 1 .. Bucket(p, t).size : Bucket(p, t).list[i] = x
    BY <1>2, <1>4, <3>1, <3>2 DEF EntryOf
  <3> QED BY <2>2, <2>4, <2>6, <2>9, <3>1, <3>2, <3>3
 <2> QED BY <2>7, <2>8, <2>9
<1> QED BY <1>3, <1>4

LEMMA DistSoundKept ==
  ASSUME IInv, NEW t \in Thread, Step(t)
  PROVE  DistSound'
<1>1. Chosen' >= Chosen /\ Chosen \in Int /\ Chosen' \in Int /\ DataStep(t) BY ChosenOr, ChosenGrows
<1>2. \A v \in Vertex : dist'[v] \in {-1, Delta[v]} /\ dist'[v] \in Int /\ dist'[v] <= Chosen + 1
  BY <1>1, DistStays
<1> QED BY <1>1, <1>2 DEF DistSound, Unset

LEMMA VisKept ==
  ASSUME IInv, NEW t \in Thread, Step(t)
  PROVE  VisCertificate'
<1>0. DataStep(t) /\ \A u \in Vertex : Covered(u) => Covered(u)' BY ChosenOr, FoundStays
<1>1. ASSUME NEW u \in Vertex, vis'[u] PROVE Covered(u)'
 <2>1. CASE vis[u] BY <1>0, <2>1 DEF IInv, LevelsInv, VisCertificate
 <2>2. CASE ~vis[u]
  <3>1. my[t].pc = "vis" /\ u = my[t].u
   <4>1. vis'[u] = IF my[t].pc = "vis" /\ u = my[t].u THEN TRUE ELSE vis[u] BY <1>0 DEF DataStep
   <4> QED BY <1>1, <2>2, <4>1, Zenon
  <3>2. /\ my[t].j = Len(adj[u]) + 1
        /\ \A p \in 1 .. my[t].j - 1 : dist[adj[u][p]] # Unset
    BY <3>1, Parts DEF ItemView, AtItem
  <3>3. Len(adj[u]) \in Nat BY GraphAssumption
  <3>4. \A p \in 1 .. Len(adj[u]) : dist[adj[u][p]] # Unset BY <3>2, <3>3
  <3>5. Covered(u)
   <4> SUFFICES ASSUME NEW v \in Neighbors(u) PROVE dist[v] # Unset BY DEF Covered, Discovered
   <4>1. PICK p \in 1 .. Len(adj[u]) : v = adj[u][p] BY GraphTypes
   <4> QED BY <3>4, <4>1
  <3> QED BY <1>0, <3>5
 <2> QED BY <2>1, <2>2
<1> QED BY <1>1 DEF VisCertificate

LEMMA LevelsThereKept ==
  ASSUME IInv, NEW t \in Thread, Step(t)
  PROVE  LevelsThere'
<1>0. LevelsThere BY DEF IInv, LevelsInv
<1>1. CASE QuietStep(t) BY <1>0, <1>1 DEF QuietStep, LevelsThere, Level
<1>2. ASSUME NEW w \in WordType, WinsLevel(t, w) PROVE LevelsThere'
 <2>1. /\ Chosen' = Chosen + 1 /\ my[t].level = Chosen + 1 /\ Latest' = w /\ Chosen \in Int
       /\ Chosen >= -1 /\ w.direction \in Directions(t) /\ Next_(t) /\ my[t].pc = "choose"
       /\ my[t].direction = Latest.direction /\ my[t].direction # "search_done"
   BY <1>2, WinWords, Words, Parts DEF WinsLevel, Wins, Place
 <2>2. /\ my[t].sz = 0 => Directions(t) = {"search_done"} /\ Level(my[t].level) = {}
       /\ my[t].sz # 0 => /\ Directions(t) \subseteq {"top_down", "bottom_up"}
                          /\ Level(my[t].level) # {} /\ my[t].level <= MaxDelta
   BY <2>1, DirectionSet
 <2>3. Chosen <= MaxDelta /\ MaxDelta \in Nat
  <3>1. Chosen = -1 \/ Level(Chosen) # {} BY <1>0, <2>1 DEF LevelsThere
  <3>2. Level(Chosen) # {} => Chosen <= MaxDelta BY GraphTypes DEF Level
  <3> QED BY <2>1, <3>1, <3>2, GraphAssumption
 <2>4. w.direction = "search_done" <=> Level(Chosen + 1) = {} BY <2>1, <2>2
 <2> QED BY <2>1, <2>3, <2>4 DEF LevelsThere, Level
<1> QED BY <1>1, <1>2, StepPaths

-----------------------------------------------------------------------------
\* Nobody leaves the level Chosen before the next one is found.
LEMMA LeavesFound ==
  ASSUME IInv, NEW t \in Thread, Current(t), my[t].pc = "advance"
  PROVE  Found(my[t].level + 1)
<1>1. /\ my[t].level = Chosen /\ my[t].level \in Nat /\ InLevel(t) /\ Chosen \in Nat
      /\ my[t].direction # "search_done" /\ Latest.direction = my[t].direction
      /\ my[t].direction \in {"top_down", "bottom_up", "search_done"}
  BY Parts, ThreadFields, LatestFollowed DEF Current, InLevel, Deciding, Directed
<1> SUFFICES ASSUME NEW v \in Vertex, Delta[v] = Chosen + 1, ~Discovered(v) PROVE FALSE
  BY <1>1 DEF Found, Level
<1>2. CASE Latest.direction = "top_down"
 <2>1. PICK u \in Vertex : Delta[u] = Chosen /\ v \in Neighbors(u) BY <1>1, OneCloser
 <2>2. dist[u] = Chosen BY <1>1, <2>1, DistKnown
 <2>3. Discovered(u) /\ ~Covered(u) BY <1>1, <2>1, <2>2 DEF Discovered, Covered, Unset
 <2>4. PICK o \in Thread : \E i \in 1 .. Done(o).bucket.size : WillTake(t, o, i)
   BY <1>2, <2>2, <2>3 DEF IInv, NoneLost
 <2> QED
   BY <2>4 DEF WillTake, Deciding, Reusing, InTopDown, Looking, Starting, Reading, AtItem, Ending
<1>3. CASE Latest.direction = "bottom_up"
 <2>1. PICK o \in Thread : \E k \in 1 .. Owned(o) : v \in Begin(o, k) .. End(o, k) - 1
   BY InSomeBlock
 <2>2. PICK k \in 1 .. Owned(o) : v \in Begin(o, k) .. End(o, k) - 1 BY <2>1
 <2>3. WillScan(t, o, k, v) BY <1>3, <2>2 DEF IInv, NoneUnscanned
 <2> QED
   BY <2>3 DEF WillScan, Deciding, Reusing, InCodes, CodesLooking, CodesStarting, AtCode,
      InBottomUp, InBlock, Finding, Owning, Helping, HelpBegun, AtBlock, Ending
<1> QED BY <1>1, <1>2, <1>3

LEMMA LevelsFoundKept ==
  ASSUME IInv, NEW t \in Thread, Step(t)
  PROVE  LevelsFound'
<1>0. /\ LevelsFound /\ Chosen \in Int /\ Chosen >= -1 /\ DataStep(t)
      /\ \A d \in Int : Found(d) => Found(d)'
  BY Words, Effects, FoundStays DEF IInv, LevelsInv
<1>1. CASE \E w \in WordType : WinsLevel(t, w)
 <2>1. Chosen' = Chosen + 1 /\ my[t].level = Chosen + 1 /\ Next_(t)
   BY <1>1, WinWords DEF WinsLevel, Wins
 <2>2. \A d \in 0 .. Chosen' : Found(d) BY <1>0, <2>1 DEF LevelsFound
 <2>3. \A d \in 0 .. Chosen' : Found(d)' BY <1>0, <2>1, <2>2
 <2> QED BY <1>1, <2>3, NobodyNext DEF LevelsFound
<1>2. CASE QuietStep(t)
 <2>1. Chosen' = Chosen BY <1>2 DEF QuietStep
 <2>2. \A d \in 0 .. Chosen' : Found(d)' BY <1>0, <2>1 DEF LevelsFound
 <2>3. ASSUME NEW s \in Thread, Next_(s)' PROVE Found(my'[s].level)
  <3>1. my[s].level \in Nat /\ my'[s].level = Chosen + 1 BY <2>1, <2>3, Before DEF Next_
  <3>2. CASE my'[s].level = my[s].level BY <1>0, <3>1, <3>2 DEF LevelsFound, Next_
  <3>3. CASE my'[s].level # my[s].level
   <4>1. s = t BY <3>3, Moved
   <4>2. ~LevelPath(t) BY <3>3, <4>1, Inner DEF InnerStep, SameLevel
   <4>3. ~Joins(t) /\ ~SumPath(t)
     BY <3>3, <4>1 DEF Joins, Follows, SumPath, Sees, SumsUp, Stays, HasSize, SameLevel
   <4>4. ~JumpPath(t)
    <5>1. ~(\E d \in my[t].level + 1 .. Chosen : Lands(t, d)) BY <1>0, <3>1, <4>1 DEF Lands
    <5> QED BY <3>3, <4>1, <5>1 DEF JumpPath, MovesOn, Jumps_, SameLevel
   <4>5. AdvancePath(t) BY <1>2, <4>2, <4>3, <4>4 DEF QuietStep, QuietPath
   <4>6. my[t].pc = "advance" /\ my'[t].level = my[t].level + 1 /\ Current(t)
     BY <1>0, <3>1, <4>1, <4>5 DEF AdvancePath, Current
   <4> QED BY <4>1, <4>6, LeavesFound
  <3> QED BY <3>2, <3>3
 <2>4. ASSUME NEW s \in Thread, Next_(s)' PROVE Found(my[s].level)'
  <3>1. PICK d \in Int : d = my'[s].level BY <1>0, <2>1, <2>4 DEF Next_
  <3>2. Found(d)' BY <1>0, <2>3, <2>4, <3>1
  <3> QED BY <3>1, <3>2 DEF Found, Level
 <2> QED BY <2>2, <2>4 DEF LevelsFound
<1> QED BY <1>1, <1>2, StepPaths

LEMMA LevelMax ==
  ASSUME IInv, NEW t \in Thread, InLevel(t), my[t].pc # "returned"
  PROVE  my[t].level \in Nat /\ my[t].level <= Chosen /\ my[t].level <= MaxDelta
<1>1. /\ my[t].level \in Nat /\ my[t].level <= Chosen /\ Chosen \in Int /\ MaxDelta \in Nat
      /\ Chosen <= MaxDelta + 1 /\ my[t].direction # "search_done"
  BY Parts, ThreadFields, Words, GraphAssumption DEF Place, Directed, IInv, LevelsInv, LevelsThere
<1>2. CASE Current(t)
 <2>1. Level(Chosen) # {} BY <1>1, <1>2, LatestFollowed DEF IInv, LevelsInv, LevelsThere, Current
 <2>2. Chosen <= MaxDelta BY <2>1, GraphTypes DEF Level
 <2> QED BY <1>1, <2>2
<1>3. CASE ~Current(t) BY <1>1, <1>3 DEF Current
<1> QED BY <1>2, <1>3

LEMMA UntouchedKept ==
  ASSUME IInv, NEW t \in Thread, Step(t)
  PROVE  Untouched'
<1>0. /\ Untouched /\ MarkSteps(t) /\ DataStep(t) /\ Chosen \in Int /\ Chosen' \in Int
      /\ Chosen' >= Chosen
  BY ChosenOr, ChosenGrows DEF IInv
<1>1. \A p \in {0, 1} : /\ WordOf(p).level \in Int /\ WordOf(p)'.level \in Int
                        /\ WordOf(p)'.level >= WordOf(p).level
 <2>1. CASE QuietStep(t) BY <2>1, Words DEF QuietStep, WordsSame
 <2>2. CASE \E w \in WordType : WinsLevel(t, w)
  <3>1. PICK w \in WordType : WinsLevel(t, w) BY <2>2
  <3>2. /\ \A p \in {0, 1} : WordOf(p)' = IF p = Here(t) THEN w ELSE WordOf(p)
        /\ w.level = Chosen + 1 /\ Chosen \in Int
    BY <3>1, WinWords, Words DEF WinsLevel, Wins
  <3>3. \A p \in {0, 1} : WordOf(p).level \in Int /\ WordOf(p).level <= Chosen BY Words
  <3> QED BY <3>2, <3>3
 <2> QED BY <2>1, <2>2, StepPaths
<1>2. ASSUME my[t].pc \in {"mark_done", "mark_codes_done", "stamp"}
      PROVE  /\ my[t].level \in Nat /\ my[t].level <= Chosen /\ my[t].level <= MaxDelta
             /\ my[t].level <= WordOf(Here(t)).level
 <2>1. InLevel(t) /\ my[t].pc # "returned" BY <1>2 DEF InLevel, Deciding
 <2> QED BY <2>1, LevelMax, WordOfLevel, WordHere
<1>3. ASSUME NEW p \in {0, 1}, NEW o \in Thread
      PROVE  /\ DoneAt(p, o)' \in {None} \cup 0 .. WordOf(p)'.level
             /\ CodesDoneAt(p, o)' \in {None} \cup 0 .. WordOf(p)'.level
 <2>1. /\ DoneAt(p, o) \in {None} \cup 0 .. WordOf(p).level
       /\ CodesDoneAt(p, o) \in {None} \cup 0 .. WordOf(p).level
   BY <1>0 DEF Untouched, DoneAt, CodesDoneAt
 <2>2. /\ DoneAt(p, o)' \in {DoneAt(p, o), my[t].level}
       /\ DoneAt(p, o)' # DoneAt(p, o) => my[t].pc = "mark_done" /\ p = Here(t)
       /\ CodesDoneAt(p, o)' \in {CodesDoneAt(p, o), my[t].level}
       /\ CodesDoneAt(p, o)' # CodesDoneAt(p, o) => my[t].pc = "mark_codes_done" /\ p = Here(t)
   BY <1>0 DEF MarkSteps, MarkStep, HereAt
 <2>3. DoneAt(p, o)' \in {None} \cup 0 .. WordOf(p)'.level BY <1>1, <1>2, <2>1, <2>2
 <2>4. CodesDoneAt(p, o)' \in {None} \cup 0 .. WordOf(p)'.level BY <1>1, <1>2, <2>1, <2>2
 <2> QED BY <2>3, <2>4
<1>4. ASSUME NEW o \in Thread, NEW k \in 1 .. Owned(0)
      PROVE  helped_at'[o][k] >= None /\ helped_at'[o][k] <= Chosen' /\ helped_at'[o][k] <= MaxDelta
 <2>1. /\ helped_at[o][k] >= None /\ helped_at[o][k] <= Chosen /\ helped_at[o][k] <= MaxDelta
       /\ helped_at[o][k] \in Int
  <3>1. helped_at \in [Thread -> [1 .. Owned(0) -> Int]] BY DEF IInv, Shape
  <3>2. helped_at[o] \in [1 .. Owned(0) -> Int] BY <3>1
  <3> QED BY <1>0, <3>2 DEF Untouched
 <2>2. helped_at'[o][k] = helped_at[o][k] \/ (helped_at'[o][k] = my[t].level /\ my[t].pc = "stamp")
   BY <1>0 DEF DataStep
 <2> QED BY <1>0, <1>2, <2>1, <2>2 DEF None
<1> QED BY <1>3, <1>4 DEF Untouched, DoneAt, CodesDoneAt

LEMMA CodesSoundKept ==
  ASSUME IInv, NEW t \in Thread, Step(t)
  PROVE  CodesSound'
<1>1. DataStep(t) BY ChosenOr
<1>2. \A v \in Vertex : dist8'[v] # 0 => Delta[v] >= 0 /\ dist8'[v] = CodeOf(Delta[v])
  BY <1>1, CodeStays
<1> QED BY <1>2 DEF CodesSound, CodeOf

\* Who writes a code or a distance follows a level that has been chosen.
LEMMA WritersInLevel ==
  ASSUME IInv, NEW t \in Thread, my[t].pc \in DataWriters
  PROVE  /\ InLevel(t) /\ my[t].level \in Nat /\ my[t].level <= Chosen /\ Chosen \in Int
         /\ ~(\E w \in WordType : WinsLevel(t, w))
<1>1. InLevel(t) /\ my[t].pc # "choose" BY DEF InLevel, Deciding, DataWriters
<1> QED BY <1>1, WordOfLevel, Words DEF WinsLevel, Wins

LEMMA CodesPassedKept ==
  ASSUME IInv, NEW t \in Thread, Step(t)
  PROVE  CodesPassed'
<1>0. DataStep(t) /\ Chosen \in Int /\ CodesPassed BY ChosenOr DEF IInv, CodesInv
<1>1. \A v \in Vertex : dist8'[v] # dist8[v] =>
        /\ dist8'[v] = CodeOf(Delta[v]) /\ Delta[v] >= 0 /\ my[t].pc \in {"write_code", "next_code"}
 <2> SUFFICES ASSUME NEW v \in Vertex, dist8'[v] # dist8[v]
              PROVE  dist8'[v] = CodeOf(Delta[v]) /\ Delta[v] >= 0 /\ my[t].pc \in {"write_code", "next_code"}
   OBVIOUS
 <2>1. dist8'[v] =
    IF my[t].pc = "write_code" /\ v = my[t].u THEN CodeOf(my[t].level)
    ELSE IF my[t].pc = "next_code" /\ v = C(t) THEN CodeOf(my[t].level + 1) ELSE dist8[v]
   BY <1>0 DEF DataStep
 <2>2. my[t].pc \in {"write_code", "next_code"} BY <2>1
 <2> QED BY <1>0, <2>2, CodeStays
<1>2. ASSUME NEW p \in {0, 1}, WordOf(p)'.direction = "bottom_up", NEW v \in Vertex,
             dist'[v] = WordOf(p)'.level + 1
      PROVE  dist8'[v] = CodeOf(dist'[v])
 <2>1. CASE dist'[v] = dist[v]
  <3>1. WordOf(p)' = WordOf(p)
   <4>1. CASE QuietStep(t) BY <4>1 DEF QuietStep, WordsSame
   <4>2. ASSUME NEW w \in WordType, WinsLevel(t, w), WordOf(p)' # WordOf(p) PROVE FALSE
    <5>1. WordOf(p)' = w /\ w.level = Chosen + 1 BY <4>2, WinWords DEF WinsLevel, Wins
    <5>2. dist[v] <= Chosen + 1 /\ dist[v] \in Int BY DistKnown
    <5> QED BY <1>0, <1>2, <2>1, <5>1, <5>2
   <4> QED BY <4>1, <4>2, StepPaths
  <3>2. dist8[v] = CodeOf(dist[v]) BY <1>0, <1>2, <2>1, <3>1 DEF CodesPassed
  <3>3. CASE dist8'[v] = dist8[v] BY <2>1, <3>2, <3>3
  <3>4. CASE dist8'[v] # dist8[v]
   <4>1. my[t].pc \in DataWriters BY <1>1, <3>4 DEF DataWriters
   <4>2. Chosen >= 0 BY <4>1, WritersInLevel
   <4>3. WordOf(p).level >= Chosen - 1 /\ WordOf(p).level \in Int BY <1>0, Words
   <4>4. dist[v] = Delta[v] BY <1>0, <1>2, <2>1, <3>1, <4>2, <4>3, DistKnown DEF Unset
   <4> QED BY <1>1, <2>1, <3>4, <4>4
  <3> QED BY <3>3, <3>4
 <2>2. CASE dist'[v] # dist[v]
  <3>1. Finds(t, v) /\ dist'[v] = my[t].level + 1 BY <1>0, <2>2, DistStays
  <3>2. /\ my[t].pc \in {"swap", "mark"} /\ my[t].pc \in DataWriters BY <3>1 DEF Finds, DataWriters
  <3>3. InLevel(t) /\ my[t].level \in Nat /\ my[t].level <= Chosen /\ QuietStep(t)
    BY <3>2, WritersInLevel, StepPaths
  <3>4. WordOf(p)' = WordOf(p) /\ WordOf(p).level \in Int BY <3>3, Words DEF QuietStep, WordsSame
  <3>5. WordOf(p).level = my[t].level BY <1>2, <3>1, <3>3, <3>4
  <3>6. p = Here(t)
   <4>1. WordOf(p).level % 2 = p BY DEF IInv, WordsInv, WordsInOrder
   <4> QED BY <3>5, <4>1 DEF Here
  <3>7. my[t].direction = "bottom_up"
   <4>1. Curr(t).plan_word = WordOf(p) BY <3>6, WordHere
   <4>2. WordOf(p) = Followed(t) BY <3>3, <3>5, <4>1, WordOfLevel
   <4> QED BY <1>2, <3>4, <4>2 DEF Followed, Word
  <3>8. my[t].pc = "mark" /\ v = C(t)
    BY <3>1, <3>2, <3>7, Parts DEF Finds, Directed, InTopDown, Reading, AtItem
  <3>9. dist8[v] = CodeOf(my[t].level + 1) /\ dist8'[v] = dist8[v]
    BY <1>0, <1>1, <3>8 DEF CodesPassed
  <3> QED BY <3>1, <3>9
 <2> QED BY <2>1, <2>2
<1>3. ASSUME NEW s \in Thread, my'[s].pc = "mark" PROVE dist8'[C(s)'] = CodeOf(my'[s].level + 1)
 <2>1. CASE s # t
  <3>1. my'[s] = my[s] BY <2>1, Moved
  <3>2. /\ C(s)' = C(s) /\ my[s].pc = "mark" /\ dist8[C(s)] = CodeOf(my[s].level + 1)
        /\ C(s) \in Vertex /\ Delta[C(s)] = my[s].level + 1
    BY <1>0, <1>3, <3>1, CFacts DEF C, CodesPassed, Finding
  <3>3. PICK x \in Vertex : x = C(s) BY <3>2
  <3> QED BY <1>1, <3>1, <3>2, <3>3
 <2>2. CASE s = t
  <3>1. Stays(t) /\ my[t].pc = "next_code" BY <1>3, <2>2, PushingPaths
  <3>2. C(t)' = C(t) /\ my'[t].level = my[t].level /\ C(t) \in Vertex
    BY <3>1, CFacts DEF Stays, SameLevel, SameView, C, Finding
  <3>3. PICK x \in Vertex : x = C(t) BY <3>2
  <3>4. dist8'[x] = CodeOf(my[t].level + 1) BY <1>0, <3>1, <3>3 DEF DataStep
  <3> QED BY <2>2, <3>2, <3>3, <3>4
 <2> QED BY <2>1, <2>2
<1> QED BY <1>2, <1>3 DEF CodesPassed, CodeOf

-----------------------------------------------------------------------------
\* No entry of the ring is after the last one.
LEMMA RestsRing ==
  ASSUME IInv, NEW t \in Thread, InLevel(t), NEW a, NEW b, Rests(t, a, b), NEW o \in Thread
  PROVE  /\ Order(t, o) > my[t].turn =>
              /\ my'[t].pc = a
              /\ Order(t, o) > my'[t].turn \/ my'[t].owner = o
         /\ my[t].owner = o <=> Order(t, o) = my[t].turn
<1>1. /\ my[t].owner = Turn(t, my[t].turn) /\ my[t].turn \in Nat /\ my[t].turn < NumT
      /\ NumT \in Nat /\ my[t].turn \in 0 .. NumT - 1
  BY RingAt, Before
<1>2. /\ Order(t, o) \in Nat /\ Order(t, o) < NumT
      /\ \A k \in Nat : k < NumT => (Order(t, o) = k <=> o = Turn(t, k))
  BY Orders
<1>3. my[t].owner = o <=> Order(t, o) = my[t].turn BY <1>1, <1>2
<1>4. ASSUME Order(t, o) > my[t].turn
      PROVE  my'[t].pc = a /\ (Order(t, o) > my'[t].turn \/ my'[t].owner = o)
 <2>1. my[t].turn + 1 < NumT BY <1>1, <1>2, <1>4
 <2>2. my'[t].pc = a /\ my'[t].turn = my[t].turn + 1 /\ my'[t].owner = (my[t].owner + 1) % NumT
   BY <1>1, <2>1 DEF Rests
 <2>3. Turn(t, my[t].turn + 1) = (my[t].owner + 1) % NumT BY <1>1, <2>1, TurnNext
 <2>4. CASE Order(t, o) > my[t].turn + 1 BY <2>2, <2>4
 <2>5. CASE Order(t, o) = my[t].turn + 1 BY <1>1, <1>2, <2>1, <2>2, <2>3, <2>5
 <2> QED BY <1>1, <1>2, <1>4, <2>4, <2>5
<1> QED BY <1>3, <1>4

\* At the node of the level Chosen, a thread is in that level or two behind.
LEMMA AtChosen ==
  ASSUME IInv, NEW t \in Thread, InLevel(t)
  PROVE  /\ my[t].level \in Nat /\ my[t].level <= Chosen /\ Chosen \in Int /\ Chosen % 2 \in {0, 1}
         /\ Here(t) = Chosen % 2 => Current(t) \/ my[t].level <= Chosen - 2
         /\ Current(t) => Here(t) = Chosen % 2 /\ There(t) = (Chosen + 1) % 2
         /\ There(t) = (Chosen + 1) % 2 => Here(t) = Chosen % 2
         /\ Here(t) = Chosen % 2 => There(t) = (Chosen + 1) % 2
<1>1. my[t].level \in Nat /\ my[t].level <= Chosen /\ Chosen \in Int BY WordOfLevel, Words
<1>2. Here(t) = my[t].level % 2 /\ There(t) = (my[t].level + 1) % 2 BY DEF Here, There
<1>3. /\ Chosen % 2 \in {0, 1} /\ (Chosen + 1) % 2 = 1 - (Chosen % 2)
      /\ my[t].level % 2 \in {0, 1} /\ (my[t].level + 1) % 2 = 1 - (my[t].level % 2)
      /\ \A m \in Int : m % 2 = Chosen % 2 => m # Chosen - 1
  BY <1>1, Parity
<1>4. Here(t) = Chosen % 2 => my[t].level # Chosen - 1 BY <1>1, <1>2, <1>3
<1> QED BY <1>1, <1>2, <1>3, <1>4 DEF Current

\* What a step may do to the marks of an owner in the level Chosen.
LEMMA DoneOf ==
  ASSUME IInv, NEW t \in Thread, Step(t), NEW o \in Thread, NEW p, p = Chosen % 2
  PROVE  /\ DoneAt(p, o) < Chosen =>
              DoneAt(p, o)' < Chosen \/ (Current(t) /\ my[t].pc = "mark_done" /\ my[t].owner = o)
         /\ CodesDoneAt(p, o) < Chosen =>
              CodesDoneAt(p, o)' < Chosen \/ (Current(t) /\ my[t].pc = "mark_codes_done" /\ my[t].owner = o)
<1>1. p \in {0, 1} /\ Chosen \in Int BY Words
<1>2. MarkStep(t, p, o) BY <1>1, Effects DEF MarkSteps
<1>3. CASE my[t].pc \in {"mark_done", "mark_codes_done"} /\ p = Here(t) /\ o = my[t].owner
 <2>1. InLevel(t) BY <1>3 DEF InLevel, Deciding
 <2>2. Current(t) \/ my[t].level <= Chosen - 2 BY <1>3, <2>1, AtChosen
 <2>3. my[t].level \in Nat /\ (Current(t) \/ my[t].level < Chosen) BY <1>1, <2>2, Before
 <2> QED BY <1>2, <1>3, <2>3 DEF MarkStep
<1>4. CASE ~(my[t].pc \in {"mark_done", "mark_codes_done"} /\ p = Here(t) /\ o = my[t].owner)
 <2>1. DoneAt(p, o)' = DoneAt(p, o) /\ CodesDoneAt(p, o)' = CodesDoneAt(p, o)
   BY <1>2, <1>4 DEF MarkStep, HereAt
 <2> QED BY <2>1
<1> QED BY <1>3, <1>4

\* Progress that counts in the level Chosen.
LEMMA ProgressOf ==
  ASSUME IInv, NEW t \in Thread, Step(t), NEW o \in Thread, NEW p, p = Chosen % 2,
         Bucket(1 - p, o)'.level = Chosen + 1
  PROVE  /\ \/ LastAt(p, o)' = 0
            \/ Counts(o) /\ LastAt(p, o)' = LastAt(p, o)
            \/ Current(t) /\ o = t /\ my[t].pc \in {"progress", "own_progress"} /\ my[t].owner = t
               /\ LastAt(p, o)' = my[t].item
         /\ \/ CodesLastAt(p, o)' = 0
            \/ Counts(o) /\ CodesLastAt(p, o)' = CodesLastAt(p, o)
            \/ Current(t) /\ o = t /\ my[t].pc = "codes_progress" /\ my[t].owner = t
               /\ CodesLastAt(p, o)' = my[t].item
<1>1. p \in {0, 1} /\ Chosen \in Int /\ 1 - p \in {0, 1} /\ 1 - p = (Chosen + 1) % 2 BY Words
<1>2. MarkStep(t, p, o) /\ BucketSteps(t) BY <1>1, Effects DEF MarkSteps
<1>3. Counts(o) <=> Bucket(1 - p, o).level = Chosen + 1 BY <1>1 DEF Counts
<1>4. CASE ~Counts(o)
 <2>1. my[t].pc = "retag" /\ 1 - p = There(t) /\ o = t /\ Chosen + 1 = my[t].level + 1
   BY <1>1, <1>2, <1>3, <1>4, SteadyBuckets
 <2>2. LastAt(Here(t), t) = 0 /\ CodesLastAt(Here(t), t) = 0 /\ Here(t) = p
  <3>1. There(t) = 1 - Here(t) /\ Here(t) \in {0, 1} BY Before
  <3> QED BY <1>1, <2>1, <3>1, TagsAt
 <2> QED BY <1>2, <2>1, <2>2 DEF MarkStep
<1>5. CASE Counts(o)
 <2>1. CASE ~(my[t].pc \in {"progress", "own_progress", "codes_progress"} /\ HereAt(t, p, o))
   BY <1>2, <1>5, <2>1 DEF MarkStep
 <2>2. CASE my[t].pc \in {"progress", "own_progress", "codes_progress"} /\ HereAt(t, p, o)
  <3>1. my[t].owner = t /\ o = t /\ p = Here(t) /\ InLevel(t)
    BY <2>2, OwnsIt DEF HereAt, InLevel, Deciding
  <3>2. Mine(t).level = my[t].level + 1 /\ Mine(t) = Bucket(1 - p, o)
   <4>1. my[t].pc \notin Ready BY <2>2 DEF Ready, Deciding
   <4>2. There(t) = 1 - p BY <3>1, Before
   <4> QED BY <3>1, <4>1, <4>2, TagsAt DEF Mine
  <3>3. Current(t)
   <4>1. my[t].level \in Nat /\ my[t].level + 1 = Chosen + 1 BY <1>3, <1>5, <3>2, Before
   <4> QED BY <1>1, <4>1 DEF Current
  <3> QED BY <1>2, <1>5, <2>2, <3>1, <3>3 DEF MarkStep
 <2> QED BY <2>1, <2>2
<1> QED BY <1>4, <1>5

\* An entry of the level Chosen stays where it is.
LEMMA PlaceOf ==
  ASSUME IInv, NEW t \in Thread, Step(t), NEW o \in Thread, NEW p, p = Chosen % 2,
         NEW i, i \in 1 .. Bucket(p, o).size, Bucket(p, o).level = Chosen
  PROVE  /\ Bucket(p, o)'.level = Chosen /\ i \in 1 .. Bucket(p, o)'.size
         /\ Bucket(p, o)'.list[i] = Bucket(p, o).list[i]
<1>1. p \in {0, 1} /\ Chosen \in Int /\ BucketSteps(t) /\ nodes' \in NodesType BY Words, Effects
<1>2. Grows(Bucket(p, o), Bucket(p, o)') /\ Bucket(p, o).size \in Nat /\ Bucket(p, o)'.size \in Nat
 <2>1. Bucket(p, o).size \in Nat BY <1>1, SoundBucket
 <2>2. Bucket(p, o)' \in BucketType
  <3>1. nodes'[p].owners[o] \in OwnerShape BY <1>1 DEF NodesType
  <3> QED BY <3>1, OwnerFields DEF Bucket
 <2>3. Bucket(p, o)'.size \in Nat BY <2>2, BucketFields
 <2> QED BY <1>1, <2>1, <2>3, SteadyBuckets
<1> QED BY <1>2 DEF Grows

LEMMA OutsidePaths ==
  ASSUME IInv, NEW t \in Thread, QuietStep(t), ~LevelPath(t)
  PROVE  my'[t].pc \in Deciding \/ (Joins(t) /\ my'[t].pc \in {"reset", "returned"})
  BY DEF QuietStep, QuietPath, Joins, Follows, SumPath, Sees, SumsUp, Stays, HasSize, JumpPath,
     MovesOn, Jumps_, Lands, AdvancePath, Deciding

LEMMA JoinsReset ==
  ASSUME IInv, NEW t \in Thread, Joins(t)
  PROVE  /\ my'[t].level = my[t].level /\ my'[t].direction = Curr(t).plan_word.direction
         /\ my'[t].pc = (IF my'[t].direction = "search_done" THEN "returned" ELSE "reset")
         /\ my[t].level \in {Chosen, Chosen - 1}
         /\ Current(t) => my'[t].direction = Latest.direction
         /\ ~Current(t) => Curr(t).plan_word = Previous /\ Previous.level = my[t].level
<1>1. /\ my'[t].level = my[t].level /\ my'[t].direction = Curr(t).plan_word.direction
      /\ my'[t].pc = (IF my'[t].direction = "search_done" THEN "returned" ELSE "reset")
      /\ Curr(t).plan_word.level = my[t].level
  BY DEF Joins, Follows
<1>2. Curr(t).plan_word.level \in {Chosen, Chosen - 1} BY WordHere
<1>3. Current(t) => Curr(t).plan_word = Latest BY WordHere
<1>4. ASSUME ~Current(t) PROVE Curr(t).plan_word = Previous /\ Previous.level = my[t].level
 <2>1. Here(t) \in {0, 1} /\ Curr(t).plan_word = WordOf(Here(t)) BY Before, WordHere
 <2>2. Curr(t).plan_word.level # Chosen BY <1>1, <1>4 DEF Current
 <2>3. Here(t) # Chosen % 2 BY <2>1, <2>2, Words
 <2> QED BY <1>1, <2>1, <2>3, Words
<1> QED BY <1>1, <1>2, <1>3, <1>4

\* Who comes to the next level leaves the level Chosen.
LEMMA NextBefore ==
  ASSUME IInv, NEW t \in Thread, QuietStep(t), Next_(t)'
  PROVE  Next_(t) \/ (Current(t) /\ my[t].pc = "advance")
<1>1. Chosen' = Chosen /\ Chosen \in Int /\ my[t].level \in Nat /\ my'[t].level = Chosen + 1
  BY Words, Before DEF QuietStep, Next_
<1>2. CASE my'[t].level = my[t].level BY <1>1, <1>2 DEF Next_
<1>3. CASE my'[t].level # my[t].level
 <2>1. ~LevelPath(t) BY <1>3, Inner DEF InnerStep, SameLevel
 <2>2. ~Joins(t) /\ ~SumPath(t)
   BY <1>3 DEF Joins, Follows, SumPath, Sees, SumsUp, Stays, HasSize, SameLevel
 <2>3. ~JumpPath(t)
  <3>1. ~(\E d \in my[t].level + 1 .. Chosen : Lands(t, d)) BY <1>1 DEF Lands
  <3> QED BY <1>3, <3>1 DEF JumpPath, MovesOn, Jumps_, SameLevel
 <2>4. AdvancePath(t) BY <2>1, <2>2, <2>3 DEF QuietStep, QuietPath
 <2> QED BY <1>1, <2>4 DEF AdvancePath, Current
<1> QED BY <1>2, <1>3

\* The codes of a level are there when a thread is past writing them.
LEMMA CodesReady ==
  ASSUME IInv, NEW t \in Thread, LevelPath(t), Current(t), Latest.direction = "bottom_up",
         my[t].pc \in Reusing \cup InCodes, my'[t].pc \notin Reusing \cup InCodes
  PROVE  CodedLevel(Chosen)
<1>0. InLevel(t) /\ Chosen \in Nat /\ my[t].level = Chosen
  BY Inner, AtChosen DEF InnerStep, InLevel, Current
<1>1. my[t].direction = "bottom_up" /\ my[t].codes_first = Latest.codes_first
  BY <1>0, LatestFollowed
<1>2. CASE ReusePath(t)
 <2>1. my[t].pc = "retag" /\ ~my[t].codes_first
  <3>1. "codes" \in InCodes BY DEF InCodes, CodesLooking
  <3> QED BY <1>1, <1>2, <3>1 DEF ReusePath, Reusing
 <2>2. /\ Latest.codes_first <=>
            /\ Latest.direction = "bottom_up" /\ Previous.direction = "top_down"
            /\ CodeOf(Chosen) # 0
       /\ Previous.direction # "search_done" /\ Previous \in WordType
   BY Words DEF IInv, WordsInv, WordsInOrder
 <2>3. CASE CodeOf(Chosen) = 0 BY <2>3 DEF CodedLevel
 <2>4. CASE CodeOf(Chosen) # 0
  <3>1. Previous.direction = "bottom_up" BY <1>1, <2>1, <2>2, <2>4, WordFields
  <3>2. (Chosen + 1) % 2 \in {0, 1} /\ Previous = WordOf((Chosen + 1) % 2) /\ Previous.level = Chosen - 1
    BY Words DEF Previous
  <3>3. \A v \in Vertex : dist[v] = Previous.level + 1 => dist8[v] = CodeOf(dist[v])
    BY <3>1, <3>2 DEF IInv, CodesInv, CodesPassed
  <3>4. \A v \in Vertex : Delta[v] = Chosen => dist[v] = Chosen BY <1>0, DistKnown
  <3> QED BY <1>0, <3>2, <3>3, <3>4 DEF CodedLevel, Level
 <2> QED BY <2>3, <2>4
<1>3. CASE CodesPath(t)
 <2>1. my'[t].pc = "reserve" /\ my[t].pc \in InCodes BY <1>3, CodesWithin DEF Within
 <2>2. Rests(t, "codes", "reserve")
       /\ \/ my[t].pc = "codes" /\ Entry(t).codes_done >= my[t].level
          \/ my[t].pc \in {"codes_finish", "mark_codes_done"}
  <3>1. ~(\E u \in Readable(At_(t).list[my[t].item]) : TakesCode(t, u)) BY <2>1 DEF TakesCode
  <3> QED BY <1>3, <2>1, <3>1 DEF CodesPath, AtEntry, LoadsCodes
 <2>3. Latest.codes_first BY <1>1, <2>1, Parts DEF Directed
 <2> SUFFICES ASSUME NEW v \in Level(Chosen), dist8[v] # CodeOf(Chosen) PROVE FALSE
   BY DEF CodedLevel
 <2>4. PICK o \in Thread : \E i \in 1 .. Done(o).bucket.size :
         Done(o).codes_done < Chosen /\ WillCode(t, o, i)
   BY <2>3 DEF IInv, CodesInv, NoneUncoded, Current
 <2>5. ~(Order(t, o) > my[t].turn) BY <1>0, <2>1, <2>2, RestsRing
 <2>6. my[t].owner = o /\ my[t].pc = "codes"
   BY <2>2, <2>4, <2>5 DEF WillCode, Deciding, Reusing, CodesLooking, CodesStarting, AtCode
 <2>7. Entry(t) = Done(o) /\ Chosen \in Int BY <1>0, <2>6 DEF Entry, Curr, Here, Done
 <2> QED BY <1>0, <2>2, <2>4, <2>6, <2>7, Before
<1>4. CASE TopPath(t) \/ ScanPath(t) \/ BlocksPath(t) \/ MarkPath(t)
 <2>1. my[t].pc \in InTopDown \cup InBlock \cup InBlocks \cup Ending
   BY <1>4, TopWithin, ScanWithin, BlocksWithin, MarkWithin
 <2>2. my[t].pc \notin Reusing \cup InCodes
   BY <2>1 DEF InTopDown, Looking, Starting, Reading, AtItem, InBlock, Finding, InBlocks, Owning,
      Helping, HelpBegun, AtBlock, Ending, Reusing, InCodes, CodesLooking, CodesStarting, AtCode
 <2> QED BY <2>2
<1> QED BY <1>2, <1>3, <1>4 DEF LevelPath

LEMMA LevelsCodedKept ==
  ASSUME IInv, NEW t \in Thread, Step(t)
  PROVE  LevelsCoded'
<1>0. /\ DataStep(t) /\ Chosen \in Int /\ Chosen >= -1 /\ LevelsCoded
      /\ \A d \in Nat : CodedLevel(d) => CodedLevel(d)'
  BY ChosenOr, Effects, FoundStays DEF IInv, CodesInv
<1>1. ASSUME NEW d \in Int, CodedLevel(d) PROVE CodedLevel(d)'
 <2>1. CASE d \in Nat BY <1>0, <1>1, <2>1
 <2>2. CASE d \notin Nat
  <3>1. ~(CodeOf(d) > 0) BY <2>2, MemAssumption DEF CodeOf
  <3> QED BY <3>1 DEF CodedLevel, CodeOf
 <2> QED BY <2>1, <2>2
<1>2. ASSUME NEW s \in Thread, s # t, InLevel(s)', my'[s].direction = "bottom_up"
      PROVE  /\ my'[s] = my[s] /\ my[s].level \in Nat /\ my[s].level <= Chosen /\ InLevel(s)
             /\ my[s].direction = "bottom_up"
  BY <1>2, Moved, AtChosen DEF InLevel
<1>3. ASSUME NEW s \in Thread, my'[s].level \in Int, CodedLevel(my'[s].level)
      PROVE  CodedLevel(my[s].level)'
 <2>1. PICK d \in Int : d = my'[s].level BY <1>3
 <2>2. CodedLevel(d)' BY <1>1, <1>3, <2>1
 <2> QED BY <2>1, <2>2 DEF CodedLevel, CodeOf, Level
<1>4. ASSUME NEW w \in WordType, WinsLevel(t, w) PROVE LevelsCoded'
 <2>1. /\ Chosen' = Chosen + 1 /\ my[t].level = Chosen + 1 /\ Latest' = w /\ Previous' = Latest
       /\ my'[t].level = Chosen + 1 /\ Next_(t) /\ my'[t].direction = w.direction
       /\ my'[t].pc = (IF w.direction = "search_done" THEN "returned" ELSE "reset")
   BY <1>4, WinWords DEF WinsLevel, Wins, Follows
 <2>2. Latest.direction = "bottom_up" => CodedLevel(Chosen) BY <1>0, <2>1 DEF LevelsCoded, PastCodes
 <2>3. ASSUME NEW s \in Thread, PastCodes(s)', w.direction = "bottom_up" PROVE FALSE
  <3>1. Current(s)' /\ InLevel(s)' /\ my'[s].pc \notin Reusing
    BY <1>4, <2>3, NobodyNext DEF PastCodes
  <3>2. s = t
   <4> SUFFICES ASSUME s # t PROVE FALSE OBVIOUS
   <4>1. my'[s] = my[s] /\ InLevel(s) BY <3>1, Moved DEF InLevel
   <4>2. my[s].level <= Chosen /\ my[s].level \in Nat BY <4>1, AtChosen
   <4> QED BY <1>0, <2>1, <3>1, <4>1, <4>2 DEF Current
  <3> QED BY <2>1, <2>3, <3>1, <3>2 DEF Reusing
 <2>4. ASSUME NEW s \in Thread, InLevel(s)', my'[s].direction = "bottom_up", ~Current(s)'
       PROVE  CodedLevel(my[s].level)'
  <3>1. s # t BY <2>1, <2>4 DEF Current
  <3>2. /\ my'[s] = my[s] /\ my[s].level \in Nat /\ InLevel(s) /\ my[s].direction = "bottom_up"
    BY <1>2, <2>4, <3>1
  <3>3. CASE Current(s)
   <4>1. Latest.direction = "bottom_up" BY <3>2, <3>3, LatestFollowed
   <4> QED BY <1>3, <2>2, <3>2, <3>3, <4>1 DEF Current
  <3>4. CASE ~Current(s) BY <1>0, <1>3, <3>2, <3>4 DEF LevelsCoded
  <3> QED BY <3>3, <3>4
 <2>5. ASSUME Latest.direction = "bottom_up" PROVE CodedLevel(Previous.level)'
  <3>1. Previous'.level = Chosen BY <2>1, Words
  <3>2. PICK d \in Int : d = Chosen BY <1>0
  <3>3. CodedLevel(d)' BY <1>1, <2>2, <2>5, <3>2
  <3> QED BY <3>1, <3>2, <3>3 DEF CodedLevel, CodeOf, Level
 <2> QED BY <2>1, <2>3, <2>4, <2>5 DEF LevelsCoded
<1>5. CASE QuietStep(t)
 <2>1. Chosen' = Chosen /\ Latest' = Latest /\ Previous' = Previous BY <1>5 DEF QuietStep
 <2>2. ASSUME CodedLevel(Chosen) PROVE CodedLevel(Chosen)'
  <3>1. PICK d \in Int : d = Chosen BY <1>0
  <3>2. CodedLevel(d)' BY <1>1, <2>2, <3>1
  <3> QED BY <2>1, <3>1, <3>2 DEF CodedLevel, CodeOf, Level
 <2>3. ASSUME Previous.direction = "bottom_up" PROVE CodedLevel(Previous.level)'
  <3>1. PICK d \in Int : d = Previous.level BY Words, WordFields
  <3>2. CodedLevel(d)' BY <1>0, <1>1, <2>3, <3>1 DEF LevelsCoded
  <3> QED BY <2>1, <3>1, <3>2 DEF CodedLevel, CodeOf, Level
 <2>4. ASSUME NEW s \in Thread, InLevel(s)', my'[s].direction = "bottom_up", ~Current(s)'
       PROVE  CodedLevel(my[s].level)'
  <3>1. CASE s # t
   <4>1. my'[s] = my[s] /\ InLevel(s) /\ my[s].direction = "bottom_up" /\ my[s].level \in Nat
     BY <1>2, <2>4, <3>1
   <4>2. ~Current(s) BY <2>1, <2>4, <4>1 DEF Current
   <4> QED BY <1>0, <1>3, <4>1, <4>2 DEF LevelsCoded
  <3>2. CASE s = t /\ LevelPath(t)
   <4>1. /\ InLevel(t) /\ my[t].direction = "bottom_up" /\ my'[t].level = my[t].level
         /\ my[t].level \in Nat
     BY <2>4, <3>2, Inner, Before DEF InnerStep, SameLevel, InLevel
   <4>2. ~Current(t) BY <2>1, <2>4, <3>2, <4>1 DEF Current
   <4> QED BY <1>0, <1>3, <3>2, <4>1, <4>2 DEF LevelsCoded
  <3>3. CASE s = t /\ ~LevelPath(t)
   <4>1. Joins(t) BY <1>5, <2>4, <3>3, OutsidePaths DEF InLevel
   <4>2. my'[t].level = my[t].level /\ my'[t].direction = Curr(t).plan_word.direction
     BY <4>1, JoinsReset
   <4>3. ~Current(t) BY <2>1, <2>4, <3>3, <4>2 DEF Current
   <4>4. Curr(t).plan_word = Previous /\ Previous.level = my[t].level /\ my[t].level \in Nat
     BY <4>1, <4>3, JoinsReset, Before
   <4> QED BY <1>0, <1>3, <2>4, <3>3, <4>2, <4>4 DEF LevelsCoded
  <3> QED BY <3>1, <3>2, <3>3
 <2>5. ASSUME NEW s \in Thread, PastCodes(s)', Latest.direction = "bottom_up"
       PROVE  CodedLevel(Chosen)
  <3> SUFFICES ASSUME \A r \in Thread : ~PastCodes(r) PROVE CodedLevel(Chosen)
    BY <1>0, <2>5 DEF LevelsCoded
  <3>1. s = t
   <4> SUFFICES ASSUME s # t PROVE FALSE OBVIOUS
   <4>1. my'[s] = my[s] BY Moved
   <4> QED BY <2>1, <2>5, <4>1 DEF PastCodes, Next_, Current, InLevel
  <3>2. ~Next_(t)'
   <4> SUFFICES ASSUME Next_(t)' PROVE FALSE OBVIOUS
   <4>1. Current(t) /\ my[t].pc = "advance" BY <1>5, NextBefore DEF PastCodes
   <4> QED
     BY <4>1 DEF PastCodes, InLevel, Deciding, Reusing, InCodes, CodesLooking, CodesStarting, AtCode
  <3>3. my'[t].level = Chosen /\ InLevel(t)' /\ my'[t].pc \notin Reusing \cup InCodes
    BY <2>1, <2>5, <3>1, <3>2 DEF PastCodes, Current
  <3>4. CASE LevelPath(t)
   <4>1. my[t].level = Chosen /\ InLevel(t) BY <3>3, <3>4, Inner DEF InnerStep, SameLevel, InLevel
   <4>2. my[t].pc \in Reusing \cup InCodes BY <4>1 DEF PastCodes, Current
   <4> QED BY <2>5, <3>3, <3>4, <4>1, <4>2, CodesReady DEF Current
  <3>5. CASE ~LevelPath(t)
   <4>1. Joins(t) /\ my'[t].pc = "returned" BY <1>5, <3>3, <3>5, OutsidePaths DEF InLevel, Reusing
   <4>2. my[t].level = Chosen /\ my'[t].direction = "search_done"
    <5>1. my'[t].level = my[t].level
          /\ my'[t].pc = (IF my'[t].direction = "search_done" THEN "returned" ELSE "reset")
      BY <4>1, JoinsReset
    <5> QED BY <3>3, <4>1, <5>1
   <4> QED BY <2>5, <4>1, <4>2, JoinsReset DEF Current
  <3> QED BY <3>4, <3>5
 <2>6. Latest.direction = "bottom_up" /\ (\E s \in Thread : PastCodes(s)') => CodedLevel(Chosen)'
   BY <2>2, <2>5
 <2> QED BY <2>1, <2>3, <2>4, <2>6 DEF LevelsCoded
<1> QED BY <1>4, <1>5, StepPaths

LEMMA AtTurn ==
  ASSUME IInv, NEW t \in Thread, InLevel(t), NEW o \in Thread
  PROVE  /\ my[t].owner = o <=> Order(t, o) = my[t].turn
         /\ Order(t, o) \in Nat /\ Order(t, o) < NumT /\ my[t].turn \in Nat
  BY RingAt, Orders

\* What t reads of owner o in the level Chosen.
LEMMA ReadsDone ==
  ASSUME IInv, NEW t \in Thread, InLevel(t), Current(t), NEW o, o = my[t].owner
  PROVE  /\ Entry(t) = Done(o) /\ At_(t) = Done(o).bucket /\ my[t].level = Chosen
         /\ Bucket(There(t), o).level = my[t].level + 1 <=> Counts(o)
         /\ o \in Thread
<1>1. Here(t) = Chosen % 2 /\ There(t) = (Chosen + 1) % 2 /\ my[t].level = Chosen /\ o \in Thread
  BY AtChosen, Before DEF Current
<1> QED BY <1>1 DEF Entry, Curr, Done, At_, Bucket, Counts

\* At the start of a level nothing has been declared done in it.
LEMMA NextStart ==
  ASSUME IInv, NEW t \in Thread, Step(t), NEW w \in WordType, WinsLevel(t, w)
  PROVE  /\ Chosen' = Chosen + 1 /\ Latest' = w /\ Chosen \in Int /\ Chosen + 1 \in Nat
         /\ \A o \in Thread : Done(o)'.done < Chosen' /\ Done(o)'.codes_done < Chosen' /\ ~Counts(o)'
         /\ \A o \in Thread : \A k \in 1 .. Owned(0) : helped_at'[o][k] # Chosen'
         /\ \A s \in Thread : Current(s)' =>
              my'[s].pc \in Deciding \cup Reusing \/ w.direction = "search_done"
<1>1. /\ Chosen' = Chosen + 1 /\ Latest' = w /\ my[t].level = Chosen + 1 /\ my[t].pc = "choose"
      /\ Chosen \in Int /\ Chosen + 1 \in Nat /\ (Chosen + 1) % 2 \in {0, 1}
      /\ (Chosen + 1) % 2 # Chosen % 2
 <2>1. my[t].level \in Nat BY Before
 <2>2. Wins(t, w) BY DEF WinsLevel
 <2>3. my[t].pc = "choose" BY <2>2 DEF Wins
 <2>4. Chosen' = Chosen + 1 /\ Latest' = w /\ my[t].level = Chosen + 1 BY <2>2, WinWords
 <2>5. Chosen \in Int /\ Chosen % 2 \in {0, 1} /\ (Chosen + 1) % 2 = 1 - (Chosen % 2) BY Words
 <2> QED BY <2>1, <2>3, <2>4, <2>5
<1>2. MarkSteps(t) /\ BucketSteps(t) /\ DataStep(t) BY Effects
<1>3. ASSUME NEW o \in Thread
      PROVE  Done(o)'.done < Chosen' /\ Done(o)'.codes_done < Chosen' /\ ~Counts(o)'
 <2>1. PICK p \in {0, 1} : p = (Chosen + 1) % 2 BY <1>1
 <2>2. MarkStep(t, p, o) BY <1>2 DEF MarkSteps
 <2>3. DoneAt(p, o)' = DoneAt(p, o) /\ CodesDoneAt(p, o)' = CodesDoneAt(p, o)
   BY <1>1, <2>2 DEF MarkStep
 <2>4. WordOf(p) = Previous /\ Previous.level = Chosen - 1 BY <1>1, <2>1, Words
 <2>5. /\ DoneAt(p, o) \in {None} \cup 0 .. Chosen - 1
       /\ CodesDoneAt(p, o) \in {None} \cup 0 .. Chosen - 1
   BY <2>4 DEF IInv, Untouched, DoneAt, CodesDoneAt
 <2>6. DoneAt(p, o) < Chosen + 1 /\ CodesDoneAt(p, o) < Chosen + 1 BY <1>1, <2>5 DEF None
 <2>7. Done(o)'.done = DoneAt(p, o)' /\ Done(o)'.codes_done = CodesDoneAt(p, o)'
   BY <1>1, <2>1 DEF Done, DoneAt, CodesDoneAt
 <2>8. ~Counts(o)'
  <3>1. PICK q \in {0, 1} : q = (Chosen' + 1) % 2 BY <1>1
  <3>2. Bucket(q, o)' = Bucket(q, o) BY <1>1, <1>2, SteadyBuckets DEF BucketWriters
  <3>3. Bucket(q, o).level <= Chosen + 1 /\ Bucket(q, o).level \in Int BY TagBounds, SoundBucket
  <3>4. Bucket(q, o)'.level # Chosen' + 1 BY <1>1, <3>2, <3>3
  <3> QED BY <3>1, <3>4 DEF Counts, Bucket
 <2> QED BY <1>1, <2>3, <2>6, <2>7, <2>8
<1>4. ASSUME NEW o \in Thread, NEW k \in 1 .. Owned(0) PROVE helped_at'[o][k] # Chosen'
 <2>1. helped_at'[o][k] = helped_at[o][k] BY <1>1, <1>2 DEF DataStep
 <2>2. helped_at \in [Thread -> [1 .. Owned(0) -> Int]] BY DEF IInv, Shape
 <2>3. helped_at[o][k] <= Chosen BY DEF IInv, Untouched
 <2> QED BY <1>1, <2>1, <2>2, <2>3
<1>5. ASSUME NEW s \in Thread, Current(s)'
      PROVE  my'[s].pc \in Deciding \cup Reusing \/ w.direction = "search_done"
 <2>1. CASE s = t BY <2>1 DEF WinsLevel, Follows, Reusing
 <2>2. CASE s # t
  <3>1. my'[s] = my[s] /\ my[s].level = Chosen + 1 BY <1>1, <1>5, <2>2, Moved DEF Current
  <3>2. ~InLevel(s) BY <1>1, <3>1, AtChosen
  <3> QED BY <3>1, <3>2 DEF InLevel
 <2> QED BY <2>1, <2>2
<1> QED BY <1>1, <1>3, <1>4, <1>5

-----------------------------------------------------------------------------
LEMMA CodesKeepCoding ==
  ASSUME IInv, NEW t \in Thread, Step(t), CodesPath(t), Current(t), NEW o \in Thread,
         NEW i \in 1 .. Done(o).bucket.size, Done(o).bucket.level = Chosen,
         Done(o).codes_done < Chosen, Counts(o) => Done(o).codes_last_done < i,
         dist8'[Done(o).bucket.list[i]] # CodeOf(Chosen),
         WillCode(t, o, i)
  PROVE  WillCode(t, o, i)'
<1>0. /\ my[t].pc \in InCodes /\ InLevel(t) /\ my[t].pc \notin Deciding \cup Reusing
      /\ my[t].pc \notin {"mark_done", "reset", "progress", "own_progress"}
      /\ CodeEntries(t) /\ my[t].item \in Nat /\ my[t].sz \in Nat /\ i \in Nat /\ i >= 1
      /\ Chosen \in Int /\ my[t].level = Chosen
 <2>1. my[t].pc \in InCodes BY CodesWithin
 <2>2. Done(o).bucket.size \in Nat BY Words, SoundBucket DEF Done, Bucket
 <2>3. CodeEntries(t) /\ my[t].item \in Nat /\ my[t].sz \in Nat /\ Chosen \in Int
   BY Parts, Before, Words
 <2> QED
   BY <2>1, <2>2, <2>3 DEF InCodes, CodesLooking, CodesStarting, AtCode, InLevel, Deciding, Reusing, Current
<1>1. Order(t, o) > my[t].turn \/ my[t].owner = o BY <1>0 DEF WillCode
<1>2. CASE Order(t, o) > my[t].turn
 <2>1. CASE Rests(t, "codes", "reserve")
  <3>1. my'[t].pc = "codes" /\ (Order(t, o) > my'[t].turn \/ my'[t].owner = o)
    BY <1>0, <1>2, <2>1, RestsRing
  <3> QED BY <3>1 DEF WillCode, InCodes, CodesLooking
 <2>2. CASE ~Rests(t, "codes", "reserve")
  <3>1. SameOwner(t) /\ my'[t].pc \in InCodes
    BY <2>2 DEF CodesPath, Stays, AtEntry, LoadsCodes, TakesCode, InCodes, CodesLooking, CodesStarting, AtCode
  <3> QED BY <1>2, <3>1 DEF WillCode, SameOwner
 <2> QED BY <2>1, <2>2
<1>3. CASE my[t].owner = o
 <2>1. /\ Entry(t) = Done(o) /\ At_(t) = Done(o).bucket
       /\ Bucket(There(t), o).level = my[t].level + 1 <=> Counts(o)
   BY <1>0, <1>3, ReadsDone
 <2>2. /\ Entry(t).codes_done \in Int /\ Entry(t).codes_last_done \in Nat /\ At_(t).size \in Nat
       /\ ~(Order(t, o) > my[t].turn) /\ Firm(t)
   BY <1>0, <1>3, Before, AtTurn DEF Firm
 <2>3. \/ my[t].pc \in CodesLooking
       \/ my[t].pc \in CodesStarting /\ i <= my[t].sz
       \/ my[t].pc \in AtCode /\ i \in my[t].item .. my[t].sz
       \/ my[t].pc = "codes_progress" /\ i \in my[t].item + 1 .. my[t].sz
   BY <1>0, <1>3, <2>2 DEF WillCode
 <2>4. /\ At_(t).level = my[t].level /\ i <= At_(t).size
       /\ ~(Entry(t).codes_done >= my[t].level)
   BY <1>0, <2>1, <2>2
 <2>5. ~Rests(t, "codes", "reserve") \/ my[t].pc \notin {"codes", "codes_finish", "mark_codes_done"}
  <3>1. my[t].pc \notin {"codes_finish", "mark_codes_done"}
    BY <2>3 DEF CodesLooking, CodesStarting, AtCode
  <3>2. CASE my[t].pc = "codes" /\ Rests(t, "codes", "reserve")
   <4>1. my'[t].pc \in {"codes", "reserve"} BY <3>2 DEF Rests
   <4>2. Entry(t).codes_done >= my[t].level
     BY <3>2, <4>1 DEF CodesPath, Stays, AtEntry, LoadsCodes, TakesCode
   <4> QED BY <2>4, <4>2
  <3> QED BY <3>1, <3>2
 <2>6. ASSUME i = my[t].item, my[t].pc \in {"code_level", "write_code"},
              my[t].pc = "code_level" => ~IsAtLevel(my[t].u, my[t].level)
       PROVE  FALSE
  <3>1. my[t].u = Done(o).bucket.list[i] BY <1>0, <2>1, <2>2, <2>6 DEF CodeEntries
  <3>2. CASE my[t].pc = "write_code"
   <4>1. dist8'[my[t].u] = CodeOf(my[t].level) /\ my[t].u \in Vertex
     BY <1>0, <3>2, Effects DEF DataStep, CodeEntries
   <4> QED BY <1>0, <3>1, <4>1
  <3>3. CASE my[t].pc = "code_level"
   <4>1. PICK p \in {0, 1} : p = Chosen % 2 BY Words
   <4>2. Done(o).bucket = Bucket(p, o) BY <4>1 DEF Done, Bucket
   <4>3. my[t].u \in Vertex /\ Delta[my[t].u] = Chosen BY <1>0, <3>1, <4>2, SoundBucket
   <4>4. Chosen \in 0 .. Chosen BY <1>0, Before
   <4>5. dist[my[t].u] = Chosen BY <4>3, <4>4, DistKnown
   <4> QED BY <1>0, <2>6, <3>3, <4>3, <4>5 DEF IsAtLevel
  <3> QED BY <2>6, <3>2, <3>3
 <2>7. CASE my[t].pc \in CodesLooking
  <3>1. \/ my'[t].pc \in CodesLooking /\ my'[t].owner = o
        \/ AtEntry(t, 1, At_(t).size)
        \/ LoadsCodes(t)
    BY <1>3, <2>4, <2>5, <2>7 DEF CodesPath, Stays, SameOwner, CodesLooking
  <3>2. CASE my'[t].pc \in CodesLooking /\ my'[t].owner = o BY <3>2 DEF WillCode
  <3>3. CASE AtEntry(t, 1, At_(t).size)
    BY <1>0, <1>3, <2>2, <2>4, <3>3 DEF AtEntry, SameOwner, WillCode, AtCode
  <3>4. CASE LoadsCodes(t) BY <1>3, <2>4, <3>4 DEF LoadsCodes, SameOwner, WillCode, CodesStarting
  <3> QED BY <3>1, <3>2, <3>3, <3>4
 <2>8. CASE my[t].pc \in CodesStarting
  <3>1. \/ Stays(t) /\ my'[t].pc = "codes_start"
        \/ AtEntry(t, 1, my[t].sz)
        \/ AtEntry(t, Entry(t).codes_last_done + 1, my[t].sz) /\ my[t].pc = "codes_start"
    BY <2>8 DEF CodesPath, CodesStarting
  <3>2. i <= my[t].sz BY <2>3, <2>8 DEF CodesLooking, CodesStarting, AtCode
  <3>3. CASE Stays(t) /\ my'[t].pc = "codes_start"
    BY <1>3, <3>2, <3>3 DEF Stays, SameOwner, SameItems, WillCode, CodesStarting
  <3>4. CASE AtEntry(t, 1, my[t].sz)
    BY <1>0, <1>3, <3>2, <3>4 DEF AtEntry, SameOwner, WillCode, AtCode
  <3>5. CASE AtEntry(t, Entry(t).codes_last_done + 1, my[t].sz) /\ my[t].pc = "codes_start"
   <4>1. Counts(o) BY <1>0, <1>3, <2>1, <3>5 DEF CodeEntries, Current
   <4>2. Entry(t).codes_last_done < i BY <2>1, <4>1
   <4> QED BY <1>0, <1>3, <2>2, <3>2, <3>5, <4>2 DEF AtEntry, SameOwner, WillCode, AtCode
  <3> QED BY <3>1, <3>3, <3>4, <3>5
 <2>9. CASE my[t].pc \in AtCode
  <3>1. i \in my[t].item .. my[t].sz BY <2>3, <2>9 DEF CodesLooking, CodesStarting, AtCode
  <3>2. \/ my[t].pc = "code" /\ my'[t].pc \in AtCode /\ SameOwner(t) /\ SameItems(t)
        \/ Stays(t) /\ my[t].pc = "code_level" /\ my'[t].pc = "write_code"
        \/ Stays(t) /\ my[t].pc = "write_code" /\ my'[t].pc = "codes_progress"
        \/ /\ AtEntry(t, my[t].item + 1, my[t].sz)
           /\ my[t].pc \in {"code_level", "write_code"}
           /\ my[t].pc = "code_level" => ~IsAtLevel(my[t].u, my[t].level)
    BY <2>9 DEF CodesPath, TakesCode, AtCode
  <3>3. CASE my[t].pc = "code" /\ my'[t].pc \in AtCode /\ SameOwner(t) /\ SameItems(t)
    BY <1>3, <3>1, <3>3 DEF SameOwner, SameItems, WillCode
  <3>4. CASE Stays(t) /\ my[t].pc = "code_level" /\ my'[t].pc = "write_code"
    BY <1>3, <3>1, <3>4 DEF Stays, SameOwner, SameItems, WillCode, AtCode
  <3>5. CASE Stays(t) /\ my[t].pc = "write_code" /\ my'[t].pc = "codes_progress"
   <4>1. i \in my[t].item + 1 .. my[t].sz BY <1>0, <2>6, <3>1, <3>5
   <4> QED BY <1>3, <3>5, <4>1 DEF Stays, SameOwner, SameItems, WillCode
  <3>6. CASE /\ AtEntry(t, my[t].item + 1, my[t].sz)
             /\ my[t].pc \in {"code_level", "write_code"}
             /\ my[t].pc = "code_level" => ~IsAtLevel(my[t].u, my[t].level)
   <4>1. i \in my[t].item + 1 .. my[t].sz BY <1>0, <2>6, <3>1, <3>6
   <4> QED BY <1>0, <1>3, <3>6, <4>1 DEF AtEntry, SameOwner, WillCode, AtCode
  <3> QED BY <3>2, <3>3, <3>4, <3>5, <3>6
 <2>10. CASE my[t].pc = "codes_progress"
  <3>1. AtEntry(t, my[t].item + 1, my[t].sz) BY <2>10 DEF CodesPath
  <3>2. i \in my[t].item + 1 .. my[t].sz BY <2>3, <2>10 DEF CodesLooking, CodesStarting, AtCode
  <3> QED BY <1>0, <1>3, <3>1, <3>2 DEF AtEntry, SameOwner, WillCode, AtCode
 <2> QED BY <2>3, <2>7, <2>8, <2>9, <2>10
<1> QED BY <1>1, <1>2, <1>3

LEMMA KeepsCoding ==
  ASSUME IInv, NEW t \in Thread, Step(t), QuietStep(t), Latest.codes_first, Current(t)',
         NEW o \in Thread, NEW i \in 1 .. Done(o).bucket.size, Done(o).bucket.level = Chosen,
         Done(o).codes_done < Chosen, Counts(o) => Done(o).codes_last_done < i,
         dist8'[Done(o).bucket.list[i]] # CodeOf(Chosen),
         Current(t) => WillCode(t, o, i)
  PROVE  WillCode(t, o, i)'
<1>1. Latest.direction = "bottom_up" /\ Chosen' = Chosen
  BY DEF IInv, WordsInv, WordsInOrder, QuietStep
<1>2. CASE ~LevelPath(t)
 <2>1. my'[t].pc \in Deciding \/ (Joins(t) /\ my'[t].pc \in {"reset", "returned"})
   BY <1>2, OutsidePaths
 <2>2. ASSUME Joins(t) PROVE my'[t].pc = "reset"
  <3>1. Current(t) BY <1>1, <2>2, JoinsReset DEF Current
  <3>2. my'[t].direction = "bottom_up" BY <1>1, <2>2, <3>1, JoinsReset
  <3> QED BY <2>2, <3>2, JoinsReset
 <2> QED BY <2>1, <2>2 DEF WillCode, Reusing
<1>3. CASE LevelPath(t)
 <2>1. InLevel(t) /\ Current(t) /\ my[t].level = Chosen
   BY <1>1, <1>3, Inner DEF InnerStep, SameLevel, InLevel, Current
 <2>2. my[t].direction = "bottom_up" /\ my[t].codes_first /\ WillCode(t, o, i)
   BY <1>1, <2>1, LatestFollowed
 <2>3. CASE CodesPath(t) BY <2>1, <2>2, <2>3, CodesKeepCoding
 <2>4. CASE ReusePath(t)
  <3>1. my[t].turn = 0 /\ (my[t].owner = o <=> Order(t, o) = 0) /\ Order(t, o) \in Nat
    BY <2>1, <2>4, RingAt, AtTurn DEF ReusePath, Reusing
  <3>2. my'[t].pc \in Reusing \cup {"codes"} /\ SameOwner(t)
    BY <2>2, <2>4 DEF ReusePath, Reusing, Stays
  <3> QED BY <3>1, <3>2 DEF WillCode, SameOwner, InCodes, CodesLooking
 <2>5. CASE TopPath(t)
  <3>1. my[t].direction = "top_down" BY <2>5, TopWithin, Parts DEF Directed
  <3> QED BY <2>2, <3>1
 <2>6. CASE ScanPath(t) \/ BlocksPath(t) \/ MarkPath(t)
  <3>1. my[t].pc \in InBlock \cup InBlocks \cup Ending BY <2>6, ScanWithin, BlocksWithin, MarkWithin
  <3>2. ~WillCode(t, o, i)
    BY <3>1 DEF WillCode, InBlock, Finding, InBlocks, Owning, Helping, HelpBegun, AtBlock, Ending,
       Deciding, Reusing, InCodes, CodesLooking, CodesStarting, AtCode
  <3> QED BY <2>2, <3>2
 <2> QED BY <1>3, <2>3, <2>4, <2>5, <2>6 DEF LevelPath
<1> QED BY <1>2, <1>3

LEMMA NoneUncodedKept ==
  ASSUME IInv, NEW t \in Thread, Step(t)
  PROVE  NoneUncoded'
<1>0. Chosen \in Int /\ DataStep(t) /\ NoneUncoded BY Words, Effects DEF IInv, CodesInv
<1>1. ASSUME NEW w \in WordType, WinsLevel(t, w), w.codes_first PROVE NoneUncoded'
 <2>1. Chosen' = Chosen + 1 /\ Latest' = w /\ Chosen + 1 \in Nat BY <1>1, NextStart
 <2>2. w.direction = "bottom_up" BY <1>1, <2>1, WordsInOrderKept DEF WordsInOrder
 <2> SUFFICES ASSUME NEW v \in Vertex, Delta[v] = Chosen + 1
              PROVE  \E o \in Thread : \E i \in 1 .. Done(o)'.bucket.size :
                       /\ Done(o)'.bucket.level = Chosen' /\ Done(o)'.bucket.list[i] = v
                       /\ Done(o)'.codes_done < Chosen'
                       /\ ~Counts(o)'
                       /\ \A s \in Thread : Current(s)' => WillCode(s, o, i)'
   BY <2>1 DEF NoneUncoded, Level
 <2>3. dist[v] = Chosen + 1 /\ dist[v] # Unset
  <3>1. my[t].level = Chosen + 1 /\ Next_(t) BY <1>1, WinWords DEF WinsLevel, Wins
  <3>2. dist[v] # Unset BY <3>1 DEF IInv, LevelsInv, LevelsFound, Found, Discovered, Level
  <3> QED BY <3>2, DistKnown
 <2>4. PICK o \in Thread : EntryOf(Chosen + 1, o, v) BY <1>0, <2>3 DEF IInv, LevelsInv, Kept
 <2>5. PICK d \in Int : d = Chosen + 1 BY <1>0
 <2>6. EntryOf(d, o, v)' BY <1>0, <2>4, <2>5, Effects, EntryStays
 <2>7. PICK i \in 1 .. Bucket(d % 2, o)'.size : Bucket(d % 2, o)'.list[i] = v /\ Bucket(d % 2, o)'.level = d
   BY <2>6 DEF EntryOf, Bucket
 <2>8. Done(o)'.bucket = Bucket(d % 2, o)' BY <2>1, <2>5 DEF Done, Bucket
 <2>9. \A s \in Thread : Current(s)' => WillCode(s, o, i)' BY <1>1, <2>2, NextStart DEF WillCode
 <2> QED BY <1>1, <2>1, <2>5, <2>7, <2>8, <2>9, NextStart
<1>2. CASE QuietStep(t)
 <2>1. Chosen' = Chosen /\ Latest' = Latest BY <1>2 DEF QuietStep
 <2>2. PICK p \in {0, 1} : p = Chosen % 2 /\ 1 - p = (Chosen + 1) % 2 BY Words
 <2> SUFFICES ASSUME NEW v \in Vertex, Delta[v] = Chosen, dist8'[v] # CodeOf(Chosen),
                     Latest.codes_first
              PROVE  \E o \in Thread : \E i \in 1 .. Done(o)'.bucket.size :
                       /\ Done(o)'.bucket.level = Chosen /\ Done(o)'.bucket.list[i] = v
                       /\ Done(o)'.codes_done < Chosen
                       /\ Counts(o)' => Done(o)'.codes_last_done < i
                       /\ \A s \in Thread : Current(s)' => WillCode(s, o, i)'
   BY <2>1 DEF NoneUncoded, Level, CodeOf
 <2>3. dist8[v] # CodeOf(Chosen) BY <1>0, CodeStays
 <2>4. PICK o \in Thread : \E i \in 1 .. Done(o).bucket.size :
         /\ Done(o).bucket.level = Chosen /\ Done(o).bucket.list[i] = v
         /\ Done(o).codes_done < Chosen
         /\ Counts(o) => Done(o).codes_last_done < i
         /\ \A s \in Thread : Current(s) => WillCode(s, o, i)
   BY <1>0, <2>3 DEF NoneUncoded, Level
 <2>5. PICK i \in 1 .. Done(o).bucket.size :
         /\ Done(o).bucket.level = Chosen /\ Done(o).bucket.list[i] = v
         /\ Done(o).codes_done < Chosen
         /\ Counts(o) => Done(o).codes_last_done < i
         /\ \A s \in Thread : Current(s) => WillCode(s, o, i)
   BY <2>4
 <2>6. /\ Done(o).bucket = Bucket(p, o) /\ Done(o)'.bucket = Bucket(p, o)'
       /\ Done(o).codes_done = CodesDoneAt(p, o) /\ Done(o)'.codes_done = CodesDoneAt(p, o)'
       /\ Done(o).codes_last_done = CodesLastAt(p, o)
       /\ Done(o)'.codes_last_done = CodesLastAt(p, o)'
       /\ Counts(o)' <=> Bucket(1 - p, o)'.level = Chosen + 1
   BY <2>1, <2>2 DEF Done, Bucket, CodesDoneAt, CodesLastAt, Counts
 <2>7. /\ Bucket(p, o)'.level = Chosen /\ i \in 1 .. Bucket(p, o)'.size
       /\ Bucket(p, o)'.list[i] = v
   BY <2>2, <2>5, <2>6, PlaceOf
 <2>8. CodesDoneAt(p, o)' < Chosen
  <3> SUFFICES ASSUME Current(t), my[t].pc = "mark_codes_done", my[t].owner = o PROVE FALSE
    BY <2>2, <2>5, <2>6, DoneOf
  <3>1. InLevel(t) BY DEF InLevel, Deciding
  <3>2. ~(Order(t, o) > my[t].turn) BY <3>1, AtTurn
  <3> QED BY <2>5, <3>2 DEF WillCode, Deciding, Reusing, CodesLooking, CodesStarting, AtCode
 <2>9. Counts(o)' => CodesLastAt(p, o)' < i
  <3> SUFFICES ASSUME Bucket(1 - p, o)'.level = Chosen + 1 PROVE CodesLastAt(p, o)' < i BY <2>6
  <3>1. i \in Nat /\ i >= 1 BY <2>6, SoundBucket
  <3>2. CASE CodesLastAt(p, o)' = 0 BY <3>1, <3>2
  <3>3. CASE Counts(o) /\ CodesLastAt(p, o)' = CodesLastAt(p, o) BY <2>5, <2>6, <3>3
  <3>4. CASE /\ Current(t) /\ o = t /\ my[t].pc = "codes_progress" /\ my[t].owner = t
             /\ CodesLastAt(p, o)' = my[t].item
   <4>1. InLevel(t) BY <3>4 DEF InLevel, Deciding
   <4>2. ~(Order(t, o) > my[t].turn) /\ my[t].item \in Nat BY <3>4, <4>1, AtTurn, Before
   <4>3. i \in my[t].item + 1 .. my[t].sz
     BY <2>5, <3>4, <4>2 DEF WillCode, Deciding, Reusing, CodesLooking, CodesStarting, AtCode
   <4> QED BY <3>1, <3>4, <4>2, <4>3
  <3> QED BY <2>2, <3>2, <3>3, <3>4, ProgressOf
 <2>10. ASSUME NEW s \in Thread, Current(s)' PROVE WillCode(s, o, i)'
  <3>1. CASE s = t BY <1>2, <2>5, <2>10, <3>1, KeepsCoding
  <3>2. CASE s # t
   <4>1. my'[s] = my[s] /\ Current(s) BY <2>1, <2>10, <3>2, Moved DEF Current
   <4> QED BY <2>5, <4>1 DEF WillCode
  <3> QED BY <3>1, <3>2
 <2> QED BY <2>6, <2>7, <2>8, <2>9, <2>10
<1>3. CASE \E w \in WordType : WinsLevel(t, w) /\ ~w.codes_first
 <2>1. PICK w \in WordType : WinsLevel(t, w) /\ ~w.codes_first BY <1>3
 <2>2. Latest' = w BY <2>1, NextStart
 <2> QED BY <2>1, <2>2 DEF NoneUncoded
<1> QED BY <1>1, <1>2, <1>3, StepPaths

\* An entry of the level that no thread is to lose.
LEMMA EntryAtLevel ==
  ASSUME IInv, NEW o \in Thread, NEW i \in 1 .. Done(o).bucket.size, Done(o).bucket.level = Chosen,
         Chosen >= 0
  PROVE  /\ Done(o).bucket.list[i] \in Vertex /\ dist[Done(o).bucket.list[i]] = Chosen
         /\ i \in Nat /\ i >= 1 /\ Done(o).bucket.size \in Nat /\ i <= Done(o).bucket.size
<1>1. PICK p \in {0, 1} : p = Chosen % 2 BY Words
<1>2. Done(o).bucket = Bucket(p, o) BY <1>1 DEF Done, Bucket
<1>3. /\ Done(o).bucket.list[i] \in Vertex /\ Delta[Done(o).bucket.list[i]] = Chosen
      /\ Done(o).bucket.size \in Nat
  BY <1>2, SoundBucket
<1>4. Chosen \in 0 .. Chosen BY Words
<1> QED BY <1>3, <1>4, DistKnown

LEMMA TopKeepsTaking ==
  ASSUME IInv, NEW t \in Thread, Step(t), TopPath(t), Current(t), NEW o \in Thread,
         NEW i \in 1 .. Done(o).bucket.size, Done(o).bucket.level = Chosen,
         Done(o).done < Chosen, Counts(o) => Done(o).last_done < i,
         ~Covered(Done(o).bucket.list[i]),
         WillTake(t, o, i)
  PROVE  WillTake(t, o, i)'
<1>0. /\ my[t].pc \in InTopDown /\ InLevel(t) /\ my[t].pc \notin Deciding \cup Reusing
      /\ Entries(t) /\ ItemView(t) /\ my[t].item \in Nat /\ my[t].sz \in Nat /\ i \in Nat /\ i >= 1
      /\ Chosen \in Int /\ my[t].level = Chosen /\ my[t].level \in Nat
 <2>1. my[t].pc \in InTopDown BY TopWithin
 <2>2. my[t].pc \notin Deciding \cup Reusing
   BY <2>1 DEF InTopDown, Looking, Starting, Reading, AtItem, Deciding, Reusing
 <2>3. Entries(t) /\ ItemView(t) /\ my[t].item \in Nat /\ my[t].sz \in Nat /\ Chosen \in Int
       /\ my[t].level \in Nat /\ my[t].level = Chosen
   BY Parts, Before, Words DEF Current
 <2> QED BY <2>1, <2>2, <2>3, EntryAtLevel DEF InLevel
<1>1. Order(t, o) > my[t].turn \/ my[t].owner = o BY <1>0 DEF WillTake
<1>2. CASE Order(t, o) > my[t].turn
 <2>1. CASE Rests(t, "done", "advance")
  <3>1. my'[t].pc = "done" /\ (Order(t, o) > my'[t].turn \/ my'[t].owner = o)
    BY <1>0, <1>2, <2>1, RestsRing
  <3> QED BY <3>1 DEF WillTake, InTopDown, Looking
 <2>2. CASE ~Rests(t, "done", "advance")
  <3>1. SameOwner(t) BY <2>2 DEF TopPath, Stays, Loads, HelpsFrom, Takes, Leaves, AtNeighbor
  <3>2. my'[t].pc \in InTopDown \cup Ending
    BY <2>2 DEF TopPath, Loads, HelpsFrom, Takes, Leaves, AtNeighbor, InTopDown, Looking, Starting,
       Reading, AtItem, Ending
  <3> QED BY <1>2, <3>1, <3>2 DEF WillTake, SameOwner
 <2> QED BY <2>1, <2>2
<1>3. CASE my[t].owner = o
 <2>1. /\ Entry(t) = Done(o) /\ At_(t) = Done(o).bucket
       /\ Bucket(There(t), o).level = my[t].level + 1 <=> Counts(o)
   BY <1>0, <1>3, ReadsDone
 <2>2. /\ Entry(t).done \in Int /\ Entry(t).last_done \in Nat /\ At_(t).size \in Nat
       /\ ~(Order(t, o) > my[t].turn) /\ Firm(t)
   BY <1>0, <1>3, Before, AtTurn DEF Firm
 <2>3. \/ my[t].pc \in Looking
       \/ my[t].pc \in Starting /\ i <= my[t].sz
       \/ my[t].pc \in Reading /\ i \in my[t].todo
       \/ my[t].pc \in AtItem \cup {"at_level"} /\ i = my[t].item
   BY <1>0, <1>3, <2>2 DEF WillTake
 <2>4. /\ At_(t).level = my[t].level /\ i <= At_(t).size /\ At_(t).size # 0
       /\ ~(Entry(t).done >= my[t].level)
   BY <1>0, <2>1, <2>2
 <2>5. ~(Rests(t, "done", "advance") /\ ((my[t].pc = "done" /\ Entry(t).done >= my[t].level)
         \/ (my[t].pc = "this_level" /\ At_(t).level # my[t].level)
         \/ (my[t].pc = "size" /\ At_(t).size = 0)))
   BY <2>4
 <2>6. CASE my[t].pc \in Looking
  <3>1. \/ my'[t].pc \in Looking /\ my'[t].owner = o
        \/ Loads(t)
    BY <1>3, <2>5, <2>6 DEF TopPath, Stays, SameOwner, Looking
  <3>2. CASE my'[t].pc \in Looking /\ my'[t].owner = o BY <3>2 DEF WillTake
  <3>3. CASE Loads(t)
   <4>1. i \in 1 .. At_(t).size /\ my'[t].owner = o
     BY <1>0, <1>3, <2>2, <2>4, <3>3 DEF Loads, SameOwner
   <4>2. CASE Own(t) BY <3>3, <4>1, <4>2 DEF Loads, WillTake, Reading
   <4>3. CASE ~Own(t) BY <2>4, <3>3, <4>1, <4>3 DEF Loads, WillTake, Starting
   <4> QED BY <4>2, <4>3
  <3> QED BY <3>1, <3>2, <3>3
 <2>7. CASE my[t].pc \in Starting
  <3>1. i <= my[t].sz BY <2>3, <2>7 DEF Looking, Starting, Reading, AtItem
  <3>2. \/ Stays(t) /\ my'[t].pc = "start"
        \/ HelpsFrom(t, 1)
        \/ HelpsFrom(t, Entry(t).last_done + 1) /\ my[t].pc = "start"
    BY <2>7 DEF TopPath, Starting
  <3>3. CASE Stays(t) /\ my'[t].pc = "start"
    BY <1>3, <3>1, <3>3 DEF Stays, SameOwner, SameItems, WillTake, Starting
  <3>4. ASSUME NEW n \in Nat, HelpsFrom(t, n), n <= i PROVE WillTake(t, o, i)'
   <4>1. i \in n .. my[t].sz BY <1>0, <3>1, <3>4
   <4>2. my'[t].pc = "entry" /\ i \in my'[t].todo /\ my'[t].owner = o
     BY <1>3, <3>4, <4>1 DEF HelpsFrom, SameOwner
   <4> QED BY <4>2 DEF WillTake, Reading
  <3>5. CASE HelpsFrom(t, Entry(t).last_done + 1) /\ my[t].pc = "start"
   <4>1. Counts(o) BY <1>0, <1>3, <2>1, <3>5 DEF Entries, Current
   <4>2. Entry(t).last_done + 1 <= i /\ Entry(t).last_done + 1 \in Nat BY <1>0, <2>1, <2>2, <4>1
   <4> QED BY <3>4, <3>5, <4>2
  <3> QED BY <1>0, <3>2, <3>3, <3>4, <3>5
 <2>8. CASE my[t].pc \in Reading /\ i \in my[t].todo
  <3>1. SameOwner(t)
    BY <2>8 DEF TopPath, Stays, Loads, HelpsFrom, Takes, Leaves, AtNeighbor, Reading, AtItem
  <3>2. CASE my[t].pc = "entry"
   <4>1. PICK n \in my[t].todo : \E u \in Readable(At_(t).list[n]) : Takes(t, n, u)
     BY <3>2 DEF TopPath
   <4>2. /\ my'[t].item = n /\ my'[t].todo = my[t].todo \ {n}
         /\ my'[t].pc \in {"visited", "at_level"}
     BY <4>1 DEF Takes
   <4>3. CASE n = i BY <1>3, <3>1, <4>2, <4>3 DEF SameOwner, WillTake, AtItem
   <4>4. CASE n # i BY <1>3, <2>8, <3>1, <4>2, <4>4 DEF SameOwner, WillTake, Reading, AtItem
   <4> QED BY <4>3, <4>4
  <3>3. CASE my[t].pc # "entry"
   <4>1. my'[t].todo = my[t].todo
     BY <2>8, <3>3 DEF TopPath, Stays, SameItems, Leaves, AtNeighbor, Reading, AtItem
   <4>2. my'[t].pc \in Reading BY <2>8, <3>3 DEF TopPath, Leaves, AtNeighbor, Reading, AtItem
   <4> QED BY <1>3, <2>8, <3>1, <4>1, <4>2 DEF SameOwner, WillTake
  <3> QED BY <3>2, <3>3
 <2>9. CASE my[t].pc \in AtItem \cup {"at_level"} /\ i = my[t].item
  <3>0. my[t].u = Done(o).bucket.list[i] /\ my[t].u \in Vertex /\ dist[my[t].u] = my[t].level
    BY <1>0, <2>1, <2>2, <2>9, EntryAtLevel DEF Entries
  <3>1. ~(my[t].pc = "at_level" /\ ~IsAtLevel(my[t].u, my[t].level)) BY <3>0 DEF IsAtLevel
  <3>2. ~(my[t].pc = "visited" /\ vis[my[t].u]) BY <3>0 DEF IInv, LevelsInv, VisCertificate
  <3>3. my[t].pc # "vis"
   <4> SUFFICES ASSUME my[t].pc = "vis" PROVE FALSE OBVIOUS
   <4>1. /\ my[t].j = Len(adj[my[t].u]) + 1
         /\ \A p \in 1 .. my[t].j - 1 : dist[adj[my[t].u][p]] # Unset
     BY <1>0 DEF ItemView, AtItem
   <4>2. adj[my[t].u] \in Seq(Vertex) /\ Len(adj[my[t].u]) \in Nat BY <3>0, GraphAssumption
   <4>3. Covered(my[t].u)
    <5> SUFFICES ASSUME NEW v \in Neighbors(my[t].u) PROVE Discovered(v) BY DEF Covered
    <5>1. PICK p \in 1 .. Len(adj[my[t].u]) : adj[my[t].u][p] = v BY <4>2 DEF Neighbors
    <5> QED BY <4>1, <4>2, <5>1 DEF Discovered
   <4> QED BY <3>0, <4>3
  <3>4. SameOwner(t) /\ my'[t].item = my[t].item /\ my'[t].pc \in AtItem
    BY <2>9, <3>1, <3>2, <3>3 DEF TopPath, Stays, SameItems, Leaves, AtNeighbor, AtItem
  <3> QED BY <1>3, <2>9, <3>4 DEF SameOwner, WillTake
 <2> QED BY <2>3, <2>6, <2>7, <2>8, <2>9
<1> QED BY <1>1, <1>2, <1>3

LEMMA KeepsTaking ==
  ASSUME IInv, NEW t \in Thread, Step(t), QuietStep(t), Latest.direction = "top_down", Current(t)',
         NEW o \in Thread, NEW i \in 1 .. Done(o).bucket.size, Done(o).bucket.level = Chosen,
         Done(o).done < Chosen, Counts(o) => Done(o).last_done < i,
         ~Covered(Done(o).bucket.list[i]),
         Current(t) => WillTake(t, o, i)
  PROVE  WillTake(t, o, i)'
<1>1. Chosen' = Chosen BY DEF QuietStep
<1>2. CASE ~LevelPath(t)
 <2>1. my'[t].pc \in Deciding \/ (Joins(t) /\ my'[t].pc \in {"reset", "returned"})
   BY <1>2, OutsidePaths
 <2>2. ASSUME Joins(t) PROVE my'[t].pc = "reset"
  <3>1. Current(t) BY <1>1, <2>2, JoinsReset DEF Current
  <3>2. my'[t].direction = "top_down" BY <1>1, <2>2, <3>1, JoinsReset
  <3> QED BY <2>2, <3>2, JoinsReset
 <2> QED BY <2>1, <2>2 DEF WillTake, Reusing
<1>3. CASE LevelPath(t)
 <2>1. InLevel(t) /\ Current(t) /\ my[t].level = Chosen
   BY <1>1, <1>3, Inner DEF InnerStep, SameLevel, InLevel, Current
 <2>2. my[t].direction = "top_down" /\ WillTake(t, o, i) BY <2>1, LatestFollowed
 <2>3. CASE TopPath(t) BY <2>1, <2>2, <2>3, TopKeepsTaking
 <2>4. CASE ReusePath(t)
  <3>1. my[t].turn = 0 /\ (my[t].owner = o <=> Order(t, o) = 0) /\ Order(t, o) \in Nat
    BY <2>1, <2>4, RingAt, AtTurn DEF ReusePath, Reusing
  <3>2. my'[t].pc \in Reusing \cup {"done"} /\ SameOwner(t)
    BY <2>2, <2>4 DEF ReusePath, Reusing, Stays
  <3> QED BY <3>1, <3>2 DEF WillTake, SameOwner, InTopDown, Looking
 <2>5. CASE MarkPath(t)
  <3>1. my[t].pc \in Ending BY <2>5, MarkWithin
  <3>2. Order(t, o) > my[t].turn
    BY <2>2, <3>1 DEF WillTake, Ending, Deciding, Reusing, Looking, Starting, Reading, AtItem
  <3>3. CASE Stays(t) /\ my'[t].pc = "mark_done"
    BY <3>2, <3>3 DEF Stays, SameOwner, WillTake, Ending
  <3>4. CASE Rests(t, "done", "advance")
   <4>1. my'[t].pc = "done" /\ (Order(t, o) > my'[t].turn \/ my'[t].owner = o)
     BY <2>1, <3>2, <3>4, RestsRing
   <4> QED BY <4>1 DEF WillTake, InTopDown, Looking
  <3> QED BY <2>2, <2>5, <3>3, <3>4 DEF MarkPath, Ends
 <2>6. CASE CodesPath(t) \/ ScanPath(t) \/ BlocksPath(t)
  <3>1. my[t].pc \in InCodes \cup InBlock \cup InBlocks
    BY <2>6, CodesWithin, ScanWithin, BlocksWithin
  <3>2. ~WillTake(t, o, i)
    BY <3>1 DEF WillTake, InBlock, Finding, InBlocks, Owning, Helping, HelpBegun, AtBlock, Ending,
       Deciding, Reusing, InCodes, CodesLooking, CodesStarting, AtCode, InTopDown, Looking,
       Starting, Reading, AtItem
  <3> QED BY <2>2, <3>2
 <2> QED BY <1>3, <2>3, <2>4, <2>5, <2>6 DEF LevelPath
<1> QED BY <1>2, <1>3

LEMMA NoneLostKept ==
  ASSUME IInv, NEW t \in Thread, Step(t)
  PROVE  NoneLost'
<1>0. Chosen \in Int /\ Chosen >= -1 /\ DataStep(t) /\ NoneLost BY Words, Effects DEF IInv
<1>1. ASSUME NEW w \in WordType, WinsLevel(t, w), w.direction = "top_down" PROVE NoneLost'
 <2>1. Chosen' = Chosen + 1 /\ Latest' = w /\ Chosen + 1 \in Nat BY <1>1, NextStart
 <2> SUFFICES ASSUME NEW v \in Vertex, dist'[v] = Chosen + 1
              PROVE  \E o \in Thread : \E i \in 1 .. Done(o)'.bucket.size :
                       /\ Done(o)'.bucket.level = Chosen' /\ Done(o)'.bucket.list[i] = v
                       /\ Done(o)'.done < Chosen'
                       /\ ~Counts(o)'
                       /\ \A s \in Thread : Current(s)' => WillTake(s, o, i)'
   BY <2>1 DEF NoneLost
 <2>3. dist[v] = Chosen + 1 /\ dist[v] # Unset
  <3>1. my[t].pc = "choose" BY <1>1 DEF WinsLevel, Wins
  <3>2. dist'[v] = dist[v] BY <1>0, <3>1 DEF DataStep
  <3> QED BY <2>1, <3>2 DEF Unset
 <2>4. PICK o \in Thread : EntryOf(Chosen + 1, o, v) BY <1>0, <2>3 DEF IInv, LevelsInv, Kept
 <2>5. PICK d \in Int : d = Chosen + 1 BY <1>0
 <2>6. EntryOf(d, o, v)' BY <1>0, <2>4, <2>5, Effects, EntryStays
 <2>7. PICK i \in 1 .. Bucket(d % 2, o)'.size : Bucket(d % 2, o)'.list[i] = v /\ Bucket(d % 2, o)'.level = d
   BY <2>6 DEF EntryOf, Bucket
 <2>8. Done(o)'.bucket = Bucket(d % 2, o)' BY <2>1, <2>5 DEF Done, Bucket
 <2>9. \A s \in Thread : Current(s)' => WillTake(s, o, i)' BY <1>1, NextStart DEF WillTake
 <2> QED BY <1>1, <2>1, <2>5, <2>7, <2>8, <2>9, NextStart
<1>2. CASE QuietStep(t)
 <2>1. Chosen' = Chosen /\ Latest' = Latest BY <1>2 DEF QuietStep
 <2>2. PICK p \in {0, 1} : p = Chosen % 2 /\ 1 - p = (Chosen + 1) % 2 BY Words
 <2> SUFFICES ASSUME NEW v \in Vertex, dist'[v] = Chosen, dist'[v] # Unset, ~Covered(v)',
                     Latest.direction = "top_down"
              PROVE  \E o \in Thread : \E i \in 1 .. Done(o)'.bucket.size :
                       /\ Done(o)'.bucket.level = Chosen /\ Done(o)'.bucket.list[i] = v
                       /\ Done(o)'.done < Chosen
                       /\ Counts(o)' => Done(o)'.last_done < i
                       /\ \A s \in Thread : Current(s)' => WillTake(s, o, i)'
   BY <2>1 DEF NoneLost, Discovered
 <2>3. dist[v] = Chosen /\ dist[v] # Unset /\ ~Covered(v) /\ Chosen >= 0
  <3>1. Chosen >= 0 /\ Delta[v] = Chosen BY <1>0, DistStays DEF Unset
  <3>2. Chosen \in 0 .. Chosen BY <1>0, <3>1
  <3>3. dist[v] = Chosen BY <3>1, <3>2, DistKnown
  <3> QED BY <1>0, <3>1, <3>3, FoundStays DEF Unset
 <2>4. PICK o \in Thread : \E i \in 1 .. Done(o).bucket.size :
         /\ Done(o).bucket.level = Chosen /\ Done(o).bucket.list[i] = v
         /\ Done(o).done < Chosen
         /\ Counts(o) => Done(o).last_done < i
         /\ \A s \in Thread : Current(s) => WillTake(s, o, i)
   BY <1>0, <2>3 DEF NoneLost, Discovered
 <2>5. PICK i \in 1 .. Done(o).bucket.size :
         /\ Done(o).bucket.level = Chosen /\ Done(o).bucket.list[i] = v
         /\ Done(o).done < Chosen
         /\ Counts(o) => Done(o).last_done < i
         /\ \A s \in Thread : Current(s) => WillTake(s, o, i)
   BY <2>4
 <2>6. /\ Done(o).bucket = Bucket(p, o) /\ Done(o)'.bucket = Bucket(p, o)'
       /\ Done(o).done = DoneAt(p, o) /\ Done(o)'.done = DoneAt(p, o)'
       /\ Done(o).last_done = LastAt(p, o)
       /\ Done(o)'.last_done = LastAt(p, o)'
       /\ Counts(o)' <=> Bucket(1 - p, o)'.level = Chosen + 1
   BY <2>1, <2>2 DEF Done, Bucket, DoneAt, LastAt, Counts
 <2>7. /\ Bucket(p, o)'.level = Chosen /\ i \in 1 .. Bucket(p, o)'.size
       /\ Bucket(p, o)'.list[i] = v
   BY <2>2, <2>5, <2>6, PlaceOf
 <2>8. DoneAt(p, o)' < Chosen
  <3> SUFFICES ASSUME Current(t), my[t].pc = "mark_done", my[t].owner = o PROVE FALSE
    BY <2>2, <2>5, <2>6, DoneOf
  <3>1. InLevel(t) BY DEF InLevel, Deciding
  <3>2. ~(Order(t, o) > my[t].turn) BY <3>1, AtTurn
  <3> QED BY <2>5, <3>2 DEF WillTake, Deciding, Reusing, Looking, Starting, Reading, AtItem
 <2>9. Counts(o)' => LastAt(p, o)' < i
  <3> SUFFICES ASSUME Bucket(1 - p, o)'.level = Chosen + 1 PROVE LastAt(p, o)' < i BY <2>6
  <3>1. i \in Nat /\ i >= 1 BY <2>6, SoundBucket
  <3>2. CASE LastAt(p, o)' = 0 BY <3>1, <3>2
  <3>3. CASE Counts(o) /\ LastAt(p, o)' = LastAt(p, o) BY <2>5, <2>6, <3>3
  <3>4. CASE /\ Current(t) /\ o = t /\ my[t].pc \in {"progress", "own_progress"} /\ my[t].owner = t
             /\ LastAt(p, o)' = my[t].item
   <4>1. InLevel(t) BY <3>4 DEF InLevel, Deciding
   <4>2. ~(Order(t, o) > my[t].turn) /\ my[t].item \in Nat BY <3>4, <4>1, AtTurn, Before
   <4>3. i \in my[t].todo /\ my[t].pc = "progress"
     BY <2>5, <3>4, <4>2 DEF WillTake, Deciding, Reusing, Looking, Starting, Reading, AtItem
   <4>4. my[t].item < i BY <3>4, <4>3, Parts DEF Entries, Reading, Own
   <4> QED BY <3>1, <3>4, <4>2, <4>4
  <3> QED BY <2>2, <3>2, <3>3, <3>4, ProgressOf
 <2>10. ASSUME NEW s \in Thread, Current(s)' PROVE WillTake(s, o, i)'
  <3>1. CASE s = t BY <1>2, <2>3, <2>5, <2>10, <3>1, KeepsTaking
  <3>2. CASE s # t
   <4>1. my'[s] = my[s] /\ Current(s) BY <2>1, <2>10, <3>2, Moved DEF Current
   <4> QED BY <2>5, <4>1 DEF WillTake
  <3> QED BY <3>1, <3>2
 <2> QED BY <2>6, <2>7, <2>8, <2>9, <2>10
<1>3. CASE \E w \in WordType : WinsLevel(t, w) /\ w.direction # "top_down"
 <2>1. PICK w \in WordType : WinsLevel(t, w) /\ w.direction # "top_down" BY <1>3
 <2>2. Latest' = w BY <2>1, NextStart
 <2> QED BY <2>1, <2>2 DEF NoneLost
<1> QED BY <1>1, <1>2, <1>3, StepPaths

\* A vertex stays in what is left of a scan until it is found.
LEMMA KeepsBlock ==
  ASSUME IInv, NEW t \in Thread, Step(t), ScanPath(t),
         NEW x \in Vertex, x < End(my[t].owner, my[t].item),
         Delta[x] = my[t].level + 1, ~Discovered(x)', InScan(t, x)
  PROVE  my'[t].pc \in InBlock /\ InScan(t, x)'
<1>0. /\ my[t].pc \in InBlock /\ my[t].cand \in Seq(Vertex) /\ Len(my[t].cand) \in Nat
      /\ my[t].j \in Nat /\ x \in Nat /\ dist[x] = Unset /\ my[t].level \in Nat
      /\ CandidatesView(t) /\ DataStep(t)
 <2>1. my[t].pc \in InBlock BY ScanWithin
 <2>2. my[t].cand \in Seq(Vertex) /\ my[t].j \in Nat /\ my[t].level \in Nat BY Before
 <2>3. dist[x] = Unset /\ DataStep(t) BY Effects, FoundStays DEF Discovered
 <2> QED BY <2>1, <2>2, <2>3, Parts, MemAssumption
<1>1. \/ my[t].pc = "gather" /\ x >= my[t].j
      \/ \E i \in 1 .. Len(my[t].cand) : my[t].cand[i] = x
  BY DEF InScan
<1>2. ASSUME NEW c \in Seq(Vertex), Tests(t, c), NEW i \in 1 .. Len(c), c[i] = x
      PROVE  my'[t].pc \in InBlock /\ InScan(t, x)'
 <2>1. c # <<>> BY <1>2
 <2> QED BY <1>2, <2>1 DEF InScan, InBlock, Tests
<1>3. CASE my[t].pc = "gather"
 <2>1. /\ Candidates(t) \in Seq(Vertex) /\ my[t].j \in Vertex
       /\ End(my[t].owner, my[t].item) \in Nat
       /\ \/ Gathers(t, Candidates(t)) /\ my[t].j + 1 < End(my[t].owner, my[t].item)
          \/ Tests(t, Candidates(t)) /\ ~(my[t].j + 1 < End(my[t].owner, my[t].item))
   BY <1>3, GatherFacts DEF ScanPath
 <2>2. ASSUME NEW i \in 1 .. Len(my[t].cand), my[t].cand[i] = x
       PROVE  \E n \in 1 .. Len(Candidates(t)) : Candidates(t)[n] = x
  <3>1. i \in 1 .. Len(Candidates(t)) /\ Candidates(t)[i] = x
    BY <1>0, <2>1, <2>2, AppendEntries DEF Candidates
  <3> QED BY <3>1
 <2>3. ASSUME x = my[t].j PROVE \E n \in 1 .. Len(Candidates(t)) : Candidates(t)[n] = x
  <3>1. Candidates(t) = Append(my[t].cand, x) BY <1>0, <2>3 DEF Candidates
  <3>2. Len(my[t].cand) + 1 \in 1 .. Len(Candidates(t)) /\ Candidates(t)[Len(my[t].cand) + 1] = x
    BY <1>0, <3>1, AppendEntries
  <3> QED BY <3>2
 <2>4. CASE \E n \in 1 .. Len(Candidates(t)) : Candidates(t)[n] = x
  <3>1. CASE Tests(t, Candidates(t)) BY <1>2, <2>1, <2>4, <3>1
  <3>2. CASE Gathers(t, Candidates(t)) BY <2>4, <3>2 DEF Gathers, InScan, InBlock
  <3> QED BY <2>1, <3>1, <3>2
 <2>5. CASE ~(\E n \in 1 .. Len(Candidates(t)) : Candidates(t)[n] = x)
  <3>1. x >= my[t].j /\ x # my[t].j BY <1>1, <2>2, <2>3, <2>5
  <3>2. Gathers(t, Candidates(t)) /\ x >= my[t].j + 1 BY <1>0, <2>1, <3>1
  <3> QED BY <3>2 DEF Gathers, InScan, InBlock
 <2> QED BY <2>4, <2>5
<1>4. CASE my[t].pc # "gather"
 <2>1. PICK i \in 1 .. Len(my[t].cand) : my[t].cand[i] = x BY <1>1, <1>4
 <2>2. my[t].cand # <<>> /\ i \in Nat BY <1>0, <2>1
 <2>3. \/ /\ Tests(t, Tail(my[t].cand))
          /\ \/ my[t].pc = "test" /\ my[t].j > Len(adj[C(t)])
             \/ my[t].pc = "mark"
       \/ my'[t].cand = my[t].cand /\ my'[t].pc \in InBlock
   BY <1>4 DEF ScanPath, Stays, SameView, NextNeighbor, InBlock, Finding
 <2>4. CASE /\ Tests(t, Tail(my[t].cand))
            /\ \/ my[t].pc = "test" /\ my[t].j > Len(adj[C(t)])
               \/ my[t].pc = "mark"
  <3>1. C(t) = my[t].cand[1] BY <1>0, <2>2, TailEntries DEF C
  <3>2. i # 1
   <4> SUFFICES ASSUME x = C(t) PROVE FALSE BY <2>1, <3>1
   <4>1. CASE my[t].pc = "test" /\ my[t].j > Len(adj[C(t)])
    <5>1. PICK u \in Vertex : Delta[u] = my[t].level /\ u \in Neighbors(x) BY <1>0, OneCloser
    <5>2. adj[x] \in Seq(Vertex) /\ Len(adj[x]) \in Nat BY GraphAssumption
    <5>3. PICK p \in 1 .. Len(adj[x]) : adj[x][p] = u BY <5>1, <5>2 DEF Neighbors
    <5>4. p \in 1 .. my[t].j - 1 BY <1>0, <4>1, <5>2
    <5> QED BY <1>0, <4>1, <5>1, <5>3, <5>4 DEF CandidatesView
   <4>2. CASE my[t].pc = "mark"
    <5>1. dist'[x] = my[t].level + 1 BY <1>0, <4>2 DEF DataStep
    <5> QED BY <1>0, <5>1 DEF Discovered, Unset
   <4> QED BY <2>4, <4>1, <4>2
  <3>3. i \in 2 .. Len(my[t].cand) BY <1>0, <2>1, <2>2, <3>2
  <3>4. i - 1 \in 1 .. Len(Tail(my[t].cand)) /\ Tail(my[t].cand)[i - 1] = x
        /\ Tail(my[t].cand) \in Seq(Vertex)
    BY <1>0, <2>1, <2>2, <3>3, TailEntries
  <3> QED BY <1>2, <2>4, <3>4
 <2>5. CASE my'[t].cand = my[t].cand /\ my'[t].pc \in InBlock BY <2>1, <2>5 DEF InScan
 <2> QED BY <2>3, <2>4, <2>5
<1> QED BY <1>3, <1>4

\* Where a vertex of block k of owner o is to be scanned by t, which is at that owner.
AtScan(t, k, x) ==
  \/ my[t].pc \in {"own", "own_stamp"} /\ my[t].item <= k
  \/ my[t].pc = "own_progress" /\ my[t].item < k
  \/ my[t].pc \in HelpBegun
  \/ my[t].pc \in {"block", "stamp"} \cup AtBlock /\ k \in my[t].todo
  \/ my[t].pc \in AtBlock /\ k = my[t].item
  \/ my[t].pc \in InBlock /\ my[t].item = k /\ InScan(t, x)
  \/ my[t].pc \in InBlock /\ Own(t) /\ my[t].item < k
  \/ my[t].pc \in InBlock /\ ~Own(t) /\ k \in my[t].todo

LEMMA AtScanWill ==
  ASSUME NEW t \in Thread, NEW o \in Thread, NEW k, NEW x, my'[t].owner = o, AtScan(t, k, x)'
  PROVE  WillScan(t, o, k, x)'
<1> DEFINE S == AtScan(t, k, x)'
<1>1. S <=> \/ my'[t].pc \in {"own", "own_stamp"} /\ my'[t].item <= k
            \/ my'[t].pc = "own_progress" /\ my'[t].item < k
            \/ my'[t].pc \in HelpBegun
            \/ my'[t].pc \in {"block", "stamp"} \cup AtBlock /\ k \in my'[t].todo
            \/ my'[t].pc \in AtBlock /\ k = my'[t].item
            \/ my'[t].pc \in InBlock /\ my'[t].item = k /\ InScan(t, x)'
            \/ my'[t].pc \in InBlock /\ Own(t)' /\ my'[t].item < k
            \/ my'[t].pc \in InBlock /\ ~Own(t)' /\ k \in my'[t].todo
  BY Zenon DEF AtScan
<1> QED BY <1>1, Zenon DEF WillScan

LEMMA BlocksKeepScanning ==
  ASSUME IInv, NEW t \in Thread, Step(t), BlocksPath(t), InLevel(t), Current(t), NEW o \in Thread,
         NEW k \in 1 .. Owned(o), NEW x \in Vertex, x >= Begin(o, k),
         Done(o).done < Chosen, Counts(o) => Done(o).last_done < k, helped_at[o][k] # Chosen,
         my[t].owner = o, AtScan(t, k, x), my[t].pc # "reserve"
  PROVE  my'[t].owner = o /\ AtScan(t, k, x)'
<1>1. /\ Entry(t) = Done(o) /\ my[t].level = Chosen /\ Chosen \in Int
      /\ Bucket(There(t), o).level = my[t].level + 1 <=> Counts(o)
  BY ReadsDone, Words
<1>2. /\ Entry(t).done \in Int /\ Entry(t).last_done \in Nat /\ ~(Entry(t).done >= my[t].level)
      /\ k \in Nat /\ k >= 1 /\ k <= Owned(o) /\ Owned(o) \in Nat /\ my[t].item \in Nat
      /\ x \in Nat /\ Begin(o, k) \in Nat
  BY SMTT(40), <1>1, Before, OwnedFacts, BlockRange, MemAssumption
<1>3. /\ my[t].pc \in Owning => Own(t) /\ o = t
      /\ my[t].pc \in Helping => ~Own(t)
      /\ BlockEntries(t)
  BY RingAt, Parts DEF Own
<1>4. my[t].pc \in Owning \cup Helping BY BlocksWithin DEF InBlocks
<1>5. ~(Stamped(t) /\ my[t].item = k) BY <1>1 DEF Stamped
<1>6. my[t].pc # "help" \/ ~Rests(t, "help", "advance")
 <2>1. ASSUME my[t].pc = "help", Rests(t, "help", "advance") PROVE FALSE
  <3>1. my'[t].pc \in {"help", "advance"} BY <2>1 DEF Rests
  <3> QED
    BY <1>2, <2>1, <3>1 DEF BlocksPath, Stays, Reserves, NextOwn, ToBlock, FromBlock, NoMoreBlocks,
       TakesBlock, Scans
 <2> QED BY <2>1
<1>7. SameOwner(t) /\ my'[t].owner = o /\ (Own(t)' <=> Own(t))
 <2>1. SameOwner(t)
   BY <1>6 DEF BlocksPath, Stays, Reserves, NextOwn, ToBlock, FromBlock, NoMoreBlocks, TakesBlock,
      Scans
 <2> QED BY <2>1 DEF SameOwner, Own
<1>8. CASE my[t].pc \in Owning
 <2>1. /\ my[t].pc \in {"own", "own_stamp"} => my[t].item <= k
       /\ my[t].pc = "own_progress" => my[t].item < k
   BY <1>8 DEF AtScan, Owning, HelpBegun, AtBlock, InBlock, Finding
 <2>2. CASE my[t].pc = "own"
  <3>1. Stays(t) /\ my'[t].pc = "own_stamp" BY <1>2, <1>3, <1>8, <2>1, <2>2 DEF BlocksPath
  <3> QED BY <1>7, <2>1, <2>2, <3>1 DEF Stays, SameItems, AtScan
 <2>3. CASE my[t].pc = "own_stamp"
  <3>1. \/ Stays(t) /\ my'[t].pc = "own_progress" /\ Stamped(t)
        \/ Scans(t)
    BY <2>3 DEF BlocksPath
  <3>2. CASE Stays(t) /\ my'[t].pc = "own_progress" /\ Stamped(t)
   <4>1. my'[t].item = my[t].item /\ my[t].item < k
     BY <1>2, <1>5, <2>1, <2>3, <3>2 DEF Stays, SameItems
   <4> QED BY <1>7, <3>2, <4>1 DEF AtScan
  <3>3. CASE Scans(t)
   <4>1. my'[t].item = my[t].item /\ my'[t].pc = "gather" /\ my'[t].j = Begin(o, my[t].item)
     BY <3>3 DEF Scans, SameItems
   <4>2. CASE my[t].item = k
    <5>1. InScan(t, x)' BY <4>1, <4>2 DEF InScan
    <5> QED BY <1>7, <4>1, <4>2, <5>1 DEF AtScan, InBlock
   <4>3. CASE my[t].item # k
    <5>1. my'[t].item < k /\ Own(t)' BY <1>2, <1>3, <1>7, <1>8, <2>1, <2>3, <4>1, <4>3
    <5> QED BY <1>7, <4>1, <5>1 DEF AtScan, InBlock
   <4> QED BY <4>2, <4>3
  <3> QED BY <3>1, <3>2, <3>3
 <2>4. CASE my[t].pc = "own_progress"
  <3>1. NextOwn(t) BY <2>4 DEF BlocksPath
  <3>2. my'[t].pc = "own" /\ my'[t].item <= k BY <1>2, <2>1, <2>4, <3>1 DEF NextOwn
  <3> QED BY <1>7, <3>2 DEF AtScan
 <2> QED BY <1>8, <2>2, <2>3, <2>4 DEF Owning
<1>9. CASE my[t].pc \in HelpBegun
 <2>1. \/ Stays(t) /\ my'[t].pc \in HelpBegun
       \/ FromBlock(t, 1)
       \/ FromBlock(t, Entry(t).last_done + 1) /\ my[t].pc = "help_start"
   BY <1>6, <1>9 DEF BlocksPath, HelpBegun
 <2>2. ASSUME NEW n \in Nat, FromBlock(t, n), n <= k PROVE AtScan(t, k, x)'
  <3>1. k \in n .. Owned(my[t].owner) BY <1>2, <2>2
  <3>2. my'[t].pc = "block" /\ k \in my'[t].todo BY <2>2, <3>1 DEF FromBlock
  <3> QED BY <3>2 DEF AtScan
 <2>3. CASE FromBlock(t, Entry(t).last_done + 1) /\ my[t].pc = "help_start"
  <3>1. Counts(o) BY <1>1, <1>3, <2>3 DEF BlockEntries
  <3>2. Entry(t).last_done + 1 <= k /\ Entry(t).last_done + 1 \in Nat BY <1>1, <1>2, <3>1
  <3> QED BY <1>7, <2>2, <2>3, <3>2
 <2>4. CASE Stays(t) /\ my'[t].pc \in HelpBegun BY <1>7, <2>4 DEF AtScan
 <2> QED BY <1>2, <1>7, <2>1, <2>2, <2>3, <2>4
<1>10. CASE my[t].pc \in {"block", "stamp"} \cup AtBlock
 <2>1. ~Own(t) /\ (k \in my[t].todo \/ (my[t].pc \in AtBlock /\ k = my[t].item))
  <3>1. my[t].pc \in Helping BY <1>10 DEF Helping
  <3> QED BY <1>3, <1>10, <3>1 DEF AtScan, Owning, HelpBegun, AtBlock, InBlock, Finding
 <2>2. ASSUME ToBlock(t), k \in my[t].todo PROVE AtScan(t, k, x)'
  <3>1. my'[t].pc = "block" /\ k \in my'[t].todo BY <2>2 DEF ToBlock
  <3> QED BY <3>1 DEF AtScan
 <2>3. CASE my[t].pc = "block"
  <3>0. k \in my[t].todo BY <2>1, <2>3 DEF AtBlock
  <3>1. PICK n \in my[t].todo : TakesBlock(t, n) BY <1>2, <2>3 DEF BlocksPath
  <3>2. my'[t].pc = "block_tag" /\ my'[t].item = n /\ my'[t].todo = my[t].todo \ {n}
    BY <3>1 DEF TakesBlock
  <3>3. k = my'[t].item \/ k \in my'[t].todo BY <3>0, <3>2
  <3> QED BY <1>7, <3>2, <3>3 DEF AtScan, AtBlock
 <2>4. CASE my[t].pc = "stamp"
  <3>1. ToBlock(t) /\ k \in my[t].todo BY <2>1, <2>4 DEF BlocksPath, AtBlock
  <3> QED BY <1>7, <2>2, <3>1
 <2>5. CASE my[t].pc \in AtBlock
  <3>1. \/ Stays(t) /\ my'[t].pc \in AtBlock
        \/ Scans(t)
        \/ ToBlock(t) /\ my[t].pc = "block_progress" /\ my[t].item <= Entry(t).last_done
        \/ ToBlock(t) /\ my[t].pc = "block_stamp" /\ Stamped(t)
    BY <2>5 DEF BlocksPath, AtBlock
  <3>2. CASE Stays(t) /\ my'[t].pc \in AtBlock BY <1>7, <2>1, <3>2 DEF Stays, SameItems, AtScan
  <3>3. CASE Scans(t)
   <4>1. /\ my'[t].item = my[t].item /\ my'[t].todo = my[t].todo /\ my'[t].pc = "gather"
         /\ my'[t].j = Begin(o, my[t].item)
     BY <3>3 DEF Scans, SameItems
   <4>2. CASE k \in my[t].todo BY <1>7, <2>1, <4>1, <4>2 DEF AtScan, InBlock
   <4>3. CASE k = my[t].item
    <5>1. InScan(t, x)' BY <4>1, <4>3 DEF InScan
    <5> QED BY <1>7, <4>1, <4>3, <5>1 DEF AtScan, InBlock
   <4> QED BY <2>1, <4>2, <4>3
  <3>4. CASE ToBlock(t) /\ my[t].pc = "block_progress" /\ my[t].item <= Entry(t).last_done
   <4>1. Counts(o) BY <1>1, <1>3, <3>4 DEF BlockEntries
   <4>2. my[t].item # k BY <1>1, <1>2, <3>4, <4>1
   <4> QED BY <1>7, <2>1, <2>2, <3>4, <4>2
  <3>5. CASE ToBlock(t) /\ my[t].pc = "block_stamp" /\ Stamped(t) BY <1>5, <1>7, <2>1, <2>2, <3>5
  <3> QED BY <3>1, <3>2, <3>3, <3>4, <3>5
 <2> QED BY <1>10, <2>3, <2>4, <2>5
<1> QED BY <1>4, <1>8, <1>9, <1>10 DEF Helping

LEMMA KeepsScanning ==
  ASSUME IInv, NEW t \in Thread, Step(t), QuietStep(t), Latest.direction = "bottom_up", Current(t)',
         NEW o \in Thread, NEW k \in 1 .. Owned(o), NEW x \in Vertex,
         x \in Begin(o, k) .. End(o, k) - 1, Delta[x] = Chosen + 1, ~Discovered(x)',
         Done(o).done < Chosen, Counts(o) => Done(o).last_done < k, helped_at[o][k] # Chosen,
         Current(t) => WillScan(t, o, k, x)
  PROVE  WillScan(t, o, k, x)'
<1>0. /\ Chosen' = Chosen /\ k \in Nat /\ k >= 1 /\ x \in Nat /\ Begin(o, k) \in Nat /\ End(o, k) \in Nat
      /\ x >= Begin(o, k) /\ x < End(o, k)
  BY BlockRange, OwnedFacts, MemAssumption DEF QuietStep
<1>2. CASE ~LevelPath(t)
 <2>1. my'[t].pc \in Deciding \/ (Joins(t) /\ my'[t].pc \in {"reset", "returned"})
   BY <1>2, OutsidePaths
 <2>2. ASSUME Joins(t) PROVE my'[t].pc = "reset"
  <3>1. Current(t) BY <1>0, <2>2, JoinsReset DEF Current
  <3>2. my'[t].direction = "bottom_up" BY <1>0, <2>2, <3>1, JoinsReset
  <3> QED BY <2>2, <3>2, JoinsReset
 <2>3. my'[t].pc \in Deciding \cup Reusing BY <2>1, <2>2 DEF Reusing
 <2> QED BY <2>3 DEF WillScan
<1>3. CASE LevelPath(t)
 <2>1. InLevel(t) /\ Current(t) /\ my[t].level = Chosen
   BY <1>0, <1>3, Inner DEF InnerStep, SameLevel, InLevel, Current
 <2>2. my[t].direction = "bottom_up" /\ WillScan(t, o, k, x) BY <2>1, LatestFollowed
 <2>3. CASE TopPath(t)
  <3>1. my[t].direction = "top_down" BY <2>3, TopWithin, Parts DEF Directed
  <3> QED BY <2>2, <3>1
 <2>4. CASE ReusePath(t) \/ CodesPath(t)
  <3>1. my'[t].pc \in Reusing \cup InCodes \cup {"reserve"}
   <4>1. CASE ReusePath(t) BY <2>2, <4>1 DEF ReusePath, Reusing, InCodes, CodesLooking
   <4>2. CASE CodesPath(t) BY <4>2, CodesWithin DEF Within
   <4> QED BY <2>4, <4>1, <4>2
  <3> QED BY <3>1 DEF WillScan
 <2>5. CASE Order(t, o) > my[t].turn /\ my[t].pc \in InBottomUp \cup Ending
  <3>1. ASSUME Rests(t, "help", "advance") PROVE WillScan(t, o, k, x)'
   <4>1. my'[t].pc = "help" /\ (Order(t, o) > my'[t].turn \/ my'[t].owner = o)
     BY <2>1, <2>5, <3>1, RestsRing
   <4> QED BY <4>1 DEF WillScan, InBottomUp, Helping, HelpBegun
  <3>2. ASSUME SameOwner(t), my'[t].pc \in InBottomUp \cup Ending PROVE WillScan(t, o, k, x)'
    BY <2>5, <3>2 DEF SameOwner, WillScan
  <3>3. CASE MarkPath(t)
   <4>1. CASE Stays(t) /\ my'[t].pc = "mark_done" BY <3>2, <4>1 DEF Stays, Ending
   <4> QED BY <2>2, <3>1, <3>3, <4>1 DEF MarkPath, Ends
  <3>4. CASE ScanPath(t)
   <4>1. SameOwner(t) /\ my'[t].pc \in InBlock \cup {"own_progress", "stamp"}
     BY <3>4, ScanWithin DEF Within
   <4> QED BY <3>2, <4>1 DEF InBottomUp, Owning, Helping
  <3>5. CASE BlocksPath(t) /\ ~Rests(t, "help", "advance")
   <4>1. SameOwner(t)
     BY <3>5 DEF BlocksPath, Stays, Reserves, NextOwn, ToBlock, FromBlock, NoMoreBlocks, TakesBlock,
        Scans
   <4>2. my'[t].pc \in InBottomUp \cup Ending
     BY <3>5 DEF BlocksPath, Reserves, NextOwn, ToBlock, FromBlock, NoMoreBlocks, TakesBlock, Scans,
        InBottomUp, InBlock, Owning, Helping, HelpBegun, AtBlock, Ending
   <4> QED BY <3>2, <4>1, <4>2
  <3> QED BY <1>3, <2>3, <2>4, <3>1, <3>3, <3>4, <3>5 DEF LevelPath
 <2>6. CASE my[t].pc = "reserve" /\ BlocksPath(t)
  <3>1. Reserves(t) BY <2>6 DEF BlocksPath, AtBlock
  <3>2. my[t].turn = 0 /\ (my[t].owner = o <=> Order(t, o) = 0) /\ Order(t, o) \in Nat
    BY <2>1, <2>6, RingAt, AtTurn
  <3>3. my'[t].pc = "own" /\ my'[t].item <= k /\ my'[t].turn = 0 /\ my'[t].owner = my[t].owner
    BY <1>0, <3>1, <3>2 DEF Reserves, SameOwner
  <3> QED BY <3>2, <3>3 DEF WillScan, InBottomUp, Owning
 <2>7. CASE /\ my[t].owner = o /\ AtScan(t, k, x) /\ my[t].pc \notin {"reserve"} \cup Ending
            /\ BlocksPath(t) \/ ScanPath(t)
  <3>1. CASE BlocksPath(t)
   <4>1. my'[t].owner = o /\ AtScan(t, k, x)' BY <1>0, <2>1, <2>7, <3>1, BlocksKeepScanning
   <4> QED BY <4>1, AtScanWill
  <3>2. CASE ScanPath(t)
   <4>1. /\ my[t].pc \in InBlock /\ SameOwner(t) /\ SameItems(t)
         /\ \/ my'[t].pc \in InBlock
            \/ my'[t].pc = "own_progress" /\ Own(t)
            \/ my'[t].pc = "stamp" /\ ~Own(t)
    <5>1. SameItems(t) BY <3>2 DEF ScanPath, Gathers, Tests, Stays, NextNeighbor
    <5>2. \/ my'[t].pc \in InBlock
          \/ my'[t].pc = "own_progress" /\ Own(t)
          \/ my'[t].pc = "stamp" /\ ~Own(t)
      BY <3>2 DEF ScanPath, Gathers, Tests, NextNeighbor, InBlock, Finding
    <5> QED BY <3>2, <5>1, <5>2, ScanWithin
   <4>2. Own(t)' <=> Own(t) BY <4>1 DEF SameOwner, Own
   <4>3. \/ my[t].item = k /\ InScan(t, x)
         \/ Own(t) /\ my[t].item < k
         \/ ~Own(t) /\ k \in my[t].todo
     BY <2>7, <4>1 DEF AtScan, InBlock, Finding, HelpBegun, AtBlock
   <4>4. CASE my[t].item = k /\ InScan(t, x)
    <5>1. my'[t].pc \in InBlock /\ InScan(t, x)' BY <1>0, <2>1, <2>7, <3>2, <4>4, KeepsBlock
    <5>2. AtScan(t, k, x)' BY <4>1, <4>4, <5>1 DEF AtScan, SameItems
    <5> QED BY <2>7, <4>1, <5>2, AtScanWill DEF SameOwner
   <4>5. CASE Own(t) /\ my[t].item < k
    <5>1. AtScan(t, k, x)' BY <4>1, <4>2, <4>5 DEF AtScan, SameItems
    <5> QED BY <2>7, <4>1, <5>1, AtScanWill DEF SameOwner
   <4>6. CASE ~Own(t) /\ k \in my[t].todo
    <5>1. AtScan(t, k, x)' BY <4>1, <4>2, <4>6 DEF AtScan, SameItems
    <5> QED BY <2>7, <4>1, <5>1, AtScanWill DEF SameOwner
   <4> QED BY <4>3, <4>4, <4>5, <4>6
  <3> QED BY <2>7, <3>1, <3>2
 <2>8. CASE BlocksPath(t) \/ ScanPath(t) \/ MarkPath(t)
  <3>1. my[t].pc \in InBlocks \cup InBlock \cup Ending BY <2>8, BlocksWithin, ScanWithin, MarkWithin
  <3>2. my[t].pc \notin Deciding \cup Reusing \cup InCodes
    BY <3>1 DEF InBlock, Finding, InBlocks, Owning, Helping, HelpBegun, AtBlock, Ending, Deciding,
       Reusing, InCodes, CodesLooking, CodesStarting, AtCode
  <3>3. \/ my[t].pc = "reserve"
        \/ Order(t, o) > my[t].turn /\ my[t].pc \in InBottomUp \cup Ending
        \/ my[t].owner = o /\ AtScan(t, k, x)
    BY <2>2, <3>2 DEF WillScan, AtScan
  <3>4. my[t].pc = "reserve" => BlocksPath(t)
    BY <2>8, ScanWithin, MarkWithin DEF InBlock, Finding, Ending
  <3>5. my[t].owner = o /\ AtScan(t, k, x) => my[t].pc \notin {"reserve"} \cup Ending
    BY DEF AtScan, Ending, InBlock, Finding, HelpBegun, AtBlock
  <3>6. MarkPath(t) => my[t].pc \in Ending BY MarkWithin
  <3> QED BY <2>5, <2>6, <2>7, <2>8, <3>3, <3>4, <3>5, <3>6
 <2> QED BY <1>3, <2>3, <2>4, <2>8 DEF LevelPath
<1> QED BY <1>2, <1>3

LEMMA NoneUnscannedKept ==
  ASSUME IInv, NEW t \in Thread, Step(t)
  PROVE  NoneUnscanned'
<1>0. Chosen \in Int /\ Chosen >= -1 /\ DataStep(t) /\ NoneUnscanned BY Words, Effects DEF IInv
<1>1. ASSUME NEW w \in WordType, WinsLevel(t, w), w.direction = "bottom_up" PROVE NoneUnscanned'
 <2>1. Chosen' = Chosen + 1 /\ Latest' = w BY <1>1, NextStart
 <2> SUFFICES ASSUME NEW o \in Thread, NEW k \in 1 .. Owned(o), NEW x \in Begin(o, k) .. End(o, k) - 1
              PROVE  /\ Done(o)'.done < Chosen'
                     /\ ~Counts(o)'
                     /\ helped_at'[o][k] # Chosen'
                     /\ \A s \in Thread : Current(s)' => WillScan(s, o, k, x)'
   BY DEF NoneUnscanned
 <2>2. k \in 1 .. Owned(0) BY OwnedFacts, ThreadTypes
 <2>3. \A s \in Thread : Current(s)' => WillScan(s, o, k, x)'
  <3>1. \A s \in Thread : Current(s)' => my'[s].pc \in Deciding \cup Reusing BY <1>1, NextStart
  <3> QED BY <3>1 DEF WillScan
 <2> QED BY <1>1, <2>2, <2>3, NextStart
<1>2. CASE QuietStep(t)
 <2>1. Chosen' = Chosen /\ Latest' = Latest BY <1>2 DEF QuietStep
 <2>2. PICK p \in {0, 1} : p = Chosen % 2 /\ 1 - p = (Chosen + 1) % 2 BY Words
 <2> SUFFICES ASSUME NEW o \in Thread, NEW k \in 1 .. Owned(o), NEW x \in Begin(o, k) .. End(o, k) - 1,
                     Delta[x] = Chosen + 1, ~Discovered(x)', Latest.direction = "bottom_up"
              PROVE  /\ Done(o)'.done < Chosen
                     /\ Counts(o)' => Done(o)'.last_done < k
                     /\ helped_at'[o][k] # Chosen
                     /\ \A s \in Thread : Current(s)' => WillScan(s, o, k, x)'
   BY <2>1 DEF NoneUnscanned
 <2>3. x \in Vertex /\ k \in 1 .. Owned(0) /\ k \in Nat /\ k >= 1
  <3>1. Begin(o, k) \in Nat /\ End(o, k) \in Nat /\ End(o, k) <= N BY BlockRange
  <3>2. x \in Vertex BY <3>1, MemAssumption
  <3>3. Owned(o) \in Nat /\ Owned(0) \in Nat /\ Owned(o) <= Owned(0) BY OwnedFacts, ThreadTypes
  <3> QED BY <3>2, <3>3
 <2>4. ~Discovered(x) BY <1>0, <2>3, FoundStays
 <2>5. /\ Done(o).done < Chosen
       /\ Counts(o) => Done(o).last_done < k
       /\ helped_at[o][k] # Chosen
       /\ \A s \in Thread : Current(s) => WillScan(s, o, k, x)
   BY <1>0, <2>4 DEF NoneUnscanned
 <2>6. /\ Done(o).done = DoneAt(p, o) /\ Done(o)'.done = DoneAt(p, o)'
       /\ Done(o).last_done = LastAt(p, o)
       /\ Done(o)'.last_done = LastAt(p, o)'
       /\ Counts(o)' <=> Bucket(1 - p, o)'.level = Chosen + 1
   BY <2>1, <2>2 DEF Done, Bucket, DoneAt, LastAt, Counts
 <2>7. DoneAt(p, o)' < Chosen
  <3> SUFFICES ASSUME Current(t), my[t].pc = "mark_done", my[t].owner = o PROVE FALSE
    BY <2>2, <2>5, <2>6, DoneOf
  <3>1. InLevel(t) BY DEF InLevel, Deciding
  <3>2. ~(Order(t, o) > my[t].turn) BY <3>1, AtTurn
  <3> QED
    BY <2>5, <3>2 DEF WillScan, Deciding, Reusing, InCodes, CodesLooking, CodesStarting, AtCode,
       HelpBegun, AtBlock, InBlock, Finding
 <2>8. Counts(o)' => LastAt(p, o)' < k
  <3> SUFFICES ASSUME Bucket(1 - p, o)'.level = Chosen + 1 PROVE LastAt(p, o)' < k BY <2>6
  <3>2. CASE LastAt(p, o)' = 0 BY <2>3, <3>2
  <3>3. CASE Counts(o) /\ LastAt(p, o)' = LastAt(p, o) BY <2>5, <2>6, <3>3
  <3>4. CASE /\ Current(t) /\ o = t /\ my[t].pc \in {"progress", "own_progress"} /\ my[t].owner = t
             /\ LastAt(p, o)' = my[t].item
   <4>1. InLevel(t) BY <3>4 DEF InLevel, Deciding
   <4>2. ~(Order(t, o) > my[t].turn) /\ my[t].item \in Nat BY <3>4, <4>1, AtTurn, Before
   <4>3. my[t].item < k
     BY <2>5, <3>4, <4>2 DEF WillScan, Deciding, Reusing, InCodes, CodesLooking, CodesStarting,
        AtCode, HelpBegun, AtBlock, InBlock, Finding
   <4> QED BY <3>4, <4>3
  <3> QED BY <2>2, <3>2, <3>3, <3>4, ProgressOf
 <2>9. helped_at'[o][k] # Chosen
  <3>1. CASE my[t].pc = "stamp" /\ o = my[t].owner /\ k = my[t].item
   <4>1. helped_at'[o][k] = my[t].level BY <1>0, <2>3, <3>1 DEF DataStep
   <4>2. ~Current(t)
    <5> SUFFICES ASSUME Current(t) PROVE FALSE OBVIOUS
    <5>1. InLevel(t) BY <3>1 DEF InLevel, Deciding
    <5>2. ~(Order(t, o) > my[t].turn) /\ ~Own(t) BY <3>1, <5>1, AtTurn, RingAt DEF Helping
    <5>3. k \in my[t].todo
      BY <2>5, <3>1, <5>2 DEF WillScan, Deciding, Reusing, InCodes, CodesLooking, CodesStarting,
         AtCode, HelpBegun, AtBlock, InBlock, Finding
    <5>4. my[t].item \notin my[t].todo BY <3>1, <5>2, Parts DEF BlockEntries
    <5> QED BY <3>1, <5>3, <5>4
   <4> QED BY <4>1, <4>2 DEF Current
  <3>2. CASE ~(my[t].pc = "stamp" /\ o = my[t].owner /\ k = my[t].item)
   <4>1. helped_at'[o][k] = helped_at[o][k] BY <1>0, <2>3, <3>2 DEF DataStep
   <4> QED BY <2>5, <4>1
  <3> QED BY <3>1, <3>2
 <2>10. ASSUME NEW s \in Thread, Current(s)' PROVE WillScan(s, o, k, x)'
  <3>1. CASE s = t BY <1>2, <2>3, <2>5, <2>10, <3>1, KeepsScanning
  <3>2. CASE s # t
   <4>1. my'[s] = my[s] /\ Current(s) BY <2>1, <2>10, <3>2, Moved DEF Current
   <4> QED BY <2>5, <4>1 DEF WillScan, InScan, Own
  <3> QED BY <3>1, <3>2
 <2> QED BY <2>6, <2>7, <2>8, <2>9, <2>10
<1>3. CASE \E w \in WordType : WinsLevel(t, w) /\ w.direction # "bottom_up"
 <2>1. PICK w \in WordType : WinsLevel(t, w) /\ w.direction # "bottom_up" BY <1>3
 <2>2. Latest' = w BY <2>1, NextStart
 <2> QED BY <2>1, <2>2 DEF NoneUnscanned
<1> QED BY <1>1, <1>2, <1>3, StepPaths

-----------------------------------------------------------------------------
(***************************************************************************)
(* The start of a search.                                                  *)
(***************************************************************************)
LEMMA SmallParities == /\ (0 - 2) % 2 = 0 /\ (0 - 1) % 2 = 1 /\ (0 - 1 + 1) % 2 = 0
                        /\ 0 - 2 = -2 /\ 0 - 1 = -1
<1>1. PICK z \in Int : z = 0 OBVIOUS
<1>2. z % 2 = 0 BY <1>1
<1>3. (z - 1) % 2 = 1 - (z % 2) BY Parity
<1>4. PICK n \in Int : n = z - 1 BY <1>1
<1>5. (n - 1) % 2 = 1 - (n % 2) BY Parity
<1>6. n % 2 = 1 /\ (n - 1) % 2 = 0 BY <1>2, <1>3, <1>4, <1>5
<1>7. z = 0 - 1 + 1 /\ n = 0 - 1 /\ n - 1 = 0 - 2 /\ 0 - 2 = -2 /\ 0 - 1 = -1 BY <1>1, <1>4
<1> QED BY <1>2, <1>6, <1>7

LEMMA FirstWords ==
  ASSUME Init
  PROVE  /\ WordOf(0) = Word(-2, "top_down", FALSE) /\ WordOf(1) = Word(-1, "top_down", FALSE)
         /\ Chosen = -1 /\ Chosen % 2 = 1 /\ (Chosen + 1) % 2 = 0
         /\ Latest = Word(-1, "top_down", FALSE) /\ Previous = Word(-2, "top_down", FALSE)
<1>1. WordOf(0) = Word(-2, "top_down", FALSE) /\ WordOf(1) = Word(-1, "top_down", FALSE)
 <2>1. nodes[0].plan_word = Word(0 - 2, "top_down", FALSE)
       /\ nodes[1].plan_word = Word(1 - 2, "top_down", FALSE)
   BY DEF Init, FreshNodes
 <2> QED BY <2>1 DEF WordOf, Word
<1>2. WordOf(0).level = -2 /\ WordOf(1).level = -1 BY <1>1 DEF Word
<1>3. Chosen = -1 BY <1>2 DEF Chosen
<1>4. (-1) % 2 = 1 /\ (-1 + 1) % 2 = 0 BY SmallParities
<1>5. Chosen % 2 = 1 /\ (Chosen + 1) % 2 = 0 BY <1>3, <1>4
<1> QED BY <1>1, <1>3, <1>5 DEF Latest, Previous

LEMMA FirstThreads ==
  ASSUME Init, NEW t \in Thread
  PROVE  /\ my[t] = [pc |-> "plan", level |-> 0, direction |-> "top_down", codes_first |-> FALSE,
                     seen |-> Word(0, "top_down", FALSE), owner |-> 0, turn |-> 0,
                     sz |-> 0, todo |-> {}, item |-> 0, u |-> None, j |-> 0, cand |-> <<>>]
         /\ my[t].pc = "plan" /\ my[t].level = 0 /\ my[t].direction = "top_down"
         /\ my[t].owner = 0 /\ my[t].turn = 0 /\ my[t].sz = 0 /\ my[t].cand = <<>>
         /\ Here(t) = 0 /\ There(t) = 1 /\ ~InLevel(t)
  BY DEF Init, FreshThreads, Here, There, InLevel, Deciding

LEMMA FirstBuckets ==
  ASSUME Init, NEW p \in {0, 1}, NEW o \in Thread
  PROVE  /\ nodes[p].owners[o] = NewOwner(Bucket(p, o))
         /\ Bucket(p, o) = IF p = 0 /\ o = 0 THEN FirstBucket ELSE NewBucket
  BY DEF Init, FreshNodes, NewOwner, Bucket

LEMMA FirstShape == Init => Shape
<1> SUFFICES ASSUME Init PROVE Shape OBVIOUS
<1>1. dist \in [Vertex -> Int] BY DEF Init, FreshDist, Unset
<1>2. dist8 \in [Vertex -> 0 .. MaxCode] BY MemAssumption DEF Init, FreshCodes
<1>3. vis \in [Vertex -> BOOLEAN] BY DEF Init, FreshVis
<1>4. helped_at \in [Thread -> [1 .. Owned(0) -> Int]]
 <2>1. None \in Int BY DEF None
 <2> QED BY <2>1 DEF Init, FreshStamps
<1>5. nodes \in [{0, 1} -> [plan_word : WordType, owners : [Thread -> OwnerShape]]]
 <2>1. FirstBucket \in BucketType /\ NewBucket \in BucketType
  <3>1. <<Root>> \in Seq(Vertex \cup {Junk}) /\ <<>> \in Seq(Vertex \cup {Junk}) BY GraphAssumption
  <3> QED BY <3>1 DEF FirstBucket, NewBucket, BucketType, None
 <2>2. \A b \in BucketType : NewOwner(b) \in OwnerShape BY DEF NewOwner, OwnerShape, None
 <2>3. \A p \in {0, 1} : Word(p - 2, "top_down", FALSE) \in WordType BY DEF Word, WordType
 <2>4. \A p \in {0, 1} : \A t \in Thread :
         NewOwner(IF p = 0 /\ t = 0 THEN FirstBucket ELSE NewBucket) \in OwnerShape
   BY <2>1, <2>2
 <2>5. \A p \in {0, 1} :
         [t \in Thread |-> NewOwner(IF p = 0 /\ t = 0 THEN FirstBucket ELSE NewBucket)]
           \in [Thread -> OwnerShape]
   BY <2>4
 <2> QED BY <2>3, <2>5 DEF Init, FreshNodes
<1>6. my \in [Thread -> ThreadShape]
 <2>1. 0 \in Thread /\ 0 \in 0 .. NumT - 1 BY MemAssumption DEF Thread
 <2>2. Word(0, "top_down", FALSE) \in WordType /\ None \in Vertex \cup {None} BY DEF Word, WordType
 <2>3. "plan" \in Labels /\ {} \in SUBSET Nat /\ <<>> \in Seq(Vertex) BY DEF Labels, Deciding
 <2>4. [pc |-> "plan", level |-> 0, direction |-> "top_down", codes_first |-> FALSE,
        seen |-> Word(0, "top_down", FALSE), owner |-> 0, turn |-> 0,
        sz |-> 0, todo |-> {}, item |-> 0, u |-> None, j |-> 0, cand |-> <<>>] \in ThreadShape
   BY <2>1, <2>2, <2>3 DEF ThreadShape
 <2> QED BY <2>4 DEF Init, FreshThreads
<1> QED BY <1>1, <1>2, <1>3, <1>4, <1>5, <1>6 DEF Shape

LEMMA FirstWordsInv == Init => WordsInv
<1> SUFFICES ASSUME Init PROVE WordsInv OBVIOUS
<1>1. WordsInOrder
 <2>1. WordOf(0).level = -2 /\ WordOf(1).level = -1 BY FirstWords DEF Word
 <2>2. (-2) % 2 = 0 /\ (-1) % 2 = 1 /\ -2 - (-1) = -1 BY SmallParities
 <2>3. \A p \in {0, 1} : WordOf(p).level % 2 = p BY <2>1, <2>2
 <2> QED BY <2>1, <2>3, FirstWords DEF WordsInOrder, Word
<1>2. OneWord BY FirstThreads DEF OneWord
<1>3. ASSUME NEW t \in Thread PROVE Place(t) /\ Directed(t)
 <2>1. my[t].pc = "plan" /\ ~InLevel(t) /\ my[t].level = 0 /\ my[t].direction = "top_down"
   BY FirstThreads
 <2>2. Place(t) BY <2>1, FirstWords DEF Place, Next_, Word
 <2>3. Directed(t)
   BY <2>1 DEF Directed, InTopDown, Looking, Starting, Reading, AtItem, InCodes, CodesLooking,
      CodesStarting, AtCode, InBottomUp, InBlock, Finding, Owning, Helping, HelpBegun, AtBlock
 <2> QED BY <2>2, <2>3
<1> QED BY <1>1, <1>2, <1>3 DEF WordsInv

LEMMA FirstPositions == Init => Positions
<1> SUFFICES ASSUME Init, NEW t \in Thread
             PROVE  Rounds(t) /\ Entries(t) /\ ItemView(t) /\ CodeEntries(t) /\ BlockEntries(t)
                    /\ CandidatesView(t) /\ Tags(t) /\ Summed(t)
  BY DEF Positions
<1>1. /\ my[t].pc = "plan" /\ ~InLevel(t) /\ my[t].level = 0 /\ my[t].owner = 0
      /\ my[t].turn = 0 /\ my[t].sz = 0 /\ my[t].cand = <<>> /\ Here(t) = 0 /\ There(t) = 1
  BY FirstThreads
<1>2. Rounds(t) BY <1>1 DEF Rounds, Helping, HelpBegun, AtBlock
<1>3. Entries(t) BY <1>1 DEF Entries, Starting, Reading, AtItem
<1>4. ItemView(t) BY <1>1 DEF ItemView, AtItem
<1>5. CodeEntries(t) BY <1>1 DEF CodeEntries, CodesStarting, AtCode
<1>6. Len(my[t].cand) = 0 BY <1>1
<1>7. BlockEntries(t) BY <1>1, <1>6 DEF BlockEntries, AtBlock, InBlock, Finding
<1>8. CandidatesView(t) BY <1>1, <1>6 DEF CandidatesView, Finding
<1>9. Tags(t)
 <2>1. Bucket(0, t).level <= 0 /\ Bucket(1, t).level = -1
   BY FirstBuckets DEF FirstBucket, NewBucket, None
 <2>2. my[t].pc \in Deciding /\ my[t].pc \notin {"retag", "reserve"} \cup InCodes
   BY <1>1 DEF Deciding, InCodes, CodesLooking, CodesStarting, AtCode
 <2> QED BY <1>1, <2>1, <2>2 DEF Tags, Mine
<1>10. Summed(t) BY <1>1 DEF Summed
<1> QED BY <1>2, <1>3, <1>4, <1>5, <1>7, <1>8, <1>9, <1>10

LEMMA FirstLevels == Init => LevelsInv
<1> SUFFICES ASSUME Init PROVE LevelsInv OBVIOUS
<1>0. /\ \A v \in Vertex : dist[v] = IF v = Root THEN 0 ELSE -1
      /\ \A v \in Vertex : ~vis[v]
      /\ Chosen = -1 /\ Root \in Vertex /\ Delta[Root] = 0
      /\ \A v \in Vertex : Delta[v] = 0 => v = Root
  BY FirstWords, GraphAssumption, DistanceAssumption DEF Init, FreshDist, FreshVis, Unset
<1>1. BucketsSound
 <2> SUFFICES ASSUME NEW p \in {0, 1}, NEW o \in Thread
              PROVE  /\ Bucket(p, o).level >= None
                     /\ Bucket(p, o).size <= Len(Bucket(p, o).list)
                     /\ \A i \in 1 .. Bucket(p, o).size :
                          /\ Bucket(p, o).list[i] \in Vertex
                          /\ Delta[Bucket(p, o).list[i]] = Bucket(p, o).level
   BY DEF BucketsSound
 <2>1. CASE p = 0 /\ o = 0 BY <1>0, <2>1, FirstBuckets DEF FirstBucket, None
 <2>2. CASE ~(p = 0 /\ o = 0) BY <2>2, FirstBuckets DEF NewBucket, None
 <2> QED BY <2>1, <2>2
<1>2. Kept
 <2> SUFFICES ASSUME NEW v \in Vertex, dist[v] # Unset
              PROVE  \E o \in Thread : EntryOf(dist[v], o, v)
   BY DEF Kept
 <2>1. dist[v] = 0 /\ v = Root BY <1>0 DEF Unset
 <2>2. 0 \in Thread BY MemAssumption DEF Thread
 <2>3. Bucket(0, 0) = FirstBucket BY <2>2, FirstBuckets
 <2>4. EntryOf(0, 0, v) BY <2>1, <2>3 DEF EntryOf, FirstBucket
 <2> QED BY <2>1, <2>2, <2>4
<1>3. PushedFirst BY FirstThreads DEF PushedFirst
<1>4. DistSound
 <2> SUFFICES ASSUME NEW v \in Vertex PROVE dist[v] \in {Unset, Delta[v]} /\ dist[v] <= Chosen + 1
   BY DEF DistSound
 <2>1. CASE v = Root BY <1>0, <2>1
 <2>2. CASE v # Root BY <1>0, <2>2 DEF Unset
 <2> QED BY <2>1, <2>2
<1>5. LevelsFound
 <2>1. Found(0)
  <3> SUFFICES ASSUME NEW v \in Vertex, Delta[v] = 0 PROVE dist[v] # Unset
    BY DEF Found, Level, Discovered
  <3> QED BY <1>0 DEF Unset
 <2>2. \A t \in Thread : my[t].level = 0 BY FirstThreads
 <2> QED BY <1>0, <2>1, <2>2 DEF LevelsFound
<1>6. VisCertificate BY <1>0 DEF VisCertificate
<1>7. LevelsThere BY <1>0, FirstWords, GraphAssumption DEF LevelsThere, Word
<1> QED BY <1>1, <1>2, <1>3, <1>4, <1>5, <1>6, <1>7 DEF LevelsInv

LEMMA FirstRest == Init => CodesInv /\ NoneLost /\ NoneUnscanned /\ Untouched
<1> SUFFICES ASSUME Init PROVE CodesInv /\ NoneLost /\ NoneUnscanned /\ Untouched OBVIOUS
<1>0. /\ \A v \in Vertex : dist[v] = IF v = Root THEN 0 ELSE -1
      /\ \A v \in Vertex : dist8[v] = 0
      /\ Chosen = -1 /\ Latest.direction = "top_down" /\ Previous.direction = "top_down"
      /\ ~Latest.codes_first /\ \A p \in {0, 1} : WordOf(p).direction = "top_down"
  BY FirstWords DEF Init, FreshDist, FreshCodes, Unset, Word
<1>1. CodesInv
 <2>1. CodesSound BY <1>0 DEF CodesSound
 <2>2. CodesPassed BY <1>0, FirstThreads DEF CodesPassed
 <2>3. LevelsCoded BY <1>0, FirstThreads DEF LevelsCoded
 <2>4. NoneUncoded BY <1>0 DEF NoneUncoded
 <2> QED BY <2>1, <2>2, <2>3, <2>4 DEF CodesInv
<1>2. NoneLost BY <1>0 DEF NoneLost, Discovered, Unset
<1>3. NoneUnscanned BY <1>0 DEF NoneUnscanned
<1>4. Untouched
 <2>1. \A p \in {0, 1}, o \in Thread :
         nodes[p].owners[o].done = None /\ nodes[p].owners[o].codes_done = None
  <3> TAKE p \in {0, 1}, o \in Thread
  <3>1. nodes[p].owners[o] = NewOwner(Bucket(p, o)) BY FirstBuckets
  <3> QED BY <3>1 DEF NewOwner
 <2>2. \A o \in Thread : \A k \in 1 .. Owned(0) : helped_at[o][k] = None BY DEF Init, FreshStamps
 <2>3. None <= -1 /\ None >= None /\ None <= MaxDelta BY GraphAssumption DEF None
 <2> QED BY <1>0, <2>1, <2>2, <2>3 DEF Untouched
<1> QED BY <1>1, <1>2, <1>3, <1>4

LEMMA FirstInv == Init => IInv
  BY FirstShape, FirstWordsInv, FirstPositions, FirstLevels, FirstRest DEF IInv

-----------------------------------------------------------------------------
(***************************************************************************)
(* Every step keeps it.                                                    *)
(***************************************************************************)
LEMMA StepInv ==
  ASSUME IInv, NEW t \in Thread, Step(t)
  PROVE  IInv'
<1>1. Shape' /\ WordsInv' /\ Positions' BY ShapeKept, WordsKept, PositionsKept
<1>2. LevelsInv'
  BY BucketsSoundKept, KeptKept, PushedFirstKept, DistSoundKept, LevelsFoundKept, VisKept,
     LevelsThereKept DEF LevelsInv
<1>3. CodesInv' BY CodesSoundKept, CodesPassedKept, LevelsCodedKept, NoneUncodedKept DEF CodesInv
<1>4. NoneLost' /\ NoneUnscanned' /\ Untouched' BY NoneLostKept, NoneUnscannedKept, UntouchedKept
<1> QED BY <1>1, <1>2, <1>3, <1>4 DEF IInv

LEMMA SameInv == IInv /\ UNCHANGED vars => IInv'
<1> SUFFICES ASSUME IInv, UNCHANGED vars PROVE IInv' OBVIOUS
<1>1. dist' = dist /\ dist8' = dist8 /\ vis' = vis /\ helped_at' = helped_at /\ nodes' = nodes
      /\ my' = my
  BY DEF vars, memory
<1>2. Shape' BY <1>1 DEF IInv, Shape
<1>3. WordsInv'
 <2>1. WordsInOrder' BY <1>1 DEF IInv, WordsInv, WordsInOrder, WordOf, Chosen, Latest, Previous
 <2>2. OneWord' BY <1>1 DEF IInv, WordsInv, OneWord, InLevel, Curr, Here, Followed
 <2>3. \A t \in Thread : Place(t)' /\ Directed(t)'
   BY SMTT(40), <1>1 DEF IInv, WordsInv, Place, Directed, InLevel, Next_, Curr, Here, WordOf, Chosen, Latest
 <2> QED BY <2>1, <2>2, <2>3 DEF WordsInv
<1>4. Positions'
 <2> SUFFICES ASSUME NEW t \in Thread
              PROVE  /\ Rounds(t)' /\ Entries(t)' /\ ItemView(t)' /\ CodeEntries(t)'
                     /\ BlockEntries(t)' /\ CandidatesView(t)' /\ Tags(t)' /\ Summed(t)'
   BY DEF Positions
 <2>0. /\ Rounds(t) /\ Entries(t) /\ ItemView(t) /\ CodeEntries(t)
       /\ BlockEntries(t) /\ CandidatesView(t) /\ Tags(t) /\ Summed(t)
   BY Parts
 <2>1. /\ At_(t)' = At_(t) /\ Firm(t)' = Firm(t) /\ Own(t)' = Own(t) /\ Current(t)' = Current(t)
       /\ Here(t)' = Here(t) /\ There(t)' = There(t) /\ Next_(t)' = Next_(t)
       /\ InLevel(t)' = InLevel(t) /\ C(t)' = C(t) /\ V(t)' = V(t) /\ Mine(t)' = Mine(t)
       /\ \A p \in {0, 1} : \A o \in Thread : Bucket(p, o)' = Bucket(p, o)
   BY <1>1 DEF At_, Firm, Own, Current, Here, There, Next_, InLevel, C, V, Mine, Bucket, Chosen,
      WordOf
 <2>2. Bucket(There(t), my[t].owner)' = Bucket(There(t), my[t].owner) BY <1>1 DEF Bucket, There
 <2>3. Rounds(t)' BY <1>1, <2>0, <2>1 DEF Rounds
 <2>4. Entries(t)' BY <1>1, <2>0, <2>1, <2>2 DEF Entries
 <2>5. ItemView(t)' BY <1>1, <2>0, <2>1 DEF ItemView
 <2>6. CodeEntries(t)' BY <1>1, <2>0, <2>1, <2>2 DEF CodeEntries
 <2>7. BlockEntries(t)' BY <1>1, <2>0, <2>1, <2>2 DEF BlockEntries, InRange
 <2>8. CandidatesView(t)' BY <1>1, <2>0, <2>1 DEF CandidatesView
 <2>9. Tags(t)' BY <1>1, <2>0, <2>1 DEF Tags, Bucket
 <2>10. Summed(t)' BY ZenonT(40), <1>1, <2>0, <2>1 DEF Summed, EntryOf, Bucket
 <2> QED BY <2>3, <2>4, <2>5, <2>6, <2>7, <2>8, <2>9, <2>10
<1>5. /\ Chosen' = Chosen /\ Latest' = Latest /\ Previous' = Previous
      /\ \A o : Done(o)' = Done(o) /\ Counts(o)' = Counts(o)
      /\ \A t : Current(t)' = Current(t) /\ Next_(t)' = Next_(t) /\ InLevel(t)' = InLevel(t)
  BY <1>1 DEF Chosen, Latest, Previous, WordOf, Done, Counts, Bucket, Current, Next_, InLevel
<1>6. LevelsInv'
 <2>1. BucketsSound' /\ Kept' /\ PushedFirst'
  <3>1. BucketsSound' BY <1>1 DEF IInv, LevelsInv, BucketsSound, Bucket
  <3>2. Kept' BY SMTT(40), <1>1, <1>5 DEF IInv, LevelsInv, Kept, EntryOf, Bucket
  <3>3. PushedFirst' BY <1>1 DEF IInv, LevelsInv, PushedFirst, EntryOf, Bucket, V, C
  <3> QED BY <3>1, <3>2, <3>3
 <2>2. DistSound' /\ LevelsFound' /\ VisCertificate' /\ LevelsThere'
   BY <1>1, <1>5 DEF IInv, LevelsInv, DistSound, LevelsFound, Found, Discovered, VisCertificate,
      Covered, LevelsThere, Level
 <2> QED BY <2>1, <2>2 DEF LevelsInv
<1>7. CodesInv'
 <2>1. CodesSound' /\ CodesPassed' /\ LevelsCoded'
   BY <1>1, <1>5 DEF IInv, CodesInv, CodesSound, CodesPassed, LevelsCoded, CodedLevel, PastCodes,
      WordOf, C, Level
 <2>2. NoneUncoded' BY <1>1, <1>5 DEF IInv, CodesInv, NoneUncoded, WillCode, Level
 <2> QED BY <2>1, <2>2 DEF CodesInv
<1>8. NoneLost' BY <1>1, <1>5 DEF IInv, NoneLost, Discovered, Covered, WillTake
<1>9. NoneUnscanned' BY <1>1, <1>5 DEF IInv, NoneUnscanned, Discovered, WillScan, InScan, Own
<1>10. Untouched' BY <1>1, <1>5 DEF IInv, Untouched, WordOf
<1> QED BY <1>2, <1>3, <1>4, <1>6, <1>7, <1>8, <1>9, <1>10 DEF IInv

LEMMA InvNext == IInv /\ [Next]_vars => IInv'
<1> SUFFICES ASSUME IInv, [Next]_vars PROVE IInv' OBVIOUS
<1>1. ASSUME NEW t \in Thread, Step(t) PROVE IInv' BY <1>1, StepInv
<1>2. CASE SearchAgain
 <2>1. Init' BY <1>2 DEF SearchAgain, Init
 <2>2. Init' => IInv' BY FirstInv, PTL
 <2> QED BY <2>1, <2>2
<1>3. CASE UNCHANGED vars BY <1>3, SameInv
<1> QED BY <1>1, <1>2, <1>3 DEF Next

(***************************************************************************)
(* The state of the search in every state of it: which levels the two      *)
(* nodes hold, where threads are in them and in older ones, and what the   *)
(* distances, buckets, marks, codes and stamps have to do with that.       *)
(***************************************************************************)
THEOREM InvCorrect == Spec => []IInv
  BY FirstInv, InvNext, PTL DEF Spec

(***************************************************************************)
(* Types and bounds (see TypeOK): the codes code_of (30-32) gives, the     *)
(* entries push_back (172-199) leaves in reused arrays, and the number of  *)
(* levels, which ends where the graph does.                                *)
(***************************************************************************)
LEMMA LevelBound ==
  ASSUME IInv, NEW t \in Thread
  PROVE  my[t].level \in Nat /\ my[t].level <= MaxDelta + 1
<1>0. /\ my[t].level \in Nat /\ my[t].level <= Chosen + 1 /\ Chosen \in Int /\ Chosen >= -1
      /\ MaxDelta \in Nat /\ Chosen <= MaxDelta + 1
  BY Parts, ThreadFields, Words, GraphAssumption DEF Place, IInv, LevelsInv, LevelsThere
<1>1. CASE Next_(t)
 <2>1. Latest.direction # "search_done" BY <1>1, Parts DEF Place
 <2>2. Chosen = -1 \/ Level(Chosen) # {} BY <1>0, <2>1 DEF IInv, LevelsInv, LevelsThere
 <2>3. Level(Chosen) # {} => Chosen <= MaxDelta BY GraphTypes DEF Level
 <2> QED BY <1>0, <2>2, <2>3
<1>2. CASE ~Next_(t) BY <1>0, <1>2 DEF Next_
<1> QED BY <1>1, <1>2

LEMMA TagBound ==
  ASSUME IInv, NEW p \in {0, 1}, NEW o \in Thread
  PROVE  Bucket(p, o).level <= MaxDelta + 1
<1>0. /\ my[o].level \in Nat /\ my[o].level <= MaxDelta + 1 /\ MaxDelta \in Nat
      /\ Bucket(p, o).level \in Int /\ Tags(o) /\ Here(o) \in {0, 1} /\ There(o) = 1 - Here(o)
  BY LevelBound, SoundBucket, Parts, Before, GraphAssumption
<1>1. CASE p = Here(o) BY <1>0, <1>1 DEF Tags
<1>2. CASE p # Here(o)
 <2>1. Bucket(p, o) = Mine(o) BY <1>0, <1>2 DEF Mine
 <2>2. CASE my[o].pc \in Deciding \cup {"reset", "empty", "retag", "returned"}
   BY <1>0, <2>1, <2>2 DEF Tags
 <2>3. CASE my[o].pc \notin Deciding \cup {"reset", "empty", "retag", "returned"}
  <3>1. Bucket(p, o).level = my[o].level + 1 BY <1>0, <2>1, <2>3 DEF Tags
  <3>2. my[o].level <= MaxDelta BY <2>3, LevelMax DEF InLevel
  <3> QED BY <1>0, <3>1, <3>2
 <2> QED BY <2>2, <2>3
<1> QED BY <1>1, <1>2

THEOREM TypeCorrect == Spec => []TypeOK
<1>1. IInv => TypeOK
 <2> SUFFICES ASSUME IInv PROVE TypeOK OBVIOUS
 <2>1. dist \in [Vertex -> Unset .. MaxDelta]
  <3>1. dist \in [Vertex -> Int] /\ MaxDelta \in Nat BY GraphAssumption DEF IInv, Shape
  <3>2. \A v \in Vertex : dist[v] \in Unset .. MaxDelta
   <4> TAKE v \in Vertex
   <4>1. dist[v] \in Int /\ dist[v] \in {-1, Delta[v]} /\ Delta[v] \in Int /\ Delta[v] >= -1
         /\ Delta[v] <= MaxDelta
     BY DistKnown
   <4> QED BY <3>1, <4>1 DEF Unset
  <3> QED BY <3>1, <3>2
 <2>2. dist8 \in [Vertex -> 0 .. MaxCode] /\ vis \in [Vertex -> BOOLEAN] BY DEF IInv, Shape
 <2>3. helped_at \in [Thread -> [1 .. Owned(0) -> None .. MaxDelta]]
  <3>1. helped_at \in [Thread -> [1 .. Owned(0) -> Int]] BY DEF IInv, Shape
  <3>2. \A o \in Thread : \A k \in 1 .. Owned(0) : helped_at[o][k] \in None .. MaxDelta
   <4> TAKE o \in Thread
   <4> TAKE k \in 1 .. Owned(0)
   <4>1. helped_at[o][k] \in Int BY <3>1
   <4>2. helped_at[o][k] >= None /\ helped_at[o][k] <= MaxDelta BY DEF IInv, Untouched
   <4> QED BY <4>1, <4>2, GraphAssumption DEF None
  <3> QED BY <3>1, <3>2
 <2>4. ASSUME NEW p \in {0, 1}, NEW t \in Thread
       PROVE  LET b == nodes[p].owners[t].bucket
              IN /\ b.size \in 0 .. Len(b.list)
                 /\ \A i \in 1 .. b.size : b.list[i] \in Vertex
                 /\ b.level \in {None} \cup 0 .. MaxDelta + 1
  <3>1. PICK b : b = Bucket(p, t) OBVIOUS
  <3>2. /\ b.level \in Int /\ b.size \in Nat /\ Len(b.list) \in Nat /\ b.size <= Len(b.list)
        /\ b.level >= -1 /\ b.level <= MaxDelta + 1
        /\ \A i \in 1 .. b.size : b.list[i] \in Vertex
    BY <3>1, SoundBucket, TagBound
  <3>3. b.level \in {None} \cup 0 .. MaxDelta + 1 BY <3>2, GraphAssumption DEF None
  <3>4. b.size \in 0 .. Len(b.list) BY <3>2
  <3> QED BY <3>1, <3>2, <3>3, <3>4 DEF Bucket
 <2>5. ASSUME NEW t \in Thread
       PROVE  /\ my[t].level \in 0 .. MaxDelta + 1
              /\ my[t].pc \in {"visited", "neighbor", "push", "swap", "vis", "write_code"} =>
                   my[t].u \in Vertex
  <3>1. my[t].level \in 0 .. MaxDelta + 1 BY LevelBound, GraphAssumption
  <3>2. ItemView(t) /\ CodeEntries(t) BY Parts
  <3>3. my[t].pc \in AtItem => my[t].u \in Vertex BY <3>2 DEF ItemView
  <3>4. my[t].pc = "write_code" => my[t].u \in Vertex BY <3>2 DEF CodeEntries
  <3> QED BY <3>1, <3>3, <3>4 DEF AtItem
 <2> QED BY <2>1, <2>2, <2>3, <2>4, <2>5, Zenon DEF TypeOK
<1> QED BY <1>1, InvCorrect, PTL

(***************************************************************************)
(* A level is run one way (see OnePlan): what plan_level (866-902) returns *)
(* is the same for every thread of a level, however late it comes, because *)
(* the compare-and-swap gives a node the word of a level only once.        *)
(***************************************************************************)
THEOREM OnePlanKept == Spec => []OnePlan
<1>1. IInv => OnePlan
 <2> SUFFICES ASSUME IInv, NEW t \in Thread, Working(t)
              PROVE  LET word == Word(my[t].level, my[t].direction, my[t].codes_first)
                     IN /\ Curr(t).plan_word.level >= my[t].level
                        /\ Curr(t).plan_word.level = my[t].level => Curr(t).plan_word = word
                        /\ \A s \in Thread : Working(s) /\ my[s].level = my[t].level =>
                             word = Word(my[s].level, my[s].direction, my[s].codes_first)
   BY DEF OnePlan
 <2>1. InLevel(t) /\ \A s \in Thread : Working(s) => InLevel(s) BY DEF Working, InLevel
 <2>2. /\ Curr(t).plan_word.level >= my[t].level
       /\ Curr(t).plan_word.level = my[t].level => Curr(t).plan_word = Followed(t)
       /\ \A r \in Thread : InLevel(r) /\ my[r].level = my[t].level => Followed(t) = Followed(r)
   BY <2>1, WordOfLevel
 <2> QED BY <2>1, <2>2 DEF Followed
<1> QED BY <1>1, InvCorrect, PTL

(***************************************************************************)
(* A bucket is reused only when the level it held is over (see             *)
(* ReusedWhenOver): begin_level (162-170) empties buckets nobody has to    *)
(* read any more, though nobody waits for the threads that still do.       *)
(***************************************************************************)
THEOREM ReuseRight == Spec => []ReusedWhenOver
<1>1. IInv => ReusedWhenOver
 <2> SUFFICES ASSUME IInv, NEW v \in Vertex, dist[v] # Delta[v]
              PROVE  /\ \A p \in {0, 1}, t \in Thread :
                          nodes[p].owners[t].bucket.level <= Delta[v]
                     /\ \A t \in Thread : Working(t) => my[t].level < Delta[v]
   BY DEF ReusedWhenOver
 <2>1. Delta[v] \in Int /\ Chosen \in Int /\ Delta[v] >= Chosen + 1
  <3>1. /\ dist[v] = -1 /\ Delta[v] \in Int /\ Delta[v] >= -1 /\ Delta[v] # -1
        /\ \A d \in 0 .. Chosen : Delta[v] = d => dist[v] = d
    BY DistKnown
  <3>2. Chosen \in Int BY Words
  <3>3. Delta[v] \notin 0 .. Chosen BY <3>1
  <3> QED BY <3>1, <3>2, <3>3
 <2>2. ASSUME NEW p \in {0, 1}, NEW t \in Thread PROVE nodes[p].owners[t].bucket.level <= Delta[v]
  <3>1. Bucket(p, t).level \in Int /\ Bucket(p, t).level <= Chosen + 1 BY SoundBucket, TagBounds
  <3> QED BY <2>1, <3>1 DEF Bucket
 <2>3. ASSUME NEW t \in Thread, Working(t) PROVE my[t].level < Delta[v]
  <3>1. InLevel(t) BY <2>3 DEF Working, InLevel
  <3>2. my[t].level \in Nat /\ my[t].level <= Chosen BY <3>1, WordOfLevel
  <3> QED BY <2>1, <3>2
 <2> QED BY <2>2, <2>3
<1> QED BY <1>1, InvCorrect, PTL

(***************************************************************************)
(* The frontier test of scan_block (597-633; see FrontierTestExact):       *)
(* whatever codes and distances threads of older levels still write, a     *)
(* thread that scans blocks takes the vertices of its level for the        *)
(* frontier and no others.                                                 *)
(***************************************************************************)
THEOREM FrontierTestRight == Spec => []FrontierTestExact
<1>1. IInv => FrontierTestExact
 <2> SUFFICES ASSUME IInv, NEW t \in Thread, my[t].pc \in Scanning
              PROVE  {v \in Vertex : InFrontier(t, v)} = Level(my[t].level)
   BY DEF FrontierTestExact
 <2>1. \A v \in Vertex : InFrontier(t, v) <=> Delta[v] = my[t].level BY FrontierExact
 <2> QED BY <2>1, Zenon DEF Level
<1> QED BY <1>1, InvCorrect, PTL

(***************************************************************************)
(* What lets a block be skipped is true (see BlocksCovered): the mark, the *)
(* progress and the stamps that fetch_own_blocks (669-682) and             *)
(* fetch_other_blocks (688-721) trust say so of the level the node is at,  *)
(* whoever wrote them.                                                     *)
(***************************************************************************)
FirstOnes == \A p \in {0, 1} : WordOf(p).level < 0 => WordOf(p).direction = "top_down"

LEMMA FirstOnesStay == IInv /\ FirstOnes /\ [Next]_vars => FirstOnes'
<1> SUFFICES ASSUME IInv, FirstOnes, [Next]_vars, NEW p \in {0, 1}, WordOf(p)'.level < 0
             PROVE  WordOf(p)'.direction = "top_down"
  BY DEF FirstOnes, WordOf
<1>1. ASSUME NEW t \in Thread, Step(t) PROVE WordOf(p)'.direction = "top_down"
 <2>1. CASE WordsSame BY <2>1 DEF WordsSame, FirstOnes
 <2>2. ASSUME NEW w \in WordType, Wins(t, w) PROVE WordOf(p)'.direction = "top_down"
  <3>1. w.level = my[t].level /\ my[t].level \in Nat BY <2>2, Before DEF Wins
  <3>2. WordOf(p)' = WordOf(p) BY <2>2, <3>1 DEF Wins
  <3> QED BY <3>2 DEF FirstOnes
 <2> QED BY <1>1, <2>1, <2>2, Effects
<1>2. CASE SearchAgain
 <2>1. WordOf(p)' = Word(p - 2, "top_down", FALSE) BY <1>2 DEF SearchAgain, FreshNodes, WordOf
 <2> QED BY <2>1 DEF Word
<1>3. CASE UNCHANGED vars BY <1>3 DEF vars, memory, WordOf, FirstOnes
<1> QED BY <1>1, <1>2, <1>3 DEF Next

THEOREM SkippedBlocksComplete == Spec => []BlocksCovered
<1>1. Init => FirstOnes BY FirstWords DEF FirstOnes, Word
<1>2. IInv /\ FirstOnes => BlocksCovered
 <2> SUFFICES ASSUME IInv, FirstOnes, NEW p \in {0, 1}, NEW o \in Thread,
                     WordOf(p).direction = "bottom_up", NEW k \in 1 .. Owned(o),
                     \/ nodes[p].owners[o].done >= WordOf(p).level
                     \/ Bucket(1 - p, o).level = WordOf(p).level + 1
                        /\ k <= nodes[p].owners[o].last_done
                     \/ helped_at[o][k] = WordOf(p).level,
                     NEW v \in Begin(o, k) .. End(o, k) - 1, Delta[v] = WordOf(p).level + 1
              PROVE  dist[v] # Unset
   BY Zenon DEF BlocksCovered, WordOf, Bucket
 <2>0. /\ v \in Vertex /\ WordOf(p).level \in Nat /\ Chosen \in Int /\ Latest.level = Chosen
       /\ Previous.level = Chosen - 1 /\ Chosen % 2 \in {0, 1}
       /\ (Chosen + 1) % 2 = 1 - (Chosen % 2)
       /\ p = Chosen % 2 => WordOf(p) = Latest
       /\ p # Chosen % 2 => WordOf(p) = Previous
  <3>1. Begin(o, k) \in Nat /\ End(o, k) \in Nat /\ End(o, k) <= N /\ N \in Nat /\ Vertex = 0 .. N - 1
    BY BlockRange, MemAssumption
  <3>2. v \in Vertex BY <3>1
  <3>3. WordOf(p).level \in Int BY Words
  <3>4. WordOf(p).level \in Nat BY <3>3 DEF FirstOnes
  <3> QED BY <3>2, <3>4, Words
 <2>1. CASE p = Chosen % 2
  <3>1. WordOf(p) = Latest /\ WordOf(p).level = Chosen /\ Latest.direction = "bottom_up"
    BY <2>0, <2>1
  <3> SUFFICES ASSUME ~Discovered(v) PROVE FALSE BY DEF Discovered
  <3>2. /\ Done(o).done < Chosen
        /\ Counts(o) => Done(o).last_done < k
        /\ helped_at[o][k] # Chosen
    BY <3>1 DEF IInv, NoneUnscanned
  <3>3. nodes[p].owners[o] = Done(o) /\ (Bucket(1 - p, o).level = Chosen + 1 <=> Counts(o))
    BY <2>0, <2>1 DEF Done, Counts
  <3>4. Done(o).done \in Int /\ Done(o).last_done \in Nat /\ k \in Nat
   <4>1. nodes[p].owners[o] \in OwnerShape BY NodeFields, Parts
   <4> QED BY <3>3, <4>1, OwnedFacts DEF OwnerShape
  <3> QED BY <2>0, <3>1, <3>2, <3>3, <3>4
 <2>2. CASE p # Chosen % 2
  <3>1. Delta[v] = Chosen /\ Chosen \in 0 .. Chosen BY <2>0, <2>2
  <3>2. dist[v] = Chosen BY <2>0, <3>1, DistKnown
  <3> QED BY <3>1, <3>2 DEF Unset
 <2> QED BY <2>1, <2>2
<1>3. IInv /\ FirstOnes /\ [Next]_vars => (IInv /\ FirstOnes)' BY InvNext, FirstOnesStay
<1> QED BY <1>1, <1>2, <1>3, FirstInv, PTL DEF Spec

(***************************************************************************)
(* A thread never goes back (see OnlyForward): the level wf_bfs (917-919)  *)
(* jumps to is later than the thread's own and not later than the one      *)
(* chosen last.                                                            *)
(***************************************************************************)
LEMMA Forward ==
  ASSUME IInv, NEW t \in Thread, Step(t), NEW s \in Thread
  PROVE  IF At(s, "jump_other") /\ my'[s] # my[s] THEN Jumps(s)
         ELSE my'[s].level >= my[s].level
<1>1. s # t => my'[s] = my[s] BY Moved
<1>2. my[s].level \in Nat /\ Chosen \in Int BY Before, Words
<1>3. ASSUME s = t, my[t].pc = "jump_other" PROVE Jumps(t)
 <2>1. \E d \in my[t].level + 1 .. Chosen : Lands(t, d)
  <3>1. QuietPath(t) /\ ~LevelPath(t)
   <4>1. ~(\E w \in WordType : WinsLevel(t, w)) BY <1>3 DEF WinsLevel, Wins
   <4>2. ~LevelPath(t)
    <5>1. LevelPath(t) => my[t].pc \notin Deciding BY Inner DEF InnerStep
    <5> QED BY <1>3, <5>1 DEF Deciding
   <4> QED BY <4>1, <4>2, StepPaths DEF QuietStep
  <3>2. ~Joins(t) /\ ~SumPath(t) /\ ~AdvancePath(t) BY <1>3 DEF Joins, SumPath, AdvancePath
  <3>3. JumpPath(t) BY <3>1, <3>2 DEF QuietPath
  <3> QED BY <1>3, <3>3 DEF JumpPath
 <2>2. my'[t].level > my[t].level /\ my'[t].level <= Chosen BY <1>2, <1>3, <2>1 DEF Lands
 <2>3. \E p \in {0, 1} : nodes[p].plan_word.level = Chosen BY Words DEF WordOf, Latest
 <2> QED BY <2>2, <2>3 DEF Jumps
<1>4. ASSUME s = t, my[t].pc # "jump_other" PROVE my'[t].level >= my[t].level
 <2>1. \/ \E w \in WordType : WinsLevel(t, w)
       \/ Joins(t) \/ SumPath(t) \/ JumpPath(t) \/ LevelPath(t) \/ AdvancePath(t)
   BY StepPaths DEF QuietStep, QuietPath
 <2>2. CASE (\E w \in WordType : WinsLevel(t, w)) \/ Joins(t)
   BY <1>2, <1>4, <2>2 DEF WinsLevel, Joins, Follows
 <2>3. CASE SumPath(t) \/ JumpPath(t)
   BY <1>2, <1>4, <2>3 DEF SumPath, JumpPath, Sees, SumsUp, Stays, HasSize, MovesOn, Jumps_,
      SameLevel
 <2>4. CASE LevelPath(t) BY <1>2, <1>4, <2>4, Inner DEF InnerStep, SameLevel
 <2>5. CASE AdvancePath(t) BY <1>2, <1>4, <2>5 DEF AdvancePath
 <2> QED BY <2>1, <2>2, <2>3, <2>4, <2>5
<1> QED BY <1>1, <1>2, <1>3, <1>4 DEF At

THEOREM OnlyForwardKept == Spec => OnlyForward
<1> DEFINE Goes(t) == IF At(t, "jump_other") /\ my'[t] # my[t] THEN Jumps(t)
                      ELSE my'[t].level >= my[t].level
<1>1. IInv /\ [Next]_vars => [SearchAgain \/ \A t \in Thread : Goes(t)]_vars
 <2>1. ASSUME IInv, NEW t \in Thread, Step(t) PROVE \A s \in Thread : Goes(s) BY <2>1, Forward
 <2> HIDE DEF Goes
 <2> QED BY <2>1 DEF Next
<1>2. [][SearchAgain \/ \A t \in Thread : Goes(t)]_vars => OnlyForward BY PTL DEF OnlyForward
<1> QED BY <1>1, <1>2, InvCorrect, PTL DEF Spec

-----------------------------------------------------------------------------
(***************************************************************************)
(* The search implements LevelOrderBfs.                                    *)
(***************************************************************************)
Finished == {t \in Thread : At(t, "returned")}

LEMMA RefineGraph ==
  /\ LevelOrder!Unset = Unset
  /\ \A u : LevelOrder!Neighbors(u) = Neighbors(u)
  BY DEF LevelOrder!Unset, Unset, LevelOrder!Neighbors, Neighbors

\* A thread returns when the level it asks for is empty, and no other has moved on.
LEMMA Returning ==
  ASSUME IInv, NEW t \in Thread, Step(t)
  PROVE  /\ my[t].pc # "returned"
         /\ my'[t].pc = "returned" =>
              dist' = dist /\ \A v \in Vertex : Delta[v] # Unset => Discovered(v)
<1>1. (\E w \in WordType : WinsLevel(t, w)) \/ QuietStep(t) BY StepPaths
<1>2. my[t].pc # "returned"
 <2>1. LevelPath(t) => my[t].pc # "returned" BY Inner DEF InnerStep
 <2>2. QuietPath(t) /\ ~LevelPath(t) => my[t].pc # "returned"
   BY DEF QuietPath, Joins, SumPath, JumpPath, AdvancePath
 <2> QED BY <1>1, <2>1, <2>2 DEF WinsLevel, Wins, QuietStep
<1>3. ASSUME my'[t].pc = "returned" PROVE dist' = dist /\ Latest'.direction = "search_done"
 <2>1. ASSUME NEW w \in WordType, WinsLevel(t, w)
       PROVE  my[t].pc = "choose" /\ Latest'.direction = "search_done"
  <3>1. w.direction = "search_done" BY <1>3, <2>1 DEF WinsLevel, Follows
  <3> QED BY <2>1, <3>1, WinWords DEF WinsLevel, Wins
 <2>2. ASSUME QuietStep(t)
       PROVE  my[t].pc \in {"plan", "choose"} /\ Latest'.direction = "search_done"
  <3>1. ~LevelPath(t) BY <1>3, Inner DEF InnerStep
  <3>2. Joins(t) BY <1>3, <2>2, <3>1, OutsidePaths DEF Deciding
  <3>3. Curr(t).plan_word.direction = "search_done" BY <1>3, <3>2 DEF Joins, Follows
  <3>4. PICK p \in {0, 1} : p = Here(t) /\ Curr(t).plan_word = WordOf(p) BY Before DEF Curr, WordOf
  <3>5. WordOf(p) = Latest
   <4>1. Previous.direction # "search_done" BY DEF IInv, WordsInv, WordsInOrder
   <4> QED BY <3>3, <3>4, <4>1, Words
  <3> QED BY <2>2, <3>2, <3>3, <3>4, <3>5 DEF Joins, QuietStep
 <2>3. my[t].pc \in {"plan", "choose"} /\ Latest'.direction = "search_done" BY <1>1, <2>1, <2>2
 <2>4. dist' = dist
  <3>1. DataStep(t) /\ dist' \in [Vertex -> Int] /\ dist \in [Vertex -> Int]
    BY Effects DEF DataTypes, IInv, Shape
  <3>2. \A v \in Vertex : dist'[v] = dist[v] BY <2>3, <3>1 DEF DataStep
  <3> QED BY <3>1, <3>2
 <2> QED BY <2>3, <2>4
<1>4. ASSUME my'[t].pc = "returned", NEW v \in Vertex, Delta[v] # Unset PROVE Discovered(v)
 <2>1. IInv' BY StepInv
 <2>2. PICK n \in Nat : n = Chosen' /\ Level(n) = {}
  <3>1. Chosen' >= 0 /\ Level(Chosen)' = {} BY <1>3, <1>4, <2>1 DEF IInv, LevelsInv, LevelsThere
  <3>2. Chosen' \in Int BY ChosenGrows
  <3> QED BY <3>1, <3>2 DEF Level
 <2>3. Delta[v] \in 0 .. n BY <1>4, <2>2, NothingBeyond, GraphTypes DEF Unset
 <2>4. LevelsFound' BY <2>1 DEF IInv, LevelsInv
 <2>5. Found(Delta[v])' BY <2>2, <2>3, <2>4 DEF LevelsFound
 <2>6. Discovered(v)' BY <2>5 DEF Found, Level
 <2> QED BY <1>3, <1>4, <2>6 DEF Discovered
<1> QED BY <1>2, <1>3, <1>4

\* A distance that is written is that of a vertex one step further than one of the
\* level the thread is in.
LEMMA RefineDiscover ==
  ASSUME IInv, NEW t \in Thread, Step(t), UNCHANGED Finished,
         NEW v \in Vertex, dist'[v] # dist[v]
  PROVE  \E u \in Vertex : LevelOrder!Discover(u, v)
<1>0. /\ dist \in [Vertex -> Int] /\ dist' \in [Vertex -> Int] /\ DataStep(t)
      /\ my[t].level \in Nat /\ Chosen \in Int
  BY Effects, Before, Words DEF DataTypes, IInv, Shape
<1>1. /\ Finds(t, v) /\ dist[v] = Unset /\ dist'[v] = my[t].level + 1
      /\ Delta[v] = my[t].level + 1 /\ my[t].level <= Chosen
  BY <1>0, DistStays
<1>2. \A x \in Vertex : x # v => dist'[x] = dist[x]
 <2> TAKE x \in Vertex
 <2>1. dist'[x] # dist[x] => Finds(t, x) BY <1>0, DistStays
 <2> QED BY <1>1, <2>1 DEF Finds
<1>3. PICK u \in Vertex : Delta[u] = my[t].level /\ v \in Neighbors(u) BY <1>0, <1>1, OneCloser
<1>4. dist[u] = my[t].level /\ dist[u] # Unset
 <2>1. my[t].level \in 0 .. Chosen BY <1>0, <1>1
 <2> QED BY <1>0, <1>3, <2>1, DistKnown DEF Unset
<1>5. dist' = [dist EXCEPT ![v] = dist[u] + 1] BY <1>0, <1>1, <1>2, <1>4
<1>6. ASSUME NEW x \in Vertex, dist[x] \in 0 .. dist[u] - 1 PROVE LevelOrder!Covered(x)
 <2>1. Delta[x] = dist[x] /\ Delta[x] \in Nat /\ Delta[x] + 1 <= my[t].level
  <3>1. dist[x] # Unset => Delta[x] = dist[x] BY DistKnown
  <3> QED BY <1>0, <1>4, <1>6, <3>1 DEF Unset
 <2>2. \A w \in Neighbors(x) : w \in Vertex /\ Delta[w] \in 0 .. Delta[x] + 1
  <3>1. Delta[x] # Unset BY <2>1 DEF Unset
  <3> QED BY <3>1, DistanceAssumption, GraphTypes
 <2>3. \A w \in Neighbors(x) : Delta[w] \in 0 .. Chosen BY <1>0, <1>1, <2>1, <2>2
 <2>4. \A w \in Neighbors(x) : dist[w] # Unset
  <3> TAKE w \in Neighbors(x)
  <3>1. dist[w] = Delta[w] /\ Delta[w] \in 0 .. Chosen BY <2>2, <2>3, DistKnown
  <3> QED BY <1>0, <3>1 DEF Unset
 <2> QED BY <2>4, RefineGraph DEF LevelOrder!Covered
<1> QED BY <1>1, <1>3, <1>4, <1>5, <1>6, RefineGraph, Zenon DEF LevelOrder!Discover, Finished

LEMMA RefineStep ==
  ASSUME IInv, NEW t \in Thread, Step(t)
  PROVE  LevelOrder!Next \/ UNCHANGED <<dist, Finished>>
<1>0. dist \in [Vertex -> Int] /\ dist' \in [Vertex -> Int] BY Effects DEF DataTypes, IInv, Shape
<1>1. /\ ~At(t, "returned")
      /\ \A s \in Thread : s # t => At(s, "returned")' = At(s, "returned")
  BY Moved, Returning DEF At
<1>2. CASE ~At(t, "returned")'
 <2>1. UNCHANGED Finished BY <1>1, <1>2 DEF Finished
 <2>2. CASE \E v \in Vertex : dist'[v] # dist[v] BY <2>1, <2>2, RefineDiscover DEF LevelOrder!Next
 <2>3. CASE \A v \in Vertex : dist'[v] = dist[v] BY <1>0, <2>1, <2>3
 <2> QED BY <2>2, <2>3
<1>3. CASE At(t, "returned")'
 <2>1. dist' = dist /\ \A v \in Vertex : Delta[v] # Unset => dist[v] # Unset
   BY <1>3, Returning DEF At, Discovered
 <2>2. ASSUME NEW u \in Vertex, dist[u] # Unset PROVE LevelOrder!Covered(u)
  <3>1. Delta[u] # Unset
   <4>1. Delta[u] = dist[u] BY <2>2, DistKnown
   <4> QED BY <2>2, <4>1
  <3>2. \A w \in Neighbors(u) : w \in Vertex /\ Delta[w] \in 0 .. Delta[u] + 1
    BY <3>1, DistanceAssumption, GraphTypes
  <3>3. \A w \in Neighbors(u) : w \in Vertex /\ Delta[w] # Unset BY <3>2, GraphTypes DEF Unset
  <3> QED BY <2>1, <3>3, RefineGraph DEF LevelOrder!Covered
 <2>3. Finished' = Finished \cup {t} /\ t \notin Finished BY <1>1, <1>3 DEF Finished
 <2> QED BY <2>1, <2>2, <2>3, RefineGraph DEF LevelOrder!Next, LevelOrder!Finish, Finished
<1> QED BY <1>2, <1>3

LEMMA RefineNext ==
  ASSUME IInv, [Next]_vars
  PROVE  [LevelOrder!Next]_(LevelOrder!vars)
<1> SUFFICES LevelOrder!Next \/ UNCHANGED <<dist, Finished>> BY DEF LevelOrder!vars, Finished
<1>1. ASSUME NEW t \in Thread, Step(t) PROVE LevelOrder!Next \/ UNCHANGED <<dist, Finished>>
  BY <1>1, RefineStep
<1>2. CASE SearchAgain
 <2>1. Finished = Thread BY <1>2 DEF SearchAgain, Finished
 <2>2. Finished' = {} BY <1>2 DEF SearchAgain, FreshThreads, Finished, At
 <2> QED
   BY <1>2, <2>1, <2>2, RefineGraph DEF SearchAgain, FreshDist, LevelOrder!Next,
      LevelOrder!StartOver, Finished
<1>3. CASE UNCHANGED vars BY <1>3 DEF vars, memory, Finished, At
<1> QED BY <1>1, <1>2, <1>3 DEF Next

(***************************************************************************)
(* The two-node search implements LevelOrderBfs, from search to search,    *)
(* though a node is reused while threads may still be in the level it      *)
(* held: vertices are discovered in the order of the levels, each once,    *)
(* and no call of wf_bfs returns while a vertex is still to be found.      *)
(***************************************************************************)
THEOREM LevelOrderKept == Spec => ImplementsLevelOrder
<1>1. Init => LevelOrder!Init
 <2> SUFFICES ASSUME Init PROVE LevelOrder!Init OBVIOUS
 <2>1. Finished = {} BY FirstThreads, Zenon DEF Finished, At
 <2> QED BY <2>1, RefineGraph DEF Init, FreshDist, LevelOrder!Init, Finished
<1>2. IInv /\ [Next]_vars => [LevelOrder!Next]_(LevelOrder!vars) BY RefineNext
<1> QED BY <1>1, <1>2, InvCorrect, PTL DEF Spec, ImplementsLevelOrder, LevelOrder!Spec

=============================================================================
