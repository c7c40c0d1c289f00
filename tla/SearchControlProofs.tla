------------------------- MODULE SearchControlProofs -------------------------
(***************************************************************************)
(* Proofs about SearchControl, for every graph, every list of thread       *)
(* counts and every number of searches; and about Startup and Loading,     *)
(* which come before the searches.                                         *)
(***************************************************************************)
EXTENDS SearchControl, BfsGraphProofs, FiniteSetTheorems, SequenceTheorems

(***************************************************************************)
(* Where a thread is in a search, and the search that was published last.  *)
(***************************************************************************)
Resting == {"poll", "lock", "notify"}
Resetting == {"dist", "vis", "source", "reset"}
InSearch == {"level", "link", "time"}
Over == Resting \cup {"count", "exited"}
Quiet == {"times", "stop", "join", "output", "head", "publish"}

Cur == IF mpc \in {"head", "publish"} THEN i - 1 ELSE i

HasReset == {t \in Thread : last[t] = Cur /\ pc[t] \notin Resetting}
HasReturned == {t \in Thread : last[t] = Cur /\ pc[t] \in Resting \cup {"exited"}}

(***************************************************************************)
(* Only the threads of this thread count are there, and only between two   *)
(* thread counts is nobody.                                                *)
(***************************************************************************)
ThreadsThere ==
  /\ mpc = "start" => number <= 0 /\ \A t \in AnyThread : pc[t] \in {"none", "exited"}
  /\ mpc # "start" =>
       /\ \A t \in AnyThread \ Thread : pc[t] = "none"
       /\ \A t \in Thread : pc[t] # "none"

(***************************************************************************)
(* A thread is in the search published last, or idle since the one before. *)
(***************************************************************************)
LastOrBefore(t) ==
  /\ last[t] \in {Cur - 1, Cur}
  /\ last[t] = Cur - 1 => pc[t] \in Resting
  /\ last[t] = 0 => pc[t] \in Resting
  /\ pc[t] = "exited" => mpc \in {"join", "output"}
  /\ return_times[t] = IF pc[t] \in Over THEN last[t] ELSE last[t] - 1

(***************************************************************************)
(* The counts go on from search to search: what is above the multiple of   *)
(* num_t is the number of threads that have got there in this search.      *)
(***************************************************************************)
CountsExact ==
  /\ reset = (Cur - 1) * num_t + Cardinality(HasReset)
  /\ returned = (Cur - 1) * num_t + Cardinality(HasReturned)

OneHolder == mutex = {} \/ \E x \in {Main} \cup AnyThread : mutex = {x}

ControlInv ==
  /\ TypeOK /\ OneHolder
  /\ ThreadsThere
  /\ mpc # "start" =>
       /\ number = IF mpc \in {"join", "output"} THEN -1 ELSE Cur
       /\ \A t \in Thread : LastOrBefore(t)
       /\ CountsExact
       /\ mpc \in Quiet => HasReturned = Thread

-----------------------------------------------------------------------------

(***************************************************************************)
(* Before the first thread has met the others: the part of its share that  *)
(* a thread has reset.  Afterwards nobody resets.                          *)
(***************************************************************************)
Share(t) == Begin(t) .. End(t) - 1

Begun == Cur > 0 /\ \E t \in Thread : last[t] = Cur /\ pc[t] \in InSearch \cup Over

Fresh(v) == dist[v] = (IF v = Root THEN 0 ELSE Unset) /\ ~vis[v]

ResetSoFar(t) ==
  /\ pc[t] \in {"dist", "vis"} => pos[t] \in Begin(t) .. End(t)
  /\ pc[t] = "dist" => \A v \in Begin(t) .. pos[t] - 1 : dist[v] = Unset
  /\ pc[t] \in {"vis", "source"} => \A v \in Share(t) : dist[v] = Unset
  /\ pc[t] = "vis" => \A v \in Begin(t) .. pos[t] - 1 : ~vis[v]
  /\ pc[t] = "source" => \A v \in Share(t) : ~vis[v]
  /\ pc[t] \in {"reset", "meet"} => \A v \in Share(t) : Fresh(v)

Reset ==
  IF Begun THEN HasReset = Thread
  ELSE \A t \in Thread : last[t] = Cur => ResetSoFar(t)

(***************************************************************************)
(* From then on: the distances and marks are those of a search, and a      *)
(* thread is at a level whose vertices are all found.                      *)
(***************************************************************************)
DataSound ==
  /\ dist[Root] = 0
  /\ \A v \in Vertex : dist[v] # Unset => dist[v] = Delta[v]
  /\ \A u \in Vertex : vis[u] => Covered(u)

LevelReady(d) == \A v \in Vertex : Delta[v] \in 0 .. d => dist[v] = Delta[v]

Walks(t) ==
  /\ pc[t] \in {"level", "link"} =>
       curr[t] \in 1 .. Len(levels) /\ LevelReady(Depth(t))
  /\ last[t] = Cur /\ pc[t] \in {"time"} \cup Over => dist = Delta

Search == Begun => DataSound /\ \A t \in Thread : Walks(t)

(***************************************************************************)
(* The memory of the levels.                                               *)
(***************************************************************************)
Allocated ==
  /\ mpc \in {"publish", "lock", "test", "block", "wait", "times"} =>
       levels # <<>> /\ \A n \in DOMAIN levels : levels[n] = arena
  /\ \A t \in Thread :
       last[t] = Cur /\ pc[t] \notin Resting \cup {"exited"} => spare_level[t] \in {None, arena}

DataInv == mpc # "start" => Reset /\ Search /\ Allocated

IInv == ControlInv /\ DataInv

-----------------------------------------------------------------------------

(***************************************************************************)
(* Counting threads.                                                       *)
(***************************************************************************)
LEMMA ThreadTypes ==
  ASSUME TypeOK
  PROVE  /\ num_t \in Nat \ {0}
         /\ IsFiniteSet(Thread) /\ Cardinality(Thread) = num_t
         /\ Thread \subseteq AnyThread
         /\ \A t \in Thread : t \in Nat /\ t < num_t
         /\ Cur \in Nat
<1>1. num_t \in Nat \ {0} BY ControlAssumption DEF TypeOK, num_t
<1>2. IsFiniteSet(Thread) /\ Cardinality(Thread) = num_t BY <1>1, FS_Interval DEF Thread
<1>3. Thread \subseteq AnyThread
 <2>1. c \in DOMAIN ThreadCounts BY DEF TypeOK
 <2> QED BY <2>1 DEF Thread, AnyThread, num_t
<1>4. Cur \in Nat BY ControlAssumption DEF TypeOK, Cur
<1> QED BY <1>1, <1>2, <1>3, <1>4 DEF Thread

LEMMA Counted ==
  ASSUME TypeOK, NEW S \in SUBSET Thread
  PROVE  /\ IsFiniteSet(S) /\ Cardinality(S) \in 0 .. num_t
         /\ Cardinality(S) = num_t <=> S = Thread
         /\ \A t \in Thread \ S : Cardinality(S \cup {t}) = Cardinality(S) + 1
<1>1. IsFiniteSet(S) /\ Cardinality(S) <= Cardinality(Thread)
      /\ (Cardinality(S) = Cardinality(Thread) => S = Thread)
  BY ThreadTypes, FS_Subset
<1>2. Cardinality(S) \in Nat BY <1>1, FS_CardinalityType
<1>3. \A t \in Thread \ S : Cardinality(S \cup {t}) = Cardinality(S) + 1 BY <1>1, FS_AddElement
<1> QED BY <1>1, <1>2, <1>3, ThreadTypes

(***************************************************************************)
(* The shares: every vertex is in that of one thread.                      *)
(***************************************************************************)
LEMMA Division ==
  ASSUME NEW x \in Nat, NEW n \in Nat \ {0}
  PROVE  /\ x \div n \in Nat
         /\ n * (x \div n) <= x /\ x < n * (x \div n) + n
<1>1. n * (x \div n) <= x BY SMT
<1>2. x < n * (x \div n) + n BY SMT
<1>3. x \div n \in Nat OBVIOUS
<1> QED BY <1>1, <1>2, <1>3

LEMMA ShareBounds ==
  ASSUME TypeOK, NEW t \in Thread
  PROVE  /\ Begin(t) \in 0 .. N /\ End(t) \in 0 .. N /\ Begin(t) <= End(t)
         /\ Share(t) \subseteq Vertex
<1>1. t \in Nat /\ num_t \in Nat \ {0} /\ t + 1 <= num_t /\ N \in Nat
  BY ThreadTypes, ControlAssumption
<1>2. N * t \in Nat /\ N * (t + 1) \in Nat /\ N * (t + 1) = N * t + N BY <1>1
<1>3. Begin(t) \in Nat /\ num_t * Begin(t) <= N * t /\ N * t < num_t * Begin(t) + num_t
  BY <1>1, <1>2, Division DEF Begin
<1>4. End(t) \in Nat /\ num_t * End(t) <= N * (t + 1) /\ N * (t + 1) < num_t * End(t) + num_t
  BY <1>1, <1>2, Division DEF End
<1>5. N * (t + 1) <= num_t * N BY <1>1
<1>6. End(t) <= N
 <2>1. num_t * End(t) <= num_t * N BY <1>1, <1>2, <1>4, <1>5
 <2> QED BY <1>1, <1>4, <2>1
<1>7. Begin(t) <= End(t)
 <2>1. num_t * Begin(t) < num_t * End(t) + num_t BY <1>1, <1>2, <1>3, <1>4
 <2>2. num_t * Begin(t) < num_t * (End(t) + 1) BY <1>1, <1>4, <2>1
 <2>3. Begin(t) < End(t) + 1 BY <1>1, <1>3, <1>4, <2>2
 <2> QED BY <1>3, <1>4, <2>3
<1> QED BY <1>3, <1>4, <1>6, <1>7, ControlAssumption DEF Share

LEMMA SharesApart ==
  ASSUME TypeOK, NEW s \in Thread, NEW t \in Thread, s # t
  PROVE  Share(s) \cap Share(t) = {}
<1>1. ASSUME NEW a \in Thread, NEW b \in Thread, a < b PROVE End(a) <= Begin(b)
 <2>1. a \in Nat /\ b \in Nat /\ a + 1 <= b /\ num_t \in Nat \ {0} /\ N \in Nat
   BY <1>1, ThreadTypes, ControlAssumption
 <2>2. N * (a + 1) \in Nat /\ N * b \in Nat /\ N * (a + 1) <= N * b BY <2>1
 <2>3. End(a) \in Nat /\ num_t * End(a) <= N * (a + 1) BY <2>1, <2>2, Division DEF End
 <2>4. Begin(b) \in Nat /\ N * b < num_t * Begin(b) + num_t BY <2>1, <2>2, Division DEF Begin
 <2>5. num_t * End(a) < num_t * (Begin(b) + 1)
  <3>1. num_t * Begin(b) \in Nat /\ num_t * End(a) \in Nat BY <2>1, <2>3, <2>4
  <3>2. num_t * End(a) < num_t * Begin(b) + num_t BY <2>1, <2>2, <2>3, <2>4, <3>1
  <3>3. num_t * Begin(b) + num_t = num_t * (Begin(b) + 1) BY <2>1, <2>4
  <3> QED BY <3>2, <3>3
 <2>6. End(a) < Begin(b) + 1 BY <2>1, <2>3, <2>4, <2>5
 <2> QED BY <2>3, <2>4, <2>6
<1>2. s \in Nat /\ t \in Nat BY ThreadTypes
<1>3. /\ Begin(s) \in Int /\ End(s) \in Int
      /\ Begin(t) \in Int /\ End(t) \in Int
  BY ShareBounds
<1>4. CASE s < t
 <2>1. End(s) <= Begin(t) BY <1>1, <1>4
 <2> QED BY <1>3, <2>1 DEF Share
<1>5. CASE t < s
 <2>1. End(t) <= Begin(s) BY <1>1, <1>5
 <2> QED BY <1>3, <2>1 DEF Share
<1> QED BY <1>2, <1>4, <1>5

LEMMA SharesCover ==
  ASSUME TypeOK, NEW v \in Vertex
  PROVE  \E t \in Thread : v \in Share(t)
<1> DEFINE x == (v + 1) * num_t - 1
           t == x \div N
<1>1. v \in Nat /\ v < N /\ N \in Nat \ {0} /\ num_t \in Nat \ {0} BY ThreadTypes, ControlAssumption
<1>2. x \in Nat BY <1>1
<1>3. t \in Nat /\ N * t <= x /\ x < N * t + N BY <1>1, <1>2, Division
<1> HIDE DEF t
<1>4. t < num_t
 <2>1. x < N * num_t BY <1>1
 <2>2. N * t < N * num_t BY <1>1, <1>2, <1>3, <2>1
 <2> QED BY <1>1, <1>3, <2>2
<1>5. t \in Thread BY <1>1, <1>3, <1>4 DEF Thread
<1>6. Begin(t) \in Nat /\ num_t * Begin(t) <= N * t BY <1>1, <1>3, Division DEF Begin
<1>7. End(t) \in Nat /\ N * (t + 1) < num_t * End(t) + num_t BY <1>1, <1>3, Division DEF End
<1>8. Begin(t) <= v
 <2>1. num_t * Begin(t) < num_t * (v + 1) BY <1>1, <1>3, <1>6
 <2>2. Begin(t) < v + 1 BY <1>1, <1>6, <2>1
 <2> QED BY <1>1, <1>6, <2>2
<1>9. v < End(t)
 <2>1. N * (t + 1) >= (v + 1) * num_t BY <1>1, <1>3
 <2>2. num_t * (v + 1) < num_t * (End(t) + 1) BY <1>1, <1>3, <1>7, <2>1
 <2>3. v + 1 < End(t) + 1 BY <1>1, <1>7, <2>2
 <2> QED BY <1>1, <1>7, <2>3
<1> QED BY <1>1, <1>5, <1>6, <1>7, <1>8, <1>9 DEF Share

(***************************************************************************)
(* What a step of thread t leaves alone.                                   *)
(***************************************************************************)
LEMMA StepFrame ==
  ASSUME IInv, NEW t \in AnyThread, ThreadStep(t)
  PROVE  /\ t \in Thread /\ mpc # "start"
         /\ mpc' = mpc /\ i' = i /\ c' = c /\ number' = number
         /\ Cur' = Cur /\ num_t' = num_t /\ Thread' = Thread
         /\ \A s \in Thread : Begin(s)' = Begin(s) /\ End(s)' = End(s)
         /\ \A s \in AnyThread \ {t} :
              /\ pc'[s] = pc[s] /\ last'[s] = last[s] /\ pos'[s] = pos[s]
              /\ curr'[s] = curr[s] /\ spare_level'[s] = spare_level[s]
              /\ return_times'[s] = return_times[s]
<1>0. TypeOK BY DEF IInv, ControlInv
<1> USE DEF countVars, lockVars, mainVars, threadVars, dataVars, levelVars, Goto
<1>1. pc[t] \notin {"none", "exited"}
  BY DEF ThreadStep, Poll, FillDist, FillVis, SetSource, CountReset, Meet, TestNext, AddNode,
     Discover, MarkVisited, Advance, NoteTime, CountReturn, LockMutex, Notify
<1>2. t \in Thread /\ mpc # "start" BY <1>1 DEF IInv, ControlInv, ThreadsThere
<1>3. mpc' = mpc /\ i' = i /\ c' = c /\ number' = number
  BY DEF ThreadStep, Poll, FillDist, FillVis, SetSource, CountReset, Meet, TestNext, AddNode,
     Discover, MarkVisited, Advance, NoteTime, CountReturn, LockMutex, Notify
<1>4. Cur' = Cur /\ num_t' = num_t BY <1>3 DEF Cur, num_t
<1>5. Thread' = Thread BY <1>4 DEF Thread
<1>6. \A s \in Thread : Begin(s)' = Begin(s) /\ End(s)' = End(s) BY <1>4 DEF Begin, End
<1>7. \A s \in AnyThread \ {t} :
            /\ pc'[s] = pc[s] /\ last'[s] = last[s] /\ pos'[s] = pos[s]
            /\ curr'[s] = curr[s] /\ spare_level'[s] = spare_level[s]
            /\ return_times'[s] = return_times[s]
 <2> USE <1>0 DEF TypeOK
 <2>1. CASE Poll(t) BY <2>1 DEF Poll, DropSpare
 <2>2. CASE FillDist(t) \/ FillVis(t) \/ SetSource(t) BY <2>2 DEF FillDist, FillVis, SetSource
 <2>3. CASE CountReset(t) \/ Meet(t) \/ TestNext(t) BY <2>3 DEF CountReset, Meet, TestNext
 <2>4. CASE AddNode(t) BY <2>4 DEF AddNode
 <2>5. CASE Discover(t) \/ MarkVisited(t) \/ Advance(t) BY <2>5 DEF Discover, MarkVisited, Advance
 <2>6. CASE NoteTime(t) \/ CountReturn(t) \/ LockMutex(t) \/ Notify(t)
   BY <2>6 DEF NoteTime, CountReturn, LockMutex, Notify
 <2> QED BY <2>1, <2>2, <2>3, <2>4, <2>5, <2>6 DEF ThreadStep
<1> QED BY <1>2, <1>3, <1>4, <1>5, <1>6, <1>7

(***************************************************************************)
(* Where a thread goes.                                                    *)
(***************************************************************************)
LEMMA StepMoves ==
  ASSUME IInv, NEW t \in AnyThread, ThreadStep(t)
  PROVE  \/ /\ pc[t] = "poll" /\ pc'[t] = "exited" /\ number < 0
            /\ last'[t] = last[t] /\ return_times'[t] = return_times[t]
         \/ /\ pc[t] = "poll" /\ pc'[t] = "dist" /\ number >= 0
            /\ number # last[t] /\ last'[t] = number
            /\ return_times'[t] = return_times[t]
         \/ /\ pc[t] \in Resetting /\ pc'[t] \in Resetting
            /\ last'[t] = last[t] /\ return_times'[t] = return_times[t]
         \/ /\ pc[t] = "reset" /\ pc'[t] = "meet"
            /\ last'[t] = last[t] /\ return_times'[t] = return_times[t]
         \/ /\ pc[t] = "meet" /\ pc'[t] \in InSearch /\ AllReset(t)
            /\ last'[t] = last[t] /\ return_times'[t] = return_times[t]
         \/ /\ pc[t] \in InSearch /\ pc'[t] \in InSearch
            /\ last'[t] = last[t] /\ return_times'[t] = return_times[t]
         \/ /\ pc[t] = "time" /\ pc'[t] = "count"
            /\ last'[t] = last[t] /\ return_times'[t] = last[t]
         \/ /\ pc[t] = "count" /\ pc'[t] \in Resting
            /\ last'[t] = last[t] /\ return_times'[t] = return_times[t]
         \/ /\ pc[t] \in Resting /\ pc'[t] \in Resting
            /\ last'[t] = last[t] /\ return_times'[t] = return_times[t]
<1>0. TypeOK BY DEF IInv, ControlInv
<1> USE <1>0 DEF TypeOK, Goto, Resetting, InSearch, Resting, threadVars, lockVars, countVars
<1>1. CASE Poll(t) BY SMTT(30), <1>1, ControlAssumption DEF Poll
<1>2. CASE FillDist(t) BY <1>2 DEF FillDist
<1>3. CASE FillVis(t) BY <1>3 DEF FillVis
<1>4. CASE SetSource(t) BY <1>4 DEF SetSource
<1>5. CASE CountReset(t) BY <1>5 DEF CountReset
<1>6. CASE Meet(t) BY <1>6 DEF Meet
<1>7. CASE TestNext(t) BY <1>7 DEF TestNext
<1>8. CASE AddNode(t) BY <1>8 DEF AddNode
<1>9. CASE Discover(t) \/ MarkVisited(t) BY <1>9 DEF Discover, MarkVisited
<1>10. CASE Advance(t) BY <1>10 DEF Advance
<1>11. CASE NoteTime(t) BY <1>11 DEF NoteTime
<1>12. CASE CountReturn(t) BY <1>12 DEF CountReturn
<1>13. CASE LockMutex(t) BY <1>13 DEF LockMutex
<1>14. CASE Notify(t) BY <1>14 DEF Notify
<1> QED BY <1>1, <1>2, <1>3, <1>4, <1>5, <1>6, <1>7, <1>8, <1>9, <1>10, <1>11, <1>12,
     <1>13, <1>14 DEF ThreadStep

(***************************************************************************)
(* Which counts a step of a thread changes.                                *)
(***************************************************************************)
LEMMA StepCounts ==
  ASSUME IInv, NEW t \in AnyThread, ThreadStep(t)
  PROVE  /\ reset' = IF pc[t] = "reset" THEN reset + 1 ELSE reset
         /\ returned' = IF pc[t] = "count" THEN returned + 1 ELSE returned
         /\ pc[t] = "reset" => pc'[t] = "meet"
         /\ pc[t] = "count" => pc'[t] \in Resting
<1>0. pc \in [AnyThread -> Labels] BY DEF IInv, ControlInv, TypeOK
<1> USE <1>0 DEF Goto, countVars, threadVars
<1>1. CASE Poll(t) \/ FillDist(t) \/ FillVis(t) \/ SetSource(t) \/ Meet(t)
  BY <1>1 DEF Poll, FillDist, FillVis, SetSource, Meet
<1>2. CASE CountReset(t) BY <1>2 DEF CountReset
<1>3. CASE TestNext(t) \/ AddNode(t) \/ Discover(t) \/ MarkVisited(t) \/ Advance(t)
  BY <1>3 DEF TestNext, AddNode, Discover, MarkVisited, Advance
<1>4. CASE NoteTime(t) \/ LockMutex(t) \/ Notify(t) BY <1>4 DEF NoteTime, LockMutex, Notify
<1>5. CASE CountReturn(t) BY <1>5 DEF CountReturn, Resting
<1> QED BY <1>1, <1>2, <1>3, <1>4, <1>5 DEF ThreadStep

LEMMA StepLast ==
  ASSUME IInv, NEW t \in AnyThread, ThreadStep(t), NEW s \in Thread
  PROVE  LastOrBefore(s)'
<1>1. /\ t \in Thread /\ mpc # "start" /\ Cur' = Cur /\ mpc' = mpc
      /\ s # t => /\ pc'[s] = pc[s] /\ last'[s] = last[s]
                  /\ return_times'[s] = return_times[s]
  BY StepFrame, ThreadTypes DEF IInv, ControlInv
<1>2. LastOrBefore(s) /\ LastOrBefore(t) BY <1>1 DEF IInv, ControlInv
<1>3. CASE s # t BY <1>1, <1>2, <1>3 DEF LastOrBefore
<1>4. CASE s = t
 <2>1. Cur \in Nat /\ last[t] \in Nat BY <1>1, ThreadTypes DEF IInv, ControlInv, TypeOK
 <2>2. number = IF mpc \in {"join", "output"} THEN -1 ELSE Cur BY <1>1 DEF IInv, ControlInv
 <2>3. CASE pc[t] = "poll" /\ pc'[t] = "dist"
  <3>1. number >= 0 /\ number # last[t] /\ last'[t] = number
        /\ return_times'[t] = return_times[t]
    BY <2>3, StepMoves DEF Resetting, InSearch, Resting
  <3>2. last'[t] = Cur /\ last[t] = Cur - 1 BY <1>2, <2>1, <2>2, <3>1 DEF LastOrBefore
  <3>3. return_times[t] = last[t] BY <1>2, <2>3 DEF LastOrBefore, Over, Resting
  <3> QED BY <1>1, <1>4, <2>1, <2>3, <3>1, <3>2, <3>3 DEF LastOrBefore, Over, Resting
 <2>4. CASE ~(pc[t] = "poll" /\ pc'[t] = "dist")
  <3>1. last'[t] = last[t] BY <2>4, StepMoves
  <3>2. /\ pc'[t] = "exited" => number < 0
        /\ pc[t] \in Resting => pc'[t] \in Resting \cup {"exited"}
        /\ pc'[t] \in Over <=> pc[t] \in Over \cup {"time"} /\ (pc[t] = "time" => pc'[t] = "count")
        /\ pc[t] # "exited"
        /\ return_times'[t] = IF pc[t] = "time" /\ pc'[t] = "count" THEN last[t] ELSE return_times[t]
    BY <2>4, StepMoves DEF Resetting, InSearch, Resting, Over
  <3>3. pc'[t] = "exited" => mpc \in {"join", "output"} BY <2>1, <2>2, <3>2
  <3>4. pc'[t] = "exited" => last[t] = Cur /\ Cur # 0
   <4>1. mpc \in {"join", "output"} => HasReturned = Thread BY <1>1 DEF IInv, ControlInv, Quiet
   <4>2. mpc \in {"join", "output"} => Cur = i /\ i # 0
     BY SMTT(30), ControlAssumption DEF Cur, IInv, ControlInv, TypeOK
   <4> QED BY <1>1, <3>3, <4>1, <4>2 DEF HasReturned
  <3>5. last'[t] = Cur - 1 => pc'[t] \in Resting BY <1>2, <2>1, <3>1, <3>2, <3>4 DEF LastOrBefore
  <3>6. last'[t] = 0 => pc'[t] \in Resting BY <1>2, <2>1, <3>1, <3>2, <3>4 DEF LastOrBefore
  <3>7. return_times'[t] = IF pc'[t] \in Over THEN last[t] ELSE last[t] - 1
    BY <1>2, <3>2 DEF LastOrBefore, Over
  <3> QED BY <1>1, <1>2, <1>4, <3>1, <3>3, <3>5, <3>6, <3>7 DEF LastOrBefore
 <2> QED BY <2>3, <2>4
<1> QED BY <1>3, <1>4

(***************************************************************************)
(* Who has reset, and who has returned: one more thread when it is counted.*)
(***************************************************************************)
LEMMA StepGotThere ==
  ASSUME IInv, NEW t \in AnyThread, ThreadStep(t)
  PROVE  /\ pc[t] = "reset" => t \notin HasReset
         /\ pc[t] = "count" => t \notin HasReturned
         /\ HasReset' = IF pc[t] = "reset" THEN HasReset \cup {t} ELSE HasReset
         /\ HasReturned' = IF pc[t] = "count" THEN HasReturned \cup {t} ELSE HasReturned
<1>1. /\ t \in Thread /\ mpc # "start" /\ Cur' = Cur /\ Thread' = Thread
      /\ \A s \in Thread \ {t} : pc'[s] = pc[s] /\ last'[s] = last[s]
  BY StepFrame, ThreadTypes DEF IInv, ControlInv
<1>2. LastOrBefore(t) /\ Cur \in Nat /\ last[t] \in Nat
  BY <1>1, ThreadTypes DEF IInv, ControlInv, TypeOK
<1>3. number = IF mpc \in {"join", "output"} THEN -1 ELSE Cur BY <1>1 DEF IInv, ControlInv
<1>4. pc[t] \in {"reset", "count"} => last[t] = Cur BY <1>2 DEF LastOrBefore, Resting
<1>5. /\ t \in HasReset' <=> t \in HasReset \/ pc[t] = "reset"
      /\ t \in HasReturned' <=> t \in HasReturned \/ pc[t] = "count"
 <2>1. CASE pc[t] = "poll" /\ pc'[t] = "dist"
  <3>1. number >= 0 /\ number # last[t] BY <2>1, StepMoves DEF Resetting, InSearch, Resting
  <3>2. last[t] # Cur BY <1>2, <1>3, <3>1
  <3> QED BY <1>1, <2>1, <3>2 DEF HasReset, HasReturned, Resetting, Resting
 <2>2. CASE ~(pc[t] = "poll" /\ pc'[t] = "dist")
  <3>1. last'[t] = last[t] BY <2>2, StepMoves
  <3>2. pc'[t] \notin Resetting <=> pc[t] \notin Resetting \/ pc[t] = "reset"
   <4>1. pc[t] = "reset" => pc'[t] = "meet" BY StepCounts
   <4> QED BY <2>2, <4>1, StepMoves DEF Resetting, InSearch, Resting
  <3>3. pc'[t] \in Resting \cup {"exited"} <=> pc[t] \in Resting \cup {"exited"} \/ pc[t] = "count"
    BY <2>2, StepMoves DEF Resetting, InSearch, Resting
  <3> QED BY <1>1, <1>4, <3>1, <3>2, <3>3 DEF HasReset, HasReturned
 <2> QED BY <2>1, <2>2
<1>6. \A s \in Thread \ {t} : (s \in HasReset' <=> s \in HasReset)
                              /\ (s \in HasReturned' <=> s \in HasReturned)
  BY <1>1 DEF HasReset, HasReturned
<1>7. /\ HasReset \subseteq Thread /\ HasReturned \subseteq Thread
      /\ HasReset' \subseteq Thread /\ HasReturned' \subseteq Thread
  BY <1>1 DEF HasReset, HasReturned
<1> QED BY <1>1, <1>5, <1>6, <1>7 DEF HasReset, HasReturned, Resetting, Resting

LEMMA StepCountsExact ==
  ASSUME IInv, NEW t \in AnyThread, ThreadStep(t)
  PROVE  CountsExact'
<1>1. /\ t \in Thread /\ mpc # "start" /\ Cur' = Cur /\ num_t' = num_t
  BY StepFrame DEF IInv, ControlInv
<1>2. TypeOK /\ CountsExact BY <1>1 DEF IInv, ControlInv
<1>3. HasReset \in SUBSET Thread /\ HasReturned \in SUBSET Thread BY DEF HasReset, HasReturned
<1>4. /\ Cardinality(HasReset) \in Nat /\ Cardinality(HasReturned) \in Nat
      /\ pc[t] = "reset" => Cardinality(HasReset \cup {t}) = Cardinality(HasReset) + 1
      /\ pc[t] = "count" => Cardinality(HasReturned \cup {t}) = Cardinality(HasReturned) + 1
  BY <1>1, <1>2, <1>3, Counted, StepGotThere, ThreadTypes
<1>5. (Cur - 1) * num_t \in Int BY <1>2, ThreadTypes
<1>6. /\ Cardinality(HasReset)' = Cardinality(HasReset) + (IF pc[t] = "reset" THEN 1 ELSE 0)
      /\ Cardinality(HasReturned)' = Cardinality(HasReturned) + (IF pc[t] = "count" THEN 1 ELSE 0)
 <2>1. CASE pc[t] = "reset"
  <3>1. HasReset' = HasReset \cup {t} /\ HasReturned' = HasReturned BY <2>1, StepGotThere
  <3> QED BY <1>4, <2>1, <3>1
 <2>2. CASE pc[t] = "count"
  <3>1. HasReset' = HasReset /\ HasReturned' = HasReturned \cup {t} BY <2>2, StepGotThere
  <3> QED BY <1>4, <2>2, <3>1
 <2>3. CASE pc[t] \notin {"reset", "count"}
  <3>1. HasReset' = HasReset /\ HasReturned' = HasReturned BY <2>3, StepGotThere
  <3> QED BY <1>4, <2>3, <3>1
 <2> QED BY <2>1, <2>2, <2>3
<1>7. /\ reset' = (Cur - 1) * num_t + Cardinality(HasReset)'
      /\ returned' = (Cur - 1) * num_t + Cardinality(HasReturned)'
  BY <1>2, <1>4, <1>5, <1>6, StepCounts DEF CountsExact
<1> QED BY <1>1, <1>7 DEF CountsExact

(***************************************************************************)
(* A thread that searches has begun the search with the others, and what   *)
(* it discovers gets the right distance.                                   *)
(***************************************************************************)
LEMMA Searches ==
  ASSUME IInv, NEW t \in Thread, mpc # "start", pc[t] \in InSearch \cup {"count"}
  PROVE  /\ last[t] = Cur /\ Cur > 0 /\ Begun
         /\ HasReset = Thread /\ DataSound /\ Walks(t) /\ Allocated
         /\ mpc \in {"lock", "test", "block", "wait"}
<1>1. LastOrBefore(t) /\ TypeOK /\ (mpc \in Quiet => HasReturned = Thread) BY DEF IInv, ControlInv
<1>2. Cur \in Nat /\ last[t] \in Nat BY <1>1, ThreadTypes DEF TypeOK
<1>3. last[t] = Cur /\ Cur > 0 BY <1>1, <1>2 DEF LastOrBefore, InSearch, Resting
<1>4. Begun BY <1>3 DEF Begun, Over
<1>5. HasReset = Thread /\ DataSound /\ Walks(t) /\ Allocated
  BY <1>4 DEF IInv, DataInv, Reset, Search
<1>6. mpc \notin Quiet BY <1>1 DEF HasReturned, InSearch, Resting
<1>7. mpc \in {"lock", "test", "block", "wait"} BY <1>1, <1>6 DEF TypeOK, MainLabels, Quiet
<1> QED BY <1>3, <1>4, <1>5, <1>7

LEMMA Discovery ==
  ASSUME IInv, NEW t \in Thread, mpc # "start", Discover(t)
  PROVE  \E v \in Vertex :
           /\ dist[v] = Unset /\ Delta[v] = Depth(t) + 1
           /\ dist' = [dist EXCEPT ![v] = Delta[v]]
<1>1. pc[t] = "level" BY DEF Discover
<1>2. /\ TypeOK /\ DataSound /\ curr[t] \in Nat \ {0} /\ LevelReady(Depth(t))
 <2>1. TypeOK /\ DataSound /\ Walks(t) BY <1>1, Searches DEF InSearch, IInv, ControlInv
 <2> QED BY SMTT(30), <1>1, <2>1 DEF Walks, TypeOK
<1>3. PICK u \in AtLevel(t) : \E w \in Neighbors(u) :
         dist[w] = Unset /\ dist' = [dist EXCEPT ![w] = Depth(t) + 1]
  BY DEF Discover
<1>4. PICK w \in Neighbors(u) :
         dist[w] = Unset /\ dist' = [dist EXCEPT ![w] = Depth(t) + 1]
  BY <1>3
<1>5. Depth(t) \in Nat BY <1>2 DEF Depth
<1>6. u \in Vertex /\ Delta[u] = Depth(t) /\ w \in Vertex
  BY <1>2, <1>3, <1>5, GraphTypes DEF AtLevel, DataSound, Unset
<1>7. Delta[w] \in 0 .. Depth(t) + 1 BY <1>4, <1>5, <1>6, DistanceAssumption DEF Unset
<1>8. Delta[w] \notin 0 .. Depth(t) BY <1>2, <1>4, <1>5, <1>6 DEF LevelReady, Unset
<1>9. Delta[w] = Depth(t) + 1 BY <1>5, <1>7, <1>8
<1> QED BY <1>4, <1>6, <1>9

LEMMA StepType ==
  ASSUME IInv, NEW t \in AnyThread, ThreadStep(t)
  PROVE  TypeOK' /\ OneHolder'
<1>0. TypeOK /\ OneHolder BY DEF IInv, ControlInv
<1>1. t \in Thread /\ mpc # "start" /\ t \in AnyThread BY StepFrame
<1>2. Begin(t) \in 0 .. N /\ End(t) \in 0 .. N /\ Share(t) \subseteq Vertex
  BY <1>0, <1>1, ShareBounds
<1>3. number' = number /\ mpc' = mpc /\ c' = c /\ i' = i BY StepFrame
<1> USE DEF Goto, countVars, lockVars, mainVars, threadVars, dataVars, levelVars
<1>4. mutex' \in SUBSET ({Main} \cup AnyThread) /\ OneHolder' /\ waiting' \subseteq {Main}
 <2>1. CASE LockMutex(t) BY <1>0, <2>1 DEF LockMutex, OneHolder, TypeOK
 <2>2. CASE Notify(t) BY <1>0, <2>2 DEF Notify, OneHolder, TypeOK
 <2>3. CASE ~LockMutex(t) /\ ~Notify(t)
  <3>1. mutex' = mutex /\ waiting' = waiting
    BY <2>3 DEF ThreadStep, Poll, FillDist, FillVis, SetSource, CountReset, Meet, TestNext, AddNode,
       Discover, MarkVisited, Advance, NoteTime, CountReturn
  <3> QED BY <1>0, <3>1 DEF OneHolder, TypeOK
 <2> QED BY <2>1, <2>2, <2>3
<1>5. Cardinality(mutex)' <= 1
 <2>1. mutex' = {} \/ \E x : mutex' = {x} BY <1>4 DEF OneHolder
 <2>2. Cardinality(mutex') \in {0, 1} BY <2>1, FS_EmptySet, FS_Singleton
 <2> QED BY <2>2
<1>6. reset' \in Nat /\ returned' \in Nat
 <2>1. reset \in Nat /\ returned \in Nat BY <1>0 DEF TypeOK
 <2>2. reset' \in {reset, reset + 1} /\ returned' \in {returned, returned + 1} BY StepCounts
 <2> QED BY <2>1, <2>2
<1>7. pc' \in [AnyThread -> Labels]
 <2> USE <1>0 DEF TypeOK, Labels
 <2>1. CASE Poll(t) \/ FillDist(t) \/ FillVis(t) \/ SetSource(t) \/ CountReset(t)
   BY <2>1 DEF Poll, FillDist, FillVis, SetSource, CountReset
 <2>2. CASE Meet(t) \/ TestNext(t) \/ AddNode(t) \/ Discover(t) \/ MarkVisited(t)
   BY <2>2 DEF Meet, TestNext, AddNode, Discover, MarkVisited
 <2>3. CASE Advance(t) \/ NoteTime(t) \/ CountReturn(t) \/ LockMutex(t) \/ Notify(t)
   BY <2>3 DEF Advance, NoteTime, CountReturn, LockMutex, Notify
 <2> QED BY <2>1, <2>2, <2>3 DEF ThreadStep
<1>8. /\ last' \in [AnyThread -> 0 .. Repetitions]
      /\ return_times' \in [AnyThread -> 0 .. Repetitions]
 <2>0. /\ last \in [AnyThread -> 0 .. Repetitions]
       /\ return_times \in [AnyThread -> 0 .. Repetitions]
       /\ number \in -1 .. Repetitions /\ Repetitions \in Nat
   BY <1>0, ControlAssumption DEF TypeOK
 <2>1. CASE Poll(t)
  <3>1. /\ last' = last \/ (number >= 0 /\ last' = [last EXCEPT ![t] = number])
        /\ return_times' = return_times
    BY <2>0, <2>1 DEF Poll
  <3> QED BY <2>0, <3>1
 <2>2. CASE NoteTime(t) BY <2>0, <2>2 DEF NoteTime
 <2>3. CASE ~Poll(t) /\ ~NoteTime(t)
  <3>1. last' = last /\ return_times' = return_times
    BY <2>3 DEF ThreadStep, FillDist, FillVis, SetSource, CountReset, Meet, TestNext, AddNode,
       Discover, MarkVisited, Advance, CountReturn, LockMutex, Notify
  <3> QED BY <2>0, <3>1
 <2> QED BY <2>1, <2>2, <2>3
<1>9. pos' \in [AnyThread -> 0 .. N]
 <2>0. pos \in [AnyThread -> 0 .. N] /\ N \in Nat BY <1>0, ControlAssumption DEF TypeOK
 <2>1. CASE Poll(t) BY <1>2, <2>0, <2>1 DEF Poll
 <2>2. CASE FillDist(t) \/ FillVis(t)
  <3>1. \/ pos' = pos
        \/ pos' = [pos EXCEPT ![t] = Begin(t)]
        \/ pos[t] < End(t) /\ pos' = [pos EXCEPT ![t] = pos[t] + 1]
    BY <2>2 DEF FillDist, FillVis
  <3>2. pos[t] < End(t) => pos[t] + 1 \in 0 .. N BY <1>1, <1>2, <2>0
  <3> QED BY <1>2, <2>0, <3>1, <3>2
 <2>3. CASE ~Poll(t) /\ ~FillDist(t) /\ ~FillVis(t)
  <3>1. pos' = pos
    BY <2>3 DEF ThreadStep, SetSource, CountReset, Meet, NoteTime, TestNext, AddNode, Discover,
       MarkVisited, Advance, CountReturn, LockMutex, Notify
  <3> QED BY <2>0, <3>1
 <2> QED BY <2>1, <2>2, <2>3
<1>10. curr' \in [AnyThread -> Nat]
 <2>0. curr \in [AnyThread -> Nat] BY <1>0 DEF TypeOK
 <2>1. curr' = curr \/ curr' = [curr EXCEPT ![t] = 1] \/ curr' = [curr EXCEPT ![t] = curr[t] + 1]
   BY DEF ThreadStep, Poll, FillDist, FillVis, SetSource, CountReset, Meet, NoteTime, TestNext,
      AddNode, Discover, MarkVisited, Advance, CountReturn, LockMutex, Notify
 <2>2. curr[t] + 1 \in Nat BY <1>1, <2>0
 <2> QED BY <2>0, <2>1, <2>2
<1>11. levels' \in Seq(Nat) /\ arena' \in Nat /\ spare_level' \in [AnyThread -> Nat]
 <2>0. levels \in Seq(Nat) /\ arena \in Nat /\ spare_level \in [AnyThread -> Nat] BY <1>0 DEF TypeOK
 <2>1. CASE Poll(t) BY <2>0, <2>1 DEF Poll, DropSpare, None
 <2>2. CASE AddNode(t)
  <3> DEFINE new == IF spare_level[t] = None THEN arena ELSE spare_level[t]
  <3>1. new \in Nat BY <1>1, <2>0
  <3>2. /\ levels' = Append(levels, new) \/ levels' = levels
        /\ \/ spare_level' = [spare_level EXCEPT ![t] = None]
           \/ spare_level' = [spare_level EXCEPT ![t] = new]
        /\ arena' = arena
   <4>1. CASE NextIsNull(t) BY <2>2, <4>1 DEF AddNode
   <4>2. CASE ~NextIsNull(t) BY <2>2, <4>2 DEF AddNode
   <4> QED BY <4>1, <4>2
  <3> HIDE DEF new
  <3>3. None \in Nat BY DEF None
  <3>4. levels' \in Seq(Nat)
   <4>1. Append(levels, new) \in Seq(Nat) BY <2>0, <3>1
   <4> QED BY <2>0, <3>2, <4>1
  <3>5. spare_level' \in [AnyThread -> Nat] BY <2>0, <3>1, <3>2, <3>3
  <3> QED BY <2>0, <3>2, <3>4, <3>5
 <2>3. CASE ~Poll(t) /\ ~AddNode(t)
  <3>1. levels' = levels /\ arena' = arena /\ spare_level' = spare_level
    BY <2>3 DEF ThreadStep, FillDist, FillVis, SetSource, CountReset, Meet, NoteTime, TestNext,
       Discover, MarkVisited, Advance, CountReturn, LockMutex, Notify
  <3> QED BY <2>0, <3>1
 <2> QED BY <2>1, <2>2, <2>3
<1>12. dist' \in [Vertex -> Unset .. MaxDelta]
 <2> USE <1>0 DEF TypeOK
 <2>0. Unset \in Unset .. MaxDelta /\ 0 \in Unset .. MaxDelta BY GraphAssumption DEF Unset
 <2>1. CASE FillDist(t) BY <2>0, <2>1 DEF FillDist
 <2>2. CASE SetSource(t) BY <2>0, <2>2 DEF SetSource
 <2>3. CASE Discover(t) BY <1>1, <2>3, Discovery, DistanceAssumption
 <2>4. CASE ~FillDist(t) /\ ~SetSource(t) /\ ~Discover(t)
  <3>1. dist' = dist
    BY <2>4 DEF ThreadStep, Poll, FillVis, CountReset, Meet, NoteTime, TestNext, AddNode,
       MarkVisited, Advance, CountReturn, LockMutex, Notify
  <3> QED BY <3>1
 <2> QED BY <2>1, <2>2, <2>3, <2>4
<1>13. vis' \in [Vertex -> BOOLEAN]
 <2> USE <1>0 DEF TypeOK
 <2>1. CASE FillVis(t) BY <2>1 DEF FillVis
 <2>2. CASE MarkVisited(t) BY <2>2 DEF MarkVisited
 <2>3. CASE ~FillVis(t) /\ ~MarkVisited(t)
  <3>1. vis' = vis
    BY <2>3 DEF ThreadStep, Poll, FillDist, SetSource, CountReset, Meet, NoteTime, TestNext,
       AddNode, Discover, Advance, CountReturn, LockMutex, Notify
  <3> QED BY <3>1
 <2> QED BY <2>1, <2>2, <2>3
<1> QED BY <1>0, <1>3, <1>4, <1>5, <1>6, <1>7, <1>8, <1>9, <1>10, <1>11, <1>12, <1>13 DEF TypeOK

LEMMA StepControl ==
  ASSUME IInv, NEW t \in AnyThread, ThreadStep(t)
  PROVE  ControlInv'
<1>1. /\ t \in Thread /\ mpc # "start" /\ mpc' = mpc /\ Cur' = Cur /\ Thread' = Thread
      /\ number' = number
      /\ \A s \in AnyThread \ {t} : pc'[s] = pc[s]
  BY StepFrame
<1>2. ThreadsThere'
 <2>1. pc'[t] # "none" BY StepMoves DEF Resetting, InSearch, Resting
 <2> QED BY <1>1, <2>1, ThreadTypes DEF IInv, ControlInv, ThreadsThere
<1>3. number' = IF mpc' \in {"join", "output"} THEN -1 ELSE Cur' BY <1>1 DEF IInv, ControlInv
<1>4. mpc \in Quiet => HasReturned' = Thread
 <2>1. mpc \in Quiet => pc[t] # "count" BY <1>1 DEF IInv, ControlInv, HasReturned, Resting
 <2> QED BY <1>1, <2>1, StepGotThere DEF IInv, ControlInv
<1> QED BY <1>1, <1>2, <1>3, <1>4, StepType, StepLast, StepCountsExact DEF ControlInv

(***************************************************************************)
(* A search begins when the first thread has met the others, and a thread  *)
(* that resets its share does so before.                                   *)
(***************************************************************************)
LEMMA StepBegun ==
  ASSUME IInv, NEW t \in AnyThread, ThreadStep(t)
  PROVE  /\ Begun' <=> Begun \/ pc[t] = "meet"
         /\ last'[t] = Cur => (pc[t] = "poll" /\ pc'[t] = "dist") \/ last[t] = Cur
         /\ pc[t] \in Resetting => ~Begun
         /\ pc[t] = "poll" /\ pc'[t] = "dist" => ~Begun
         /\ pc[t] = "poll" /\ pc'[t] = "exited" => Begun
<1>1. /\ t \in Thread /\ mpc # "start" /\ Cur' = Cur /\ Thread' = Thread /\ TypeOK
      /\ \A s \in Thread \ {t} : pc'[s] = pc[s] /\ last'[s] = last[s]
  BY StepFrame, ThreadTypes DEF IInv, ControlInv
<1>2. LastOrBefore(t) /\ Cur \in Nat /\ last[t] \in Nat
  BY <1>1, ThreadTypes DEF IInv, ControlInv, TypeOK
<1>3. number = IF mpc \in {"join", "output"} THEN -1 ELSE Cur BY <1>1 DEF IInv, ControlInv
<1>4. Begun => HasReset = Thread BY <1>1 DEF IInv, DataInv, Reset
<1>5. pc[t] \in Resetting => ~Begun BY <1>1, <1>4 DEF HasReset
<1>6. pc[t] = "poll" /\ pc'[t] = "dist" => ~Begun /\ last[t] # Cur
 <2>1. pc[t] = "poll" /\ pc'[t] = "dist" => number >= 0 /\ number # last[t]
   BY StepMoves DEF Resetting, InSearch, Resting
 <2>2. pc[t] = "poll" /\ pc'[t] = "dist" => last[t] # Cur BY <1>2, <1>3, <2>1
 <2> QED BY <1>1, <1>4, <2>2 DEF HasReset
<1>7. pc[t] = "poll" /\ pc'[t] = "exited" => Begun
 <2> SUFFICES ASSUME pc[t] = "poll", pc'[t] = "exited" PROVE Begun OBVIOUS
 <2>1. number < 0 BY StepMoves DEF Resetting, InSearch, Resting
 <2>2. mpc \in {"join", "output"} BY <1>2, <1>3, <2>1
 <2>3. HasReturned = Thread BY <1>1, <2>2 DEF IInv, ControlInv, Quiet
 <2>4. Cur > 0
  <3>1. i \in 1 .. Repetitions /\ Repetitions \in Nat BY <1>1, ControlAssumption DEF TypeOK
  <3> QED BY <2>2, <3>1 DEF Cur
 <2>5. t \in HasReturned BY <1>1, <2>3
 <2>6. last[t] = Cur /\ pc[t] \in Over BY <2>5 DEF HasReturned, Over, Resting
 <2> QED BY <1>1, <2>4, <2>6 DEF Begun
<1>8. last'[t] = Cur => (pc[t] = "poll" /\ pc'[t] = "dist") \/ last[t] = Cur BY <1>1, StepMoves
<1>9. pc[t] \in InSearch \cup Over \cup {"meet"} /\ last[t] = Cur /\ ~(pc[t] = "poll" /\ pc'[t] = "dist")
        => pc'[t] \in InSearch \cup Over /\ last'[t] = Cur
  BY <1>1, StepMoves DEF Resetting, InSearch, Resting, Over
<1>10. pc'[t] \in InSearch \cup Over => pc[t] \in InSearch \cup Over \cup {"meet"}
  BY <1>1, StepMoves DEF Resetting, InSearch, Resting, Over
<1>11. pc[t] = "meet" => last[t] = Cur /\ Cur > 0 BY <1>1, <1>2 DEF LastOrBefore, Resting
<1>12. Begun \/ pc[t] = "meet" => Begun'
 <2>1. CASE pc[t] = "meet"
  <3>1. pc'[t] \in InSearch \cup Over /\ last'[t] = Cur BY <1>9, <1>11, <2>1
  <3> QED BY <1>1, <1>11, <2>1, <3>1 DEF Begun
 <2>2. CASE Begun
  <3>1. Cur > 0 BY <2>2 DEF Begun
  <3>2. PICK s \in Thread : last[s] = Cur /\ pc[s] \in InSearch \cup Over BY <2>2 DEF Begun
  <3>3. last'[s] = Cur /\ pc'[s] \in InSearch \cup Over BY <1>1, <1>6, <1>9, <2>2, <3>2
  <3> QED BY <1>1, <3>1, <3>3 DEF Begun
 <2> QED BY <2>1, <2>2
<1>13. Begun' => Begun \/ pc[t] = "meet"
 <2> SUFFICES ASSUME Begun' PROVE Begun \/ pc[t] = "meet" OBVIOUS
 <2>1. PICK s \in Thread : last'[s] = Cur /\ pc'[s] \in InSearch \cup Over BY <1>1 DEF Begun
 <2>2. Cur > 0 BY <1>1 DEF Begun
 <2>3. CASE s = t
  <3>1. pc'[t] # "dist" BY <2>1, <2>3 DEF InSearch, Over, Resting
  <3> QED BY <1>1, <1>8, <1>10, <2>1, <2>2, <2>3, <3>1 DEF Begun
 <2>4. CASE s # t BY <1>1, <2>1, <2>2, <2>4 DEF Begun
 <2> QED BY <2>3, <2>4
<1> QED BY <1>5, <1>6, <1>7, <1>8, <1>12, <1>13

(***************************************************************************)
(* Before a search begins a thread writes its own share only.              *)
(***************************************************************************)
LEMMA StepOwnShare ==
  ASSUME IInv, NEW t \in AnyThread, ThreadStep(t), ~Begun
  PROVE  \A v \in Vertex \ Share(t) : dist'[v] = dist[v] /\ vis'[v] = vis[v]
<1>1. t \in Thread /\ mpc # "start" /\ TypeOK BY StepFrame DEF IInv, ControlInv
<1>2. LastOrBefore(t) /\ Cur \in Nat /\ last[t] \in Nat
  BY <1>1, ThreadTypes DEF IInv, ControlInv, TypeOK
<1>3. Begin(t) \in 0 .. N /\ End(t) \in 0 .. N /\ Share(t) \subseteq Vertex BY <1>1, ShareBounds
<1>4. pc[t] \notin InSearch BY <1>1, Searches
<1>5. pc[t] \in {"dist", "vis"} => pos[t] \in Begin(t) .. End(t)
 <2> SUFFICES ASSUME pc[t] \in {"dist", "vis"} PROVE pos[t] \in Begin(t) .. End(t) OBVIOUS
 <2>1. last[t] = Cur BY <1>2 DEF LastOrBefore, Resting
 <2>2. ResetSoFar(t) BY <1>1, <2>1 DEF IInv, DataInv, Reset
 <2> QED BY <2>2 DEF ResetSoFar
<1>6. dist \in [Vertex -> Unset .. MaxDelta] /\ vis \in [Vertex -> BOOLEAN] BY <1>1 DEF TypeOK
<1>7. CASE FillDist(t)
 <2>1. pc[t] = "dist" /\ vis' = vis
       /\ (dist' = dist \/ (pos[t] < End(t) /\ dist' = [dist EXCEPT ![pos[t]] = Unset]))
   BY <1>7 DEF FillDist
 <2>2. pos[t] < End(t) => pos[t] \in Share(t) BY <1>3, <1>5, <2>1 DEF Share
 <2> QED BY <1>6, <2>1, <2>2
<1>8. CASE FillVis(t)
 <2>1. pc[t] = "vis" /\ dist' = dist
       /\ (vis' = vis \/ (pos[t] < End(t) /\ vis' = [vis EXCEPT ![pos[t]] = FALSE]))
   BY <1>8 DEF FillVis
 <2>2. pos[t] < End(t) => pos[t] \in Share(t) BY <1>3, <1>5, <2>1 DEF Share
 <2> QED BY <1>6, <2>1, <2>2
<1>9. CASE SetSource(t)
 <2>1. vis' = vis /\ (dist' = dist \/ (Begin(t) <= Root /\ Root < End(t) /\ dist' = [dist EXCEPT ![Root] = 0]))
   BY <1>9 DEF SetSource
 <2>2. Begin(t) <= Root /\ Root < End(t) => Root \in Share(t)
   BY <1>3, ControlAssumption, GraphAssumption DEF Share
 <2> QED BY <1>6, <2>1, <2>2
<1>10. CASE ~FillDist(t) /\ ~FillVis(t) /\ ~SetSource(t)
 <2>1. dist' = dist /\ vis' = vis
   BY <1>4, <1>10 DEF ThreadStep, Poll, CountReset, Meet, NoteTime, TestNext, AddNode, Discover,
      MarkVisited, Advance, CountReturn, LockMutex, Notify, InSearch, dataVars
 <2> QED BY <2>1
<1> QED BY <1>7, <1>8, <1>9, <1>10

LEMMA StepResetSoFar ==
  ASSUME IInv, NEW t \in AnyThread, ThreadStep(t), ~Begun, pc[t] # "meet",
         last'[t] = Cur
  PROVE  ResetSoFar(t)'
<1>1. /\ t \in Thread /\ mpc # "start" /\ TypeOK
      /\ Begin(t)' = Begin(t) /\ End(t)' = End(t)
  BY StepFrame DEF IInv, ControlInv
<1>2. LastOrBefore(t) /\ Cur \in Nat /\ last[t] \in Nat
  BY <1>1, ThreadTypes DEF IInv, ControlInv, TypeOK
<1>3. /\ Begin(t) \in 0 .. N /\ End(t) \in 0 .. N /\ Begin(t) <= End(t)
      /\ Share(t) \subseteq Vertex /\ Share(t)' = Share(t)
  BY <1>1, ShareBounds DEF Share
<1>4. /\ dist \in [Vertex -> Unset .. MaxDelta] /\ vis \in [Vertex -> BOOLEAN]
      /\ pos \in [AnyThread -> 0 .. N] /\ pc \in [AnyThread -> Labels]
  BY <1>1 DEF TypeOK
<1>5. pc[t] \notin InSearch \cup {"count"} BY <1>1, Searches
<1>6. pc[t] \in Resetting => ResetSoFar(t)
 <2>1. pc[t] \in Resetting => last[t] = Cur BY <1>2 DEF LastOrBefore, Resting, Resetting
 <2> QED BY <1>1, <2>1 DEF IInv, DataInv, Reset
<1>7. CASE Poll(t)
 <2>1. pc'[t] # "exited" BY <1>7, StepBegun DEF Poll
 <2>2. pos'[t] = Begin(t) /\ pc'[t] = "dist" BY <1>1, <1>4, <1>7, <2>1 DEF Poll, Goto
 <2>3. Begin(t) .. Begin(t) - 1 = {} BY <1>3
 <2> QED BY <1>1, <1>3, <2>2, <2>3 DEF ResetSoFar
<1>8. CASE FillDist(t)
 <2>1. pc[t] = "dist" /\ ResetSoFar(t) BY <1>6, <1>8 DEF FillDist, Resetting
 <2>2. pos[t] \in Begin(t) .. End(t) /\ \A v \in Begin(t) .. pos[t] - 1 : dist[v] = Unset
   BY <2>1 DEF ResetSoFar
 <2>3. CASE pos[t] < End(t)
  <3>1. /\ pc'[t] = "dist" /\ pos'[t] = pos[t] + 1
        /\ dist' = [dist EXCEPT ![pos[t]] = Unset]
    BY <1>1, <1>4, <1>8, <2>1, <2>3 DEF FillDist
  <3>2. pos[t] \in Vertex BY <1>3, <2>2, <2>3, ControlAssumption
  <3>3. \A v \in Begin(t) .. pos[t] : dist'[v] = Unset
   <4> TAKE v \in Begin(t) .. pos[t]
   <4>1. v \in Share(t) /\ v \in Vertex BY <1>3, <2>2, <2>3 DEF Share
   <4>2. v # pos[t] => v \in Begin(t) .. pos[t] - 1 BY <1>3, <2>2
   <4> QED BY <1>4, <2>2, <3>1, <4>1, <4>2
  <3>4. pos[t] + 1 \in Begin(t) .. End(t) /\ pos[t] + 1 - 1 = pos[t] BY <1>3, <2>2, <2>3
  <3>5. \A v \in Begin(t)' .. pos'[t] - 1 : dist'[v] = Unset
   <4>1. pos'[t] - 1 = pos[t] /\ Begin(t)' = Begin(t) BY <1>1, <1>3, <2>2, <3>1
   <4> QED BY <3>3, <4>1, Zenon
  <3>6. pos'[t] \in Begin(t)' .. End(t)' BY <1>1, <3>1, <3>4
  <3> QED BY <3>1, <3>5, <3>6 DEF ResetSoFar
 <2>4. CASE ~(pos[t] < End(t))
  <3>1. pc'[t] = "vis" /\ pos'[t] = Begin(t) /\ dist' = dist
    BY <1>1, <1>4, <1>8, <2>1, <2>4 DEF FillDist, Goto
  <3>2. pos[t] = End(t) BY <1>3, <2>2, <2>4
  <3>3. \A v \in Share(t) : dist'[v] = Unset BY <2>2, <3>1, <3>2 DEF Share
  <3>4. Begin(t) .. Begin(t) - 1 = {} /\ Begin(t) \in Begin(t) .. End(t) BY <1>3
  <3> QED BY <1>1, <1>3, <3>1, <3>3, <3>4 DEF ResetSoFar
 <2> QED BY <2>3, <2>4
<1>9. CASE FillVis(t)
 <2>1. pc[t] = "vis" /\ ResetSoFar(t) /\ dist' = dist BY <1>6, <1>9 DEF FillVis, Resetting
 <2>2. /\ pos[t] \in Begin(t) .. End(t) /\ \A v \in Begin(t) .. pos[t] - 1 : ~vis[v]
       /\ \A v \in Share(t) : dist'[v] = Unset
   BY <2>1 DEF ResetSoFar
 <2>3. CASE pos[t] < End(t)
  <3>1. /\ pc'[t] = "vis" /\ pos'[t] = pos[t] + 1
        /\ vis' = [vis EXCEPT ![pos[t]] = FALSE]
    BY <1>1, <1>4, <1>9, <2>1, <2>3 DEF FillVis
  <3>2. pos[t] \in Vertex BY <1>3, <2>2, <2>3, ControlAssumption
  <3>3. \A v \in Begin(t) .. pos[t] : ~vis'[v]
   <4> TAKE v \in Begin(t) .. pos[t]
   <4>1. v \in Share(t) /\ v \in Vertex BY <1>3, <2>2, <2>3 DEF Share
   <4>2. v # pos[t] => v \in Begin(t) .. pos[t] - 1 BY <1>3, <2>2
   <4> QED BY <1>4, <2>2, <3>1, <4>1, <4>2
  <3>4. pos[t] + 1 \in Begin(t) .. End(t) /\ pos[t] + 1 - 1 = pos[t] BY <1>3, <2>2, <2>3
  <3>5. \A v \in Begin(t)' .. pos'[t] - 1 : ~vis'[v]
   <4>1. pos'[t] - 1 = pos[t] /\ Begin(t)' = Begin(t) BY <1>1, <1>3, <2>2, <3>1
   <4> QED BY <3>3, <4>1, Zenon
  <3>6. pos'[t] \in Begin(t)' .. End(t)' BY <1>1, <3>1, <3>4
  <3> QED BY <1>3, <2>2, <3>1, <3>5, <3>6 DEF ResetSoFar
 <2>4. CASE ~(pos[t] < End(t))
  <3>1. pc'[t] = "source" /\ vis' = vis BY <1>1, <1>4, <1>9, <2>1, <2>4 DEF FillVis, Goto
  <3>2. pos[t] = End(t) BY <1>3, <2>2, <2>4
  <3>3. \A v \in Share(t) : ~vis'[v] BY <2>2, <3>1, <3>2 DEF Share
  <3> QED BY <1>1, <1>3, <2>2, <3>1, <3>3 DEF ResetSoFar
 <2> QED BY <2>3, <2>4
<1>10. CASE SetSource(t)
 <2>1. pc[t] = "source" /\ ResetSoFar(t) /\ vis' = vis /\ pc'[t] = "reset"
   BY <1>1, <1>4, <1>6, <1>10 DEF SetSource, Resetting, Goto
 <2>2. \A v \in Share(t) : dist[v] = Unset /\ ~vis[v] BY <2>1 DEF ResetSoFar
 <2>3. Begin(t) <= Root /\ Root < End(t) <=> Root \in Share(t)
   BY <1>3, ControlAssumption, GraphAssumption DEF Share
 <2>4. \A v \in Share(t) : dist'[v] = IF v = Root THEN 0 ELSE Unset
  <3>1. CASE Root \in Share(t) BY <1>3, <1>4, <1>10, <2>2, <2>3, <3>1 DEF SetSource
  <3>2. CASE Root \notin Share(t) BY <1>3, <1>4, <1>10, <2>2, <2>3, <3>2 DEF SetSource
  <3> QED BY <3>1, <3>2
 <2>5. \A v \in Share(t)' : Fresh(v)' BY <1>3, <2>1, <2>2, <2>4 DEF Fresh
 <2> QED BY <2>1, <2>5 DEF ResetSoFar
<1>11. CASE CountReset(t)
 <2>1. pc[t] = "reset" /\ ResetSoFar(t) /\ vis' = vis /\ dist' = dist /\ pc'[t] = "meet"
   BY <1>1, <1>4, <1>6, <1>11 DEF CountReset, Resetting, Goto, dataVars
 <2>2. \A v \in Share(t)' : Fresh(v)' BY <1>3, <2>1 DEF ResetSoFar, Fresh
 <2> QED BY <2>1, <2>2 DEF ResetSoFar
<1>12. CASE LockMutex(t) \/ Notify(t)
 <2>1. pc'[t] \in Resting BY <1>1, <1>4, <1>12 DEF LockMutex, Notify, Goto, Resting
 <2> QED BY <2>1 DEF ResetSoFar, Resting
<1> QED
  BY <1>5, <1>7, <1>8, <1>9, <1>10, <1>11, <1>12 DEF ThreadStep, Meet, NoteTime, TestNext, AddNode,
     Discover, MarkVisited, Advance, CountReturn, InSearch

LEMMA StepReset ==
  ASSUME IInv, NEW t \in AnyThread, ThreadStep(t)
  PROVE  Reset'
<1>1. /\ t \in Thread /\ mpc # "start" /\ Cur' = Cur /\ Thread' = Thread /\ TypeOK
      /\ \A s \in Thread \ {t} : /\ pc'[s] = pc[s] /\ last'[s] = last[s]
                                 /\ pos'[s] = pos[s]
      /\ \A s \in Thread : Begin(s)' = Begin(s) /\ End(s)' = End(s)
  BY StepFrame, ThreadTypes DEF IInv, ControlInv
<1>2. CASE Begun BY <1>1, <1>2, StepBegun, StepGotThere DEF IInv, DataInv, Reset
<1>3. CASE pc[t] = "meet"
 <2>1. AllReset(t) /\ last[t] = Cur
  <3>1. LastOrBefore(t) BY <1>1 DEF IInv, ControlInv
  <3> QED BY <1>1, <1>3, <3>1, StepMoves DEF LastOrBefore, Resting, Resetting, InSearch
 <2>2. HasReset \in SUBSET Thread /\ reset = (Cur - 1) * num_t + Cardinality(HasReset)
   BY <1>1 DEF HasReset, IInv, ControlInv, CountsExact
 <2>3. num_t \in Nat /\ Cur \in Nat /\ Cardinality(HasReset) \in 0 .. num_t
   BY <1>1, <2>2, ThreadTypes, Counted
 <2>4. (Cur - 1) * num_t \in Int /\ Cur * num_t = (Cur - 1) * num_t + num_t BY <2>3
 <2>5. Cardinality(HasReset) = num_t BY <2>1, <2>2, <2>3, <2>4 DEF AllReset
 <2>6. HasReset = Thread BY <1>1, <2>2, <2>5, Counted
 <2> QED BY <1>1, <1>3, <2>6, StepBegun, StepGotThere DEF Reset
<1>4. CASE ~Begun /\ pc[t] # "meet"
 <2>1. ASSUME NEW s \in Thread, last'[s] = Cur PROVE ResetSoFar(s)'
  <3>1. CASE s = t BY <1>4, <2>1, <3>1, StepResetSoFar
  <3>2. CASE s # t
   <4>1. ResetSoFar(s) BY <1>1, <1>4, <2>1, <3>2 DEF IInv, DataInv, Reset
   <4>2. /\ Share(s) \cap Share(t) = {} /\ Share(s) \subseteq Vertex
         /\ Begin(s) \in Int /\ End(s) \in Int
     BY <1>1, <3>2, SharesApart, ShareBounds
   <4>3. \A v \in Share(s) : dist'[v] = dist[v] /\ vis'[v] = vis[v] BY <1>4, <4>2, StepOwnShare
   <4>4. Share(s)' = Share(s) /\ Begin(s)' = Begin(s) /\ End(s)' = End(s)
         /\ pos'[s] = pos[s] /\ pc'[s] = pc[s]
     BY <1>1, <3>2 DEF Share
   <4>5. pos[s] \in Begin(s) .. End(s) => Begin(s) .. pos[s] - 1 \subseteq Share(s)
     BY <4>2 DEF Share
   <4> QED BY <4>1, <4>3, <4>4, <4>5 DEF ResetSoFar, Fresh
  <3> QED BY <3>1, <3>2
 <2> QED BY <1>1, <1>4, <2>1, StepBegun DEF Reset
<1> QED BY <1>2, <1>3, <1>4

(***************************************************************************)
(* What the search starts from is what every share was reset to.           *)
(***************************************************************************)
LEMMA AllFresh ==
  ASSUME IInv, mpc # "start", ~Begun, HasReset = Thread, Cur > 0
  PROVE  \A v \in Vertex : Fresh(v)
<1>1. TypeOK BY DEF IInv, ControlInv
<1>2. ASSUME NEW s \in Thread PROVE \A v \in Share(s) : Fresh(v)
 <2>1. last[s] = Cur /\ pc[s] \notin Resetting BY <1>2 DEF HasReset
 <2>2. pc[s] \notin InSearch \cup Over BY <1>2, <2>1 DEF Begun
 <2>3. pc[s] \in Labels /\ pc[s] # "none"
   BY <1>1, <1>2, ThreadTypes DEF TypeOK, IInv, ControlInv, ThreadsThere
 <2>4. pc[s] = "meet" BY <2>1, <2>2, <2>3 DEF Labels, Resetting, InSearch, Over, Resting
 <2>5. ResetSoFar(s) BY <1>2, <2>1 DEF IInv, DataInv, Reset
 <2> QED BY <2>4, <2>5 DEF ResetSoFar
<1> QED BY <1>1, <1>2, SharesCover

LEMMA FreshSound ==
  ASSUME \A v \in Vertex : Fresh(v)
  PROVE  DataSound /\ LevelReady(0)
<1>1. Root \in Vertex /\ Delta[Root] = 0 /\ \A v \in Vertex : Delta[v] = 0 <=> v = Root
  BY GraphAssumption, DistanceAssumption
<1>2. \A v \in Vertex : (v = Root => dist[v] = 0) /\ (v # Root => dist[v] = Unset) /\ ~vis[v]
  BY DEF Fresh
<1>3. DataSound BY <1>1, <1>2 DEF DataSound
<1>4. \A v \in Vertex : Delta[v] \in 0 .. 0 => v = Root BY <1>1
<1> QED BY <1>1, <1>2, <1>3, <1>4 DEF LevelReady

(***************************************************************************)
(* From a level that is done, its successor has all its vertices.          *)
(***************************************************************************)
LEMMA LevelAfter ==
  ASSUME DataSound, NEW d \in Nat, LevelReady(d),
         \A u \in Vertex : dist[u] = d => vis[u]
  PROVE  LevelReady(d + 1)
<1> SUFFICES ASSUME NEW v \in Vertex, Delta[v] \in 0 .. d + 1 PROVE dist[v] = Delta[v]
  BY DEF LevelReady
<1>1. CASE Delta[v] \in 0 .. d BY <1>1 DEF LevelReady
<1>2. CASE Delta[v] = d + 1
 <2>1. PICK u \in Vertex : Delta[u] = Delta[v] - 1 /\ v \in Neighbors(u) BY <1>2, DistanceAssumption
 <2>2. Delta[u] = d /\ d \in 0 .. d BY <1>2, <2>1
 <2>3. dist[u] = d BY <2>1, <2>2 DEF LevelReady
 <2>4. Covered(u) BY <2>1, <2>3 DEF DataSound
 <2> QED BY <2>1, <2>4 DEF DataSound, Covered
<1>3. Delta[v] \in 0 .. d \/ Delta[v] = d + 1 BY GraphTypes
<1> QED BY <1>1, <1>2, <1>3

(***************************************************************************)
(* At an empty level everything has been found.                            *)
(***************************************************************************)
LEMMA LastLevel ==
  ASSUME TypeOK, DataSound, NEW d \in Nat, LevelReady(d),
         \A u \in Vertex : dist[u] # d
  PROVE  dist = Delta
<1>1. Level(d) = {}
 <2> SUFFICES ASSUME NEW v \in Vertex, Delta[v] = d PROVE FALSE BY DEF Level
 <2> QED BY DEF LevelReady
<1>2. \A v \in Vertex : Delta[v] < d BY <1>1, NothingBeyond
<1>3. \A v \in Vertex : dist[v] = Delta[v]
 <2> TAKE v \in Vertex
 <2>1. Delta[v] \in Int /\ Delta[v] >= -1 /\ Delta[v] < d BY <1>2, GraphTypes
 <2>2. CASE Delta[v] >= 0 BY <2>1, <2>2 DEF LevelReady
 <2>3. CASE Delta[v] = -1 BY <2>3 DEF DataSound, Unset
 <2> QED BY <2>1, <2>2, <2>3
<1>4. dist \in [Vertex -> Unset .. MaxDelta] /\ Delta \in [Vertex -> Unset .. MaxDelta]
  BY DistanceAssumption DEF TypeOK
<1> QED BY <1>3, <1>4

(***************************************************************************)
(* When the distances of a sound search only grow, so do the levels that   *)
(* are ready.                                                              *)
(***************************************************************************)
LEMMA StepSearch ==
  ASSUME IInv, NEW t \in AnyThread, ThreadStep(t)
  PROVE  Search'
<1> SUFFICES ASSUME Begun' PROVE DataSound' /\ \A s \in Thread' : Walks(s)' BY DEF Search
<1>1. /\ t \in Thread /\ mpc # "start" /\ mpc' = mpc /\ Cur' = Cur /\ Thread' = Thread
      /\ TypeOK
      /\ \A s \in Thread \ {t} : /\ pc'[s] = pc[s] /\ last'[s] = last[s]
                                 /\ curr'[s] = curr[s]
  BY StepFrame, ThreadTypes DEF IInv, ControlInv
<1>2. t \in AnyThread /\ pc \in [AnyThread -> Labels] /\ last \in [AnyThread -> 0 .. Repetitions]
      /\ curr \in [AnyThread -> Nat] /\ levels \in Seq(Nat)
      /\ dist \in [Vertex -> Unset .. MaxDelta] /\ vis \in [Vertex -> BOOLEAN]
  BY <1>1 DEF TypeOK
<1>3. Begun => DataSound /\ \A s \in Thread : Walks(s) BY <1>1 DEF IInv, DataInv, Search
<1> DEFINE Same == dist' = dist /\ vis' = vis
<1>4. ASSUME Same, DataSound PROVE DataSound' /\ \A d : LevelReady(d) => LevelReady(d)'
  BY <1>4 DEF DataSound, LevelReady, Covered
<1>5. ASSUME Same, Begun, NEW s \in Thread, s # t,
             \/ levels' = levels
             \/ levels' \in Seq(Nat) /\ Len(levels') = Len(levels) + 1
      PROVE  Walks(s)'
 <2>1. Walks(s) /\ pc'[s] = pc[s] /\ last'[s] = last[s] /\ curr'[s] = curr[s] BY <1>1, <1>3, <1>5
 <2>2. LevelReady(Depth(s)) => LevelReady(Depth(s))' BY <1>3, <1>5, <2>1 DEF Depth, LevelReady
 <2>3. curr[s] \in 1 .. Len(levels) => curr'[s] \in 1 .. Len(levels')
  <3>1. Len(levels) \in Nat BY <1>2
  <3> QED BY <1>5, <2>1, <3>1
 <2> QED BY <1>1, <1>5, <2>1, <2>2, <2>3 DEF Walks
<1> USE DEF Goto, dataVars, levelVars, threadVars
<1>6. CASE pc[t] \in Resetting BY <1>6, StepBegun DEF Resetting
<1>7. CASE Poll(t)
 <2>1. Begun /\ pc'[t] = "exited" /\ last'[t] = last[t]
  <3>1. pc[t] = "poll" /\ (pc'[t] = "dist" \/ (pc'[t] = "exited" /\ last'[t] = last[t]))
    BY <1>2, <1>7 DEF Poll
  <3> QED BY <3>1, StepBegun
 <2>2. Same /\ levels' = levels /\ pc[t] = "poll" BY <1>7 DEF Poll
 <2>3. Walks(t)'
  <3>1. Walks(t) /\ pc[t] \in Over BY <1>1, <1>3, <2>1, <2>2 DEF Over, Resting
  <3> QED BY <1>1, <2>1, <2>2, <3>1 DEF Walks
 <2> QED BY <1>1, <1>3, <1>4, <1>5, <2>1, <2>2, <2>3
<1>8. CASE Meet(t)
 <2>1. /\ Same /\ levels' = levels /\ pc[t] = "meet" /\ pc'[t] = "level"
       /\ curr'[t] = 1
   BY <1>2, <1>8 DEF Meet
 <2>2. levels # <<>>
  <3>1. last[t] = Cur BY <1>1, <2>1 DEF IInv, ControlInv, LastOrBefore, Resting
  <3>2. mpc \notin Quiet BY <1>1, <2>1 DEF IInv, ControlInv, HasReturned, Resting
  <3>3. mpc \in {"lock", "test", "block", "wait"} BY <1>1, <3>2 DEF TypeOK, MainLabels, Quiet
  <3> QED BY <1>1, <3>3 DEF IInv, DataInv, Allocated
 <2>3. 1 \in 1 .. Len(levels) BY <1>2, <2>2
 <2>4. DataSound /\ LevelReady(0)
  <3>1. CASE Begun
   <4>1. DataSound BY <1>3, <3>1
   <4>2. \A v \in Vertex : Delta[v] \in 0 .. 0 => v = Root BY DistanceAssumption
   <4> QED BY <4>1, <4>2, DistanceAssumption, GraphAssumption DEF DataSound, LevelReady
  <3>2. CASE ~Begun
   <4>1. HasReset' = Thread /\ HasReset' = HasReset BY <1>1, <2>1, StepReset, StepGotThere DEF Reset
   <4>2. Cur > 0 BY <1>1 DEF Begun
   <4> QED BY <1>1, <3>2, <4>1, <4>2, AllFresh, FreshSound
  <3> QED BY <3>1, <3>2
 <2>5. Walks(t)'
  <3>1. Depth(t)' = 0 BY <2>1 DEF Depth
  <3>2. LevelReady(0)' BY <1>4, <2>1, <2>4
  <3> QED BY <2>1, <2>3, <3>1, <3>2 DEF Walks, Over, Resting
 <2>6. ASSUME NEW s \in Thread, s # t PROVE Walks(s)'
  <3>1. CASE Begun BY <1>5, <2>1, <2>6, <3>1
  <3>2. CASE ~Begun
   <4>1. Cur > 0 BY <1>1 DEF Begun
   <4>2. ~(last[s] = Cur /\ pc[s] \in InSearch \cup Over) BY <2>6, <3>2, <4>1 DEF Begun
   <4>3. pc[s] \in InSearch => last[s] = Cur BY <1>1, <2>6, Searches
   <4> QED BY <1>1, <2>6, <4>2, <4>3 DEF Walks, InSearch
  <3> QED BY <3>1, <3>2
 <2> QED BY <1>1, <1>4, <2>1, <2>4, <2>5, <2>6
<1>9. ASSUME pc[t] \in InSearch \cup {"count"}
      PROVE  /\ Begun /\ DataSound /\ Walks(t) /\ last[t] = Cur
             /\ pc[t] \in {"level", "link"} =>
                  curr[t] \in 1 .. Len(levels) /\ Depth(t) \in Nat /\ LevelReady(Depth(t))
 <2>1. Begun /\ DataSound /\ Walks(t) /\ last[t] = Cur BY <1>1, <1>9, Searches
 <2> QED BY <1>2, <2>1 DEF Walks, Depth
<1>10. CASE TestNext(t)
 <2>1. /\ Same /\ levels' = levels /\ pc[t] = "level" /\ pc'[t] = "link"
       /\ curr'[t] = curr[t]
   BY <1>2, <1>10 DEF TestNext
 <2>2. Begun /\ DataSound /\ Walks(t) BY <1>9, <2>1 DEF InSearch
 <2>3. Walks(t)' BY <1>4, <1>9, <2>1, <2>2 DEF Walks, Over, Resting, InSearch, Depth
 <2> QED BY <1>1, <1>4, <1>5, <2>1, <2>2, <2>3
<1>11. CASE AddNode(t)
 <2>1. /\ Same /\ pc[t] = "link" /\ pc'[t] = "level" /\ curr'[t] = curr[t]
   BY <1>2, <1>11 DEF AddNode
 <2>2. \/ levels' = levels
       \/ levels' \in Seq(Nat) /\ Len(levels') = Len(levels) + 1
  <3>1. levels' \in Seq(Nat) BY StepType DEF TypeOK
  <3>2. levels' = levels \/ \E x : levels' = Append(levels, x) BY <1>11 DEF AddNode
  <3> QED BY <1>2, <3>1, <3>2
 <2>3. Begun /\ DataSound /\ Walks(t) BY <1>9, <2>1 DEF InSearch
 <2>4. curr[t] \in 1 .. Len(levels) /\ LevelReady(Depth(t)) BY <1>9, <2>1 DEF InSearch
 <2>5. curr'[t] \in 1 .. Len(levels') BY <1>2, <2>1, <2>2, <2>4
 <2>6. LevelReady(Depth(t))' BY <2>1, <2>4 DEF LevelReady, Depth
 <2>7. Walks(t)' BY <2>1, <2>5, <2>6 DEF Walks, Over, Resting
 <2> QED BY <1>1, <1>4, <1>5, <2>1, <2>2, <2>3, <2>7
<1>12. CASE Discover(t)
 <2>1. /\ pc[t] = "level" /\ vis' = vis /\ levels' = levels /\ pc' = pc /\ curr' = curr
       /\ last' = last
   BY <1>12 DEF Discover
 <2>2. Begun /\ DataSound BY <1>9, <2>1 DEF InSearch
 <2>3. PICK v \in Vertex : /\ dist[v] = Unset /\ Delta[v] = Depth(t) + 1
                           /\ dist' = [dist EXCEPT ![v] = Delta[v]]
   BY <1>1, <1>12, Discovery
 <2>4. Delta[v] # Unset /\ Delta[v] # 0 BY <1>9, <2>1, <2>3 DEF InSearch, Unset
 <2>5. \A u \in Vertex : (u = v => dist'[u] = Delta[u]) /\ (u # v => dist'[u] = dist[u])
   BY <1>2, <2>3
 <2>6. DataSound'
  <3>1. \A u \in Vertex : dist[u] # Unset => dist'[u] # Unset BY <2>4, <2>5
  <3>2. \A u \in Vertex : vis[u] => Covered(u)' BY <2>2, <3>1, GraphTypes DEF DataSound, Covered
  <3> QED BY <2>1, <2>2, <2>4, <2>5, <3>2, GraphAssumption, DistanceAssumption DEF DataSound
 <2>7. ASSUME NEW s \in Thread PROVE Walks(s)'
  <3>1. Walks(s) BY <1>3, <2>2
  <3>2. dist # Delta BY <2>3, <2>4
  <3>3. LevelReady(Depth(s)) => LevelReady(Depth(s))' BY <2>1, <2>5 DEF LevelReady, Depth
  <3> QED BY <1>1, <2>1, <3>1, <3>2, <3>3 DEF Walks
 <2> QED BY <1>1, <2>6, <2>7
<1>13. CASE MarkVisited(t)
 <2>1. /\ pc[t] = "level" /\ dist' = dist /\ levels' = levels /\ pc' = pc /\ curr' = curr
       /\ last' = last
   BY <1>13 DEF MarkVisited
 <2>2. Begun /\ DataSound BY <1>9, <2>1 DEF InSearch
 <2>3. PICK u \in Vertex : Covered(u) /\ vis' = [vis EXCEPT ![u] = TRUE]
   BY <1>13 DEF MarkVisited, AtLevel
 <2>4. DataSound' BY <1>2, <2>1, <2>2, <2>3 DEF DataSound, Covered
 <2>5. \A s \in Thread : Walks(s)' BY <1>1, <1>3, <2>1, <2>2 DEF Walks, LevelReady, Depth
 <2> QED BY <1>1, <2>4, <2>5
<1>14. CASE Advance(t)
 <2>1. /\ Same /\ levels' = levels /\ pc[t] = "level" /\ last' = last
       /\ \A u \in Vertex : dist[u] = Depth(t) => vis[u]
   BY <1>14 DEF Advance, AtLevel
 <2>2. Begun /\ DataSound /\ last[t] = Cur BY <1>9, <2>1 DEF InSearch
 <2>3. curr[t] \in 1 .. Len(levels) /\ Depth(t) \in Nat /\ LevelReady(Depth(t))
   BY <1>9, <2>1 DEF InSearch
 <2>4. Walks(t)'
  <3>1. CASE NextIsNull(t)
   <4>1. pc'[t] = "time" /\ curr' = curr /\ \A u \in Vertex : dist[u] # Depth(t)
     BY <1>2, <1>14, <3>1 DEF Advance, AtLevel
   <4>2. dist' = Delta BY <1>1, <2>1, <2>2, <2>3, <4>1, LastLevel
   <4> QED BY <4>1, <4>2 DEF Walks
  <3>2. CASE ~NextIsNull(t)
   <4>1. curr'[t] = curr[t] + 1 /\ pc'[t] = "level" BY <1>2, <1>14, <2>1, <3>2 DEF Advance
   <4>2. LevelReady(Depth(t) + 1) BY <2>1, <2>2, <2>3, LevelAfter
   <4>3. Depth(t)' = Depth(t) + 1 /\ curr'[t] \in 1 .. Len(levels')
     BY <1>2, <2>1, <2>3, <3>2, <4>1 DEF Depth, NextIsNull
   <4>4. LevelReady(Depth(t))' BY <2>1, <4>2, <4>3 DEF LevelReady
   <4> QED BY <4>1, <4>3, <4>4 DEF Walks, Over, Resting
  <3> QED BY <3>1, <3>2
 <2> QED BY <1>1, <1>4, <1>5, <2>1, <2>2, <2>4
<1>15. CASE NoteTime(t) \/ CountReturn(t) \/ LockMutex(t) \/ Notify(t)
 <2>1. /\ Same /\ levels' = levels /\ last' = last
       /\ pc[t] \in {"time"} \cup Over /\ pc'[t] \in Over
   BY <1>2, <1>15 DEF NoteTime, CountReturn, LockMutex, Notify, Over, Resting
 <2>2. Begun /\ DataSound /\ Walks(t)
  <3>1. Begun BY <2>1, StepBegun DEF Over, Resting
  <3> QED BY <1>1, <1>3, <3>1
 <2>3. Walks(t)' BY <1>1, <2>1, <2>2 DEF Walks, Over, Resting
 <2> QED BY <1>1, <1>4, <1>5, <2>1, <2>2, <2>3
<1> QED
  BY <1>6, <1>7, <1>8, <1>10, <1>11, <1>12, <1>13, <1>14, <1>15 DEF ThreadStep, FillDist, FillVis,
     SetSource, CountReset, Resetting

LEMMA StepAllocated ==
  ASSUME IInv, NEW t \in AnyThread, ThreadStep(t)
  PROVE  Allocated'
<1>1. /\ t \in Thread /\ mpc # "start" /\ mpc' = mpc /\ Cur' = Cur /\ Thread' = Thread
      /\ TypeOK /\ Allocated /\ arena' = arena
      /\ \A s \in Thread \ {t} : /\ pc'[s] = pc[s] /\ last'[s] = last[s]
                                 /\ spare_level'[s] = spare_level[s]
 <2>1. arena' = arena
   BY DEF ThreadStep, Poll, FillDist, FillVis, SetSource, CountReset, Meet, NoteTime, TestNext,
      AddNode, Discover, MarkVisited, Advance, CountReturn, LockMutex, Notify, levelVars
 <2> QED BY <2>1, StepFrame, ThreadTypes DEF IInv, ControlInv, DataInv
<1>2. t \in AnyThread /\ levels \in Seq(Nat) /\ arena \in Nat /\ spare_level \in [AnyThread -> Nat]
      /\ pc \in [AnyThread -> Labels]
  BY <1>1 DEF TypeOK
<1> USE DEF Goto, dataVars, levelVars, threadVars
<1>3. CASE AddNode(t)
 <2> DEFINE new == IF spare_level[t] = None THEN arena ELSE spare_level[t]
 <2>1. pc[t] = "link" BY <1>3 DEF AddNode
 <2>2. last[t] = Cur /\ mpc \in {"lock", "test", "block", "wait"}
   BY <1>1, <2>1, Searches DEF InSearch
 <2>3. pc[t] = "link" BY <2>1
 <2>4. spare_level[t] \in {None, arena} BY <1>1, <2>2, <2>3 DEF Allocated, Resting
 <2>5. new = arena BY <2>4
 <2>6. /\ levels' = Append(levels, new) \/ levels' = levels
       /\ \/ spare_level' = [spare_level EXCEPT ![t] = None]
          \/ spare_level' = [spare_level EXCEPT ![t] = new]
  <3>1. CASE NextIsNull(t) BY <1>3, <3>1 DEF AddNode
  <3>2. CASE ~NextIsNull(t) BY <1>3, <3>2 DEF AddNode
  <3> QED BY <3>1, <3>2
 <2> HIDE DEF new
 <2>7. spare_level'[t] \in {None, arena} BY <1>2, <2>5, <2>6
 <2>8. levels # <<>> /\ \A n \in DOMAIN levels : levels[n] = arena BY <1>1, <2>2 DEF Allocated
 <2>9. levels' # <<>> /\ \A n \in DOMAIN levels' : levels'[n] = arena
  <3>1. CASE levels' = levels BY <2>8, <3>1
  <3>2. CASE levels' = Append(levels, arena) BY <1>2, <2>8, <3>2
  <3> QED BY <2>5, <2>6, <3>1, <3>2
 <2> QED BY <1>1, <2>7, <2>9 DEF Allocated
<1>4. CASE Poll(t)
 <2>1. levels' = levels BY <1>4 DEF Poll
 <2>2. pc'[t] = "exited" \/ spare_level'[t] = None BY <1>2, <1>4 DEF Poll, DropSpare
 <2> QED BY <1>1, <2>1, <2>2 DEF Allocated
<1>5. CASE ~AddNode(t) /\ ~Poll(t)
 <2>1. levels' = levels /\ spare_level' = spare_level
   BY <1>5 DEF ThreadStep, FillDist, FillVis, SetSource, CountReset, Meet, NoteTime, TestNext,
      Discover, MarkVisited, Advance, CountReturn, LockMutex, Notify
 <2>2. /\ last'[t] = last[t]
       /\ pc[t] \in Resting \cup {"exited"} => pc'[t] \in Resting \cup {"exited"}
  <3>1. last' = last
    BY <1>5 DEF ThreadStep, FillDist, FillVis, SetSource, CountReset, Meet, NoteTime, TestNext,
       Discover, MarkVisited, Advance, CountReturn, LockMutex, Notify
  <3>2. pc[t] # "poll"
    BY <1>5 DEF ThreadStep, AddNode, FillDist, FillVis, SetSource, CountReset, Meet, NoteTime,
       TestNext, Discover, MarkVisited, Advance, CountReturn, LockMutex, Notify
  <3>3. pc[t] \in Resting \cup {"exited"} => pc'[t] \in Resting
    BY <3>2, StepMoves DEF Resting, Resetting, InSearch
  <3> QED BY <3>1, <3>3
 <2> QED BY <1>1, <2>1, <2>2 DEF Allocated
<1> QED BY <1>3, <1>4, <1>5

LEMMA ThreadStepInv ==
  ASSUME IInv, NEW t \in AnyThread, ThreadStep(t)
  PROVE  IInv'
  BY StepControl, StepReset, StepSearch, StepAllocated DEF IInv, DataInv

-----------------------------------------------------------------------------

(***************************************************************************)
(* The main thread.  As long as it neither publishes a search nor starts   *)
(* threads, all that is known about the threads stays.                     *)
(***************************************************************************)
LEMMA MainKeeps ==
  ASSUME IInv, mpc # "start", Cur' = Cur,
         c' = c, reset' = reset, returned' = returned, return_times' = return_times,
         UNCHANGED threadVars, UNCHANGED dataVars, spare_level' = spare_level,
         mpc \in {"join", "output"} => mpc' \in {"join", "output"},
         levels' = levels \/ HasReturned = Thread
  PROVE  /\ Thread' = Thread /\ HasReturned' = HasReturned
         /\ ThreadsThere' \/ mpc' = "start"
         /\ \A t \in Thread' : LastOrBefore(t)'
         /\ CountsExact' /\ Reset' /\ Search'
<1> USE DEF threadVars, dataVars
<1>1. num_t' = num_t /\ Thread' = Thread BY DEF num_t, Thread
<1>2. /\ HasReset' = HasReset /\ HasReturned' = HasReturned
      /\ Begun' = Begun
  BY <1>1 DEF HasReset, HasReturned, Begun
<1>3. CountsExact' BY <1>1, <1>2 DEF CountsExact, IInv, ControlInv
<1>4. \A t \in Thread : LastOrBefore(t)' BY DEF LastOrBefore, IInv, ControlInv
<1>5. Reset'
 <2>1. \A t \in Thread : Share(t)' = Share(t) /\ Begin(t)' = Begin(t) /\ End(t)' = End(t)
   BY <1>1 DEF Share, Begin, End
 <2>2. \A t \in Thread : ResetSoFar(t) => ResetSoFar(t)' BY <2>1 DEF ResetSoFar, Fresh
 <2> QED BY <1>1, <1>2, <2>2 DEF Reset, IInv, DataInv
<1>6. Search'
 <2>1. \A t \in Thread : LevelReady(Depth(t)) => LevelReady(Depth(t))' BY DEF LevelReady, Depth
 <2>2. DataSound => DataSound' BY DEF DataSound, Covered
 <2>3. HasReturned = Thread => \A t \in Thread : pc[t] \notin {"level", "link"}
   BY DEF HasReturned, Resting
 <2>4. \A t \in Thread : Walks(t) => Walks(t)' BY <2>1, <2>3 DEF Walks
 <2> QED BY <1>1, <1>2, <2>2, <2>4 DEF Search, IInv, DataInv
<1>7. ThreadsThere' \/ mpc' = "start" BY <1>1 DEF ThreadsThere, IInv, ControlInv
<1> QED BY <1>1, <1>2, <1>3, <1>4, <1>5, <1>6, <1>7

LEMMA MainType ==
  ASSUME IInv, MainStep \/ SpuriousWake \/ UNCHANGED vars
  PROVE  TypeOK' /\ OneHolder'
<1>0. TypeOK /\ OneHolder BY DEF IInv, ControlInv
<1> USE DEF countVars, lockVars, mainVars, threadVars, dataVars, levelVars
<1>1. mutex' \in SUBSET ({Main} \cup AnyThread) /\ OneHolder' /\ waiting' \subseteq {Main}
 <2>1. mutex' \in {mutex, {}, {Main}} /\ waiting' \in {waiting, {}, {Main}}
   BY DEF MainStep, StartThreads, MakeFirstLevel, Publish, LockMain, TestReturned, Block, Wake,
      FreeLevels, StopThreads, Join, SpuriousWake, vars
 <2> QED BY <1>0, <2>1 DEF OneHolder, TypeOK
<1>2. Cardinality(mutex)' <= 1
 <2>1. mutex' = {} \/ \E x : mutex' = {x} BY <1>1 DEF OneHolder
 <2>2. Cardinality(mutex') \in {0, 1} BY <2>1, FS_EmptySet, FS_Singleton
 <2> QED BY <2>2
<1>3. number' \in -1 .. Repetitions /\ reset' \in Nat /\ returned' \in Nat
 <2>0. /\ number \in -1 .. Repetitions /\ reset \in Nat /\ returned \in Nat
       /\ i \in 1 .. Repetitions /\ Repetitions \in Nat
   BY <1>0, ControlAssumption DEF TypeOK
 <2>1. number' \in {number, 0, i, -1} /\ reset' \in {reset, 0} /\ returned' \in {returned, 0}
   BY DEF MainStep, StartThreads, MakeFirstLevel, Publish, LockMain, TestReturned, Block, Wake,
      FreeLevels, StopThreads, Join, SpuriousWake, vars
 <2> QED BY <2>0, <2>1
<1>4. mpc' \in MainLabels /\ c' \in DOMAIN ThreadCounts /\ i' \in 1 .. Repetitions
 <2>0. /\ mpc \in MainLabels /\ c \in DOMAIN ThreadCounts /\ i \in 1 .. Repetitions
       /\ Repetitions \in Nat \ {0} /\ ThreadCounts \in Seq(Nat \ {0})
   BY <1>0, ControlAssumption DEF TypeOK
 <2>1. mpc' \in MainLabels
   BY <2>0 DEF MainLabels, MainStep, StartThreads, MakeFirstLevel, Publish, LockMain, TestReturned,
      Block, Wake, FreeLevels, StopThreads, Join, SpuriousWake, vars
 <2>2. c' = c \/ (c < Len(ThreadCounts) /\ c' = c + 1)
   BY DEF MainStep, StartThreads, MakeFirstLevel, Publish, LockMain, TestReturned, Block, Wake,
      FreeLevels, StopThreads, Join, SpuriousWake, vars
 <2>3. i' = i \/ i' = 1 \/ (i < Repetitions /\ i' = i + 1)
   BY DEF MainStep, StartThreads, MakeFirstLevel, Publish, LockMain, TestReturned, Block, Wake,
      FreeLevels, StopThreads, Join, SpuriousWake, vars
 <2>4. c' \in DOMAIN ThreadCounts BY <2>0, <2>2
 <2>5. i' \in 1 .. Repetitions BY <2>0, <2>3
 <2> QED BY <2>1, <2>4, <2>5
<1>5. levels' \in Seq(Nat) /\ arena' \in Nat
 <2>0. levels \in Seq(Nat) /\ arena \in Nat BY <1>0 DEF TypeOK
 <2>1. levels' \in {levels, <<arena>>, <<>>} /\ arena' \in {arena, arena + 1}
   BY DEF MainStep, StartThreads, MakeFirstLevel, Publish, LockMain, TestReturned, Block, Wake,
      FreeLevels, StopThreads, Join, SpuriousWake, vars
 <2>2. <<arena>> \in Seq(Nat) /\ <<>> \in Seq(Nat) /\ arena + 1 \in Nat BY <2>0
 <2> QED BY <2>0, <2>1, <2>2
<1>6. /\ dist' = dist /\ vis' = vis /\ pos' = pos /\ curr' = curr
      /\ ~StartThreads => /\ pc' = pc /\ last' = last /\ return_times' = return_times
                          /\ spare_level' = spare_level
  BY DEF MainStep, StartThreads, MakeFirstLevel, Publish, LockMain, TestReturned, Block, Wake,
     FreeLevels, StopThreads, Join, SpuriousWake, vars
<1>7. /\ pc' \in [AnyThread -> Labels] /\ last' \in [AnyThread -> 0 .. Repetitions]
      /\ return_times' \in [AnyThread -> 0 .. Repetitions]
      /\ spare_level' \in [AnyThread -> Nat]
 <2>1. CASE ~StartThreads BY <1>0, <1>6, <2>1 DEF TypeOK
 <2>2. CASE StartThreads
  <3>1. 0 \in 0 .. Repetitions /\ None \in Nat /\ "poll" \in Labels /\ "none" \in Labels
    BY ControlAssumption DEF None, Labels
  <3>2. \A t \in AnyThread : (IF t \in Thread THEN "poll" ELSE "none") \in Labels BY <3>1
  <3> QED BY <2>2, <3>1, <3>2 DEF StartThreads
 <2> QED BY <2>1, <2>2
<1> QED BY <1>0, <1>1, <1>2, <1>3, <1>4, <1>5, <1>6, <1>7 DEF TypeOK

(***************************************************************************)
(* New threads have returned from search 0, in which there is nothing to   *)
(* do.                                                                     *)
(***************************************************************************)
LEMMA StartThreadsInv ==
  ASSUME IInv, StartThreads
  PROVE  IInv'
<1>0. TypeOK /\ TypeOK' /\ OneHolder' BY MainType DEF MainStep, IInv, ControlInv
<1>1. /\ mpc' = "head" /\ i' = 1 /\ c' = c /\ Cur' = 0 /\ number' = 0
      /\ reset' = 0 /\ returned' = 0
  BY DEF StartThreads, Cur
<1>2. num_t' = num_t /\ Thread' = Thread /\ Thread \subseteq AnyThread
  BY <1>0, <1>1, ThreadTypes DEF num_t, Thread
<1>3. /\ \A t \in Thread : pc'[t] = "poll" /\ last'[t] = 0 /\ return_times'[t] = 0
      /\ \A t \in AnyThread \ Thread : pc'[t] = "none"
  BY <1>2 DEF StartThreads
<1>4. HasReset' = Thread /\ HasReturned' = Thread
  BY <1>1, <1>2, <1>3 DEF HasReset, HasReturned, Resting, Resetting
<1>5. CountsExact'
 <2>1. num_t \in Nat /\ Cardinality(Thread) = num_t BY <1>0, ThreadTypes
 <2>2. Cardinality(HasReset)' = num_t /\ Cardinality(HasReturned)' = num_t BY <1>4, <2>1
 <2>3. (0 - 1) * num_t + num_t = 0 BY <2>1
 <2> QED BY <1>1, <1>2, <2>2, <2>3 DEF CountsExact
<1>6. ThreadsThere' BY <1>1, <1>2, <1>3 DEF ThreadsThere
<1>7. \A t \in Thread' : LastOrBefore(t)' BY <1>1, <1>2, <1>3 DEF LastOrBefore, Resting, Over
<1>8. Reset' /\ Search' /\ Allocated'
 <2>1. ~Begun' BY <1>1 DEF Begun
 <2>2. \A t \in Thread : ResetSoFar(t)' BY <1>3 DEF ResetSoFar
 <2> QED BY <1>1, <1>2, <1>3, <2>1, <2>2 DEF Reset, Search, Allocated, Resting
<1> QED BY <1>0, <1>1, <1>2, <1>4, <1>5, <1>6, <1>7, <1>8 DEF IInv, ControlInv, DataInv

(***************************************************************************)
(* A search is published when all have returned from the one before.       *)
(***************************************************************************)
LEMMA PublishInv ==
  ASSUME IInv, Publish
  PROVE  IInv'
<1>0. TypeOK /\ TypeOK' /\ OneHolder' BY MainType DEF MainStep, IInv, ControlInv
<1> USE DEF threadVars, lockVars, dataVars, levelVars
<1>1. /\ mpc = "publish" /\ mpc' = "lock" /\ Cur' = Cur + 1 /\ number' = Cur'
      /\ Cur \in Nat
 <2>1. i \in Nat BY <1>0, ControlAssumption DEF TypeOK
 <2> QED BY <1>0, <2>1, ThreadTypes DEF Publish, Cur
<1>2. num_t' = num_t /\ Thread' = Thread BY DEF num_t, Thread, Publish
<1>3. /\ pc' = pc /\ last' = last /\ return_times' = return_times
      /\ reset' = reset /\ returned' = returned
      /\ levels' = levels /\ arena' = arena
  BY DEF Publish
<1>4. HasReturned = Thread BY <1>1 DEF IInv, ControlInv, Quiet
<1>5. \A t \in Thread : /\ last[t] = Cur /\ pc[t] \in Resting /\ LastOrBefore(t)
 <2> TAKE t \in Thread
 <2>1. last[t] = Cur /\ pc[t] \in Resting \cup {"exited"} BY <1>4 DEF HasReturned
 <2>2. LastOrBefore(t) BY <1>1 DEF IInv, ControlInv
 <2> QED BY <1>1, <2>1, <2>2 DEF LastOrBefore
<1>6. HasReset = Thread BY <1>5 DEF HasReset, Resting, Resetting
<1>7. HasReset' = {} /\ HasReturned' = {} BY <1>1, <1>2, <1>3, <1>5 DEF HasReset, HasReturned
<1>8. CountsExact'
 <2>1. num_t \in Nat /\ Cardinality(Thread) = num_t BY <1>0, ThreadTypes
 <2>2. reset = (Cur - 1) * num_t + num_t /\ returned = (Cur - 1) * num_t + num_t
   BY <1>1, <1>4, <1>6, <2>1 DEF IInv, ControlInv, CountsExact
 <2>3. Cardinality(HasReset)' = 0 /\ Cardinality(HasReturned)' = 0 BY <1>7, FS_EmptySet
 <2>4. reset = (Cur + 1 - 1) * num_t + 0 /\ returned = (Cur + 1 - 1) * num_t + 0 BY <1>1, <2>1, <2>2
 <2> QED BY <1>1, <1>2, <1>3, <2>3, <2>4 DEF CountsExact
<1>9. ThreadsThere' BY <1>1, <1>2, <1>3 DEF ThreadsThere, IInv, ControlInv
<1>10. \A t \in Thread' : LastOrBefore(t)'
 <2> SUFFICES ASSUME NEW t \in Thread PROVE LastOrBefore(t)' BY <1>2
 <2>1. last[t] = Cur /\ pc[t] \in Resting /\ return_times[t] = last[t]
   BY <1>5 DEF LastOrBefore, Over
 <2> QED BY <1>1, <1>3, <2>1 DEF LastOrBefore, Over, Resting
<1>11. Reset' /\ Search'
 <2>1. ~Begun' BY <1>1, <1>2, <1>3, <1>5 DEF Begun
 <2> QED BY <1>1, <1>2, <1>3, <1>5, <2>1 DEF Reset, Search
<1>12. Allocated' BY <1>1, <1>2, <1>3, <1>5 DEF Allocated, IInv, DataInv
<1> QED BY <1>0, <1>1, <1>8, <1>9, <1>10, <1>11, <1>12 DEF IInv, ControlInv, DataInv, Quiet

LEMMA MainStepInv ==
  ASSUME IInv, MainStep \/ SpuriousWake \/ UNCHANGED vars, ~StartThreads, ~Publish
  PROVE  IInv'
<1>0. TypeOK /\ TypeOK' /\ OneHolder' BY MainType DEF IInv, ControlInv
<1> USE DEF countVars, lockVars, mainVars, threadVars, dataVars, levelVars
<1>1. CASE mpc = "start"
 <2>1. UNCHANGED vars \/ SpuriousWake
   BY <1>1 DEF MainStep, MakeFirstLevel, Publish, LockMain, TestReturned, Block, Wake, FreeLevels,
      StopThreads, Join
 <2>2. /\ mpc' = mpc /\ c' = c /\ pc' = pc /\ number' = number BY <2>1 DEF vars, SpuriousWake
 <2>3. ThreadsThere' BY <1>1, <2>2 DEF IInv, ControlInv, ThreadsThere
 <2> QED BY <1>0, <1>1, <2>2, <2>3 DEF IInv, ControlInv, DataInv
<1>2. CASE mpc # "start" /\ Join
 <2>1. /\ mpc = "join" /\ \A t \in Thread : pc[t] = "exited"
       /\ number = -1 /\ HasReturned = Thread /\ Cur = i
   BY <1>2 DEF Join, IInv, ControlInv, Quiet, Cur
 <2>2. /\ i' = i /\ reset' = reset /\ returned' = returned /\ return_times' = return_times
       /\ UNCHANGED threadVars /\ UNCHANGED dataVars /\ spare_level' = spare_level
       /\ levels' = levels /\ arena' = arena /\ number' = number
   BY <1>2 DEF Join
 <2>3. CASE mpc' = "start"
  <3>1. \A t \in AnyThread : pc[t] \in {"none", "exited"}
    BY <1>2, <2>1 DEF IInv, ControlInv, ThreadsThere
  <3>2. ThreadsThere' BY <2>1, <2>2, <2>3, <3>1 DEF ThreadsThere
  <3> QED BY <1>0, <2>3, <3>2 DEF IInv, ControlInv, DataInv
 <2>4. CASE mpc' # "start"
  <3>1. mpc' = "output" /\ c' = c BY <1>2, <2>4 DEF Join
  <3>2. Cur' = Cur BY <2>1, <2>2, <3>1 DEF Cur
  <3>3. Allocated' BY <1>2, <2>1, <2>2, <3>1, <3>2 DEF Allocated, Thread, num_t
  <3> QED
    BY <1>0, <1>2, <2>1, <2>2, <3>1, <3>2, <3>3, MainKeeps DEF IInv, ControlInv, DataInv, Quiet
 <2> QED BY <2>3, <2>4
<1>3. CASE mpc # "start" /\ ~Join
 <2>1. /\ c' = c /\ reset' = reset /\ returned' = returned /\ return_times' = return_times
       /\ UNCHANGED threadVars /\ UNCHANGED dataVars /\ spare_level' = spare_level
       /\ mpc' # "start"
   BY <1>3 DEF MainStep, MakeFirstLevel, LockMain, TestReturned, Block, Wake, FreeLevels,
      StopThreads, SpuriousWake, vars
 <2>2. i \in Nat BY <1>0, ControlAssumption DEF TypeOK
 <2>3. Cur' = Cur
  <3>1. CASE FreeLevels
   <4>1. /\ mpc = "times"
         /\ \/ i' = i /\ mpc' = "stop"
            \/ i' = i + 1 /\ mpc' = "head"
     BY <3>1 DEF FreeLevels
   <4> QED BY <2>2, <4>1 DEF Cur
  <3>2. CASE ~FreeLevels
    BY <1>3, <3>2 DEF MainStep, MakeFirstLevel, LockMain, TestReturned, Block, Wake, StopThreads,
       SpuriousWake, vars, Cur
  <3> QED BY <3>1, <3>2
 <2>4. /\ number = IF mpc \in {"join", "output"} THEN -1 ELSE Cur
       /\ mpc \in Quiet => HasReturned = Thread
       /\ Allocated
   BY <1>3 DEF IInv, ControlInv, DataInv
 <2>5. /\ mpc \in {"join", "output"} => mpc' \in {"join", "output"}
       /\ number' = IF mpc' \in {"join", "output"} THEN -1 ELSE Cur
       /\ levels' = levels \/ HasReturned = Thread
       /\ mpc' \in Quiet => HasReturned = Thread
  <3>1. CASE MakeFirstLevel \/ FreeLevels BY <2>4, <3>1 DEF MakeFirstLevel, FreeLevels, Quiet
  <3>2. CASE StopThreads BY <2>4, <3>2 DEF StopThreads, Quiet
  <3>3. CASE LockMain \/ Block \/ Wake \/ SpuriousWake \/ UNCHANGED vars
    BY <2>4, <3>3 DEF LockMain, Block, Wake, SpuriousWake, vars, Quiet
  <3>4. CASE TestReturned
   <4>1. /\ mpc = "test" /\ number' = number /\ levels' = levels
         /\ mpc' = "block" \/ (mpc' = "times" /\ returned = i * num_t)
     BY <3>4 DEF TestReturned, AllReturned
   <4>2. mpc' = "times" => HasReturned = Thread
    <5> SUFFICES ASSUME mpc' = "times" PROVE HasReturned = Thread OBVIOUS
    <5>1. returned = i * num_t /\ Cur = i BY <4>1 DEF Cur
    <5>2. /\ HasReturned \in SUBSET Thread
          /\ returned = (Cur - 1) * num_t + Cardinality(HasReturned)
      BY <1>3 DEF HasReturned, IInv, ControlInv, CountsExact
    <5>3. num_t \in Nat /\ Cardinality(HasReturned) \in 0 .. num_t
      BY <1>0, <5>2, ThreadTypes, Counted
    <5>4. i * num_t = (i - 1) * num_t + num_t /\ (i - 1) * num_t \in Int BY <2>2, <5>3
    <5>5. Cardinality(HasReturned) = num_t BY <5>1, <5>2, <5>3, <5>4
    <5> QED BY <1>0, <5>2, <5>5, Counted
   <4> QED BY <2>4, <4>1, <4>2 DEF Quiet
  <3> QED BY <1>3, <3>1, <3>2, <3>3, <3>4 DEF MainStep
 <2>6. /\ Thread' = Thread /\ HasReturned' = HasReturned /\ ThreadsThere'
       /\ \A t \in Thread' : LastOrBefore(t)'
       /\ CountsExact' /\ Reset' /\ Search'
   BY <1>3, <2>1, <2>3, <2>5, MainKeeps
 <2>7. Allocated'
  <3> DEFINE Alive == {"publish", "lock", "test", "block", "wait", "times"}
  <3>1. mpc' \in Alive => levels' # <<>> /\ \A n \in DOMAIN levels' : levels'[n] = arena'
   <4>1. CASE MakeFirstLevel BY <4>1 DEF MakeFirstLevel
   <4>2. CASE FreeLevels \/ StopThreads BY <4>2 DEF FreeLevels, StopThreads
   <4>3. CASE LockMain \/ TestReturned \/ Block \/ Wake \/ SpuriousWake \/ UNCHANGED vars
    <5>1. levels' = levels /\ arena' = arena /\ (mpc' \in Alive => mpc \in Alive)
      BY <4>3 DEF LockMain, TestReturned, Block, Wake, SpuriousWake, vars
    <5> QED BY <2>4, <5>1 DEF Allocated
   <4> QED BY <1>3, <4>1, <4>2, <4>3 DEF MainStep
  <3>2. arena' = arena \/ HasReturned = Thread
   <4>1. CASE FreeLevels BY <2>4, <4>1 DEF FreeLevels, Quiet
   <4>2. CASE ~FreeLevels
     BY <1>3, <4>2 DEF MainStep, MakeFirstLevel, LockMain, TestReturned, Block, Wake, StopThreads,
        SpuriousWake, vars
   <4> QED BY <4>1, <4>2
  <3>3. \A t \in Thread : last[t] = Cur /\ pc[t] \notin Resting \cup {"exited"} =>
                            spare_level[t] \in {None, arena'}
    BY <2>4, <3>2 DEF Allocated, HasReturned
  <3> QED BY <2>1, <2>3, <2>6, <3>1, <3>3 DEF Allocated
 <2> QED BY <1>0, <2>1, <2>3, <2>5, <2>6, <2>7 DEF IInv, ControlInv, DataInv
<1> QED BY <1>1, <1>2, <1>3

LEMMA Initially ==
  Init => IInv
<1> SUFFICES ASSUME Init PROVE IInv OBVIOUS
<1> USE DEF Init
<1>1. /\ number \in -1 .. Repetitions /\ i \in 1 .. Repetitions /\ 0 \in 0 .. Repetitions
      /\ 0 \in 0 .. N /\ c \in DOMAIN ThreadCounts
  BY ControlAssumption
<1>2. Cardinality(mutex) <= 1 BY FS_EmptySet
<1>3. Unset \in Unset .. MaxDelta BY GraphAssumption DEF Unset
<1>4. "none" \in Labels /\ "start" \in MainLabels /\ None \in Nat BY DEF Labels, MainLabels, None
<1>5. TypeOK BY <1>1, <1>2, <1>3, <1>4 DEF TypeOK
<1>6. ControlInv BY <1>5 DEF ControlInv, OneHolder, ThreadsThere
<1> QED BY <1>6 DEF IInv, DataInv

LEMMA Inductive ==
  ASSUME IInv, [Next]_vars
  PROVE  IInv'
<1>1. CASE \E t \in AnyThread : ThreadStep(t) BY <1>1, ThreadStepInv
<1>2. CASE MainStep \/ SpuriousWake \/ UNCHANGED vars
  BY <1>2, StartThreadsInv, PublishInv, MainStepInv
<1>3. CASE Exited BY <1>2, <1>3 DEF Exited
<1> QED BY <1>1, <1>2, <1>3 DEF Next

(***************************************************************************)
(* Every state of a series of searches satisfies the invariant, whenever   *)
(* threads wake, return or are started again.                              *)
(***************************************************************************)
THEOREM InvCorrect == Spec => []IInv
  BY Initially, Inductive, PTL DEF Spec

-----------------------------------------------------------------------------

(***************************************************************************)
(* The distances are final when the first thread has returned.             *)
(***************************************************************************)
THEOREM FinalAtFirstReturn ==
  Spec => []DistancesFinal
<1>1. IInv => DistancesFinal
 <2> SUFFICES ASSUME IInv PROVE DistancesFinal OBVIOUS
 <2>0. TypeOK BY DEF IInv, ControlInv
 <2>1. CASE mpc = "start"
  <3>1. number \in Int /\ number <= 0
    BY <2>0, <2>1, ControlAssumption DEF TypeOK, IInv, ControlInv, ThreadsThere
  <3>2. ~(number > 0) BY <3>1
  <3> QED BY <2>1, <3>2 DEF DistancesFinal, FirstReturnExact, OutputExact
 <2>2. CASE mpc # "start"
  <3>1. ASSUME NEW t \in Thread, last[t] = Cur, pc[t] \in Over, Cur > 0 PROVE dist = Delta
   <4>1. Begun BY <3>1 DEF Begun
   <4>2. Walks(t) BY <2>2, <3>1, <4>1 DEF IInv, DataInv, Search
   <4> QED BY <3>1, <4>2 DEF Walks
  <3>2. FirstReturnExact
   <4> SUFFICES ASSUME NEW t \in Thread, return_times[t] = number, number > 0 PROVE dist = Delta
     BY DEF FirstReturnExact
   <4>1. number = Cur /\ LastOrBefore(t) BY <2>2 DEF IInv, ControlInv
   <4>2. Cur \in Nat /\ last[t] \in Nat BY <2>0, ThreadTypes DEF TypeOK
   <4>3. last[t] = Cur /\ pc[t] \in Over BY <4>1, <4>2 DEF LastOrBefore
   <4> QED BY <3>1, <4>1, <4>3
  <3>3. OutputExact
   <4> SUFFICES ASSUME mpc \in {"times", "stop", "join", "output"} PROVE dist = Delta
     BY DEF OutputExact
   <4>1. HasReturned = Thread BY <2>2 DEF IInv, ControlInv, Quiet
   <4>2. Cur > 0
    <5>1. i \in 1 .. Repetitions /\ Repetitions \in Nat BY <2>0, ControlAssumption DEF TypeOK
    <5> QED BY <5>1 DEF Cur
   <4>3. 0 \in Thread BY <2>0, ThreadTypes DEF Thread
   <4>4. last[0] = Cur /\ pc[0] \in Over BY <4>1, <4>3 DEF HasReturned, Over
   <4> QED BY <3>1, <4>2, <4>3, <4>4
  <3> QED BY <3>2, <3>3 DEF DistancesFinal
 <2> QED BY <2>1, <2>2
<1> QED BY <1>1, InvCorrect, PTL

(***************************************************************************)
(* No thread walks or links a level that has been taken back.              *)
(***************************************************************************)
THEOREM MemoryInUse ==
  Spec => []LevelsInUse
<1>1. IInv => LevelsInUse
 <2> SUFFICES ASSUME IInv, NEW t \in Thread, Searching(t)
              PROVE  /\ curr[t] \in DOMAIN levels
                     /\ \A n \in DOMAIN levels : levels[n] = arena
                     /\ spare_level[t] \in {None, arena}
   BY DEF LevelsInUse
 <2>1. TypeOK /\ t \in AnyThread BY ThreadTypes DEF IInv, ControlInv
 <2>2. mpc # "start" BY <2>1 DEF IInv, ControlInv, ThreadsThere, Searching
 <2>3. Walks(t) /\ Allocated /\ last[t] = Cur /\ mpc \in {"lock", "test", "block", "wait"}
   BY <2>2, Searches DEF Searching, InSearch
 <2>4. curr[t] \in DOMAIN levels
  <3>1. levels \in Seq(Nat) /\ curr[t] \in 1 .. Len(levels)
    BY <2>1, <2>3 DEF Walks, Searching, TypeOK
  <3> QED BY <3>1
 <2> QED BY <2>3, <2>4 DEF Allocated, Searching, Resting
<1> QED BY <1>1, InvCorrect, PTL

(***************************************************************************)
(* The first return time is looked for when all have been noted.           *)
(***************************************************************************)
THEOREM AllTimesNoted ==
  Spec => []TimesNoted
<1>1. IInv => TimesNoted
 <2> SUFFICES ASSUME IInv, mpc = "times", NEW t \in Thread PROVE return_times[t] = i
   BY DEF TimesNoted
 <2>1. HasReturned = Thread /\ LastOrBefore(t) /\ Cur = i BY DEF IInv, ControlInv, Quiet, Cur
 <2> QED BY <2>1 DEF HasReturned, LastOrBefore, Over
<1> QED BY <1>1, InvCorrect, PTL

(***************************************************************************)
(* No share is reset once a thread has begun to search.                    *)
(***************************************************************************)
THEOREM NobodyResets ==
  Spec => []SharesReset
<1>1. IInv => SharesReset
 <2> SUFFICES ASSUME IInv, NEW t \in Thread, Searching(t), NEW s \in Thread
              PROVE  last[s] = last[t] /\ pc[s] \notin Resetting
   BY DEF SharesReset, Resetting
 <2>1. TypeOK /\ t \in AnyThread BY ThreadTypes DEF IInv, ControlInv
 <2>2. mpc # "start" BY <2>1 DEF IInv, ControlInv, ThreadsThere, Searching
 <2>3. last[t] = Cur /\ HasReset = Thread BY <2>2, Searches DEF Searching, InSearch
 <2> QED BY <2>3 DEF HasReset
<1> QED BY <1>1, InvCorrect, PTL

-----------------------------------------------------------------------------
(***************************************************************************)
(* What comes before the searches in every main(): Startup, for any        *)
(* machine and any list of thread counts, with variables of its own beside *)
(* c and pc, which the two have under the same name.                       *)
(***************************************************************************)
CONSTANTS Cpu, NodeOf, CoreOf, Idle, Arguments

VARIABLES settings, mask, allowed, idle, cpu_ids, on

Launch == INSTANCE Startup

\* The CPUs to choose from are taken from the main thread's mask once, and that is
\* before anything is pinned: its own mask is the whole set for as long.
LaunchInv ==
  /\ allowed \in {{}, Cpu}
  /\ allowed = {} => mask = Cpu /\ pc \in {"counts", "select", "failed"}

LEMMA LaunchStep ==
  ASSUME Cpu # {}, LaunchInv, [Launch!Next]_Launch!vars
  PROVE  LaunchInv'
<1> USE DEF LaunchInv
<1>1. CASE Launch!ParseCounts BY <1>1 DEF Launch!ParseCounts
<1>2. CASE Launch!Sample BY <1>2 DEF Launch!Sample, Launch!Allowed
<1>3. CASE Launch!Select BY <1>3 DEF Launch!Select
<1>4. CASE Launch!StartThreads BY <1>4 DEF Launch!StartThreads
<1>5. ASSUME NEW t \in DOMAIN on, Launch!Pin(t) PROVE LaunchInv' BY <1>5 DEF Launch!Pin
<1>6. CASE Launch!Searched BY <1>6 DEF Launch!Searched
<1>7. CASE Launch!Write BY <1>7 DEF Launch!Write
<1>8. CASE UNCHANGED Launch!vars BY <1>8 DEF Launch!vars
<1> QED BY <1>1, <1>2, <1>3, <1>4, <1>5, <1>6, <1>7, <1>8 DEF Launch!Next, Launch!Exited

(***************************************************************************)
(* select_idle_cpus() keeps the set of its first call (cpu_affinity.hpp),  *)
(* so no thread count is given a choice narrowed by the pinning for the    *)
(* counts before it (see NeverNarrowed), on any machine that has a CPU.    *)
(***************************************************************************)
THEOREM CpusNeverNarrowed ==
  ASSUME Cpu # {}
  PROVE  Launch!Spec => []Launch!NeverNarrowed
<1>1. Launch!Init => LaunchInv BY DEF Launch!Init, LaunchInv
<1>2. LaunchInv /\ [Launch!Next]_Launch!vars => LaunchInv' BY LaunchStep
<1>3. LaunchInv => Launch!NeverNarrowed BY DEF LaunchInv, Launch!NeverNarrowed
<1> QED BY <1>1, <1>2, <1>3, PTL DEF Launch!Spec

(***************************************************************************)
(* A finite set in an order: each of its elements has a rank, and FirstOf  *)
(* is those of the lowest ranks.                                           *)
(***************************************************************************)
Orders(order, S) ==
  /\ \A a \in S : <<a, a>> \notin order
  /\ \A a, b \in S : a # b => <<a, b>> \in order \/ <<b, a>> \in order
  /\ \A a, b, d \in S : <<a, b>> \in order /\ <<b, d>> \in order => <<a, d>> \in order

Under(S, order, a) == {b \in S : <<b, a>> \in order}
Rank(S, order, a) == Cardinality(Under(S, order, a))

LEMMA RankGrows ==
  ASSUME NEW S, IsFiniteSet(S), NEW order, Orders(order, S),
         NEW a \in S, NEW b \in S, <<a, b>> \in order
  PROVE  Rank(S, order, a) < Rank(S, order, b)
<1> DEFINE A == Under(S, order, a)
           B == Under(S, order, b)
<1>1. A \subseteq B /\ a \in B /\ a \notin A BY DEF Orders, Under
<1>2. IsFiniteSet(A) /\ IsFiniteSet(B) BY FS_Subset DEF Under
<1> HIDE DEF A, B
<1>3. /\ Cardinality(A) \in Nat /\ Cardinality(B) \in Nat /\ Cardinality(A) <= Cardinality(B)
      /\ Cardinality(A) # Cardinality(B)
  BY <1>1, <1>2, FS_CardinalityType, FS_Subset
<1> QED BY <1>3 DEF Rank, A, B

LEMMA RankFacts ==
  ASSUME NEW S, IsFiniteSet(S), NEW order, Orders(order, S)
  PROVE  /\ \A a \in S : Rank(S, order, a) \in 0 .. Cardinality(S) - 1
         /\ \A a, b \in S : Rank(S, order, a) = Rank(S, order, b) => a = b
         /\ \A z \in 0 .. Cardinality(S) - 1 : \E a \in S : Rank(S, order, a) = z
<1> DEFINE n == Cardinality(S)
           r == [a \in S |-> Rank(S, order, a)]
<1>1. n \in Nat BY FS_CardinalityType
<1>2. ASSUME NEW a \in S PROVE Rank(S, order, a) \in 0 .. n - 1
 <2>1. IsFiniteSet(Under(S, order, a)) /\ Under(S, order, a) \subseteq S /\ a \notin Under(S, order, a)
   BY FS_Subset DEF Under, Orders
 <2>2. /\ Cardinality(Under(S, order, a)) \in Nat /\ Cardinality(Under(S, order, a)) <= n
       /\ Cardinality(Under(S, order, a)) # n
   BY <2>1, FS_CardinalityType, FS_Subset
 <2> QED BY <1>1, <2>2 DEF Rank
<1>3. ASSUME NEW a \in S, NEW b \in S, a # b PROVE Rank(S, order, a) # Rank(S, order, b)
 <2>1. <<a, b>> \in order \/ <<b, a>> \in order BY <1>3 DEF Orders
 <2>2. Rank(S, order, a) < Rank(S, order, b) \/ Rank(S, order, b) < Rank(S, order, a)
   BY <2>1, RankGrows
 <2> QED BY <1>1, <1>2, <2>2
<1>4. IsFiniteSet(0 .. n - 1) /\ Cardinality(0 .. n - 1) = n
 <2>1. 0 \in Int /\ n - 1 \in Int /\ (IF 0 > n - 1 THEN 0 ELSE (n - 1) - 0 + 1) = n BY <1>1
 <2> QED BY <2>1, FS_Interval
<1>5. r \in Injection(S, 0 .. n - 1) BY <1>2, <1>3 DEF Injection, IsInjective
<1>6. r \in Surjection(S, 0 .. n - 1) BY <1>4, <1>5, FS_Injection
<1>7. \A z \in 0 .. n - 1 : \E a \in S : r[a] = z BY <1>6 DEF Surjection
<1> QED BY <1>2, <1>3, <1>7

\* Of some elements there is a first.
LEMMA FirstThere ==
  ASSUME NEW S, IsFiniteSet(S), S # {}, NEW order, Orders(order, S)
  PROVE  \E a \in S : \A b \in S : b # a => <<a, b>> \in order
<1>1. Cardinality(S) \in Nat /\ Cardinality(S) # 0 BY FS_CardinalityType, FS_EmptySet
<1>2. 0 \in 0 .. Cardinality(S) - 1 BY <1>1
<1>3. PICK a \in S : Rank(S, order, a) = 0 BY <1>2, RankFacts
<1>4. Under(S, order, a) = {}
 <2>1. IsFiniteSet(Under(S, order, a)) BY FS_Subset DEF Under
 <2> QED BY <1>3, <2>1, FS_EmptySet DEF Rank
<1> QED BY <1>4 DEF Under, Orders

Lower(z, j) == IF z <= j THEN z ELSE j

LEMMA LaunchCounts == \A S : Launch!Cardinality(S) = Cardinality(S)
  BY DEF Launch!Cardinality, Cardinality

LEMMA FirstFacts ==
  ASSUME NEW S, IsFiniteSet(S), NEW order, Orders(order, S), NEW count \in Nat,
         NEW f, f = Launch!FirstOf(S, order, count)
  PROVE  /\ f \in Seq(S) /\ Len(f) = Lower(count, Cardinality(S)) /\ DOMAIN f = 1 .. Len(f)
         /\ \A z \in 1 .. Len(f) : f[z] \in S /\ Rank(S, order, f[z]) = z - 1
         /\ \A z, j \in 1 .. Len(f) : f[z] = f[j] => z = j
         /\ \A a \in S : Rank(S, order, a) < Len(f) => \E z \in 1 .. Len(f) : f[z] = a
<1> DEFINE n == Lower(count, Cardinality(S))
<1>1. Cardinality(S) \in Nat /\ n \in Nat /\ n <= Cardinality(S) BY FS_CardinalityType DEF Lower
<1>2. Launch!Min({count, Launch!Cardinality(S)}) = n
 <2> DEFINE two == {count, Cardinality(S)}
 <2>1. n \in two /\ \A y \in two : n <= y BY <1>1 DEF Lower
 <2>2. \A x \in two : (\A y \in two : x <= y) => x = n BY <1>1 DEF Lower
 <2>3. {count, Launch!Cardinality(S)} = two BY LaunchCounts
 <2> HIDE DEF two, n
 <2>4. Launch!Min(two) = n BY <2>1, <2>2 DEF Launch!Min
 <2> QED BY <2>3, <2>4
<1>3. f = [z \in 1 .. n |-> CHOOSE a \in S : Launch!Cardinality({b \in S : <<b, a>> \in order}) = z - 1]
  BY <1>2 DEF Launch!FirstOf
<1>4. ASSUME NEW z \in 1 .. n PROVE f[z] \in S /\ Rank(S, order, f[z]) = z - 1
 <2>1. z - 1 \in 0 .. Cardinality(S) - 1 BY <1>1
 <2>2. PICK a \in S : Rank(S, order, a) = z - 1 BY <2>1, RankFacts
 <2>3. \A d \in S : Launch!Cardinality({b \in S : <<b, d>> \in order}) = Rank(S, order, d)
   BY LaunchCounts DEF Rank, Under
 <2>4. f[z] = CHOOSE d \in S : Launch!Cardinality({b \in S : <<b, d>> \in order}) = z - 1 BY <1>3
 <2>5. f[z] \in S /\ Launch!Cardinality({b \in S : <<b, f[z]>> \in order}) = z - 1
   BY <2>2, <2>3, <2>4
 <2> QED BY <2>3, <2>5
<1>5. f \in Seq(S) /\ Len(f) = n /\ DOMAIN f = 1 .. n
 <2>1. f \in [1 .. n -> S] BY <1>3, <1>4
 <2> QED BY <1>1, <2>1, LenProperties
<1>6. ASSUME NEW z \in 1 .. n, NEW j \in 1 .. n, f[z] = f[j] PROVE z = j
 <2>1. z - 1 = j - 1 BY <1>4, <1>6
 <2> QED BY <1>1, <2>1
<1>7. ASSUME NEW a \in S, Rank(S, order, a) < n PROVE \E z \in 1 .. n : f[z] = a
 <2>1. Rank(S, order, a) \in 0 .. Cardinality(S) - 1 BY RankFacts
 <2>2. Rank(S, order, a) + 1 \in 1 .. n /\ (Rank(S, order, a) + 1) - 1 = Rank(S, order, a)
   BY <1>1, <1>7, <2>1
 <2>3. f[Rank(S, order, a) + 1] \in S /\ Rank(S, order, f[Rank(S, order, a) + 1]) = Rank(S, order, a)
   BY <1>4, <2>2
 <2> QED BY <2>2, <2>3, RankFacts
<1> QED BY <1>4, <1>5, <1>6, <1>7

(***************************************************************************)
(* choose_candidates(): the first of each core come first.                 *)
(***************************************************************************)
IdleKnown == DOMAIN idle \subseteq Nat /\ IsFiniteSet(DOMAIN idle) /\ idle \in [DOMAIN idle -> Nat]

LEMMA BeforeOrders ==
  ASSUME IdleKnown, NEW cpus \in SUBSET DOMAIN idle
  PROVE  /\ \A a \in cpus : ~Launch!Before(a, a)
         /\ \A a, b \in cpus : a # b => Launch!Before(a, b) \/ Launch!Before(b, a)
         /\ \A a, b, d \in cpus : Launch!Before(a, b) /\ Launch!Before(b, d) => Launch!Before(a, d)
<1>1. \A a \in cpus : a \in Nat /\ idle[a] \in Nat BY DEF IdleKnown
<1> QED BY <1>1 DEF Launch!Before

\* f is count of cpus: two on a core only if all its cores are among them.
Picks(f, cpus, count) ==
  /\ f \in Seq(cpus) /\ Len(f) = Lower(count, Cardinality(cpus)) /\ DOMAIN f = 1 .. Len(f)
  /\ \A z \in 1 .. Len(f) : f[z] \in cpus
  /\ \A z, j \in 1 .. Len(f) : f[z] = f[j] => z = j
  /\ \A z, j \in 1 .. Len(f), a \in cpus :
       z # j /\ CoreOf[f[z]] = CoreOf[f[j]] => \E k \in 1 .. Len(f) : CoreOf[f[k]] = CoreOf[a]

LEMMA ChosenFacts ==
  ASSUME IdleKnown, NEW cpus \in SUBSET DOMAIN idle, NEW count \in Nat,
         NEW f, f = Launch!ChooseCandidates(cpus, count)
  PROVE  Picks(f, cpus, count)
<1> DEFINE first == {a \in cpus : Launch!FirstOfCore(cpus, a)}
           Less(a, b) == IF a \in first <=> b \in first THEN Launch!Before(a, b) ELSE a \in first
           order == {p \in cpus \X cpus : IF p[1] \in first <=> p[2] \in first
                                          THEN Launch!Before(p[1], p[2]) ELSE p[1] \in first}
<1>1. IsFiniteSet(cpus) BY FS_Subset DEF IdleKnown
<1>2. f = Launch!FirstOf(cpus, order, count) BY DEF Launch!ChooseCandidates
<1>3. \A a, b \in cpus : <<a, b>> \in order <=> Less(a, b) OBVIOUS
<1>4. ASSUME NEW a \in cpus PROVE \E b \in first : CoreOf[b] = CoreOf[a]
 <2> DEFINE S == {x \in cpus : CoreOf[x] = CoreOf[a]}
            by == {p \in cpus \X cpus : Launch!Before(p[1], p[2])}
 <2>1. IsFiniteSet(S) /\ S # {} BY <1>1, FS_Subset
 <2>2. \A x, y \in cpus : <<x, y>> \in by <=> Launch!Before(x, y) OBVIOUS
 <2>3. S \subseteq cpus OBVIOUS
 <2> HIDE DEF by, S
 <2>4. Orders(by, S) BY <2>2, <2>3, BeforeOrders DEF Orders
 <2>5. PICK b \in S : \A x \in S : x # b => <<b, x>> \in by BY <2>1, <2>4, FirstThere
 <2>6. \A x \in S : ~Launch!Before(x, b)
  <3> TAKE x \in S
  <3>1. CASE x = b BY <2>3, <3>1, BeforeOrders
  <3>2. CASE x # b
   <4>1. Launch!Before(b, x) BY <2>2, <2>3, <2>5, <3>2
   <4> QED BY <2>3, <4>1, BeforeOrders
  <3> QED BY <3>1, <3>2
 <2> QED BY <2>5, <2>6 DEF Launch!FirstOfCore, S
<1>5. \A a, b \in first : a # b => CoreOf[a] # CoreOf[b] BY BeforeOrders DEF Launch!FirstOfCore
<1>6. first \subseteq cpus OBVIOUS
<1> HIDE DEF first, order
<1>7. Orders(order, cpus)
 <2>1. \A a \in cpus : ~Less(a, a) BY BeforeOrders
 <2>2. \A a, b \in cpus : a # b => Less(a, b) \/ Less(b, a) BY BeforeOrders
 <2>3. \A a, b, d \in cpus : Less(a, b) /\ Less(b, d) => Less(a, d) BY BeforeOrders
 <2> QED BY <1>3, <2>1, <2>2, <2>3 DEF Orders
<1>8. /\ f \in Seq(cpus) /\ Len(f) = Lower(count, Cardinality(cpus)) /\ DOMAIN f = 1 .. Len(f)
      /\ \A z \in 1 .. Len(f) : f[z] \in cpus /\ Rank(cpus, order, f[z]) = z - 1
      /\ \A z, j \in 1 .. Len(f) : f[z] = f[j] => z = j
      /\ \A a \in cpus : Rank(cpus, order, a) < Len(f) => \E z \in 1 .. Len(f) : f[z] = a
  BY <1>1, <1>2, <1>7, FirstFacts
<1>9. ASSUME NEW z \in 1 .. Len(f), f[z] \notin first, NEW a \in cpus
      PROVE  \E k \in 1 .. Len(f) : CoreOf[f[k]] = CoreOf[a]
 <2>1. PICK b \in first : CoreOf[b] = CoreOf[a] BY <1>4
 <2>2. <<b, f[z]>> \in order BY <1>3, <1>6, <1>8, <1>9
 <2>3. Rank(cpus, order, b) < Rank(cpus, order, f[z]) BY <1>1, <1>6, <1>7, <1>8, <2>2, RankGrows
 <2>4. Rank(cpus, order, b) \in 0 .. Cardinality(cpus) - 1 BY <1>1, <1>6, <1>7, RankFacts
 <2>5. Cardinality(cpus) \in Nat /\ Len(f) \in Nat BY <1>1, <1>8, FS_CardinalityType, LenProperties
 <2>6. Rank(cpus, order, b) < Len(f) BY <1>8, <2>3, <2>4, <2>5
 <2> QED BY <1>6, <1>8, <2>1, <2>6
<1>10. ASSUME NEW z \in 1 .. Len(f), NEW j \in 1 .. Len(f), NEW a \in cpus,
              z # j, CoreOf[f[z]] = CoreOf[f[j]]
       PROVE  \E k \in 1 .. Len(f) : CoreOf[f[k]] = CoreOf[a]
 <2>1. f[z] \notin first \/ f[j] \notin first BY <1>5, <1>8, <1>10
 <2> QED BY <1>9, <2>1
<1> QED BY <1>8, <1>10 DEF Picks

(***************************************************************************)
(* OneNode: of the nodes with room there is a best.                        *)
(***************************************************************************)
Sums(f, n, x) == f = [k \in 0 .. n |-> IF k = 0 THEN 0 ELSE f[k - 1] + x[k]]

LEMMA SumsExist ==
  ASSUME NEW n \in Nat, NEW x
  PROVE  \E f : Sums(f, n, x)
<1> DEFINE Exists(m) == \E f : Sums(f, m, x)
           Bad == {m \in Nat : ~Exists(m)}
<1>1. Exists(0)
 <2>1. Sums([k \in 0 .. 0 |-> 0], 0, x) BY DEF Sums
 <2> QED BY <2>1
<1>2. ASSUME NEW m \in Nat, m # 0, Exists(m - 1) PROVE Exists(m)
 <2>1. PICK f : Sums(f, m - 1, x) BY <1>2
 <2> DEFINE g == [k \in 0 .. m |-> IF k = m THEN f[m - 1] + x[m] ELSE f[k]]
 <2>2. \A k \in 0 .. m - 1 : f[k] = IF k = 0 THEN 0 ELSE f[k - 1] + x[k] BY <2>1 DEF Sums
 <2>3. ASSUME NEW k \in 0 .. m PROVE g[k] = IF k = 0 THEN 0 ELSE g[k - 1] + x[k]
  <3>1. CASE k = m BY <1>2, <3>1
  <3>2. CASE k # m
   <4>1. k \in 0 .. m - 1 /\ g[k] = f[k] /\ (k # 0 => g[k - 1] = f[k - 1]) BY <1>2, <3>2
   <4> HIDE DEF g
   <4> QED BY <2>2, <4>1
  <3> QED BY <3>1, <3>2
 <2>4. DOMAIN g = 0 .. m /\ g = [k \in 0 .. m |-> g[k]] OBVIOUS
 <2> HIDE DEF g
 <2>5. Sums(g, m, x) BY <2>3, <2>4 DEF Sums
 <2> QED BY <2>5
<1> HIDE DEF Exists
<1>3. Bad = {}
 <2> SUFFICES ASSUME Bad # {} PROVE FALSE OBVIOUS
 <2>1. PICK m \in Bad : \A k \in Bad : m <= k BY Least
 <2>2. m \in Nat /\ m # 0 /\ ~(m <= m - 1) /\ m - 1 \in Nat BY <1>1, <2>1
 <2>3. Exists(m - 1) BY <2>1, <2>2
 <2> QED BY <1>2, <2>1, <2>2, <2>3
<1>4. Exists(n) BY <1>3
<1> QED BY <1>4 DEF Exists

LEMMA SumsTyped ==
  ASSUME NEW n \in Nat, NEW x, \A k \in 1 .. n : x[k] \in Nat, NEW f, Sums(f, n, x)
  PROVE  \A k \in 0 .. n : f[k] \in Nat
<1> DEFINE Bad == {k \in 0 .. n : f[k] \notin Nat}
<1>1. \A k \in 0 .. n : f[k] = IF k = 0 THEN 0 ELSE f[k - 1] + x[k] BY DEF Sums
<1>2. SUFFICES ASSUME Bad # {} PROVE FALSE OBVIOUS
<1>3. PICK m \in Bad : \A k \in Bad : m <= k
 <2>1. Bad \in SUBSET Nat OBVIOUS
 <2> HIDE DEF Bad
 <2> QED BY <1>2, <2>1, Least
<1>4. m \in 1 .. n /\ m - 1 \in 0 .. n /\ ~(m <= m - 1) BY <1>1, <1>3
<1>5. f[m - 1] \in Nat /\ x[m] \in Nat BY <1>3, <1>4
<1> QED BY <1>1, <1>3, <1>4, <1>5

LEMMA ScoreType ==
  ASSUME IdleKnown, NEW s \in Seq(DOMAIN idle)
  PROVE  Launch!Score(s) \in Nat
<1> DEFINE n == Len(s)
           x == [k \in 1 .. n |-> idle[s[k]]]
           Eq(f) == f = [z \in 0 .. n |-> IF z = 0 THEN 0 ELSE f[z - 1] + idle[s[z]]]
           sum == CHOOSE f : Eq(f)
<1>1. n \in Nat /\ \A k \in 1 .. n : s[k] \in DOMAIN idle /\ x[k] \in Nat
  BY LenProperties, ElementOfSeq DEF IdleKnown
<1>2. ASSUME NEW f PROVE Eq(f) <=> Sums(f, n, x)
 <2>1. \A z \in 0 .. n : (IF z = 0 THEN 0 ELSE f[z - 1] + idle[s[z]])
                         = IF z = 0 THEN 0 ELSE f[z - 1] + x[z]
   BY <1>1
 <2> HIDE DEF x, n
 <2>2. [z \in 0 .. n |-> IF z = 0 THEN 0 ELSE f[z - 1] + idle[s[z]]]
       = [z \in 0 .. n |-> IF z = 0 THEN 0 ELSE f[z - 1] + x[z]]
   BY <2>1
 <2> QED BY <2>2 DEF Sums
<1> HIDE DEF Eq, x
<1>3. Sums(sum, n, x) BY <1>1, <1>2, SumsExist
<1>4. sum[n] \in Nat BY SMTT(30), <1>1, <1>3, SumsTyped
<1>5. Launch!Score(s) = sum[n] BY DEF Launch!Score, Eq
<1> QED BY <1>4, <1>5

NodesKnown == \A cpu \in DOMAIN idle : NodeOf[cpu] \in Nat \cup {-1}

LEMMA NodeFacts ==
  ASSUME IdleKnown, NodesKnown
  PROVE  /\ IsFiniteSet(Launch!Nodes) /\ Launch!Nodes \subseteq Int
         /\ \A node \in Launch!Nodes : /\ Launch!OnNode(node) \in SUBSET DOMAIN idle
                                       /\ IsFiniteSet(Launch!OnNode(node))
<1> DEFINE f == [cpu \in DOMAIN idle |-> NodeOf[cpu]]
<1>1. Launch!Nodes \subseteq Int BY DEF Launch!Nodes, Launch!Candidates, NodesKnown
<1>2. f \in Surjection(DOMAIN idle, Launch!Nodes) BY DEF Surjection, Launch!Nodes, Launch!Candidates
<1>3. IsFiniteSet(Launch!Nodes) BY <1>2, FS_Surjection DEF IdleKnown
<1>4. ASSUME NEW node \in Launch!Nodes
      PROVE  Launch!OnNode(node) \in SUBSET DOMAIN idle /\ IsFiniteSet(Launch!OnNode(node))
  BY FS_Subset DEF IdleKnown, Launch!OnNode, Launch!Candidates
<1> QED BY <1>1, <1>3, <1>4

LEMMA BestThere ==
  ASSUME IdleKnown, NodesKnown, Launch!num_t \in Nat,
         NEW room, room = {node \in Launch!Nodes : Cardinality(Launch!OnNode(node)) >= Launch!num_t},
         room # {}
  PROVE  \E node \in room :
           Launch!OneNode = Launch!ChooseCandidates(Launch!OnNode(node), Launch!num_t)
<1> DEFINE Best(node) == Launch!Score(Launch!ChooseCandidates(Launch!OnNode(node), Launch!num_t))
           best == {n \in room : \A m \in room : Best(n) >= Best(m)}
           order == {p \in room \X room :
                       Best(p[1]) > Best(p[2]) \/ (Best(p[1]) = Best(p[2]) /\ p[1] < p[2])}
<1>1. room \subseteq Launch!Nodes /\ room \subseteq Int /\ IsFiniteSet(room) BY NodeFacts, FS_Subset
<1>2. ASSUME NEW node \in room PROVE Best(node) \in Nat
 <2>1. Launch!OnNode(node) \in SUBSET DOMAIN idle BY <1>1, NodeFacts
 <2>2. Launch!ChooseCandidates(Launch!OnNode(node), Launch!num_t) \in Seq(DOMAIN idle)
   BY <2>1, ChosenFacts, SeqMonotonic DEF Picks
 <2> QED BY <2>2, ScoreType
<1>3. \A a, b \in room : <<a, b>> \in order <=>
         Best(a) > Best(b) \/ (Best(a) = Best(b) /\ a < b)
  OBVIOUS
<1>4. Launch!OneNode = LET node == Launch!Min(best)
                       IN Launch!ChooseCandidates(Launch!OnNode(node), Launch!num_t)
  BY LaunchCounts DEF Launch!OneNode
<1> HIDE DEF Best, order
<1>5. Orders(order, room) BY <1>1, <1>2, <1>3 DEF Orders
<1>6. PICK a \in room : \A b \in room : b # a => <<a, b>> \in order BY <1>1, <1>5, FirstThere
<1>7. a \in best /\ \A b \in best : a <= b
 <2>1. \A b \in room : b = a \/ Best(a) > Best(b) \/ (Best(a) = Best(b) /\ a < b) BY <1>3, <1>6
 <2> QED BY <1>1, <1>2, <2>1
<1>8. best \subseteq room OBVIOUS
<1> HIDE DEF best
<1>9. Launch!Min(best) \in best BY <1>7 DEF Launch!Min
<1> QED BY <1>4, <1>8, <1>9

(***************************************************************************)
(* SpreadOverNodes: the shares are one apart and make up num_t.            *)
(***************************************************************************)
Index(node) == Cardinality({n \in Launch!Nodes : n < node})
Quota == Launch!num_t \div Cardinality(Launch!Nodes)
Rest == Launch!num_t % Cardinality(Launch!Nodes)
Larger == {n \in Launch!Nodes : Index(n) < Rest}

LEMMA Remainder ==
  ASSUME NEW x \in Nat, NEW n \in Nat, n > 0, NEW q, q = x \div n, NEW r, r = x % n
  PROVE  q \in Nat /\ r \in 0 .. n - 1 /\ x = q * n + r
<1>1. r \in Nat /\ r < n BY SMT
<1>2. q \in Nat /\ x = n * q + r BY SMT
<1>3. n * q = q * n BY <1>2
<1> QED BY <1>1, <1>2, <1>3

LEMMA ShareFacts ==
  ASSUME IdleKnown, NodesKnown, Launch!num_t \in Nat, Launch!Nodes # {}
  PROVE  /\ Quota \in Nat /\ Rest \in 0 .. Cardinality(Launch!Nodes) - 1
         /\ Cardinality(Launch!Nodes) \in Nat
         /\ Launch!num_t = Quota * Cardinality(Launch!Nodes) + Rest
         /\ \A n \in Launch!Nodes : Launch!NodeShare(n) = Quota + IF n \in Larger THEN 1 ELSE 0
         /\ IsFiniteSet(Larger) /\ Cardinality(Larger) = Rest
<1> DEFINE k == Cardinality(Launch!Nodes)
<1>1. k \in Nat \ {0} BY NodeFacts, FS_CardinalityType, FS_EmptySet
<1>2. Quota \in Nat /\ Rest \in 0 .. k - 1 /\ Launch!num_t = Quota * k + Rest
 <2>1. k \in Nat /\ k > 0 BY <1>1
 <2>2. Quota = Launch!num_t \div k /\ Rest = Launch!num_t % k BY DEF Quota, Rest
 <2> HIDE DEF k
 <2> QED BY <2>1, <2>2, Remainder
<1>3. \A n \in Launch!Nodes : Launch!NodeShare(n) = Quota + IF n \in Larger THEN 1 ELSE 0
  BY LaunchCounts DEF Launch!NodeShare, Larger, Index, Quota, Rest
<1> DEFINE order == {p \in Launch!Nodes \X Launch!Nodes : p[1] < p[2]}
<1>4. \A n \in Launch!Nodes : Rank(Launch!Nodes, order, n) = Index(n)
 <2> TAKE n \in Launch!Nodes
 <2>1. Under(Launch!Nodes, order, n) = {m \in Launch!Nodes : m < n} BY DEF Under
 <2> QED BY <2>1 DEF Rank, Index
<1>5. Orders(order, Launch!Nodes) BY NodeFacts DEF Orders
<1> DEFINE f == Launch!FirstOf(Launch!Nodes, order, Rest)
<1> HIDE DEF order
<1>6. /\ f \in Seq(Launch!Nodes) /\ Len(f) = Lower(Rest, k) /\ DOMAIN f = 1 .. Len(f)
      /\ \A z \in 1 .. Len(f) : f[z] \in Launch!Nodes /\ Index(f[z]) = z - 1
      /\ \A z, j \in 1 .. Len(f) : f[z] = f[j] => z = j
      /\ \A a \in Launch!Nodes : Index(a) < Len(f) => \E z \in 1 .. Len(f) : f[z] = a
  BY SMTT(30), <1>1, <1>2, <1>4, <1>5, NodeFacts, FirstFacts
<1> HIDE DEF f
<1>7. Len(f) = Rest BY <1>1, <1>2, <1>6 DEF Lower
<1>8. f \in Bijection(1 .. Rest, Larger)
 <2>1. f \in [1 .. Rest -> Larger]
  <3>1. ASSUME NEW z \in 1 .. Rest PROVE f[z] \in Larger BY <1>2, <1>6, <1>7 DEF Larger
  <3>2. f = [z \in 1 .. Rest |-> f[z]] BY <1>6, <1>7
  <3> QED BY <3>1, <3>2
 <2>2. \A a \in Larger : \E z \in 1 .. Rest : f[z] = a BY <1>6, <1>7 DEF Larger
 <2>3. \A z, j \in 1 .. Rest : f[z] = f[j] => z = j BY <1>6, <1>7
 <2> QED BY <2>1, <2>2, <2>3 DEF Bijection, Injection, Surjection, IsInjective
<1>9. IsFiniteSet(1 .. Rest) /\ Cardinality(1 .. Rest) = Rest
 <2>1. 1 \in Int /\ Rest \in Int /\ (IF 1 > Rest THEN 0 ELSE Rest - 1 + 1) = Rest BY <1>1, <1>2
 <2> QED BY <2>1, FS_Interval
<1>10. IsFiniteSet(Larger) /\ Cardinality(Larger) = Rest
  BY <1>8, <1>9, FS_Bijection DEF ExistsBijection
<1> QED BY <1>1, <1>2, <1>3, <1>10

LEMMA ShareAtMost ==
  ASSUME IdleKnown, NodesKnown, Launch!num_t \in Nat, Launch!Nodes # {}
  PROVE  Quota <= Launch!num_t /\ (Larger # {} => Quota + 1 <= Launch!num_t)
<1> DEFINE k == Cardinality(Launch!Nodes)
<1>1. /\ Quota \in Nat /\ Rest \in Nat /\ k \in Nat /\ Launch!num_t = Quota * k + Rest
      /\ k # 0 /\ (Larger # {} => Rest # 0)
  BY ShareFacts, NodeFacts, FS_EmptySet
<1>2. ASSUME NEW q \in Nat, NEW m \in Nat, m # 0 PROVE q * m >= q /\ q * m \in Nat BY <1>2, SMT
<1>3. Quota * k >= Quota /\ Quota * k \in Nat BY <1>1, <1>2
<1> QED BY <1>1, <1>3

LEMMA DealFacts ==
  ASSUME IdleKnown, NodesKnown, Launch!num_t \in Nat, Launch!Nodes # {}
  PROVE  IsFiniteSet(Launch!Deals) /\ Cardinality(Launch!Deals) = Launch!num_t
<1> DEFINE k == Cardinality(Launch!Nodes)
           A == (1 .. Quota) \X Launch!Nodes
           B == {Quota + 1} \X Larger
<1>1. /\ Quota \in Nat /\ Rest \in 0 .. k - 1 /\ k \in Nat /\ Launch!num_t = Quota * k + Rest
      /\ \A n \in Launch!Nodes : Launch!NodeShare(n) = Quota + IF n \in Larger THEN 1 ELSE 0
      /\ IsFiniteSet(Larger) /\ Cardinality(Larger) = Rest
  BY ShareFacts
<1>2. Larger \subseteq Launch!Nodes BY DEF Larger
<1>3. \A r \in Nat : r \in 1 .. Launch!num_t <=> r >= 1 /\ r <= Launch!num_t OBVIOUS
<1>4. Quota <= Launch!num_t /\ (Larger # {} => Quota + 1 <= Launch!num_t) BY ShareAtMost
<1>5. Launch!Deals = A \cup B
 <2>1. \A r, n : <<r, n>> \in Launch!Deals <=>
          r \in 1 .. Launch!num_t /\ n \in Launch!Nodes /\ r <= Launch!NodeShare(n)
   BY DEF Launch!Deals
 <2>2. \A r, n : <<r, n>> \in A \cup B <=>
          (r \in 1 .. Quota /\ n \in Launch!Nodes) \/ (r = Quota + 1 /\ n \in Larger)
   OBVIOUS
 <2>3. ASSUME NEW r, NEW n
       PROVE  r \in 1 .. Launch!num_t /\ n \in Launch!Nodes /\ r <= Launch!NodeShare(n) <=>
              (r \in 1 .. Quota /\ n \in Launch!Nodes) \/ (r = Quota + 1 /\ n \in Larger)
  <3>1. CASE n \notin Launch!Nodes BY <1>2, <3>1
  <3>2. CASE n \in Larger
   <4>1. n \in Launch!Nodes /\ Launch!NodeShare(n) = Quota + 1 /\ Quota + 1 <= Launch!num_t
     BY <1>1, <1>2, <1>4, <3>2
   <4>2. CASE r \in Nat BY <1>1, <3>2, <4>1, <4>2
   <4>3. CASE r \notin Nat BY <1>1, <4>3
   <4> QED BY <4>2, <4>3
  <3>3. CASE n \in Launch!Nodes /\ n \notin Larger
   <4>1. Launch!NodeShare(n) = Quota BY <1>1, <3>3
   <4> QED BY <1>1, <1>4, <3>3, <4>1
  <3> QED BY <3>1, <3>2, <3>3
 <2>4. /\ \A d \in Launch!Deals : d = <<d[1], d[2]>>
       /\ \A d \in A \cup B : d = <<d[1], d[2]>>
   BY DEF Launch!Deals
 <2> HIDE DEF A, B
 <2>5. \A r, n : <<r, n>> \in Launch!Deals <=> <<r, n>> \in A \cup B BY <2>1, <2>2, <2>3
 <2>6. \A d \in Launch!Deals : d \in A \cup B BY <2>4, <2>5
 <2>7. \A d \in A \cup B : d \in Launch!Deals BY <2>4, <2>5
 <2> QED BY <2>6, <2>7
<1>6. IsFiniteSet(A) /\ Cardinality(A) = Quota * k
 <2>1. IsFiniteSet(1 .. Quota) /\ Cardinality(1 .. Quota) = Quota
  <3>1. 1 \in Int /\ Quota \in Int /\ (IF 1 > Quota THEN 0 ELSE Quota - 1 + 1) = Quota BY <1>1
  <3> QED BY <3>1, FS_Interval
 <2> QED BY <2>1, NodeFacts, FS_Product
<1>7. IsFiniteSet(B) /\ Cardinality(B) = Rest
 <2>1. IsFiniteSet({Quota + 1}) /\ Cardinality({Quota + 1}) = 1 BY FS_Singleton
 <2>2. IsFiniteSet(B) /\ Cardinality(B) = 1 * Cardinality(Larger) BY <1>1, <2>1, FS_Product
 <2> QED BY <1>1, <2>2
<1>8. A \cap B = {} BY <1>1
<1> HIDE DEF A, B
<1>9. Cardinality(A \cup B) = Quota * k + Rest - 0 BY <1>6, <1>7, <1>8, FS_Union, FS_EmptySet
<1>10. Quota * k \in Nat
 <2>1. ASSUME NEW q \in Nat, NEW m \in Nat PROVE q * m \in Nat BY SMT
 <2> QED BY <1>1, <2>1
<1>11. IsFiniteSet(A \cup B) BY <1>6, <1>7, FS_Union
<1> QED BY <1>1, <1>5, <1>9, <1>10, <1>11

LEMMA SpreadFacts ==
  ASSUME IdleKnown, NodesKnown, Launch!num_t \in Nat, Launch!Nodes # {},
         \A node \in Launch!Nodes : Cardinality(Launch!OnNode(node)) >= Launch!NodeShare(node),
         NEW s, s = Launch!SpreadOverNodes
  PROVE  /\ DOMAIN s = 1 .. Launch!num_t /\ s \in Seq(DOMAIN idle)
         /\ \A z, j \in 1 .. Launch!num_t : s[z] = s[j] => z = j
         /\ \A node \in Launch!Nodes :
              Cardinality({s[z] : z \in 1 .. Launch!num_t} \cap Launch!OnNode(node))
              = Launch!NodeShare(node)
         /\ \A z, j \in 1 .. Launch!num_t, cpu \in DOMAIN idle :
              z # j /\ CoreOf[s[z]] = CoreOf[s[j]]
              /\ NodeOf[s[z]] = NodeOf[s[j]] /\ NodeOf[cpu] = NodeOf[s[z]] =>
                \E k \in 1 .. Launch!num_t : CoreOf[s[k]] = CoreOf[cpu]
<1> DEFINE order == {p \in Launch!Deals \X Launch!Deals : Launch!Earlier(p[1], p[2])}
           n == Launch!num_t
           deals == Launch!FirstOf(Launch!Deals, order, n)
           Choice(node) == Launch!ChooseCandidates(Launch!OnNode(node), Launch!NodeShare(node))
<1>1. n \in Nat /\ IsFiniteSet(Launch!Deals) /\ Cardinality(Launch!Deals) = n BY DealFacts
<1>2. \A d \in Launch!Deals : /\ d = <<d[1], d[2]>> /\ d[1] \in Nat /\ d[2] \in Launch!Nodes
                              /\ d[2] \in Int /\ d[1] \in 1 .. Launch!NodeShare(d[2])
 <2>1. \A node \in Launch!Nodes : Launch!NodeShare(node) \in Nat BY ShareFacts
 <2> QED BY <2>1, NodeFacts DEF Launch!Deals
<1>3. Orders(order, Launch!Deals)
 <2>1. \A d, e \in Launch!Deals : <<d, e>> \in order <=> Launch!Earlier(d, e) OBVIOUS
 <2> HIDE DEF order
 <2>2. \A d \in Launch!Deals : ~Launch!Earlier(d, d) BY <1>2 DEF Launch!Earlier
 <2>3. ASSUME NEW d \in Launch!Deals, NEW e \in Launch!Deals, d # e
       PROVE  Launch!Earlier(d, e) \/ Launch!Earlier(e, d)
  <3>1. d[1] # e[1] \/ d[2] # e[2] BY <1>2, <2>3
  <3> QED BY <1>2, <3>1 DEF Launch!Earlier
 <2>4. \A d, e, g \in Launch!Deals :
          Launch!Earlier(d, e) /\ Launch!Earlier(e, g) => Launch!Earlier(d, g)
   BY <1>2 DEF Launch!Earlier
 <2> QED BY <2>1, <2>2, <2>3, <2>4 DEF Orders
<1>4. s = [z \in DOMAIN deals |-> Choice(deals[z][2])[deals[z][1]]]
 <2>1. ASSUME NEW node \in Launch!Nodes
       PROVE  Launch!NodeShare(node) \in Nat /\ Cardinality(Launch!OnNode(node)) \in Nat
  <3>1. Launch!NodeShare(node) \in Nat BY ShareFacts
  <3>2. IsFiniteSet(Launch!OnNode(node)) BY NodeFacts
  <3> QED BY <3>1, <3>2, FS_CardinalityType
 <2>2. ~ \E node \in Launch!Nodes :
           Launch!Cardinality(Launch!OnNode(node)) < Launch!NodeShare(node)
   BY <2>1, LaunchCounts
 <2> QED BY <2>2, Zenon DEF Launch!SpreadOverNodes
<1> HIDE DEF order
<1>5. /\ deals \in Seq(Launch!Deals) /\ Len(deals) = n /\ DOMAIN deals = 1 .. n
      /\ \A z \in 1 .. n : deals[z] \in Launch!Deals
      /\ \A z, j \in 1 .. n : deals[z] = deals[j] => z = j
      /\ \A d \in Launch!Deals : \E z \in 1 .. n : deals[z] = d
 <2> HIDE DEF deals, n
 <2>1. /\ deals \in Seq(Launch!Deals) /\ Len(deals) = Lower(n, n) /\ DOMAIN deals = 1 .. Len(deals)
       /\ \A z \in 1 .. Len(deals) : deals[z] \in Launch!Deals
       /\ \A z, j \in 1 .. Len(deals) : deals[z] = deals[j] => z = j
       /\ \A d \in Launch!Deals : Rank(Launch!Deals, order, d) < Len(deals) =>
            \E z \in 1 .. Len(deals) : deals[z] = d
   BY <1>1, <1>3, FirstFacts DEF deals
 <2>2. Len(deals) = n BY <1>1, <2>1 DEF Lower
 <2>3. \A d \in Launch!Deals : Rank(Launch!Deals, order, d) < n BY <1>1, <1>3, RankFacts
 <2> QED BY <2>1, <2>2, <2>3
<1> HIDE DEF deals, n, Choice
<1>6. ASSUME NEW node \in Launch!Nodes
      PROVE  /\ Launch!NodeShare(node) \in Nat
             /\ DOMAIN Choice(node) = 1 .. Launch!NodeShare(node)
             /\ \A r \in 1 .. Launch!NodeShare(node) :
                  /\ Choice(node)[r] \in DOMAIN idle /\ Choice(node)[r] \in Launch!OnNode(node)
                  /\ NodeOf[Choice(node)[r]] = node
             /\ \A q, r \in 1 .. Launch!NodeShare(node) : Choice(node)[q] = Choice(node)[r] => q = r
             /\ \A q, r \in 1 .. Launch!NodeShare(node), a \in Launch!OnNode(node) :
                  q # r /\ CoreOf[Choice(node)[q]] = CoreOf[Choice(node)[r]] =>
                    \E k \in 1 .. Launch!NodeShare(node) : CoreOf[Choice(node)[k]] = CoreOf[a]
 <2>1. Launch!NodeShare(node) \in Nat BY ShareFacts
 <2>2. /\ Launch!OnNode(node) \in SUBSET DOMAIN idle
       /\ Cardinality(Launch!OnNode(node)) \in Nat
       /\ Cardinality(Launch!OnNode(node)) >= Launch!NodeShare(node)
   BY NodeFacts, FS_CardinalityType
 <2>3. Lower(Launch!NodeShare(node), Cardinality(Launch!OnNode(node))) = Launch!NodeShare(node)
   BY <2>1, <2>2 DEF Lower
 <2>4. Picks(Choice(node), Launch!OnNode(node), Launch!NodeShare(node))
   BY <2>1, <2>2, ChosenFacts DEF Choice
 <2>5. /\ Len(Choice(node)) = Launch!NodeShare(node) /\ DOMAIN Choice(node) = 1 .. Len(Choice(node))
       /\ \A r \in 1 .. Len(Choice(node)) : Choice(node)[r] \in Launch!OnNode(node)
       /\ \A q, r \in 1 .. Len(Choice(node)) : Choice(node)[q] = Choice(node)[r] => q = r
       /\ \A q, r \in 1 .. Len(Choice(node)), a \in Launch!OnNode(node) :
            q # r /\ CoreOf[Choice(node)[q]] = CoreOf[Choice(node)[r]] =>
              \E k \in 1 .. Len(Choice(node)) : CoreOf[Choice(node)[k]] = CoreOf[a]
   BY <2>3, <2>4 DEF Picks
 <2>6. \A cpu \in Launch!OnNode(node) : cpu \in DOMAIN idle /\ NodeOf[cpu] = node
   BY DEF Launch!OnNode, Launch!Candidates
 <2> QED BY <2>1, <2>5, <2>6
<1>7. ASSUME NEW z \in 1 .. n
      PROVE  /\ deals[z][2] \in Launch!Nodes /\ deals[z][1] \in 1 .. Launch!NodeShare(deals[z][2])
             /\ s[z] = Choice(deals[z][2])[deals[z][1]]
             /\ s[z] \in DOMAIN idle /\ NodeOf[s[z]] = deals[z][2]
 <2>1. deals[z] \in Launch!Deals BY <1>5
 <2>2. deals[z][2] \in Launch!Nodes /\ deals[z][1] \in 1 .. Launch!NodeShare(deals[z][2])
   BY <1>2, <2>1
 <2>3. s[z] = Choice(deals[z][2])[deals[z][1]] BY <1>4, <1>5
 <2> QED BY <1>6, <2>2, <2>3
<1>8. DOMAIN s = 1 .. n /\ s \in Seq(DOMAIN idle)
 <2>1. DOMAIN s = 1 .. n BY <1>4, <1>5
 <2>2. s \in [1 .. n -> DOMAIN idle] BY <1>4, <1>5, <1>7
 <2> QED BY <1>1, <2>1, <2>2, LenProperties
<1>9. ASSUME NEW z \in 1 .. n, NEW j \in 1 .. n, s[z] = s[j] PROVE z = j
 <2>1. deals[z][2] = deals[j][2] BY <1>7, <1>9
 <2>2. deals[z][1] = deals[j][1] BY <1>6, <1>7, <1>9, <2>1
 <2>3. /\ deals[z] = <<deals[z][1], deals[z][2]>>
       /\ deals[j] = <<deals[j][1], deals[j][2]>>
   BY <1>2, <1>5
 <2>4. deals[z] = deals[j] BY <2>1, <2>2, <2>3
 <2> QED BY <1>5, <2>4
<1>10. ASSUME NEW node \in Launch!Nodes, NEW r \in 1 .. Launch!NodeShare(node)
       PROVE  \E z \in 1 .. n : s[z] = Choice(node)[r]
 <2> DEFINE m == Launch!NodeShare(node)
 <2>1. <<r, node>> \in Launch!Deals
  <3>1. m <= Launch!num_t
   <4>1. m = Quota + (IF node \in Larger THEN 1 ELSE 0) /\ Quota \in Nat /\ Rest \in Nat
     BY ShareFacts
   <4>2. Quota <= Launch!num_t /\ (Larger # {} => Quota + 1 <= Launch!num_t) BY ShareAtMost
   <4> QED BY <4>1, <4>2
  <3>2. r \in 1 .. Launch!num_t /\ r <= m BY <1>6, <3>1
  <3> QED BY <3>2 DEF Launch!Deals
 <2>2. PICK z \in 1 .. n : deals[z] = <<r, node>> BY <1>5, <2>1
 <2> QED BY <1>7, <2>2
<1>11. ASSUME NEW node \in Launch!Nodes
       PROVE  Cardinality({s[z] : z \in 1 .. n} \cap Launch!OnNode(node)) = Launch!NodeShare(node)
 <2> DEFINE T == {s[z] : z \in 1 .. n} \cap Launch!OnNode(node)
            m == Launch!NodeShare(node)
            f == [r \in 1 .. m |-> Choice(node)[r]]
 <2>1. ASSUME NEW r \in 1 .. m PROVE f[r] \in T
  <3>1. PICK z \in 1 .. n : s[z] = Choice(node)[r] BY <1>10
  <3> QED BY <1>6, <3>1
 <2>2. ASSUME NEW cpu \in T PROVE \E r \in 1 .. m : f[r] = cpu
  <3>1. PICK z \in 1 .. n : cpu = s[z] OBVIOUS
  <3>2. NodeOf[cpu] = node BY DEF Launch!OnNode
  <3> QED BY <1>7, <3>1, <3>2
 <2>3. \A q, r \in 1 .. m : f[q] = f[r] => q = r BY <1>6
 <2>4. m \in Nat BY <1>6
 <2> HIDE DEF m, T
 <2>5. f \in Bijection(1 .. m, T)
  <3>1. f \in [1 .. m -> T] BY <2>1
  <3> HIDE DEF f
  <3> QED BY <2>2, <2>3, <3>1 DEF Bijection, Injection, Surjection, IsInjective
 <2>6. IsFiniteSet(1 .. m) /\ Cardinality(1 .. m) = m
  <3>1. 1 \in Int /\ m \in Int /\ (IF 1 > m THEN 0 ELSE m - 1 + 1) = m BY <2>4
  <3> QED BY <3>1, FS_Interval
 <2>7. Cardinality(T) = m BY <2>5, <2>6, FS_Bijection DEF ExistsBijection
 <2> QED BY <2>7 DEF T, m
<1>12. ASSUME NEW z \in 1 .. n, NEW j \in 1 .. n, NEW cpu \in DOMAIN idle,
              z # j, CoreOf[s[z]] = CoreOf[s[j]],
              NodeOf[s[z]] = NodeOf[s[j]], NodeOf[cpu] = NodeOf[s[z]]
       PROVE  \E k \in 1 .. n : CoreOf[s[k]] = CoreOf[cpu]
 <2> DEFINE node == deals[z][2]
 <2>1. deals[j][2] = node /\ node \in Launch!Nodes BY <1>7, <1>12
 <2>2. cpu \in Launch!OnNode(node) BY <1>7, <1>12 DEF Launch!OnNode, Launch!Candidates
 <2>3. /\ s[z] = Choice(node)[deals[z][1]] /\ s[j] = Choice(node)[deals[j][1]]
       /\ deals[z][1] \in 1 .. Launch!NodeShare(node) /\ deals[j][1] \in 1 .. Launch!NodeShare(node)
   BY <1>7, <2>1
 <2>4. deals[z][1] # deals[j][1] BY <1>9, <1>12, <2>3
 <2> HIDE DEF node
 <2>5. PICK r \in 1 .. Launch!NodeShare(node) : CoreOf[Choice(node)[r]] = CoreOf[cpu]
   BY SMTT(30), <1>6, <1>12, <2>1, <2>2, <2>3, <2>4
 <2>6. PICK k \in 1 .. n : s[k] = Choice(node)[r] BY <1>10, <2>1
 <2> QED BY <2>5, <2>6
<1> QED BY <1>8, <1>9, <1>11, <1>12 DEF n

(***************************************************************************)
(* select_idle_cpus(): what it returns is what ChosenWell says.            *)
(***************************************************************************)
LEMMA DistinctCount ==
  ASSUME NEW n \in Nat, NEW s, DOMAIN s = 1 .. n, \A z, j \in 1 .. n : s[z] = s[j] => z = j
  PROVE  Cardinality(Launch!ToSet(s)) = n
<1> DEFINE T == {s[z] : z \in 1 .. n}
           f == [z \in 1 .. n |-> s[z]]
<1>1. Launch!ToSet(s) = T BY DEF Launch!ToSet
<1>2. f \in Bijection(1 .. n, T)
 <2>1. f \in [1 .. n -> T] /\ \A z, j \in 1 .. n : f[z] = f[j] => z = j OBVIOUS
 <2>2. \A a \in T : \E z \in 1 .. n : f[z] = a OBVIOUS
 <2> HIDE DEF f, T
 <2> QED BY <2>1, <2>2 DEF Bijection, Injection, Surjection, IsInjective
<1>3. IsFiniteSet(1 .. n) /\ Cardinality(1 .. n) = n
 <2>1. 1 \in Int /\ n \in Int /\ (IF 1 > n THEN 0 ELSE n - 1 + 1) = n OBVIOUS
 <2> QED BY <2>1, FS_Interval
<1> HIDE DEF f, T
<1> QED BY <1>1, <1>2, <1>3, FS_Bijection DEF ExistsBijection

LEMMA PickedFacts ==
  ASSUME IdleKnown, Launch!num_t \in Nat, NEW cpus \in SUBSET DOMAIN idle,
         Cardinality(cpus) >= Launch!num_t,
         NEW s, s = Launch!ChooseCandidates(cpus, Launch!num_t),
         NEW U, U = Launch!ToSet(s)
  PROVE  /\ Len(s) = Launch!num_t /\ Cardinality(U) = Launch!num_t /\ U \subseteq cpus
         /\ \A a, b \in U : a # b /\ CoreOf[a] = CoreOf[b] =>
              \A cpu \in cpus : \E k \in U : CoreOf[k] = CoreOf[cpu]
<1> DEFINE n == Launch!num_t
<1>0. n \in Nat /\ Cardinality(cpus) >= n /\ s = Launch!ChooseCandidates(cpus, n) OBVIOUS
<1> HIDE DEF n
<1>1. Picks(s, cpus, n) BY <1>0, ChosenFacts
<1>2. Cardinality(cpus) \in Nat BY FS_Subset, FS_CardinalityType DEF IdleKnown
<1>4. Len(s) = n BY <1>0, <1>1, <1>2 DEF Lower, Picks
<1>5. U = {s[z] : z \in 1 .. n} BY <1>1, <1>4 DEF Launch!ToSet, Picks
<1>6. Cardinality(U) = n BY <1>0, <1>1, <1>4, DistinctCount DEF Picks
<1>7. U \subseteq cpus BY <1>1, <1>4, <1>5 DEF Picks
<1>8. ASSUME NEW a \in U, NEW b \in U, a # b, CoreOf[a] = CoreOf[b], NEW cpu \in cpus
      PROVE  \E k \in U : CoreOf[k] = CoreOf[cpu]
 <2>1. PICK z \in 1 .. n : s[z] = a BY <1>5
 <2>2. PICK j \in 1 .. n : s[j] = b BY <1>5
 <2>3. PICK k \in 1 .. n : CoreOf[s[k]] = CoreOf[cpu] BY <1>1, <1>4, <1>8, <2>1, <2>2 DEF Picks
 <2> QED BY <1>5, <2>3
<1> QED BY <1>4, <1>6, <1>7, <1>8 DEF n

\* What ChosenWell says of the CPUs s.
Well(s) ==
  LET U == Launch!ToSet(s)
  IN /\ Len(s) = Launch!num_t /\ Cardinality(U) = Launch!num_t /\ U \subseteq DOMAIN idle
     /\ ~settings.spread /\ (\E n \in Launch!Nodes : Cardinality(Launch!OnNode(n)) >= Launch!num_t) =>
          Cardinality({NodeOf[cpu] : cpu \in U}) = 1
     /\ settings.spread =>
          \A m, n \in Launch!Nodes :
             Cardinality(U \cap Launch!OnNode(m)) <= Cardinality(U \cap Launch!OnNode(n)) + 1
     /\ ~settings.spread =>
          \A a, b \in U : a # b /\ CoreOf[a] = CoreOf[b] =>
            \A cpu \in DOMAIN idle : (\E other \in U : NodeOf[cpu] = NodeOf[other]) =>
              \E k \in U : CoreOf[k] = CoreOf[cpu]
     /\ settings.spread =>
          \A a, b \in U : a # b /\ NodeOf[b] = NodeOf[a] /\ CoreOf[a] = CoreOf[b] =>
            \A cpu \in DOMAIN idle : NodeOf[cpu] = NodeOf[a] =>
              \E k \in U : CoreOf[k] = CoreOf[cpu]

LEMMA SelectionWell ==
  ASSUME IdleKnown, NodesKnown, Launch!num_t \in Nat \ {0},
         Cardinality(DOMAIN idle) >= Launch!num_t, Launch!Selection # <<>>
  PROVE  Well(Launch!Selection)
<1> DEFINE s == Launch!Selection
           U == Launch!ToSet(s)
           n == Launch!num_t
           room == {node \in Launch!Nodes : Cardinality(Launch!OnNode(node)) >= n}
<1>1. n \in Nat /\ n # 0 /\ n = Launch!num_t OBVIOUS
<1>2. CASE ~settings.spread /\ room # {}
 <2>1. PICK node \in room : Launch!OneNode = Launch!ChooseCandidates(Launch!OnNode(node), n)
   BY <1>1, <1>2, BestThere
 <2> DEFINE cpus == Launch!OnNode(node)
 <2>2. cpus \in SUBSET DOMAIN idle /\ Cardinality(cpus) >= n BY NodeFacts
 <2>3. Len(Launch!OneNode) = n BY <1>1, <2>1, <2>2, PickedFacts
 <2>4. Launch!OneNode # <<>> BY <1>1, <2>3
 <2>5. s = Launch!ChooseCandidates(cpus, n) BY <1>2, <2>1, <2>4 DEF Launch!Selection
 <2> HIDE DEF s, n, room
 <2>6. /\ Len(s) = n /\ Cardinality(U) = n /\ U \subseteq cpus
       /\ \A a, b \in U : a # b /\ CoreOf[a] = CoreOf[b] =>
            \A cpu \in cpus : \E k \in U : CoreOf[k] = CoreOf[cpu]
   BY <1>1, <2>2, <2>5, PickedFacts
 <2>7. \A cpu \in DOMAIN idle : cpu \in cpus <=> NodeOf[cpu] = node
   BY DEF Launch!OnNode, Launch!Candidates
 <2>8. U # {} BY <1>1, <2>6, FS_EmptySet
 <2> HIDE DEF cpus, U
 <2>9. {NodeOf[cpu] : cpu \in U} = {node} BY <2>2, <2>6, <2>7, <2>8
 <2>10. Cardinality({NodeOf[cpu] : cpu \in U}) = 1 BY <2>9, FS_Singleton
 <2>11. \A cpu \in DOMAIN idle : (\E other \in U : NodeOf[cpu] = NodeOf[other]) => cpu \in cpus
   BY <2>2, <2>6, <2>7
 <2>12. U \subseteq DOMAIN idle BY <2>2, <2>6
 <2> QED BY <1>1, <1>2, <2>6, <2>10, <2>11, <2>12 DEF Well, U, s
<1>3. CASE ~settings.spread /\ room = {}
 <2>1. Launch!OneNode = <<>> BY <1>3, LaunchCounts DEF Launch!OneNode
 <2>2. s = Launch!ChooseCandidates(DOMAIN idle, n)
   BY <1>3, <2>1 DEF Launch!Selection, Launch!Candidates
 <2>3. DOMAIN idle \in SUBSET DOMAIN idle OBVIOUS
 <2> HIDE DEF s, n
 <2>4. /\ Len(s) = n /\ Cardinality(U) = n /\ U \subseteq DOMAIN idle
       /\ \A a, b \in U : a # b /\ CoreOf[a] = CoreOf[b] =>
            \A cpu \in DOMAIN idle : \E k \in U : CoreOf[k] = CoreOf[cpu]
   BY <1>1, <2>2, <2>3, PickedFacts
 <2>5. ~ \E node \in Launch!Nodes : Cardinality(Launch!OnNode(node)) >= n BY <1>3
 <2> HIDE DEF room, U
 <2> QED BY <1>1, <1>3, <2>4, <2>5 DEF Well, U, s
<1>4. CASE settings.spread
 <2>1. s = Launch!SpreadOverNodes BY <1>4 DEF Launch!Selection
 <2>2. Launch!Nodes # {}
  <3>1. DOMAIN idle # {} BY <1>1, FS_EmptySet
  <3> QED BY <3>1 DEF Launch!Nodes, Launch!Candidates
 <2>3. \A node \in Launch!Nodes : /\ Launch!NodeShare(node) \in Nat
                                   /\ Cardinality(Launch!OnNode(node)) \in Nat
                                   /\ Launch!NodeShare(node) \in {Quota, Quota + 1} /\ Quota \in Nat
   BY <1>1, <2>2, ShareFacts, NodeFacts, FS_CardinalityType
 <2>4. ~ \E node \in Launch!Nodes : Cardinality(Launch!OnNode(node)) < Launch!NodeShare(node)
   BY <2>1, LaunchCounts DEF Launch!SpreadOverNodes
 <2> HIDE DEF s, n
 <2>5. \A node \in Launch!Nodes : Cardinality(Launch!OnNode(node)) >= Launch!NodeShare(node)
   BY <2>3, <2>4
 <2>6. /\ DOMAIN s = 1 .. n /\ s \in Seq(DOMAIN idle)
       /\ \A z, j \in 1 .. n : s[z] = s[j] => z = j
       /\ \A node \in Launch!Nodes :
            Cardinality({s[z] : z \in 1 .. n} \cap Launch!OnNode(node)) = Launch!NodeShare(node)
       /\ \A z, j \in 1 .. n, cpu \in DOMAIN idle :
            z # j /\ CoreOf[s[z]] = CoreOf[s[j]]
            /\ NodeOf[s[z]] = NodeOf[s[j]] /\ NodeOf[cpu] = NodeOf[s[z]] =>
              \E k \in 1 .. n : CoreOf[s[k]] = CoreOf[cpu]
   BY <1>1, <2>1, <2>2, <2>5, SpreadFacts
 <2>7. U = {s[z] : z \in 1 .. n} BY <2>6 DEF Launch!ToSet
 <2>8. Len(s) = n /\ U \subseteq DOMAIN idle BY <1>1, <2>6, <2>7, LenProperties, ElementOfSeq
 <2>9. Cardinality(U) = n BY <1>1, <2>6, DistinctCount
 <2> HIDE DEF U
 <2>10. \A a, b \in Launch!Nodes :
           Cardinality(U \cap Launch!OnNode(a)) <= Cardinality(U \cap Launch!OnNode(b)) + 1
   BY <2>3, <2>6, <2>7
 <2>11. ASSUME NEW a \in U, NEW b \in U, NEW cpu \in DOMAIN idle, a # b,
               NodeOf[b] = NodeOf[a], CoreOf[a] = CoreOf[b], NodeOf[cpu] = NodeOf[a]
        PROVE  \E k \in U : CoreOf[k] = CoreOf[cpu]
  <3>1. PICK z \in 1 .. n : s[z] = a BY <2>7
  <3>2. PICK j \in 1 .. n : s[j] = b BY <2>7
  <3>3. PICK k \in 1 .. n : CoreOf[s[k]] = CoreOf[cpu] BY <2>6, <2>11, <3>1, <3>2
  <3> QED BY <2>7, <3>3
 <2> QED BY <1>1, <1>4, <2>8, <2>9, <2>10, <2>11 DEF Well, U, s
<1> QED BY <1>2, <1>3, <1>4

(***************************************************************************)
(* What is known of the arguments and of the last sample.                  *)
(***************************************************************************)
LaunchKnown ==
  /\ LaunchInv
  /\ settings.argument \in Seq(Nat)
  /\ pc = "counts" => c = 1
  /\ pc \notin {"counts", "failed"} =>
       c \in 1 .. Len(settings.argument) /\ Launch!num_t # 0 /\ 0 \notin Launch!ToSet(settings.argument)
  /\ idle \in [DOMAIN idle -> Idle] /\ DOMAIN idle \subseteq allowed

LEMMA ArgumentKnown ==
  ASSUME settings.argument \in Seq(Nat), NEW z \in 1 .. Len(settings.argument),
         0 \notin Launch!ToSet(settings.argument)
  PROVE  settings.argument[z] \in Nat \ {0}
<1>1. settings.argument[z] \in Nat BY ElementOfSeq
<1>2. settings.argument[z] \in Launch!ToSet(settings.argument) BY LenProperties DEF Launch!ToSet
<1> QED BY <1>1, <1>2

LEMMA LaunchKnownStep ==
  ASSUME Cpu # {}, LaunchKnown, [Launch!Next]_Launch!vars
  PROVE  LaunchKnown'
<1>1. LaunchInv' BY LaunchStep DEF LaunchKnown
<1>2. CASE Launch!ParseCounts
 <2>1. settings' = settings /\ c' = c /\ idle' = idle /\ allowed' = allowed
   BY <1>2 DEF Launch!ParseCounts
 <2>2. CASE pc' = "failed" BY <1>1, <2>1, <2>2 DEF LaunchKnown
 <2>3. CASE pc' = "select"
  <3>1. c = 1 /\ settings.argument # <<>> /\ 0 \notin Launch!ToSet(settings.argument)
    BY <1>2, <2>3 DEF Launch!ParseCounts, LaunchKnown
  <3>2. Len(settings.argument) \in Nat /\ Len(settings.argument) # 0
    BY <3>1, LenProperties, EmptySeq DEF LaunchKnown
  <3>3. 1 \in 1 .. Len(settings.argument) BY <3>2
  <3>4. settings.argument[1] # 0 BY <3>1, <3>3, ArgumentKnown DEF LaunchKnown
  <3> QED BY <1>1, <2>1, <2>3, <3>1, <3>3, <3>4 DEF LaunchKnown, Launch!num_t, Launch!ToSet
 <2> QED BY <1>2, <2>2, <2>3 DEF Launch!ParseCounts
<1>3. CASE Launch!Sample
 <2>1. settings' = settings /\ c' = c /\ pc = "select" /\ pc' = "sampled" BY <1>3 DEF Launch!Sample
 <2>2. idle' \in [DOMAIN idle' -> Idle] /\ DOMAIN idle' \subseteq allowed' BY <1>3 DEF Launch!Sample
 <2> QED BY <1>1, <2>1, <2>2 DEF LaunchKnown, Launch!num_t, Launch!ToSet
<1>4. CASE Launch!Searched
 <2>1. settings' = settings /\ allowed' = allowed /\ pc = "pin" /\ idle' = Launch!Nothing
   BY <1>4 DEF Launch!Searched
 <2>2. idle' \in [DOMAIN idle' -> Idle] /\ DOMAIN idle' = {} BY <2>1 DEF Launch!Nothing
 <2>3. /\ Len(settings.argument) \in Nat /\ c \in 1 .. Len(settings.argument)
       /\ Launch!num_t # 0 /\ 0 \notin Launch!ToSet(settings.argument)
   BY <2>1, LenProperties DEF LaunchKnown
 <2>4. CASE pc' = "output" /\ c' = c
   BY <1>1, <2>1, <2>2, <2>3, <2>4 DEF LaunchKnown, Launch!num_t, Launch!ToSet
 <2>5. CASE pc' = "select" /\ c' = c + 1 /\ c < Len(settings.argument)
  <3>1. c + 1 \in 1 .. Len(settings.argument) BY <2>3, <2>5
  <3>2. settings.argument[c + 1] # 0 BY <2>3, <3>1, ArgumentKnown DEF LaunchKnown
  <3> QED BY <1>1, <2>1, <2>2, <2>3, <2>5, <3>1, <3>2 DEF LaunchKnown, Launch!num_t, Launch!ToSet
 <2> QED BY <1>4, <2>4, <2>5 DEF Launch!Searched
<1>5. ASSUME UNCHANGED <<settings, c, allowed, idle>>,
             pc' = pc \/ pc' = "failed" \/ pc \notin {"counts", "failed"},
             pc' # "counts" \/ pc = "counts"
      PROVE  LaunchKnown'
  BY <1>1, <1>5 DEF LaunchKnown, Launch!num_t, Launch!ToSet
<1>6. CASE Launch!Select BY <1>5, <1>6 DEF Launch!Select
<1>7. CASE Launch!StartThreads BY <1>5, <1>7 DEF Launch!StartThreads
<1>8. ASSUME NEW t \in DOMAIN on, Launch!Pin(t) PROVE LaunchKnown' BY <1>5, <1>8 DEF Launch!Pin
<1>9. CASE Launch!Write BY <1>5, <1>9 DEF Launch!Write
<1>10. CASE UNCHANGED Launch!vars BY <1>5, <1>10 DEF Launch!vars
<1> QED BY <1>2, <1>3, <1>4, <1>6, <1>7, <1>8, <1>9, <1>10 DEF Launch!Next, Launch!Exited

\* The same in the words of ChosenWell.
LEMMA WellMeans ==
  \A s : Well(s) <=>
    LET U == Launch!ToSet(s)
        there == {cpu \in Launch!Candidates : \E other \in U : NodeOf[cpu] = NodeOf[other]}
        Near(a) == IF settings.spread THEN Launch!OnNode(NodeOf[a]) ELSE there
        PerNode(node) == Launch!Cardinality(U \cap Launch!OnNode(node))
    IN /\ Len(s) = Launch!num_t /\ Launch!Cardinality(U) = Launch!num_t
       /\ U \subseteq Launch!Candidates
       /\ ~settings.spread /\ (\E n \in Launch!Nodes :
                                Launch!Cardinality(Launch!OnNode(n)) >= Launch!num_t) =>
            Launch!Cardinality({NodeOf[cpu] : cpu \in U}) = 1
       /\ settings.spread => \A m, n \in Launch!Nodes : PerNode(m) <= PerNode(n) + 1
       /\ \A a, b \in U : a # b /\ b \in Near(a) /\ CoreOf[a] = CoreOf[b] =>
            \A cpu \in Near(a) : Launch!OnCore(CoreOf[cpu]) \cap U # {}
<1> TAKE s
<1> DEFINE U == Launch!ToSet(s)
<1>1. Launch!Candidates = DOMAIN idle BY DEF Launch!Candidates
<1>2. ASSUME U \subseteq DOMAIN idle
      PROVE  \A key : Launch!OnCore(key) \cap U # {} <=> \E k \in U : CoreOf[k] = key
  BY <1>1, <1>2 DEF Launch!OnCore
<1>3. ASSUME NEW a, NEW cpu
      PROVE  cpu \in Launch!OnNode(NodeOf[a]) <=> cpu \in DOMAIN idle /\ NodeOf[cpu] = NodeOf[a]
  BY <1>1 DEF Launch!OnNode
<1>4. ASSUME NEW a \in U, NEW b \in U, U \subseteq DOMAIN idle
      PROVE  /\ b \in Launch!OnNode(NodeOf[a]) <=> NodeOf[b] = NodeOf[a]
             /\ b \in {cpu \in Launch!Candidates : \E other \in U : NodeOf[cpu] = NodeOf[other]}
  BY <1>1, <1>3, <1>4
<1> HIDE DEF U
<1>5. CASE settings.spread BY SMTT(30), <1>1, <1>2, <1>3, <1>4, <1>5, LaunchCounts DEF Well, U
<1>6. CASE ~settings.spread BY <1>1, <1>2, <1>4, <1>6, LaunchCounts DEF Well, U
<1> QED BY <1>5, <1>6

LEMMA ChosenWellIs ==
  Launch!ChosenWell <=> (pc = "start" => Well(cpu_ids))
BY WellMeans DEF Launch!ChosenWell, Launch!Used

(***************************************************************************)
(* select_idle_cpus() (cpu_affinity.hpp): every thread gets a CPU of its   *)
(* own; by default all on one node whenever one has room; spread, no node  *)
(* gets two more than another.  Two threads share a core only when every   *)
(* core is used, of the nodes in use, or, spread, of the node they are on. *)
(* For any CPUs, nodes, cores, loads and thread counts.                    *)
(***************************************************************************)
THEOREM CpusChosenWell ==
  ASSUME Cpu \subseteq Nat, Cpu # {}, IsFiniteSet(Cpu), NodeOf \in [Cpu -> Nat \cup {-1}],
         Idle \subseteq Nat, \A a \in Arguments : a \in Seq(Nat)
  PROVE  Launch!Spec => []Launch!ChosenWell
<1> DEFINE Inv == LaunchKnown /\ Launch!ChosenWell
<1>1. Launch!Init => Inv
 <2> SUFFICES ASSUME Launch!Init PROVE Inv OBVIOUS
 <2>1. LaunchInv BY DEF Launch!Init, LaunchInv
 <2>2. settings.argument \in Seq(Nat) BY DEF Launch!Init
 <2>3. idle \in [DOMAIN idle -> Idle] /\ DOMAIN idle = {} BY DEF Launch!Init, Launch!Nothing
 <2> QED BY <2>1, <2>2, <2>3 DEF LaunchKnown, Launch!ChosenWell, Launch!Init
<1>2. Inv /\ [Launch!Next]_Launch!vars => Inv'
 <2> SUFFICES ASSUME Inv, [Launch!Next]_Launch!vars PROVE Inv' OBVIOUS
 <2>1. LaunchKnown' BY LaunchKnownStep
 <2>2. ASSUME Launch!Select, pc' = "start" PROVE Launch!ChosenWell'
  <3>1. /\ cpu_ids' = Launch!Selection /\ Launch!Selection # <<>> /\ pc = "sampled"
        /\ ~(Cardinality(Launch!Candidates) < Launch!num_t)
        /\ settings' = settings /\ c' = c /\ idle' = idle
    BY <2>2, LaunchCounts DEF Launch!Select
  <3>2. IdleKnown /\ NodesKnown
   <4>1. DOMAIN idle \subseteq Cpu BY DEF LaunchKnown, LaunchInv
   <4>2. idle \in [DOMAIN idle -> Nat] BY DEF LaunchKnown
   <4>3. IsFiniteSet(DOMAIN idle) BY <4>1, FS_Subset
   <4> QED BY <4>1, <4>2, <4>3 DEF IdleKnown, NodesKnown
  <3>3. Launch!num_t \in Nat \ {0} BY <3>1, ArgumentKnown DEF LaunchKnown, Launch!num_t
  <3>4. Cardinality(DOMAIN idle) >= Launch!num_t
   <4>1. Cardinality(DOMAIN idle) \in Nat BY <3>2, FS_CardinalityType DEF IdleKnown
   <4> QED BY <3>1, <3>3, <4>1 DEF Launch!Candidates
  <3>5. Well(Launch!Selection) BY <3>1, <3>2, <3>3, <3>4, SelectionWell
  <3>6. Well(cpu_ids') BY <3>1, <3>5
  <3>7. Launch!num_t' = Launch!num_t /\ Launch!Candidates' = Launch!Candidates
        /\ Launch!Nodes' = Launch!Nodes
        /\ (\A n : Launch!OnNode(n)' = Launch!OnNode(n))
        /\ \A k : Launch!OnCore(k)' = Launch!OnCore(k)
    BY <3>1 DEF Launch!num_t, Launch!Candidates, Launch!Nodes, Launch!OnNode, Launch!OnCore
  <3>8. Well(cpu_ids)' BY <3>1, <3>6, <3>7 DEF Well
  <3> QED BY <3>8, ChosenWellIs, PTL
 <2>3. ASSUME pc' # "start" PROVE Launch!ChosenWell' BY <2>3 DEF Launch!ChosenWell
 <2>4. CASE UNCHANGED Launch!vars
  <3>1. pc' = pc BY <2>4 DEF Launch!vars
  <3>2. settings' = settings /\ c' = c /\ idle' = idle /\ cpu_ids' = cpu_ids BY <2>4 DEF Launch!vars
  <3>3. /\ Launch!num_t' = Launch!num_t /\ Launch!Nodes' = Launch!Nodes
        /\ \A n : Launch!OnNode(n)' = Launch!OnNode(n)
    BY <3>2 DEF Launch!num_t, Launch!Nodes, Launch!OnNode, Launch!Candidates
  <3>4. ASSUME Well(cpu_ids) PROVE Well(cpu_ids)'
   <4>1. Well(cpu_ids') BY <3>2, <3>4
   <4> QED BY <3>2, <3>3, <4>1 DEF Well
  <3>5. (pc = "start" => Well(cpu_ids)) => (pc = "start" => Well(cpu_ids))' BY <3>1, <3>4
  <3> QED BY <2>1, <3>5, ChosenWellIs, PTL
 <2>5. ASSUME ~Launch!Select, Launch!Next, ~UNCHANGED Launch!vars PROVE pc' # "start"
   BY <2>5 DEF Launch!Next, Launch!Exited, Launch!ParseCounts, Launch!Sample, Launch!StartThreads,
      Launch!Pin, Launch!Searched, Launch!Write
 <2> QED BY <2>1, <2>2, <2>3, <2>4, <2>5
<1>3. Inv => Launch!ChosenWell OBVIOUS
<1> QED BY <1>1, <1>2, <1>3, PTL DEF Launch!Spec

-----------------------------------------------------------------------------
(***************************************************************************)
(* And before that, reading the graph: Loading, for any files and any      *)
(* number of threads that read, with variables of its own beside dist,     *)
(* which the two have under the same name.                                 *)
(***************************************************************************)
CONSTANTS LoadThreads, Files, MaxBlocks, MaxInt

VARIABLES file, main, working, errors, parts, edges, entries, csr

Load == INSTANCE Loading

(***************************************************************************)
(* A sequence that is appended to while a loop goes along 1..n: it exists, *)
(* and what an interval of the loop appends comes after what was there.    *)
(***************************************************************************)
Appends(f, n, taken, x) ==
  f = [k \in 0 .. n |-> IF k = 0 THEN <<>>
                        ELSE IF k \in taken THEN Append(f[k - 1], x[k]) ELSE f[k - 1]]

Appended(f, n, V, taken, x) ==
  /\ DOMAIN f = 0 .. n
  /\ f[0] = <<>>
  /\ \A k \in 1 .. n : f[k] = IF k \in taken THEN Append(f[k - 1], x[k]) ELSE f[k - 1]
  /\ \A k \in 0 .. n : f[k] \in Seq(V)

LEMMA AppendsTyped ==
  ASSUME NEW n \in Nat, NEW V, NEW x \in [1 .. n -> V], NEW taken, NEW f,
         Appends(f, n, taken, x)
  PROVE  Appended(f, n, V, taken, x)
<1>1. DOMAIN f = 0 .. n BY DEF Appends
<1>2. \A k \in 0 .. n : f[k] = IF k = 0 THEN <<>>
                      ELSE IF k \in taken THEN Append(f[k - 1], x[k]) ELSE f[k - 1]
  BY DEF Appends
<1>3. f[0] = <<>> BY <1>2
<1>4. \A k \in 1 .. n : f[k] = IF k \in taken THEN Append(f[k - 1], x[k]) ELSE f[k - 1] BY <1>2
<1> DEFINE Bad == {k \in 0 .. n : f[k] \notin Seq(V)}
<1>5. Bad = {}
 <2> SUFFICES ASSUME Bad # {} PROVE FALSE OBVIOUS
 <2>1. Bad \in SUBSET Nat OBVIOUS
 <2>2. PICK m \in Bad : \A k \in Bad : m <= k BY <2>1, Least
 <2>3. m \in 0 .. n /\ f[m] \notin Seq(V) BY <2>2
 <2>4. m # 0
  <3>1. <<>> \in Seq(V) BY EmptySeq
  <3> QED BY <1>3, <2>3, <3>1
 <2>5. m \in 1 .. n /\ m - 1 \in 0 .. n /\ ~(m <= m - 1) BY <2>3, <2>4
 <2>6. m - 1 \notin Bad BY <2>2, <2>5
 <2>7. f[m - 1] \in Seq(V) /\ x[m] \in V BY <2>5, <2>6
 <2>8. Append(f[m - 1], x[m]) \in Seq(V) BY <2>7, AppendProperties
 <2> QED BY <1>4, <2>3, <2>5, <2>7, <2>8
<1> QED BY <1>1, <1>3, <1>4, <1>5 DEF Appended

LEMMA AppendsExist ==
  ASSUME NEW n \in Nat, NEW taken, NEW x
  PROVE  \E f : Appends(f, n, taken, x)
<1> DEFINE Exists(m) == \E f : Appends(f, m, taken, x)
           Bad == {m \in Nat : ~Exists(m)}
<1>1. Exists(0)
 <2>1. Appends([k \in 0 .. 0 |-> <<>>], 0, taken, x) BY DEF Appends
 <2> QED BY <2>1
<1>2. ASSUME NEW m \in Nat, m # 0, Exists(m - 1) PROVE Exists(m)
 <2>1. PICK f : Appends(f, m - 1, taken, x) BY <1>2
 <2>2. \A k \in 0 .. m - 1 : f[k] = IF k = 0 THEN <<>>
                     ELSE IF k \in taken THEN Append(f[k - 1], x[k]) ELSE f[k - 1]
   BY <2>1 DEF Appends
 <2> DEFINE g == [k \in 0 .. m |->
                    IF k = m THEN IF m \in taken THEN Append(f[m - 1], x[m]) ELSE f[m - 1]
                    ELSE f[k]]
 <2>3. ASSUME NEW k \in 0 .. m
       PROVE  g[k] = IF k = 0 THEN <<>>
                     ELSE IF k \in taken THEN Append(g[k - 1], x[k]) ELSE g[k - 1]
  <3>1. CASE k = m
   <4>1. g[k - 1] = f[m - 1] /\ k # 0 BY <1>2, <3>1
   <4> QED BY <3>1, <4>1
  <3>2. CASE k # m
   <4>1. k \in 0 .. m - 1 /\ g[k] = f[k] /\ (k # 0 => g[k - 1] = f[k - 1]) BY <1>2, <3>2
   <4> HIDE DEF g
   <4> QED BY <2>2, <4>1
  <3> QED BY <3>1, <3>2
 <2>4. DOMAIN g = 0 .. m /\ g = [k \in 0 .. m |-> g[k]] OBVIOUS
 <2> HIDE DEF g
 <2>5. Appends(g, m, taken, x) BY <2>3, <2>4 DEF Appends
 <2> QED BY <2>5
<1> HIDE DEF Exists
<1>3. Bad = {}
 <2> SUFFICES ASSUME Bad # {} PROVE FALSE OBVIOUS
 <2>1. PICK m \in Bad : \A k \in Bad : m <= k BY Least
 <2>2. m \in Nat /\ m # 0 /\ ~(m <= m - 1) /\ m - 1 \in Nat BY <1>1, <2>1
 <2>3. Exists(m - 1) BY <2>1, <2>2
 <2> QED BY <1>2, <2>1, <2>2, <2>3
<1>4. Exists(n) BY <1>3
<1> QED BY <1>4 DEF Exists

\* What one interval appends, followed by what another does.
Then(s, r) == s \o r

LEMMA ThenFacts ==
  ASSUME NEW V
  PROVE  /\ \A s \in Seq(V) : Then(s, <<>>) = s /\ Then(<<>>, s) = s
         /\ \A s, r \in Seq(V), e \in V : Append(Then(s, r), e) = Then(s, Append(r, e))
         /\ \A s, r \in Seq(V) :
              /\ Then(s, r) \in Seq(V)
              /\ Len(Then(s, r)) = Len(s) + Len(r)
              /\ \A k \in 1 .. Len(s) : Then(s, r)[k] = s[k]
              /\ \A k \in 1 .. Len(r) : Then(s, r)[Len(s) + k] = r[k]
<1>1. \A s \in Seq(V) : Then(s, <<>>) = s /\ Then(<<>>, s) = s BY ConcatEmptySeq DEF Then
<1>2. ASSUME NEW s \in Seq(V), NEW r \in Seq(V), NEW e \in V
      PROVE  Append(s \o r, e) = s \o Append(r, e)
 <2>1. \A q \in Seq(V) : Append(q, e) = q \o <<e>> BY AppendIsConcat
 <2>2. s \o r \in Seq(V) /\ <<e>> \in Seq(V) BY ConcatProperties
 <2>3. (s \o r) \o <<e>> = s \o (r \o <<e>>) BY <2>2, ConcatAssociative
 <2> QED BY <2>1, <2>2, <2>3
<1>3. ASSUME NEW s \in Seq(V), NEW r \in Seq(V)
      PROVE  /\ s \o r \in Seq(V)
             /\ Len(s \o r) = Len(s) + Len(r)
             /\ \A k \in 1 .. Len(s) : (s \o r)[k] = s[k]
             /\ \A k \in 1 .. Len(r) : (s \o r)[Len(s) + k] = r[k]
 <2>1. /\ s \o r \in Seq(V) /\ Len(s \o r) = Len(s) + Len(r)
       /\ \A k \in 1 .. Len(s) + Len(r) :
            (s \o r)[k] = IF k <= Len(s) THEN s[k] ELSE r[k - Len(s)]
   BY ConcatProperties
 <2>2. Len(s) \in Nat /\ Len(r) \in Nat OBVIOUS
 <2> QED BY <2>1, <2>2
<1> QED BY <1>1, <1>2, <1>3 DEF Then

Between(part, taken, a, b) == \A k : k \in part <=> k \in taken /\ k \in a .. b - 1

LEMMA AppendsParted ==
  ASSUME NEW n \in Nat, NEW V, NEW x \in [1 .. n -> V], NEW taken,
         NEW f, Appended(f, n, V, taken, x),
         NEW a \in 1 .. n + 1, NEW b \in 1 .. n + 1, a <= b,
         NEW part, Between(part, taken, a, b),
         NEW g, Appended(g, n, V, part, x)
  PROVE  f[b - 1] = Then(f[a - 1], g[n])
<1>0. a \in Nat /\ b \in Nat /\ 1 <= a /\ a <= b /\ b <= n + 1 OBVIOUS
<1>1. /\ \A k \in 1 .. n : f[k] = IF k \in taken THEN Append(f[k - 1], x[k]) ELSE f[k - 1]
      /\ \A k \in 0 .. n : f[k] \in Seq(V)
  BY DEF Appended
<1>2. /\ g[0] = <<>>
      /\ \A k \in 1 .. n : g[k] = IF k \in taken /\ k \in a .. b - 1
                                  THEN Append(g[k - 1], x[k]) ELSE g[k - 1]
      /\ \A k \in 0 .. n : g[k] \in Seq(V)
 <2>1. \A k : k \in part <=> k \in taken /\ k \in a .. b - 1 BY DEF Between
 <2> QED BY <2>1 DEF Appended
<1> DEFINE Right(k) == IF k < a THEN g[k] = <<>>
                       ELSE IF k < b THEN f[k] = Then(f[a - 1], g[k])
                       ELSE f[b - 1] = Then(f[a - 1], g[k])
           Bad == {k \in 0 .. n : ~Right(k)}
<1>3. \A s \in Seq(V) : Then(s, <<>>) = s BY ThenFacts
<1>4. \A s, r \in Seq(V), e \in V : Append(Then(s, r), e) = Then(s, Append(r, e)) BY ThenFacts
<1>11. ASSUME NEW k \in Int
       PROVE  /\ k < a => (Right(k) <=> g[k] = <<>>)
              /\ k >= a /\ k < b => (Right(k) <=> f[k] = Then(f[a - 1], g[k]))
              /\ k >= a /\ k >= b => (Right(k) <=> f[b - 1] = Then(f[a - 1], g[k]))
 <2>1. CASE k < a BY <2>1
 <2>2. CASE ~(k < a) /\ k < b
  <3>1. Right(k) <=> f[k] = Then(f[a - 1], g[k]) BY <2>2
  <3> QED BY <1>0, <2>2, <3>1
 <2>3. CASE ~(k < a) /\ ~(k < b)
  <3>1. Right(k) <=> f[b - 1] = Then(f[a - 1], g[k]) BY <2>3
  <3> QED BY <1>0, <2>3, <3>1
 <2> QED BY <2>1, <2>2, <2>3
<1> HIDE DEF Right
<1>5. ASSUME NEW k \in 1 .. n, Right(k - 1) PROVE Right(k)
 <2>0. k \in Int /\ k \in 0 .. n /\ k - 1 \in 0 .. n /\ a - 1 \in 0 .. n /\ b - 1 \in 0 .. n BY <1>0
 <2>1. /\ k - 1 < a => g[k - 1] = <<>>
       /\ k - 1 >= a /\ k - 1 < b => f[k - 1] = Then(f[a - 1], g[k - 1])
       /\ k - 1 >= a /\ k - 1 >= b => f[b - 1] = Then(f[a - 1], g[k - 1])
   BY <1>5, <1>11, <2>0
 <2>2. /\ k < a => (Right(k) <=> g[k] = <<>>)
       /\ k >= a /\ k < b => (Right(k) <=> f[k] = Then(f[a - 1], g[k]))
       /\ k >= a /\ k >= b => (Right(k) <=> f[b - 1] = Then(f[a - 1], g[k]))
   BY <1>11, <2>0
 <2>3. /\ f[k] = IF k \in taken THEN Append(f[k - 1], x[k]) ELSE f[k - 1]
       /\ g[k] = IF k \in taken /\ k \in a .. b - 1 THEN Append(g[k - 1], x[k]) ELSE g[k - 1]
       /\ f[a - 1] \in Seq(V) /\ g[k - 1] \in Seq(V) /\ x[k] \in V /\ <<>> \in Seq(V)
   BY <1>1, <1>2, <2>0, EmptySeq
 <2>4. CASE k < a
  <3>1. k \notin a .. b - 1 /\ k - 1 < a BY <1>0, <2>0, <2>4
  <3>2. g[k] = <<>> BY <2>1, <2>3, <3>1
  <3> QED BY <2>2, <2>4, <3>2
 <2>5. CASE k >= a /\ k < b
  <3>1. k \in a .. b - 1 BY <1>0, <2>0, <2>5
  <3>2. f[k - 1] = Then(f[a - 1], g[k - 1])
   <4>1. CASE k = a
    <5>1. g[k - 1] = <<>> BY <1>0, <2>0, <2>1, <4>1
    <5>2. Then(f[a - 1], <<>>) = f[a - 1] BY <1>3, <2>3
    <5> QED BY <4>1, <5>1, <5>2
   <4>2. CASE k # a BY <1>0, <2>0, <2>1, <2>5, <4>2
   <4> QED BY <4>1, <4>2
  <3>3. f[k] = Then(f[a - 1], g[k])
   <4>1. CASE k \in taken
    <5>1. f[k] = Append(Then(f[a - 1], g[k - 1]), x[k]) /\ g[k] = Append(g[k - 1], x[k])
      BY <2>3, <3>1, <3>2, <4>1
    <5>2. Append(Then(f[a - 1], g[k - 1]), x[k]) = Then(f[a - 1], Append(g[k - 1], x[k]))
      BY <1>4, <2>3
    <5> QED BY <5>1, <5>2, Zenon
   <4>2. CASE k \notin taken BY <2>3, <3>2, <4>2
   <4> QED BY <4>1, <4>2
  <3> QED BY <2>2, <2>5, <3>3
 <2>6. CASE k >= a /\ k >= b
  <3>1. k \notin a .. b - 1 BY <1>0, <2>0, <2>6
  <3>2. g[k] = g[k - 1] BY <2>3, <3>1
  <3>3. f[b - 1] = Then(f[a - 1], g[k - 1])
   <4>1. CASE k - 1 < a
    <5>1. k = a /\ a = b /\ g[k - 1] = <<>> BY <1>0, <2>0, <2>1, <2>6, <4>1
    <5>2. Then(f[a - 1], <<>>) = f[a - 1] BY <1>3, <2>3
    <5> QED BY <5>1, <5>2
   <4>2. CASE k - 1 >= a /\ k - 1 < b
    <5>1. k = b BY <1>0, <2>0, <2>6, <4>2
    <5> QED BY <2>1, <4>2, <5>1
   <4>3. CASE k - 1 >= a /\ k - 1 >= b BY <2>1, <4>3
   <4> QED BY <1>0, <2>0, <4>1, <4>2, <4>3
  <3> QED BY <2>2, <2>6, <3>2, <3>3
 <2> QED BY <1>0, <2>0, <2>4, <2>5, <2>6
<1>6. Right(0) BY <1>0, <1>2, <1>11
<1>7. Right(n)
 <2>1. Bad = {}
  <3> SUFFICES ASSUME Bad # {} PROVE FALSE OBVIOUS
  <3>1. Bad \in SUBSET Nat OBVIOUS
  <3>2. PICK m \in Bad : \A k \in Bad : m <= k BY <3>1, Least
  <3>3. m \in 0 .. n /\ m # 0 /\ ~(m <= m - 1) BY <1>6, <3>2
  <3>4. m \in 1 .. n /\ m - 1 \in 0 .. n BY <3>3
  <3>5. Right(m - 1) BY <3>2, <3>3, <3>4
  <3> QED BY <1>5, <3>2, <3>4, <3>5
 <2> QED BY <2>1
<1>8. CASE n < a
 <2>1. n = a - 1 /\ b = a /\ g[n] = <<>> BY <1>0, <1>7, <1>8, <1>11
 <2>2. f[a - 1] \in Seq(V) BY <1>1, <2>1
 <2> QED BY <1>3, <2>1, <2>2
<1>9. CASE n >= a /\ n < b
 <2>1. n = b - 1 BY <1>9
 <2> QED BY <1>0, <1>7, <1>9, <1>11, <2>1
<1>10. CASE n >= b BY <1>0, <1>7, <1>10, <1>11
<1> QED BY <1>0, <1>8, <1>9, <1>10
-----------------------------------------------------------------------------
(***************************************************************************)
(* The lines of the file that is read, and the edges on them.              *)
(***************************************************************************)
Lines == 1 .. Len(file.lines)
EdgeLines == {k \in Lines : Load!IsEdge(file.lines[k])}
EdgeAt == [k \in Lines |-> Load!EdgeOn(file.lines[k])]
Pairs == {EdgeAt[k] : k \in Lines}

\* What a reader of the whole file has after line k.
ReadTo == CHOOSE f : Appends(f, Len(file.lines), EdgeLines, EdgeAt)
All == ReadTo[Len(file.lines)]

LEMMA FileFacts ==
  ASSUME Load!IsFile(file)
  PROVE  /\ Len(file.lines) \in Nat /\ DOMAIN file.lines = Lines
         /\ EdgeAt \in [Lines -> Pairs] /\ EdgeLines \subseteq Lines
         /\ file.starts \in [1 .. Len(file.lines) + 1 -> Nat] /\ file.starts[1] = 0
         /\ \A k \in Lines : file.starts[k] < file.starts[k + 1]
<1>1. Len(file.lines) \in Nat /\ DOMAIN file.lines = Lines
 <2> DEFINE W == Load!ToSet(file.lines)
 <2>1. file.lines \in Seq(W) BY DEF Load!IsFile
 <2> HIDE DEF W
 <2> QED BY <2>1, LenProperties DEF Lines
<1>2. EdgeAt \in [Lines -> Pairs] BY DEF EdgeAt, Pairs
<1> QED BY <1>1, <1>2 DEF Load!IsFile, EdgeLines

LEMMA ReadFacts ==
  ASSUME Load!IsFile(file)
  PROVE  /\ Appended(ReadTo, Len(file.lines), Pairs, EdgeLines, EdgeAt)
         /\ ReadTo[0] = <<>>
         /\ \A k \in 0 .. Len(file.lines) : ReadTo[k] \in Seq(Pairs)
<1>1. Len(file.lines) \in Nat /\ EdgeAt \in [1 .. Len(file.lines) -> Pairs] BY FileFacts DEF Lines
<1>2. \E f : Appends(f, Len(file.lines), EdgeLines, EdgeAt) BY <1>1, AppendsExist
<1>3. Appends(ReadTo, Len(file.lines), EdgeLines, EdgeAt) BY <1>2, Zenon DEF ReadTo
<1>4. Appended(ReadTo, Len(file.lines), Pairs, EdgeLines, EdgeAt) BY <1>1, <1>3, AppendsTyped
<1> QED BY <1>3, <1>4 DEF Appended

(***************************************************************************)
(* EdgesOf() is such a loop, over the lines of an interval.                *)
(***************************************************************************)
LEMMA EdgesRead ==
  ASSUME Load!IsFile(file), NEW S \in SUBSET Lines
  PROVE  \E g : /\ Appends(g, Len(file.lines), EdgeLines \cap S, EdgeAt)
                /\ Load!EdgesOf(S) = g[Len(file.lines)]
<1> DEFINE n == Len(file.lines)
           taken == EdgeLines \cap S
           Eq(g) == g = [i_1 \in 0 .. n |->
                           IF i_1 = 0 THEN <<>>
                           ELSE IF i_1 \in S /\ Load!IsEdge(file.lines[i_1])
                           THEN Append(g[i_1 - 1], Load!EdgeOn(file.lines[i_1]))
                           ELSE g[i_1 - 1]]
<1>1. n \in Nat BY FileFacts
<1>2. PICK f : Appends(f, n, taken, EdgeAt) BY <1>1, AppendsExist
<1>3. ASSUME NEW g PROVE Eq(g) <=> Appends(g, n, taken, EdgeAt)
 <2>1. ASSUME NEW k \in 0 .. n, k # 0
       PROVE  /\ k \in taken <=> k \in S /\ Load!IsEdge(file.lines[k])
              /\ EdgeAt[k] = Load!EdgeOn(file.lines[k])
  <3>1. k \in Lines BY <1>1, <2>1 DEF Lines
  <3> QED BY <3>1 DEF EdgeLines, EdgeAt
 <2>2. ASSUME NEW k \in 0 .. n
       PROVE  (IF k = 0 THEN <<>> ELSE IF k \in taken THEN Append(g[k - 1], EdgeAt[k]) ELSE g[k - 1])
            = (IF k = 0 THEN <<>>
               ELSE IF k \in S /\ Load!IsEdge(file.lines[k])
               THEN Append(g[k - 1], Load!EdgeOn(file.lines[k])) ELSE g[k - 1])
   BY <2>1, Zenon
 <2> HIDE DEF n, taken
 <2> QED BY <2>2, Zenon DEF Appends
<1>4. Load!EdgesOf(S) = (CHOOSE g : Eq(g))[n] BY DEF Load!EdgesOf
<1> HIDE DEF n, taken, Eq
<1>5. Eq(CHOOSE g : Eq(g)) BY <1>2, <1>3, Zenon
<1> QED BY <1>3, <1>4, <1>5 DEF n, taken

LEMMA Slices ==
  ASSUME Load!IsFile(file),
         NEW a \in 1 .. Len(file.lines) + 1, NEW b \in a .. Len(file.lines) + 1
  PROVE  /\ Load!EdgesOf(a .. b - 1) \in Seq(Pairs)
         /\ ReadTo[b - 1] = Then(ReadTo[a - 1], Load!EdgesOf(a .. b - 1))
<1> DEFINE n == Len(file.lines)
           S == a .. b - 1
<1>1. n \in Nat /\ EdgeAt \in [1 .. n -> Pairs] BY FileFacts DEF Lines
<1>2. S \in SUBSET Lines BY <1>1 DEF Lines
<1>3. PICK g : /\ Appends(g, n, EdgeLines \cap S, EdgeAt)
               /\ Load!EdgesOf(S) = g[n]
  BY <1>2, EdgesRead
<1>4. Appended(ReadTo, n, Pairs, EdgeLines, EdgeAt) BY ReadFacts
<1>5. Appended(g, n, Pairs, EdgeLines \cap S, EdgeAt)
 <2> DEFINE taken == EdgeLines \cap S
 <2>1. Appends(g, n, taken, EdgeAt) BY <1>3
 <2> HIDE DEF taken, n
 <2>2. Appended(g, n, Pairs, taken, EdgeAt) BY <1>1, <2>1, AppendsTyped
 <2> QED BY <2>2 DEF taken
<1>6. g[n] \in Seq(Pairs) BY <1>1, <1>5 DEF Appended
<1>7. ReadTo[b - 1] = Then(ReadTo[a - 1], g[n])
 <2> DEFINE part == EdgeLines \cap S
 <2>1. a \in 1 .. n + 1 /\ b \in 1 .. n + 1 /\ a <= b BY <1>1
 <2>3. Between(part, EdgeLines, a, b) BY DEF Between
 <2>2. Appended(g, n, Pairs, part, EdgeAt) BY <1>5
 <2> HIDE DEF n, part, S
 <2> QED BY <1>1, <1>4, <2>1, <2>2, <2>3, AppendsParted
<1> QED BY <1>3, <1>6, <1>7

-----------------------------------------------------------------------------
(***************************************************************************)
(* The boundaries of the parts.                                            *)
(***************************************************************************)
LoadThread == 0 .. LoadThreads - 1

Boundary(t) == CHOOSE k \in 1 .. Len(file.lines) + 1 : file.starts[k] = Load!Start(t)

LEMMA StartsGrow ==
  ASSUME Load!IsFile(file), NEW j \in 1 .. Len(file.lines) + 1,
         NEW k \in 1 .. Len(file.lines) + 1
  PROVE  /\ j < k => file.starts[j] < file.starts[k]
         /\ j <= k <=> file.starts[j] <= file.starts[k]
         /\ file.starts[j] = file.starts[k] => j = k
         /\ file.starts[j] \in Nat /\ file.starts[k] \in Nat
<1> DEFINE n == Len(file.lines) + 1
           s == file.starts
           Bad(x) == {y \in 1 .. n : x < y /\ ~(s[x] < s[y])}
<1>1. n \in Nat /\ s \in [1 .. n -> Nat] /\ \A x \in 1 .. n - 1 : s[x] < s[x + 1]
  BY FileFacts DEF Lines
<1> HIDE DEF n, s
<1>2. ASSUME NEW x \in 1 .. n PROVE Bad(x) = {}
 <2> SUFFICES ASSUME Bad(x) # {} PROVE FALSE OBVIOUS
 <2>1. Bad(x) \in SUBSET Nat BY <1>1
 <2>2. PICK m \in Bad(x) : \A y \in Bad(x) : m <= y BY <2>1, Least
 <2>3. m \in 1 .. n /\ x < m /\ ~(s[x] < s[m]) /\ ~(m <= m - 1) BY <1>1, <2>2
 <2>4. m - 1 \in 1 .. n - 1 /\ m - 1 \in 1 .. n /\ m - 1 + 1 = m BY <1>1, <2>3
 <2>5. s[m - 1] < s[m] BY <1>1, <2>4
 <2>6. m - 1 \notin Bad(x) BY <2>2, <2>3, <2>4
 <2>7. x = m - 1 \/ s[x] < s[m - 1] BY <1>1, <2>3, <2>4, <2>6
 <2> QED BY <1>1, <2>3, <2>4, <2>5, <2>7
<1>3. \A x, y \in 1 .. n : x < y => s[x] < s[y] BY <1>2
<1>4. j \in 1 .. n /\ k \in 1 .. n BY DEF n
<1> QED BY SMTT(30), <1>1, <1>3, <1>4 DEF s

LEMMA SizeFacts ==
  ASSUME Load!IsFile(file)
  PROVE  /\ Load!LineStarts \subseteq Nat /\ 0 \in Load!LineStarts
         /\ Load!Size \in Nat /\ Load!Size \in Load!LineStarts
<1> DEFINE n == Len(file.lines) + 1
           s == file.starts
<1>1. s \in [1 .. n -> Nat] /\ s[1] = 0 /\ n \in Nat /\ 1 \in 1 .. n /\ n \in 1 .. n BY FileFacts
<1>2. Load!LineStarts = {s[k] : k \in DOMAIN s} /\ Load!Size = s[n]
  BY DEF Load!LineStarts, Load!ToSet, Load!Size
<1> HIDE DEF n, s
<1>3. s[n] \in Nat /\ DOMAIN s = 1 .. n BY <1>1
<1> QED BY <1>1, <1>2, <1>3

LEMMA AlignedFacts ==
  ASSUME Load!IsFile(file), NEW p \in 0 .. Load!Size
  PROVE  /\ Load!Aligned(p) \in Load!LineStarts /\ Load!Aligned(p) \in Nat
         /\ p <= Load!Aligned(p)
         /\ \A s \in Load!LineStarts : p <= s => Load!Aligned(p) <= s
<1> DEFINE S == {s \in Load!LineStarts : s >= p}
<1>1. Load!LineStarts \subseteq Nat /\ Load!Size \in Load!LineStarts /\ Load!Size \in Nat
  BY SizeFacts
<1>2. S \in SUBSET Nat /\ Load!Size \in S
 <2>1. Load!Size >= p BY <1>1
 <2> QED BY <1>1, <2>1
<1>3. \E m \in S : \A k \in S : m <= k BY <1>2, Least
<1>4. Load!Aligned(p) \in S /\ \A k \in S : Load!Aligned(p) <= k BY <1>3 DEF Load!Aligned, Load!Min
<1> QED BY <1>1, <1>4

LEMMA StartFacts ==
  ASSUME LoadThreads \in Nat \ {0}, Load!IsFile(file)
  PROVE  /\ Load!Start(0) = 0 /\ Load!Start(LoadThreads) = Load!Size
         /\ \A t \in 0 .. LoadThreads : Load!Start(t) \in Load!LineStarts
         /\ \A t \in LoadThread : Load!Start(t) <= Load!Start(t + 1)
<1> DEFINE P(t) == (Load!Size * t) \div LoadThreads
<1>1. Load!Size \in Nat /\ Load!Size \in Load!LineStarts /\ 0 \in Load!LineStarts
      /\ Load!LineStarts \subseteq Nat
  BY SizeFacts
<1>2. ASSUME NEW t \in 0 .. LoadThreads
      PROVE  /\ P(t) \in Nat /\ Load!Size * t \in Nat
             /\ LoadThreads * P(t) <= Load!Size * t
             /\ Load!Size * t < LoadThreads * P(t) + LoadThreads
 <2>1. t \in Nat /\ Load!Size * t \in Nat BY <1>1
 <2> QED BY <2>1, Division
<1>3. ASSUME NEW t \in LoadThread PROVE P(t) \in 0 .. Load!Size
 <2>1. t \in 0 .. LoadThreads /\ t \in Nat /\ t <= LoadThreads BY DEF LoadThread
 <2>2. Load!Size * t <= LoadThreads * Load!Size BY <1>1, <2>1
 <2> HIDE DEF P
 <2>4. P(t) \in Nat /\ LoadThreads * P(t) <= Load!Size * t /\ Load!Size * t \in Nat BY <1>2, <2>1
 <2>5. LoadThreads * P(t) \in Nat /\ LoadThreads * Load!Size \in Nat BY <1>1, <2>4
 <2>3. LoadThreads * P(t) <= LoadThreads * Load!Size BY <2>2, <2>4, <2>5
 <2> QED BY <1>1, <1>2, <2>1, <2>3
<1>4. Load!Start(LoadThreads) = Load!Size /\ \A t \in LoadThread : Load!Start(t) = Load!Aligned(P(t))
  BY DEF Load!Start, LoadThread
<1>5. ASSUME NEW t \in LoadThread, t + 1 # LoadThreads PROVE P(t) <= P(t + 1)
 <2>1. t \in 0 .. LoadThreads /\ t + 1 \in 0 .. LoadThreads /\ t \in Nat BY DEF LoadThread
 <2>2. Load!Size * (t + 1) = Load!Size * t + Load!Size BY <1>1, <2>1
 <2> HIDE DEF P
 <2>6. /\ P(t) \in Nat /\ LoadThreads * P(t) <= Load!Size * t /\ Load!Size * t \in Nat
       /\ P(t + 1) \in Nat /\ Load!Size * (t + 1) \in Nat
       /\ LoadThreads * P(t + 1) <= Load!Size * (t + 1)
       /\ Load!Size * (t + 1) < LoadThreads * P(t + 1) + LoadThreads
   BY <1>2, <2>1
 <2>7. LoadThreads * P(t) \in Nat /\ LoadThreads * P(t + 1) \in Nat BY <2>6
 <2>3. LoadThreads * P(t) < LoadThreads * P(t + 1) + LoadThreads BY <1>1, <2>2, <2>6, <2>7
 <2>4. LoadThreads * P(t) < LoadThreads * (P(t + 1) + 1) BY <1>2, <2>1, <2>3
 <2>5. P(t) < P(t + 1) + 1 BY <1>2, <2>1, <2>4
 <2> QED BY <1>2, <2>1, <2>5
<1>6. P(0) = 0
 <2> HIDE DEF P
 <2>1. P(0) \in Nat /\ LoadThreads * P(0) <= Load!Size * 0 BY <1>2
 <2>2. Load!Size * 0 = 0 BY <1>1
 <2>3. ASSUME P(0) >= 1 PROVE FALSE
  <3>1. LoadThreads * P(0) >= LoadThreads * 1 BY <2>1, <2>3
  <3> QED BY <2>1, <2>2, <3>1
 <2> QED BY <2>1, <2>3
<1> HIDE DEF P
<1>7. Load!Start(0) = 0
 <2>1. 0 \in LoadThread BY DEF LoadThread
 <2>2. Load!Aligned(0) <= 0 /\ Load!Aligned(0) \in Nat BY <1>1, AlignedFacts
 <2> QED BY <1>4, <1>6, <2>1, <2>2
<1>8. ASSUME NEW t \in LoadThread
      PROVE  /\ Load!Start(t) \in Load!LineStarts /\ Load!Start(t) <= Load!Size
             /\ t + 1 # LoadThreads => Load!Start(t) <= Load!Start(t + 1)
 <2>1. Load!Start(t) \in Load!LineStarts /\ Load!Start(t) <= Load!Size
   BY <1>1, <1>3, <1>4, AlignedFacts
 <2>2. ASSUME t + 1 # LoadThreads PROVE Load!Start(t) <= Load!Start(t + 1)
  <3>1. t + 1 \in LoadThread BY <2>2 DEF LoadThread
  <3>2. /\ Load!Aligned(P(t + 1)) \in Load!LineStarts /\ Load!Aligned(P(t + 1)) \in Nat
        /\ P(t + 1) <= Load!Aligned(P(t + 1))
    BY <1>3, <3>1, AlignedFacts
  <3>3. P(t) <= Load!Aligned(P(t + 1)) BY <1>1, <1>3, <1>5, <2>2, <3>1, <3>2
  <3>4. Load!Aligned(P(t)) <= Load!Aligned(P(t + 1)) BY <1>3, <3>2, <3>3, AlignedFacts
  <3> QED BY <1>4, <3>1, <3>4
 <2> QED BY <2>1, <2>2
<1>9. ASSUME NEW t \in LoadThread PROVE Load!Start(t) <= Load!Start(t + 1) BY <1>4, <1>8
<1>10. ASSUME NEW t \in 0 .. LoadThreads PROVE Load!Start(t) \in Load!LineStarts
 <2>1. t = LoadThreads \/ t \in LoadThread BY DEF LoadThread
 <2> QED BY <1>1, <1>4, <1>8, <2>1
<1> QED BY <1>4, <1>7, <1>9, <1>10

(***************************************************************************)
(* The part of a thread is the lines from its boundary up to the next.     *)
(***************************************************************************)
LEMMA Parted ==
  ASSUME LoadThreads \in Nat \ {0}, Load!IsFile(file)
  PROVE  /\ Boundary(0) = 1 /\ Boundary(LoadThreads) = Len(file.lines) + 1
         /\ \A t \in 0 .. LoadThreads : Boundary(t) \in 1 .. Len(file.lines) + 1
         /\ \A t \in LoadThread :
              /\ Boundary(t) <= Boundary(t + 1)
              /\ Load!PartLines(t) = Boundary(t) .. Boundary(t + 1) - 1
<1> DEFINE n == Len(file.lines)
<1>1. n \in Nat /\ DOMAIN file.lines = 1 .. n /\ file.starts[1] = 0
      /\ DOMAIN file.starts = 1 .. n + 1
  BY FileFacts DEF Lines
<1>2. ASSUME NEW t \in 0 .. LoadThreads
      PROVE  /\ Boundary(t) \in 1 .. n + 1
             /\ file.starts[Boundary(t)] = Load!Start(t)
 <2>1. \E k \in 1 .. n + 1 : file.starts[k] = Load!Start(t)
   BY <1>1, StartFacts DEF Load!LineStarts, Load!ToSet
 <2> QED BY <2>1 DEF Boundary
<1>3. Boundary(0) = 1
 <2>1. 0 \in 0 .. LoadThreads /\ 1 \in 1 .. n + 1 BY <1>1
 <2> QED BY <1>1, <1>2, <2>1, StartFacts, StartsGrow
<1>4. Boundary(LoadThreads) = n + 1
 <2>1. LoadThreads \in 0 .. LoadThreads /\ n + 1 \in 1 .. n + 1 BY <1>1
 <2> QED BY <1>2, <2>1, StartFacts, StartsGrow DEF Load!Size
<1>5. ASSUME NEW t \in LoadThread
      PROVE  /\ Boundary(t) <= Boundary(t + 1)
             /\ Load!PartLines(t) = Boundary(t) .. Boundary(t + 1) - 1
 <2>1. t \in 0 .. LoadThreads /\ t + 1 \in 0 .. LoadThreads BY DEF LoadThread
 <2>2. /\ Boundary(t) \in 1 .. n + 1 /\ file.starts[Boundary(t)] = Load!Start(t)
       /\ Boundary(t + 1) \in 1 .. n + 1 /\ file.starts[Boundary(t + 1)] = Load!Start(t + 1)
   BY <1>2, <2>1
 <2> DEFINE a == Boundary(t)
            b == Boundary(t + 1)
 <2>3. a <= b BY <2>2, StartFacts, StartsGrow
 <2>4. ASSUME NEW k \in 1 .. n
       PROVE  /\ file.starts[k] < file.starts[b] <=> k < b
              /\ file.starts[k + 1] > file.starts[a] <=> k >= a
  <3>1. k \in 1 .. n + 1 /\ k + 1 \in 1 .. n + 1 BY <1>1
  <3>2. /\ b <= k <=> file.starts[b] <= file.starts[k]
        /\ file.starts[b] \in Nat /\ file.starts[k] \in Nat
    BY <2>2, <3>1, StartsGrow
  <3>3. /\ k + 1 <= a <=> file.starts[k + 1] <= file.starts[a]
        /\ file.starts[k + 1] \in Nat /\ file.starts[a] \in Nat
    BY <2>2, <3>1, StartsGrow
  <3> QED BY SMTT(30), <1>1, <2>2, <3>2, <3>3
 <2>5. Load!PartLines(t) = {k \in 1 .. n : k < b /\ k >= a} BY <1>1, <2>2, <2>4 DEF Load!PartLines
 <2> HIDE DEF a, b
 <2>6. {k \in 1 .. n : k < b /\ k >= a} = a .. b - 1 BY <1>1, <2>2, <2>3 DEF a, b
 <2> QED BY <2>3, <2>5, <2>6 DEF a, b
<1> QED BY <1>2, <1>3, <1>4, <1>5

LEMMA BoundariesGrow ==
  ASSUME LoadThreads \in Nat \ {0}, Load!IsFile(file),
         NEW s \in 0 .. LoadThreads, NEW t \in 0 .. LoadThreads, s <= t
  PROVE  Boundary(s) <= Boundary(t)
<1> DEFINE Bad == {k \in 0 .. LoadThreads : s <= k /\ ~(Boundary(s) <= Boundary(k))}
<1>1. \A k \in 0 .. LoadThreads : Boundary(k) \in Int BY Parted, FileFacts
<1>2. Bad = {}
 <2> SUFFICES ASSUME Bad # {} PROVE FALSE OBVIOUS
 <2>1. Bad \in SUBSET Nat OBVIOUS
 <2>2. PICK m \in Bad : \A k \in Bad : m <= k BY <2>1, Least
 <2>3. m \in 0 .. LoadThreads /\ s <= m /\ ~(Boundary(s) <= Boundary(m)) /\ ~(m <= m - 1) BY <2>2
 <2>4. m # s BY <1>1, <2>3
 <2>5. m - 1 \in LoadThread /\ m - 1 \in 0 .. LoadThreads /\ s <= m - 1 /\ m - 1 + 1 = m
   BY <2>3, <2>4 DEF LoadThread
 <2>6. Boundary(s) <= Boundary(m - 1) BY <2>2, <2>3, <2>5
 <2>7. Boundary(m - 1) <= Boundary(m) BY <2>5, Parted
 <2> QED BY <1>1, <2>3, <2>5, <2>6, <2>7
<1> QED BY <1>2

\* Every line is in a part.
LEMMA InAPart ==
  ASSUME LoadThreads \in Nat \ {0}, Load!IsFile(file), NEW k \in Lines
  PROVE  \E t \in LoadThread : k \in Load!PartLines(t)
<1> DEFINE After == {t \in 0 .. LoadThreads : k < Boundary(t)}
<1>1. Len(file.lines) \in Nat /\ k \in Nat /\ 1 <= k /\ k <= Len(file.lines) BY FileFacts DEF Lines
<1>2. LoadThreads \in After /\ After \in SUBSET Nat BY <1>1, Parted
<1>3. PICK m \in After : \A t \in After : m <= t BY <1>2, Least
<1>4. m \in 0 .. LoadThreads /\ k < Boundary(m) /\ ~(m <= m - 1) BY <1>3
<1>5. m # 0 BY <1>1, <1>4, Parted
<1>6. m - 1 \in LoadThread /\ m - 1 \in 0 .. LoadThreads /\ m - 1 + 1 = m
  BY <1>4, <1>5 DEF LoadThread
<1>7. ~(k < Boundary(m - 1)) BY <1>3, <1>4, <1>6
<1>8. Boundary(m - 1) \in Int /\ Boundary(m) \in Int BY <1>1, <1>4, <1>6, Parted
<1>9. k \in Boundary(m - 1) .. Boundary(m) - 1 BY <1>1, <1>4, <1>7, <1>8
<1> QED BY <1>6, <1>9, Parted

-----------------------------------------------------------------------------
(***************************************************************************)
(* The parts in the whole: where the edges of each begin.                  *)
(***************************************************************************)
Part(t) == Load!EdgesOf(Load!PartLines(t))
Offset(t) == Len(ReadTo[Boundary(t) - 1])

LEMMA AllFacts ==
  ASSUME Load!IsFile(file)
  PROVE  /\ All \in Seq(Pairs) /\ All = Load!EdgesOf(DOMAIN file.lines)
         /\ \A k \in 0 .. Len(file.lines) :
              /\ Len(ReadTo[k]) \in Nat /\ Len(ReadTo[k]) <= Len(All)
              /\ \A j \in 1 .. Len(ReadTo[k]) : All[j] = ReadTo[k][j]
<1> DEFINE n == Len(file.lines)
<1>1. n \in Nat /\ DOMAIN file.lines = 1 .. n BY FileFacts DEF Lines
<1>2. /\ ReadTo[0] = <<>> /\ \A k \in 0 .. n : ReadTo[k] \in Seq(Pairs) BY ReadFacts
<1>3. All = ReadTo[n] BY DEF All
<1>4. ASSUME NEW k \in 0 .. n
      PROVE  /\ Load!EdgesOf(k + 1 .. n) \in Seq(Pairs)
             /\ All = Then(ReadTo[k], Load!EdgesOf(k + 1 .. n))
 <2> DEFINE a == k + 1
            b == n + 1
 <2>1. a \in 1 .. n + 1 /\ b \in a .. n + 1 /\ a - 1 = k /\ b - 1 = n BY <1>1
 <2>2. /\ Load!EdgesOf(a .. b - 1) \in Seq(Pairs)
       /\ ReadTo[b - 1] = Then(ReadTo[a - 1], Load!EdgesOf(a .. b - 1))
   BY <2>1, Slices
 <2> HIDE DEF a, b
 <2>3. /\ Load!EdgesOf(a .. n) \in Seq(Pairs)
       /\ ReadTo[n] = Then(ReadTo[k], Load!EdgesOf(a .. n))
   BY <2>1, <2>2
 <2> QED BY <1>3, <2>3 DEF a
<1>5. All = Load!EdgesOf(DOMAIN file.lines)
 <2>1. 0 \in 0 .. n /\ 0 + 1 = 1 BY <1>1
 <2>2. /\ Load!EdgesOf(1 .. n) \in Seq(Pairs)
       /\ All = Then(<<>>, Load!EdgesOf(1 .. n))
   BY <1>2, <1>4, <2>1
 <2>3. Then(<<>>, Load!EdgesOf(1 .. n)) = Load!EdgesOf(1 .. n) BY <2>2, ThenFacts
 <2> QED BY <1>1, <2>2, <2>3
<1>6. All \in Seq(Pairs) BY <1>1, <1>2, <1>3
<1>7. ASSUME NEW k \in 0 .. n
      PROVE  /\ Len(ReadTo[k]) \in Nat /\ Len(ReadTo[k]) <= Len(All)
             /\ \A j \in 1 .. Len(ReadTo[k]) : All[j] = ReadTo[k][j]
 <2> DEFINE s == ReadTo[k]
            r == Load!EdgesOf(k + 1 .. n)
 <2>1. s \in Seq(Pairs) /\ r \in Seq(Pairs) /\ All = Then(s, r) BY <1>2, <1>4
 <2> HIDE DEF s, r
 <2>2. Len(s) \in Nat /\ Len(r) \in Nat BY <2>1, LenProperties
 <2>3. Len(All) = Len(s) + Len(r) /\ \A j \in 1 .. Len(s) : All[j] = s[j] BY ZenonT(40), <2>1, ThenFacts
 <2> QED BY <2>2, <2>3 DEF s
<1> QED BY <1>5, <1>6, <1>7

LEMMA OffsetFacts ==
  ASSUME LoadThreads \in Nat \ {0}, Load!IsFile(file)
  PROVE  /\ Offset(0) = 0 /\ Offset(LoadThreads) = Len(All)
         /\ \A t \in 0 .. LoadThreads : Offset(t) \in Nat
         /\ \A t \in LoadThread :
              /\ Part(t) \in Seq(Pairs) /\ DOMAIN Part(t) = 1 .. Len(Part(t))
              /\ Len(Part(t)) \in Nat
              /\ Offset(t + 1) = Offset(t) + Len(Part(t))
              /\ Offset(t + 1) <= Len(All)
              /\ \A k \in 1 .. Len(Part(t)) : All[Offset(t) + k] = Part(t)[k]
<1> DEFINE n == Len(file.lines)
<1>1. n \in Nat BY FileFacts
<1>2. ASSUME NEW t \in 0 .. LoadThreads PROVE Boundary(t) - 1 \in 0 .. n BY <1>1, Parted
<1>3. ASSUME NEW t \in 0 .. LoadThreads PROVE Offset(t) \in Nat BY <1>2, AllFacts DEF Offset
<1>4. Offset(0) = 0 BY ReadFacts, Parted, EmptySeq DEF Offset
<1>5. Offset(LoadThreads) = Len(All) BY <1>1, Parted DEF Offset, All
<1>6. ASSUME NEW t \in LoadThread
      PROVE  /\ Part(t) \in Seq(Pairs) /\ DOMAIN Part(t) = 1 .. Len(Part(t))
             /\ Len(Part(t)) \in Nat
             /\ Offset(t + 1) = Offset(t) + Len(Part(t))
             /\ Offset(t + 1) <= Len(All)
             /\ \A k \in 1 .. Len(Part(t)) : All[Offset(t) + k] = Part(t)[k]
 <2> DEFINE a == Boundary(t)
            b == Boundary(t + 1)
 <2>1. t \in 0 .. LoadThreads /\ t + 1 \in 0 .. LoadThreads BY DEF LoadThread
 <2>2. a \in 1 .. n + 1 /\ b \in 1 .. n + 1 /\ a <= b /\ Load!PartLines(t) = a .. b - 1
   BY <2>1, Parted
 <2>3. b \in a .. n + 1 /\ a - 1 \in 0 .. n /\ b - 1 \in 0 .. n BY <1>1, <2>2
 <2> HIDE DEF a, b
 <2>4. Part(t) \in Seq(Pairs) /\ ReadTo[b - 1] = Then(ReadTo[a - 1], Part(t))
   BY <2>2, <2>3, Slices DEF Part
 <2> DEFINE s == ReadTo[a - 1]
            r == Part(t)
            w == ReadTo[b - 1]
 <2>5. s \in Seq(Pairs) /\ r \in Seq(Pairs) /\ w = Then(s, r) BY <2>3, <2>4, ReadFacts
 <2>6. Offset(t) = Len(s) /\ Offset(t + 1) = Len(w) BY DEF Offset, a, b
 <2>7. Len(w) <= Len(All) /\ \A j \in 1 .. Len(w) : All[j] = w[j] BY <2>3, AllFacts
 <2> HIDE DEF s, r, w
 <2>8. Len(s) \in Nat /\ Len(r) \in Nat /\ DOMAIN r = 1 .. Len(r) BY <2>5, LenProperties
 <2>9. Len(w) = Len(s) + Len(r) /\ \A k \in 1 .. Len(r) : w[Len(s) + k] = r[k]
  <3>1. /\ Len(Then(s, r)) = Len(s) + Len(r)
        /\ \A k \in 1 .. Len(r) : Then(s, r)[Len(s) + k] = r[k]
    BY <2>5, ThenFacts
  <3> QED BY <2>5, <3>1
 <2>10. ASSUME NEW k \in 1 .. Len(r) PROVE All[Len(s) + k] = r[k]
  <3>1. Len(s) + k \in 1 .. Len(w) BY <2>8, <2>9
  <3> QED BY <2>7, <2>9, <3>1
 <2>11. /\ r \in Seq(Pairs) /\ DOMAIN r = 1 .. Len(r) /\ Len(r) \in Nat
        /\ Offset(t + 1) = Offset(t) + Len(r) /\ Offset(t + 1) <= Len(All)
        /\ \A k \in 1 .. Len(r) : All[Offset(t) + k] = r[k]
   BY <2>5, <2>6, <2>7, <2>8, <2>9, <2>10
 <2> QED BY <2>11 DEF r
<1> QED BY <1>3, <1>4, <1>5, <1>6

\* first_edge is where the edges of a part begin.
LEMMA FirstEdges ==
  ASSUME LoadThreads \in Nat \ {0}, Load!IsFile(file),
         \A t \in LoadThread : parts[t] = Part(t)
  PROVE  \A t \in 0 .. LoadThreads : Load!FirstEdge(t) = Offset(t)
<1> DEFINE Eq(f) == f = [s \in 0 .. LoadThreads |->
                           IF s = 0 THEN 0 ELSE f[s - 1] + Len(parts[s - 1])]
           g == [s \in 0 .. LoadThreads |-> Offset(s)]
           h == CHOOSE f : Eq(f)
<1>1. ASSUME NEW s \in 0 .. LoadThreads, s # 0
      PROVE  /\ s - 1 \in LoadThread /\ s - 1 \in 0 .. LoadThreads
             /\ Offset(s) = Offset(s - 1) + Len(parts[s - 1])
 <2>1. s - 1 \in LoadThread /\ s - 1 \in 0 .. LoadThreads /\ s - 1 + 1 = s BY <1>1 DEF LoadThread
 <2> QED BY <2>1, OffsetFacts
<1>2. Eq(g)
 <2>1. ASSUME NEW s \in 0 .. LoadThreads
       PROVE  g[s] = IF s = 0 THEN 0 ELSE g[s - 1] + Len(parts[s - 1])
  <3>1. CASE s = 0 BY <3>1, OffsetFacts
  <3>2. CASE s # 0
   <4>1. g[s] = Offset(s) /\ g[s - 1] = Offset(s - 1) BY <1>1, <3>2
   <4> HIDE DEF g
   <4> QED BY <1>1, <3>2, <4>1
  <3> QED BY <3>1, <3>2
 <2>2. g = [s \in 0 .. LoadThreads |-> g[s]] OBVIOUS
 <2> HIDE DEF g
 <2> QED BY <2>1, <2>2
<1>3. ASSUME NEW t \in 0 .. LoadThreads PROVE Load!FirstEdge(t) = h[t] BY DEF Load!FirstEdge
<1>4. Eq(h)
 <2> HIDE DEF Eq, g
 <2> QED BY <1>2, Zenon
<1>5. \A s \in 0 .. LoadThreads : h[s] = IF s = 0 THEN 0 ELSE h[s - 1] + Len(parts[s - 1]) BY <1>4
<1> HIDE DEF h, Eq, g
<1> DEFINE Bad == {s \in 0 .. LoadThreads : h[s] # Offset(s)}
<1>6. Bad = {}
 <2> SUFFICES ASSUME Bad # {} PROVE FALSE OBVIOUS
 <2>1. Bad \in SUBSET Nat OBVIOUS
 <2>2. PICK m \in Bad : \A s \in Bad : m <= s BY <2>1, Least
 <2>3. m \in 0 .. LoadThreads /\ h[m] # Offset(m) /\ ~(m <= m - 1) BY <2>2
 <2>4. m # 0
  <3>1. 0 \in 0 .. LoadThreads OBVIOUS
  <3> QED BY <1>5, <2>3, <3>1, OffsetFacts
 <2>5. m - 1 \notin Bad BY <2>2, <2>3
 <2>6. h[m - 1] = Offset(m - 1) /\ h[m] = h[m - 1] + Len(parts[m - 1])
   BY <1>1, <1>5, <2>3, <2>4, <2>5
 <2> QED BY <1>1, <2>3, <2>4, <2>6
<1> QED BY <1>3, <1>6

\* Every place of the whole is in one of the parts.
LEMMA PlaceInPart ==
  ASSUME LoadThreads \in Nat \ {0}, Load!IsFile(file), NEW k \in 1 .. Len(All)
  PROVE  \E t \in LoadThread : k - Offset(t) \in 1 .. Len(Part(t))
<1> DEFINE After == {t \in 0 .. LoadThreads : k <= Offset(t)}
<1>1. Len(All) \in Nat BY AllFacts, LenProperties
<1>2. LoadThreads \in After /\ After \in SUBSET Nat BY <1>1, OffsetFacts
<1>3. PICK m \in After : \A t \in After : m <= t BY <1>2, Least
<1>4. m \in 0 .. LoadThreads /\ k <= Offset(m) /\ ~(m <= m - 1) BY <1>3
<1>5. m # 0 BY <1>1, <1>4, OffsetFacts
<1>6. m - 1 \in LoadThread /\ m - 1 \in 0 .. LoadThreads /\ m - 1 + 1 = m
  BY <1>4, <1>5 DEF LoadThread
<1>7. ~(k <= Offset(m - 1)) BY <1>3, <1>4, <1>6
<1>8. Offset(m - 1) \in Nat /\ Len(Part(m - 1)) \in Nat /\ Offset(m) = Offset(m - 1) + Len(Part(m - 1))
  BY <1>6, OffsetFacts
<1>9. k - Offset(m - 1) \in 1 .. Len(Part(m - 1)) BY <1>1, <1>4, <1>7, <1>8
<1> QED BY <1>6, <1>9

-----------------------------------------------------------------------------
(***************************************************************************)
(* The invariant of loading, as far as the edges go.                       *)
(***************************************************************************)
BadLines == {k \in Lines : Load!Bad(file.lines[k])}
BadOf(t) == {k \in Load!PartLines(t) : Load!Bad(file.lines[k])}

\* A thread has been started for the job, and has ended it.
Started(t) == IF t = 0 THEN main.started = LoadThreads ELSE t <= main.started
Finished(t) == Started(t) /\ t \notin working

LaterJobs == {"count", "sort", "degrees", "lists", "text", "written"}
JobNames == {"open", "parse", "copy", "failed"} \cup LaterJobs

LoadTypes ==
  /\ file \in Files
  /\ main \in [job : JobNames, started : -1 .. LoadThreads, line : Nat]
  /\ working \subseteq LoadThread
  /\ \A t \in working : main.started # -1 => Started(t)
  /\ DOMAIN errors = LoadThread /\ DOMAIN parts = LoadThread
  /\ DOMAIN edges = {"n", "list"}

OpenInv ==
  main.job = "open" =>
    /\ main.started = 0 /\ main.line = 0 /\ working = {}
    /\ \A t \in LoadThread : errors[t] = 0

\* What a thread leaves when it has parsed its part.
Parsed(t) ==
  IF BadOf(t) # {} THEN errors[t] = Load!Min(BadOf(t))
  ELSE errors[t] = 0 /\ parts[t] = Part(t)

ParseInv ==
  main.job = "parse" =>
    /\ main.line = 0
    /\ \A t \in LoadThread :
         IF Finished(t) THEN Parsed(t) ELSE main.started # -1 => errors[t] = 0

CopyInv ==
  main.job = "copy" =>
    /\ main.line = 0 /\ BadLines = {}
    /\ \A t \in LoadThread : parts[t] = Part(t)
    /\ edges.list = [k \in 1 .. Len(All) |-> edges.list[k]]
    /\ \A t \in LoadThread :
         Finished(t) => \A k \in 1 .. Len(Part(t)) : edges.list[Offset(t) + k] = All[Offset(t) + k]

LaterInv == main.job \in LaterJobs => main.line = 0 /\ edges.list = All

FailedInv == main.job = "failed" /\ main.line # 0 => main.line = Load!FirstBad

LoadInv == LoadTypes /\ OpenInv /\ ParseInv /\ CopyInv /\ LaterInv /\ FailedInv

LoadAssumed == LoadThreads \in Nat \ {0} /\ \A f \in Files : Load!IsFile(f)

LEMMA Loadable ==
  ASSUME LoadAssumed, LoadTypes
  PROVE  LoadThreads \in Nat \ {0} /\ Load!IsFile(file) /\ 0 \in LoadThread
  BY DEF LoadAssumed, LoadTypes, LoadThread

\* What the file says stays.
LEMMA FileKept ==
  ASSUME file' = file
  PROVE  /\ Lines' = Lines /\ All' = All
         /\ \A t : /\ Part(t)' = Part(t) /\ Offset(t)' = Offset(t)
                   /\ Load!PartLines(t)' = Load!PartLines(t)
  BY DEF Lines, All, ReadTo, EdgeLines, EdgeAt, Part, Offset, Boundary, Load!PartLines,
     Load!EdgesOf, Load!Start, Load!Aligned, Load!LineStarts, Load!ToSet, Load!Size, Load!EdgeOn,
     Load!ToVertex, Load!IsEdge

\* And which lines are bad, as long as the number of vertices is the same.
LEMMA BadKept ==
  ASSUME file' = file, edges'.n = edges.n
  PROVE  /\ BadLines' = BadLines /\ Load!FirstBad' = Load!FirstBad
         /\ \A t : BadOf(t)' = BadOf(t)
<1>1. \A line : Load!Bad(line)' = Load!Bad(line)
  BY DEF Load!Bad, Load!Outside, Load!ToVertex, Load!IsEdge, Load!Comments
<1>2. Lines' = Lines /\ \A t : Load!PartLines(t)' = Load!PartLines(t) BY FileKept
<1> QED BY <1>1, <1>2 DEF BadLines, BadOf, Load!FirstBad

\* A step of run_on_threads() that ends nobody's work.
LEMMA WorkKept ==
  ASSUME LoadAssumed, LoadInv, LoadTypes', UNCHANGED <<file, errors, parts, edges>>,
         main'.job = main.job, main'.line = main.line, main.job # "open",
         main'.started # -1 => main.started # -1,
         \A t \in LoadThread : /\ Finished(t)' => Finished(t)
                               /\ main'.started # -1 => (Finished(t) => Finished(t)')
  PROVE  LoadInv'
<1>1. /\ All' = All /\ \A t : Part(t)' = Part(t) /\ Offset(t)' = Offset(t) BY FileKept
<1>2. /\ BadLines' = BadLines /\ Load!FirstBad' = Load!FirstBad
      /\ \A t : BadOf(t)' = BadOf(t)
  BY BadKept
<1>3. \A t \in LoadThread : Parsed(t) => Parsed(t)' BY <1>1, <1>2 DEF Parsed
<1>4. LoadThread' = LoadThread BY DEF LoadThread
<1>5. ParseInv'
 <2> SUFFICES ASSUME main.job = "parse" PROVE ParseInv' BY DEF ParseInv
 <2>1. /\ main.line = 0
       /\ \A t \in LoadThread :
            IF Finished(t) THEN Parsed(t) ELSE main.started # -1 => errors[t] = 0
   BY DEF LoadInv, ParseInv
 <2>2. \A t \in LoadThread : Finished(t)' => Parsed(t)' BY <1>3, <2>1
 <2>3. \A t \in LoadThread : ~Finished(t)' => (main'.started # -1 => errors'[t] = 0) BY <2>1
 <2> QED BY <1>4, <2>1, <2>2, <2>3 DEF ParseInv
<1>6. CopyInv'
 <2> SUFFICES ASSUME main.job = "copy" PROVE CopyInv' BY DEF CopyInv
 <2>1. /\ main.line = 0 /\ BadLines = {}
       /\ \A t \in LoadThread : parts[t] = Part(t)
       /\ edges.list = [k \in 1 .. Len(All) |-> edges.list[k]]
       /\ \A t \in LoadThread :
            Finished(t) => \A k \in 1 .. Len(Part(t)) : edges.list[Offset(t) + k] = All[Offset(t) + k]
   BY DEF LoadInv, CopyInv
 <2>2. \A t \in LoadThread :
         Finished(t)' => \A k \in 1 .. Len(Part(t)) : edges.list[Offset(t) + k] = All[Offset(t) + k]
   BY <2>1
 <2> QED BY <1>1, <1>2, <1>4, <2>1, <2>2 DEF CopyInv
<1>7. OpenInv' /\ LaterInv' /\ FailedInv'
  BY <1>1, <1>2 DEF LoadInv, OpenInv, LaterInv, FailedInv, LaterJobs
<1> QED BY <1>5, <1>6, <1>7 DEF LoadInv

LEMMA StartStep ==
  ASSUME LoadAssumed, LoadInv, Load!StartThread \/ Load!RunOwn
  PROVE  LoadInv'
<1>1. LoadThreads \in Nat \ {0} /\ LoadThread \subseteq Nat BY DEF LoadAssumed, LoadThread
<1>2. /\ UNCHANGED <<file, errors, parts, edges>>
      /\ main'.job = main.job /\ main'.line = main.line /\ main.job # "open"
      /\ main.started # -1 /\ main.started \in Int
 <2>1. /\ main \in [job : JobNames, started : -1 .. LoadThreads, line : Nat]
       /\ Load!Running /\ UNCHANGED <<file, errors, parts, edges>>
   BY DEF Load!StartThread, Load!RunOwn, LoadInv, LoadTypes
 <2>2. main.job # "open" BY <2>1 DEF Load!Running, Load!Jobs, Load!ToSet
 <2>3. main.started \in Int /\ main.started # -1
  <3>1. main.started \in Int BY <1>1, <2>1
  <3>2. CASE Load!StartThread BY <3>2 DEF Load!StartThread
  <3>3. CASE Load!RunOwn BY <1>1, <3>3 DEF Load!RunOwn
  <3> QED BY <3>1, <3>2, <3>3
 <2>4. main'.job = main.job /\ main'.line = main.line
  <3>1. \E k : main' = [main EXCEPT !.started = k]
   <4>1. CASE Load!StartThread BY <4>1 DEF Load!StartThread
   <4>2. CASE Load!RunOwn BY <4>2 DEF Load!RunOwn
   <4> QED BY <4>1, <4>2
  <3> QED BY <2>1, <3>1
 <2> QED BY <2>1, <2>2, <2>3, <2>4
<1>3. CASE main'.started = -1 /\ working' = working
 <2>1. main' \in [job : JobNames, started : -1 .. LoadThreads, line : Nat]
   BY <1>1, <1>3 DEF Load!StartThread, Load!RunOwn, LoadInv, LoadTypes
 <2>2. LoadTypes' BY <1>1, <1>2, <1>3, <2>1 DEF LoadInv, LoadTypes, LoadThread
 <2>3. \A t \in LoadThread : ~Finished(t)' BY <1>1, <1>3 DEF Finished, Started
 <2> QED BY <1>2, <1>3, <2>2, <2>3, WorkKept
<1>4. ASSUME NEW j \in LoadThread, working' = working \cup {j},
             main'.started \in 1 .. LoadThreads, main'.started = main.started + 1,
             j = IF main'.started = LoadThreads THEN 0 ELSE main'.started,
             main' \in [job : JobNames, started : -1 .. LoadThreads, line : Nat]
      PROVE  LoadInv'
 <2>1. ASSUME NEW t \in LoadThread PROVE Started(t)' <=> Started(t) \/ t = j
   BY <1>1, <1>2, <1>4 DEF Started, LoadThread
 <2>2. LoadTypes'
  <3>1. \A t \in working' : Started(t)' BY <1>2, <1>4, <2>1 DEF LoadInv, LoadTypes
  <3>2. LoadThread' = LoadThread BY DEF LoadThread
  <3> QED BY <1>2, <1>4, <3>1, <3>2 DEF LoadInv, LoadTypes
 <2>3. ~Started(j) BY <1>1, <1>2, <1>4 DEF Started
 <2>4. \A t \in LoadThread : Finished(t)' <=> Finished(t) BY <1>4, <2>1, <2>3 DEF Finished
 <2> QED BY <1>2, <2>2, <2>4, WorkKept
<1>5. CASE Load!StartThread
 <2>1. main.started \in 0 .. LoadThreads - 2
       /\ main \in [job : JobNames, started : -1 .. LoadThreads, line : Nat]
   BY <1>5 DEF Load!StartThread, LoadInv, LoadTypes
 <2>2. CASE main' = [main EXCEPT !.started = main.started + 1]
            /\ working' = working \cup {main.started + 1}
  <3>1. main.started + 1 \in LoadThread /\ main'.started = main.started + 1
        /\ main' \in [job : JobNames, started : -1 .. LoadThreads, line : Nat]
    BY <1>1, <2>1, <2>2 DEF LoadThread
  <3> QED BY <1>1, <1>4, <2>1, <2>2, <3>1
 <2>3. CASE main' = [main EXCEPT !.started = -1] /\ working' = working BY <1>3, <2>1, <2>3
 <2> QED BY <1>5, <2>2, <2>3 DEF Load!StartThread
<1>6. CASE Load!RunOwn
 <2>1. main.started = LoadThreads - 1
       /\ main \in [job : JobNames, started : -1 .. LoadThreads, line : Nat]
       /\ main' = [main EXCEPT !.started = LoadThreads] /\ working' = working \cup {0}
   BY <1>6 DEF Load!RunOwn, LoadInv, LoadTypes
 <2>2. 0 \in LoadThread /\ main'.started = LoadThreads /\ LoadThreads \in 1 .. LoadThreads
       /\ main' \in [job : JobNames, started : -1 .. LoadThreads, line : Nat]
   BY <1>1, <2>1 DEF LoadThread
 <2> QED BY <1>1, <1>4, <2>1, <2>2
<1> QED BY <1>5, <1>6

\* The jobs after the edges are there leave them alone.
LEMMA LaterKept ==
  ASSUME LoadInv, LoadTypes', UNCHANGED <<file, edges>>, main.job \in LaterJobs,
         main'.job \in LaterJobs \cup {"failed"}, main'.line = 0
  PROVE  LoadInv'
<1>1. All' = All BY FileKept
<1> QED BY <1>1 DEF LoadInv, LaterJobs, OpenInv, ParseInv, CopyInv, LaterInv, FailedInv

\* The main thread between two jobs: nobody works, and the next job starts from nothing.
LEMMA BeginTypes ==
  ASSUME LoadAssumed, LoadInv, file' = file, working' = {},
         DOMAIN errors' = LoadThread, DOMAIN parts' = LoadThread, DOMAIN edges' = {"n", "list"},
         NEW job \in JobNames, NEW line \in Nat,
         Load!Begin(job) \/ (main' = [main EXCEPT !.job = job, !.line = line])
  PROVE  LoadTypes'
<1>1. 0 \in -1 .. LoadThreads /\ main \in [job : JobNames, started : -1 .. LoadThreads, line : Nat]
  BY DEF LoadAssumed, LoadInv, LoadTypes
<1>2. main' \in [job : JobNames, started : -1 .. LoadThreads, line : Nat] BY <1>1 DEF Load!Begin
<1>3. LoadThread' = LoadThread BY DEF LoadThread
<1> QED BY <1>2, <1>3 DEF LoadInv, LoadTypes

LEMMA LaterStep ==
  ASSUME LoadAssumed, LoadInv,
         \/ Load!AfterCount \/ Load!AfterSort \/ Load!AfterDegrees \/ Load!AfterLists
         \/ Load!AfterText
  PROVE  LoadInv'
<1>1. /\ UNCHANGED <<file, errors, edges, working>> /\ working = {}
      /\ DOMAIN parts' = LoadThread
      /\ main.job \in {"count", "sort", "degrees", "lists", "text"}
      /\ \E job \in {"sort", "degrees", "lists", "text", "written"} :
           Load!Begin(job) \/ main' = [main EXCEPT !.job = "failed", !.line = 0]
  BY DEF Load!AfterCount, Load!AfterSort, Load!AfterDegrees, Load!AfterLists, Load!AfterText,
     Load!Joined, Load!AllJoined, LoadInv, LoadTypes, Load!Thread, LoadThread, Load!Fail
<1>2. PICK job \in {"sort", "degrees", "lists", "text", "written"} :
           Load!Begin(job) \/ main' = [main EXCEPT !.job = "failed", !.line = 0]
  BY <1>1
<1>3. main.job \in LaterJobs /\ job \in JobNames /\ "failed" \in JobNames
      /\ main.line = 0 /\ DOMAIN main = {"job", "started", "line"}
  BY <1>1 DEF LaterJobs, JobNames, LoadInv, LaterInv, LoadTypes
<1>4. main'.job \in LaterJobs \cup {"failed"} /\ main'.line = 0
  BY <1>2, <1>3 DEF Load!Begin, LaterJobs
<1>5. LoadTypes'
 <2>1. CASE Load!Begin(job) BY <1>1, <1>3, <2>1, BeginTypes DEF LoadInv, LoadTypes
 <2>2. CASE main' = [main EXCEPT !.job = "failed", !.line = 0]
   BY <1>1, <1>3, <2>2, BeginTypes DEF LoadInv, LoadTypes
 <2> QED BY <1>2, <2>1, <2>2
<1> QED BY <1>1, <1>3, <1>4, <1>5, LaterKept

LEMMA LaterWork ==
  ASSUME LoadAssumed, LoadInv, NEW t \in LoadThread,
         \/ Load!Count(t) \/ Load!SortEdge(t) \/ Load!SortEnd(t)
         \/ Load!Degrees(t) \/ Load!Lists(t) \/ Load!Text(t)
  PROVE  LoadInv'
<1>1. /\ UNCHANGED <<file, main, errors, edges>> /\ working' \subseteq working
      /\ DOMAIN parts' = DOMAIN parts
      /\ main.job \in {"count", "sort", "degrees", "lists", "text"}
  BY DEF Load!Count, Load!SortEdge, Load!SortEnd, Load!Degrees, Load!Lists, Load!Text, Load!Works,
     Load!Ended
<1>2. LoadTypes' BY <1>1 DEF LoadInv, LoadTypes, Started, LoadThread
<1>3. main.job \in LaterJobs /\ main.line = 0 BY <1>1 DEF LaterJobs, LoadInv, LaterInv
<1> QED BY <1>1, <1>2, <1>3, LaterKept

\* Begins to parse, or finds the header wrong.
LEMMA HeaderStep ==
  ASSUME LoadAssumed, LoadInv, Load!ReadHeader
  PROVE  LoadInv'
<1>1. /\ UNCHANGED <<file, errors, parts, working>> /\ working = {}
      /\ main.job = "open" /\ main.line = 0
      /\ \A t \in LoadThread : errors[t] = 0
      /\ DOMAIN edges' = DOMAIN edges
      /\ Load!Begin("parse") \/ main' = [main EXCEPT !.job = "failed", !.line = 0]
  BY DEF Load!ReadHeader, Load!Fail, LoadInv, OpenInv
<1>2. "parse" \in JobNames /\ "failed" \in JobNames
      /\ DOMAIN main = {"job", "started", "line"}
  BY DEF JobNames, LoadInv, LoadTypes
<1>3. LoadTypes'
 <2>1. DOMAIN errors' = LoadThread /\ DOMAIN parts' = LoadThread /\ DOMAIN edges' = {"n", "list"}
   BY <1>1 DEF LoadInv, LoadTypes
 <2>2. CASE Load!Begin("parse") BY <1>1, <1>2, <2>1, <2>2, BeginTypes
 <2>3. CASE main' = [main EXCEPT !.job = "failed", !.line = 0] BY ZenonT(40), <1>1, <1>2, <2>1, <2>3, BeginTypes
 <2> QED BY <1>1, <2>2, <2>3
<1>4. CASE Load!Begin("parse")
 <2>1. main'.job = "parse" /\ main'.started = 0 /\ main'.line = 0 BY <1>1, <1>2, <1>4 DEF Load!Begin
 <2>2. \A t \in LoadThread : ~Finished(t)' BY <2>1 DEF Finished, Started, LoadAssumed, LoadThread
 <2>3. LoadThread' = LoadThread BY DEF LoadThread
 <2>4. ParseInv' BY <1>1, <2>1, <2>2, <2>3 DEF ParseInv
 <2> QED BY <1>3, <2>1, <2>4 DEF LoadInv, OpenInv, CopyInv, LaterInv, FailedInv, LaterJobs
<1>5. CASE main' = [main EXCEPT !.job = "failed", !.line = 0]
 <2>1. main'.job = "failed" /\ main'.line = 0 BY <1>2, <1>5
 <2> QED BY <1>3, <2>1 DEF LoadInv, OpenInv, ParseInv, CopyInv, LaterInv, FailedInv, LaterJobs
<1> QED BY <1>1, <1>4, <1>5

\* Nothing of this changes.
LEMMA NothingChanged ==
  ASSUME LoadInv, UNCHANGED Load!vars
  PROVE  LoadInv'
<1>1. UNCHANGED <<file, main, working, errors, parts, edges>> BY DEF Load!vars
<1>2. /\ All' = All /\ \A t : Part(t)' = Part(t) /\ Offset(t)' = Offset(t) BY <1>1, FileKept
<1>3. /\ BadLines' = BadLines /\ Load!FirstBad' = Load!FirstBad
      /\ \A t : BadOf(t)' = BadOf(t)
  BY <1>1, BadKept
<1>4. /\ LoadThread' = LoadThread
      /\ \A t : (Started(t)' <=> Started(t)) /\ (Finished(t)' <=> Finished(t))
  BY <1>1 DEF LoadThread, Started, Finished
<1>5. \A t : Parsed(t)' <=> Parsed(t) BY <1>1, <1>2, <1>3 DEF Parsed
<1>6. LoadTypes' /\ OpenInv' BY <1>1, <1>4 DEF LoadInv, LoadTypes, OpenInv
<1>7. ParseInv' BY <1>1, <1>4, <1>5 DEF LoadInv, ParseInv
<1>8. CopyInv' BY <1>1, <1>2, <1>3, <1>4 DEF LoadInv, CopyInv
<1>9. LaterInv' /\ FailedInv' BY <1>1, <1>2, <1>3 DEF LoadInv, LaterInv, FailedInv
<1> QED BY <1>6, <1>7, <1>8, <1>9 DEF LoadInv

\* The program gives up without a line to report.
LEMMA UnwindStep ==
  ASSUME LoadAssumed, LoadInv, Load!Unwind
  PROVE  LoadInv'
<1>1. /\ UNCHANGED <<file, working, errors, parts, edges>>
      /\ main' = [main EXCEPT !.job = "failed", !.line = 0] /\ working = {}
  BY DEF Load!Unwind, Load!AllJoined, Load!Fail
<1>2. LoadTypes' BY <1>1, BeginTypes DEF LoadInv, LoadTypes, JobNames
<1>3. main'.job = "failed" /\ main'.line = 0 BY <1>1 DEF LoadInv, LoadTypes
<1> QED BY <1>2, <1>3 DEF LoadInv, OpenInv, ParseInv, CopyInv, LaterInv, FailedInv, LaterJobs

\* A thread has read its part, or found the first of its lines that is bad.
LEMMA ParseStep ==
  ASSUME LoadAssumed, LoadInv, NEW t \in LoadThread, Load!Parse(t)
  PROVE  LoadInv'
<1>1. /\ UNCHANGED <<file, main, edges>> /\ main.job = "parse" /\ t \in working
      /\ working' = working \ {t}
  BY DEF Load!Parse, Load!Works, Load!Ended
<1>2. /\ BadLines' = BadLines /\ \A s : BadOf(s)' = BadOf(s) /\ Part(s)' = Part(s)
  BY <1>1, FileKept, BadKept
<1>3. DOMAIN errors = LoadThread /\ DOMAIN parts = LoadThread /\ LoadThread' = LoadThread
  BY DEF LoadInv, LoadTypes, LoadThread
<1>4. \/ /\ BadOf(t) # {} /\ parts' = parts
         /\ errors' = [errors EXCEPT ![t] = Load!Min(BadOf(t))]
      \/ /\ BadOf(t) = {} /\ errors' = errors
         /\ parts' = [parts EXCEPT ![t] = Part(t)]
  BY DEF Load!Parse, BadOf, Part
<1>5. /\ DOMAIN errors' = LoadThread /\ DOMAIN parts' = LoadThread
      /\ \A s \in LoadThread : s # t => errors'[s] = errors[s] /\ parts'[s] = parts[s]
  BY <1>3, <1>4
<1>6. LoadTypes' BY <1>1, <1>3, <1>5 DEF LoadInv, LoadTypes, Started
<1>7. /\ main.line = 0
      /\ \A s \in LoadThread :
           IF Finished(s) THEN Parsed(s) ELSE main.started # -1 => errors[s] = 0
  BY <1>1 DEF LoadInv, ParseInv
<1>8. ASSUME NEW s \in LoadThread, s # t
      PROVE  /\ Finished(s)' <=> Finished(s)
             /\ Parsed(s) => Parsed(s)'
 <2>1. Finished(s)' <=> Finished(s) BY <1>1, <1>8 DEF Finished, Started
 <2>2. Parsed(s) => Parsed(s)' BY <1>2, <1>5, <1>8 DEF Parsed
 <2> QED BY <2>1, <2>2
<1>9. main.started # -1 => Started(t) /\ Finished(t)'
  BY <1>1 DEF LoadInv, LoadTypes, Finished, Started
<1>10. main.started = -1 => ~Finished(t)' BY <1>1 DEF LoadAssumed, LoadThread, Finished, Started
<1>11. main.started # -1 => errors[t] = 0 BY <1>1, <1>7 DEF Finished
<1>12. main.started # -1 => Parsed(t)'
 <2>1. CASE BadOf(t) # {}
  <3>1. errors'[t] = Load!Min(BadOf(t)) BY <1>3, <1>4, <2>1
  <3> QED BY <1>2, <2>1, <3>1 DEF Parsed, Load!Min
 <2>2. CASE BadOf(t) = {}
  <3>1. errors'[t] = errors[t] /\ parts'[t] = Part(t) BY <1>3, <1>4, <2>2
  <3> QED BY <1>2, <1>11, <2>2, <3>1 DEF Parsed
 <2> QED BY <2>1, <2>2
<1>13. ASSUME NEW s \in LoadThread
       PROVE  /\ Finished(s)' => Parsed(s)'
              /\ ~Finished(s)' => (main'.started # -1 => errors'[s] = 0)
 <2>1. CASE s = t BY <1>1, <1>9, <1>10, <1>12, <2>1
 <2>2. CASE s # t BY <1>1, <1>5, <1>7, <1>8, <2>2
 <2> QED BY <2>1, <2>2
<1>14. ParseInv' BY <1>1, <1>3, <1>7, <1>13 DEF ParseInv
<1> QED BY <1>1, <1>6, <1>14 DEF LoadInv, OpenInv, CopyInv, LaterInv, FailedInv, LaterJobs

\* When all are back, everyone has done its work.
LEMMA AllFinished ==
  ASSUME LoadAssumed, LoadInv, NEW job, Load!Joined(job), job # "open"
  PROVE  /\ main.job = job /\ working = {} /\ main.started = LoadThreads
         /\ \A t \in LoadThread : Finished(t)
  BY DEF Load!Joined, Load!AllJoined, Load!Unwinding, Finished, Started, LoadAssumed, LoadThread

\* The first error of the first thread that has one is the first in the file.
LEMMA FirstReported ==
  ASSUME LoadAssumed, LoadInv, \A t \in LoadThread : Parsed(t)
  PROVE  /\ (\E t \in LoadThread : errors[t] # 0) <=> BadLines # {}
         /\ BadLines # {} => Load!FirstError = Load!FirstBad
         /\ Load!FirstBad \in Nat
         /\ BadLines = {} => \A t \in LoadThread : parts[t] = Part(t)
<1> DEFINE n == Len(file.lines)
           With == {t \in LoadThread : errors[t] # 0}
           Least1(S) == S # {} => Load!Min(S) \in S /\ \A k \in S : Load!Min(S) <= k
<1>1. LoadThreads \in Nat \ {0} /\ Load!IsFile(file) BY Loadable DEF LoadInv
<1>2. ASSUME NEW S \in SUBSET Nat PROVE Least1(S) BY Least DEF Load!Min
<1>3. n \in Nat /\ Lines = 1 .. n /\ Lines \subseteq Nat /\ DOMAIN file.lines = Lines
  BY <1>1, FileFacts DEF Lines
<1>4. ASSUME NEW t \in LoadThread
      PROVE  /\ BadOf(t) \subseteq BadLines /\ BadOf(t) \subseteq Nat
             /\ BadOf(t) # {} <=> errors[t] # 0
             /\ errors[t] # 0 => /\ errors[t] \in BadOf(t)
                                 /\ \A k \in BadOf(t) : errors[t] <= k
 <2>1. Load!PartLines(t) \subseteq Lines BY <1>3 DEF Load!PartLines
 <2>2. BadOf(t) \subseteq BadLines /\ BadOf(t) \subseteq Nat BY <1>3, <2>1 DEF BadOf, BadLines
 <2>3. Parsed(t) OBVIOUS
 <2>4. CASE BadOf(t) # {}
  <3>1. errors[t] = Load!Min(BadOf(t)) BY <2>3, <2>4 DEF Parsed
  <3>2. errors[t] \in BadOf(t) /\ \A k \in BadOf(t) : errors[t] <= k BY <1>2, <2>2, <2>4, <3>1
  <3>3. errors[t] # 0 BY <1>3, <2>2, <3>2 DEF BadLines
  <3> QED BY <2>2, <2>4, <3>2, <3>3
 <2>5. CASE BadOf(t) = {} BY <2>2, <2>3, <2>5 DEF Parsed
 <2> QED BY <2>4, <2>5
<1>5. ASSUME NEW k \in BadLines PROVE \E t \in LoadThread : k \in BadOf(t)
  BY <1>1, InAPart DEF BadLines, BadOf
<1>6. (\E t \in LoadThread : errors[t] # 0) <=> BadLines # {} BY <1>4, <1>5
<1>7. BadLines \subseteq Nat BY <1>3 DEF BadLines
<1>8. Load!FirstBad = IF BadLines = {} THEN 0 ELSE Load!Min(BadLines)
  BY <1>3 DEF Load!FirstBad, BadLines
<1>9. Load!FirstBad \in Nat BY <1>2, <1>7, <1>8
<1>10. ASSUME BadLines # {} PROVE Load!FirstError = Load!FirstBad
 <2> DEFINE m == Load!Min(With)
            b == Load!Min(BadLines)
 <2>1. With # {} /\ With \in SUBSET Nat BY <1>1, <1>6, <1>10 DEF LoadThread
 <2>2. m \in With /\ \A t \in With : m <= t BY <1>2, <2>1
 <2>3. b \in BadLines /\ \A k \in BadLines : b <= k BY <1>2, <1>7, <1>10
 <2>4. Load!FirstError = errors[m] BY DEF Load!FirstError, Load!Thread, LoadThread
 <2>5. PICK s \in LoadThread : b \in BadOf(s) BY <1>5, <2>3
 <2>6. s \in With BY <1>4, <2>5
 <2> HIDE DEF m, b, With
 <2>7. m \in LoadThread /\ errors[m] # 0 /\ m <= s BY <2>2, <2>6 DEF With
 <2>8. errors[m] \in BadOf(m) /\ errors[m] \in BadLines /\ errors[m] \in Nat /\ b \in Nat
   BY <1>4, <1>7, <2>3, <2>7
 <2>9. b <= errors[m] BY <2>3, <2>8
 <2>10. CASE m = s
  <3>1. errors[m] <= b BY <1>4, <2>5, <2>7, <2>10
  <3> QED BY <1>8, <1>10, <2>4, <2>8, <2>9, <3>1 DEF b
 <2>11. CASE m < s
  <3>1. /\ m \in Nat /\ s \in Nat /\ m + 1 \in 0 .. LoadThreads /\ s \in 0 .. LoadThreads
        /\ m + 1 <= s
    BY <1>1, <2>5, <2>7, <2>11 DEF LoadThread
  <3>2. /\ Load!PartLines(m) = Boundary(m) .. Boundary(m + 1) - 1
        /\ Load!PartLines(s) = Boundary(s) .. Boundary(s + 1) - 1
    BY <1>1, <2>5, <2>7, Parted
  <3>3. Boundary(m + 1) <= Boundary(s) BY <1>1, <3>1, BoundariesGrow
  <3>4. Boundary(m + 1) \in Int /\ Boundary(s) \in Int BY <1>1, <3>1, Parted
  <3>5. errors[m] \in Load!PartLines(m) /\ b \in Load!PartLines(s) BY <2>5, <2>8 DEF BadOf
  <3>6. errors[m] < b BY <2>8, <3>2, <3>3, <3>4, <3>5
  <3> QED BY <2>8, <2>9, <3>6
 <2> QED BY <1>1, <2>5, <2>7, <2>10, <2>11 DEF LoadThread
<1>11. ASSUME BadLines = {}, NEW t \in LoadThread PROVE parts[t] = Part(t)
 <2>1. BadOf(t) = {} BY <1>4, <1>11
 <2>2. Parsed(t) OBVIOUS
 <2> QED BY <2>1, <2>2 DEF Parsed
<1> QED BY <1>6, <1>9, <1>10, <1>11

LEMMA AfterParseStep ==
  ASSUME LoadAssumed, LoadInv, Load!AfterParse
  PROVE  LoadInv'
<1>1. /\ UNCHANGED <<file, working, errors, parts>> /\ working = {} /\ main.job = "parse"
      /\ \A t \in LoadThread : Finished(t)
  BY AllFinished DEF Load!AfterParse
<1>2. \A t \in LoadThread : Parsed(t) BY <1>1 DEF LoadInv, ParseInv
<1>3. /\ (\E t \in LoadThread : errors[t] # 0) <=> BadLines # {}
      /\ BadLines # {} => Load!FirstError = Load!FirstBad
      /\ Load!FirstBad \in Nat
      /\ BadLines = {} => \A t \in LoadThread : parts[t] = Part(t)
  BY <1>2, FirstReported
<1>4. /\ DOMAIN errors = LoadThread /\ DOMAIN parts = LoadThread /\ DOMAIN edges = {"n", "list"}
      /\ DOMAIN main = {"job", "started", "line"} /\ main.line = 0
  BY <1>1 DEF LoadInv, LoadTypes, ParseInv
<1>5. /\ "failed" \in JobNames /\ "copy" \in JobNames BY DEF JobNames
<1>6. ASSUME NEW line \in Nat, main' = [main EXCEPT !.job = "failed", !.line = line],
             edges' = edges, line # 0 => line = Load!FirstBad
      PROVE  LoadInv'
 <2>1. LoadTypes' BY <1>1, <1>4, <1>5, <1>6, BeginTypes
 <2>2. main'.job = "failed" /\ main'.line = line BY <1>4, <1>6
 <2>3. Load!FirstBad' = Load!FirstBad BY <1>1, <1>6, BadKept
 <2> QED
   BY <1>6, <2>1, <2>2, <2>3 DEF LoadInv, OpenInv, ParseInv, CopyInv, LaterInv, FailedInv, LaterJobs
<1>7. CASE \E t \in LoadThread : errors[t] # 0
 <2>1. main' = [main EXCEPT !.job = "failed", !.line = Load!FirstError] /\ edges' = edges
   BY <1>7 DEF Load!AfterParse, Load!Fail, Load!Thread, LoadThread
 <2> QED BY <1>3, <1>6, <1>7, <2>1
<1>8. CASE ~(\E t \in LoadThread : errors[t] # 0) /\ Load!FirstEdge(LoadThreads) > MaxInt
 <2>1. main' = [main EXCEPT !.job = "failed", !.line = 0] /\ edges' = edges
   BY <1>8 DEF Load!AfterParse, Load!Fail, Load!Thread, LoadThread
 <2> QED BY <1>6, <2>1
<1>9. CASE ~(\E t \in LoadThread : errors[t] # 0) /\ ~(Load!FirstEdge(LoadThreads) > MaxInt)
 <2>1. /\ Load!Begin("copy")
       /\ edges' = [edges EXCEPT !.list = [k \in 1 .. Load!FirstEdge(LoadThreads) |-> Load!JunkPair]]
   BY <1>9 DEF Load!AfterParse, Load!Thread, LoadThread
 <2>2. BadLines = {} /\ \A t \in LoadThread : parts[t] = Part(t) BY <1>3, <1>9
 <2>3. Load!FirstEdge(LoadThreads) = Len(All)
  <3>1. LoadThreads \in Nat \ {0} /\ Load!IsFile(file) BY Loadable DEF LoadInv
  <3>2. LoadThreads \in 0 .. LoadThreads BY <3>1
  <3> QED BY <2>2, <3>1, <3>2, FirstEdges, OffsetFacts
 <2>4. /\ edges'.n = edges.n /\ DOMAIN edges' = {"n", "list"}
       /\ edges'.list = [k \in 1 .. Len(All) |-> Load!JunkPair]
   BY <1>4, <2>1, <2>3
 <2>5. edges'.list = [k \in 1 .. Len(All) |-> edges'.list[k]] BY <2>4
 <2>6. main'.job = "copy" /\ main'.started = 0 /\ main'.line = 0 BY <1>4, <2>1 DEF Load!Begin
 <2>7. \A t \in LoadThread : ~Finished(t)' BY <2>6 DEF Finished, Started, LoadAssumed, LoadThread
 <2>8. LoadThread' = LoadThread BY DEF LoadThread
 <2>9. All' = All /\ BadLines' = BadLines /\ \A t : Part(t)' = Part(t)
   BY <1>1, <2>4, FileKept, BadKept
 <2>10. CopyInv' BY <1>1, <2>2, <2>5, <2>6, <2>7, <2>8, <2>9 DEF CopyInv
 <2>11. LoadTypes' BY <1>1, <1>4, <1>5, <2>1, <2>4, BeginTypes
 <2> QED BY <2>6, <2>10, <2>11 DEF LoadInv, OpenInv, ParseInv, LaterInv, FailedInv, LaterJobs
<1> QED BY <1>7, <1>8, <1>9

\* A thread's edges go where they belong, whatever the others have copied.
LEMMA CopyStep ==
  ASSUME LoadAssumed, LoadInv, NEW t \in LoadThread, Load!Copy(t)
  PROVE  LoadInv'
<1>1. /\ UNCHANGED <<file, main, errors, parts>> /\ main.job = "copy" /\ t \in working
      /\ working' = working \ {t}
  BY DEF Load!Copy, Load!Works, Load!Ended
<1>2. /\ main.line = 0 /\ BadLines = {} /\ \A s \in LoadThread : parts[s] = Part(s)
      /\ edges.list = [k \in 1 .. Len(All) |-> edges.list[k]]
      /\ \A s \in LoadThread :
           Finished(s) => \A k \in 1 .. Len(Part(s)) : edges.list[Offset(s) + k] = All[Offset(s) + k]
  BY <1>1 DEF LoadInv, CopyInv
<1>3. LoadThreads \in Nat \ {0} /\ Load!IsFile(file) BY Loadable DEF LoadInv
<1>4. t \in 0 .. LoadThreads /\ Load!FirstEdge(t) = Offset(t)
  BY <1>2, <1>3, FirstEdges DEF LoadThread
<1>5. DOMAIN edges = {"n", "list"} /\ LoadThread' = LoadThread BY DEF LoadInv, LoadTypes, LoadThread
<1>6. /\ DOMAIN edges' = {"n", "list"} /\ edges'.n = edges.n
      /\ edges'.list = [k \in DOMAIN edges.list |->
                          IF k - Offset(t) \in DOMAIN Part(t) THEN Part(t)[k - Offset(t)]
                          ELSE edges.list[k]]
 <2>1. edges' = [edges EXCEPT !.list =
                   [k \in DOMAIN @ |-> IF k - Load!FirstEdge(t) \in DOMAIN parts[t]
                                       THEN parts[t][k - Load!FirstEdge(t)] ELSE @[k]]]
   BY DEF Load!Copy
 <2>2. parts[t] = Part(t) BY <1>2
 <2> QED BY <1>4, <1>5, <2>1, <2>2
<1>7. Len(All) \in Nat /\ DOMAIN edges.list = 1 .. Len(All) BY <1>2, <1>3, AllFacts, LenProperties
<1>8. /\ Offset(t) \in Nat /\ Len(Part(t)) \in Nat /\ DOMAIN Part(t) = 1 .. Len(Part(t))
      /\ \A k \in 1 .. Len(Part(t)) : All[Offset(t) + k] = Part(t)[k]
  BY <1>3, <1>4, OffsetFacts
<1>9. ASSUME NEW k \in 1 .. Len(All)
      PROVE  /\ k - Offset(t) \in 1 .. Len(Part(t)) => edges'.list[k] = All[k]
             /\ edges'.list[k] \in {edges.list[k], All[k]}
 <2>1. CASE k - Offset(t) \in 1 .. Len(Part(t))
  <3>1. edges'.list[k] = Part(t)[k - Offset(t)] BY <1>6, <1>7, <1>8, <2>1
  <3>2. All[Offset(t) + (k - Offset(t))] = Part(t)[k - Offset(t)] BY <1>8, <2>1
  <3>3. Offset(t) + (k - Offset(t)) = k BY <1>8
  <3> QED BY <3>1, <3>2, <3>3
 <2>2. CASE k - Offset(t) \notin 1 .. Len(Part(t)) BY <1>6, <1>7, <1>8, <2>2
 <2> QED BY <2>1, <2>2
<1>10. edges'.list = [k \in 1 .. Len(All) |-> edges'.list[k]] BY <1>6, <1>7
<1>11. ASSUME NEW s \in LoadThread, Finished(s)', NEW k \in 1 .. Len(Part(s))
       PROVE  edges'.list[Offset(s) + k] = All[Offset(s) + k]
 <2>1. /\ Offset(s) \in Nat /\ Len(Part(s)) \in Nat /\ Offset(s + 1) = Offset(s) + Len(Part(s))
       /\ Offset(s + 1) <= Len(All)
  <3>1. s \in 0 .. LoadThreads BY <1>3 DEF LoadThread
  <3> QED BY <1>3, <3>1, OffsetFacts
 <2>2. Offset(s) + k \in 1 .. Len(All) BY <1>7, <2>1
 <2>3. CASE s = t
  <3>1. (Offset(s) + k) - Offset(t) = k /\ k \in 1 .. Len(Part(t)) BY <2>1, <2>3
  <3>2. (Offset(s) + k) - Offset(t) \in 1 .. Len(Part(t)) BY <3>1
  <3> QED BY <1>9, <2>2, <3>2
 <2>4. CASE s # t
  <3>1. Finished(s) BY <1>1, <1>11, <2>4 DEF Finished, Started
  <3>2. edges.list[Offset(s) + k] = All[Offset(s) + k] BY <1>2, <3>1
  <3> QED BY <1>9, <2>2, <3>2
 <2> QED BY <2>3, <2>4
<1>12. /\ All' = All /\ BadLines' = BadLines
       /\ \A s : Part(s)' = Part(s) /\ Offset(s)' = Offset(s)
  BY <1>1, <1>6, FileKept, BadKept
<1>13. CopyInv'
 <2>1. \A s \in LoadThread :
         Finished(s)' => \A k \in 1 .. Len(Part(s)) : edges'.list[Offset(s) + k] = All[Offset(s) + k]
   BY <1>11
 <2> QED BY <1>1, <1>2, <1>5, <1>10, <1>12, <2>1 DEF CopyInv
<1>14. LoadTypes' BY <1>1, <1>5, <1>6 DEF LoadInv, LoadTypes, Started
<1> QED BY <1>1, <1>13, <1>14 DEF LoadInv, OpenInv, ParseInv, LaterInv, FailedInv, LaterJobs

LEMMA AfterCopyStep ==
  ASSUME LoadAssumed, LoadInv, Load!AfterCopy
  PROVE  LoadInv'
<1>1. /\ UNCHANGED <<file, working, errors>> /\ working = {} /\ main.job = "copy"
      /\ \A t \in LoadThread : Finished(t)
  BY AllFinished DEF Load!AfterCopy
<1>2. /\ DOMAIN edges = {"n", "list"} /\ DOMAIN main = {"job", "started", "line"}
      /\ DOMAIN errors = LoadThread /\ main.line = 0
  BY <1>1 DEF LoadInv, LoadTypes, CopyInv
<1>3. /\ DOMAIN parts' = LoadThread /\ DOMAIN edges' = {"n", "list"} /\ edges'.list = edges.list
      /\ Load!Begin("count") \/ main' = [main EXCEPT !.job = "failed", !.line = 0]
  BY <1>2 DEF Load!AfterCopy, Load!Fail, Load!Thread, LoadThread
<1>4. edges.list = All
 <2>1. LoadThreads \in Nat \ {0} /\ Load!IsFile(file) BY Loadable DEF LoadInv
 <2>2. /\ edges.list = [k \in 1 .. Len(All) |-> edges.list[k]]
       /\ \A t \in LoadThread : \A k \in 1 .. Len(Part(t)) :
            edges.list[Offset(t) + k] = All[Offset(t) + k]
   BY <1>1 DEF LoadInv, CopyInv
 <2>3. Len(All) \in Nat /\ DOMAIN All = 1 .. Len(All) /\ All = [k \in 1 .. Len(All) |-> All[k]]
  <3>1. All \in Seq(Pairs) BY <2>1, AllFacts
  <3> QED BY <3>1, LenProperties
 <2>4. ASSUME NEW k \in 1 .. Len(All) PROVE edges.list[k] = All[k]
  <3>1. PICK t \in LoadThread : k - Offset(t) \in 1 .. Len(Part(t)) BY <2>1, PlaceInPart
  <3>2. Offset(t) \in Nat
   <4>1. t \in 0 .. LoadThreads BY <2>1 DEF LoadThread
   <4> QED BY <2>1, <4>1, OffsetFacts
  <3>3. Offset(t) + (k - Offset(t)) = k BY <2>3, <3>2
  <3>4. edges.list[Offset(t) + (k - Offset(t))] = All[Offset(t) + (k - Offset(t))] BY <2>2, <3>1
  <3> QED BY <3>3, <3>4
 <2> QED BY <2>2, <2>3, <2>4
<1>5. All' = All BY <1>1, FileKept
<1>6. LoadTypes'
 <2>1. "count" \in JobNames /\ "failed" \in JobNames /\ 0 \in Nat BY DEF JobNames, LaterJobs
 <2>2. /\ file' = file /\ working' = {} /\ DOMAIN errors' = LoadThread
       /\ DOMAIN parts' = LoadThread /\ DOMAIN edges' = {"n", "list"}
   BY <1>1, <1>2, <1>3
 <2>3. CASE Load!Begin("count") BY <2>1, <2>2, <2>3, BeginTypes
 <2>4. CASE main' = [main EXCEPT !.job = "failed", !.line = 0] BY <2>1, <2>2, <2>4, BeginTypes
 <2> QED BY <1>3, <2>3, <2>4
<1>7. main'.job \in {"count", "failed"} /\ main'.line = 0 BY <1>2, <1>3 DEF Load!Begin
<1> QED
  BY <1>3, <1>4, <1>5, <1>6, <1>7 DEF LoadInv, OpenInv, ParseInv, CopyInv, LaterInv, FailedInv,
     LaterJobs

LEMMA LoadStarts ==
  ASSUME LoadAssumed, Load!Init
  PROVE  LoadInv
<1>1. main = [job |-> "open", started |-> 0, line |-> 0] BY DEF Load!Init
<1>2. LoadTypes
  BY <1>1 DEF LoadAssumed, Load!Init, LoadTypes, JobNames, Load!Thread, LoadThread, Load!NoEdges
<1>3. main.job = "open" /\ main.started = 0 /\ main.line = 0 BY <1>1
<1>4. OpenInv BY <1>3 DEF Load!Init, OpenInv, Load!Thread, LoadThread
<1> QED BY <1>2, <1>3, <1>4 DEF LoadInv, ParseInv, CopyInv, LaterInv, FailedInv, LaterJobs

LEMMA LoadStep ==
  ASSUME LoadAssumed, LoadInv, [Load!Next]_Load!vars
  PROVE  LoadInv'
<1>1. CASE Load!MainThread
  BY <1>1, StartStep, UnwindStep, HeaderStep, AfterParseStep, AfterCopyStep, LaterStep DEF
     Load!MainThread
<1>2. ASSUME NEW t \in Load!Thread, Load!Worker(t) PROVE LoadInv'
 <2>1. t \in LoadThread BY DEF Load!Thread, LoadThread
 <2> QED BY <1>2, <2>1, ParseStep, CopyStep, LaterWork DEF Load!Worker
<1>3. CASE UNCHANGED Load!vars BY <1>3, NothingChanged
<1> QED BY <1>1, <1>2, <1>3 DEF Load!Next, Load!Exited

(***************************************************************************)
(* The lines are cut into parts at byte positions moved to line starts,    *)
(* parsed side by side and copied side by side (parse_edges()).  For any   *)
(* number of load threads and any file, whatever lines it has and however  *)
(* long they are: the edges are those of the file in the order of its      *)
(* lines, and a line that is reported is the first that is wrong.          *)
(***************************************************************************)
THEOREM EdgesReadOnce ==
  ASSUME LoadThreads \in Nat \ {0}, \A f \in Files : Load!IsFile(f)
  PROVE  Load!Spec => []Load!ReadOnce
<1>1. LoadAssumed BY DEF LoadAssumed
<1>2. Load!Init => LoadInv BY <1>1, LoadStarts
<1>3. LoadInv /\ [Load!Next]_Load!vars => LoadInv' BY <1>1, LoadStep
<1>4. LoadInv => Load!ReadOnce
 <2> SUFFICES ASSUME LoadInv PROVE Load!ReadOnce OBVIOUS
 <2>1. Load!IsFile(file) BY <1>1, Loadable DEF LoadInv
 <2>2. main.job \in LaterJobs => edges.list = Load!EdgesOf(DOMAIN file.lines)
   BY <2>1, AllFacts DEF LoadInv, LaterInv
 <2>3. main.line # 0 => main.job = "failed" /\ main.line = Load!FirstBad
   BY DEF LoadInv, LoadTypes, OpenInv, ParseInv, CopyInv, LaterInv, FailedInv, JobNames
 <2>4. BadLines = {} => Load!FirstBad = 0 BY <2>1, FileFacts DEF Load!FirstBad, BadLines
 <2>5. main.job = "copy" => Load!FirstBad = 0 BY <2>4 DEF LoadInv, CopyInv
 <2> QED BY <2>2, <2>3, <2>5 DEF Load!ReadOnce, LaterJobs
<1> QED BY <1>2, <1>3, <1>4, PTL DEF Load!Spec

=============================================================================
