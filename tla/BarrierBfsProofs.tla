-------------------------- MODULE BarrierBfsProofs --------------------------
(***************************************************************************)
(* Proofs about BarrierBfs, for every graph and every number of threads:   *)
(* the threads leave together, each phase starts from exactly its level,   *)
(* and the search implements LevelOrderBfs.  At the end, proofs about the  *)
(* search with a queue in place of barriers, LockBfs.                      *)
(***************************************************************************)
EXTENDS BarrierBfs, BfsGraphProofs, FiniteSetTheorems

(***************************************************************************)
(* The stages between the barriers, by the labels of the threads.          *)
(***************************************************************************)
Gone == {"left", "returned"}
Busy == {"edge", "visit", "unlock"}
Holding == {"visit", "unlock"}
Expanding == {"for", "expanded"} \cup Busy
Expansion == {"while"} \cup Expanding \cup Gone
Summed == {"summed", "copy", "copied"}

Stages ==
  {Expansion, {"count", "counted"}, {"sum", "summed"}, {"copy", "copied"}}

Together ==
  /\ \E g \in Stages : \A t \in Thread : pc[t] \in g
  /\ (\E t \in Thread : pc[t] = "returned") => \A t \in Thread : pc[t] = "returned"

(***************************************************************************)
(* The level whose vertices are being collected; thread 0 counts the phase *)
(* up when it has summed.                                                  *)
(***************************************************************************)
After == pc[0] \in Summed
NewLevel == IF After THEN phase_num ELSE phase_num + 1
Upto(d) == {v \in Vertex : Delta[v] \in 0 .. d}
LevelReady(d) == \A v \in Upto(d) : dist[v] = Delta[v]
MoreLevel == start[phase_num + 1] - start[phase_num] > 0

PhasesInv ==
  /\ \A t \in Thread : pc[t] \in Expanding \cup {"count", "counted"} => MoreLevel
  /\ \A t \in Thread : pc[t] \in Gone => ~MoreLevel
  /\ pc[0] = "sum" => MoreLevel
  /\ phase_num <= start[phase_num]
  /\ start[NewLevel] = Cardinality(Upto(NewLevel - 1))

(***************************************************************************)
(* Distances are right, and all there up to the level before.              *)
(***************************************************************************)
DistInv ==
  /\ \A v \in Vertex : vis[v] <=> dist[v] # Unset
  /\ \A v \in Vertex : dist[v] # Unset => dist[v] = Delta[v] /\ dist[v] <= NewLevel
  /\ LevelReady(NewLevel - 1)
  /\ pc[0] \notin Expansion => LevelReady(NewLevel)

(***************************************************************************)
(* The new level is in the lists of the threads, each vertex once.         *)
(***************************************************************************)
Found(t) == IF pc[t] \in {"while"} \cup Gone THEN <<>> ELSE pS[t]

ListsInv ==
  /\ \A t \in Thread : \A q \in 1 .. Len(Found(t)) : dist[Found(t)[q]] = NewLevel
  /\ \A v \in Vertex : dist[v] = NewLevel =>
       \E t \in Thread : \E q \in 1 .. Len(Found(t)) : Found(t)[q] = v
  /\ \A s, t \in Thread : \A q \in 1 .. Len(Found(s)), r \in 1 .. Len(Found(t)) :
       Found(s)[q] = Found(t)[r] => s = t /\ q = r

(***************************************************************************)
(* The expansion: an iteration that has been taken is done, or a thread    *)
(* works on it; a neighbour that was skipped is in the hands of the thread *)
(* that holds its lock.                                                    *)
(***************************************************************************)
Frontier == start[phase_num] .. start[phase_num + 1] - 1

FrontierInv ==
  pc[0] \in Expansion =>
    /\ {S[p] : p \in Frontier} = Level(phase_num)
    /\ \A p, q \in Frontier : S[p] = S[q] => p = q
    /\ taken \subseteq Frontier
    /\ \A t \in Thread : pc[t] = "expanded" => Frontier \subseteq taken

WorkInv ==
  /\ \A t \in Thread : pc[t] \in Busy =>
       vert[t] \in taken /\ j[t] \in 1 .. Len(adj[V(t)]) + 1
  /\ \A t \in Thread : pc[t] \in Holding => j[t] <= Len(adj[V(t)])
  /\ vLock = {W(t) : t \in {s \in Thread : pc[s] \in Holding}}
  /\ \A s, t \in Thread :
       pc[s] \in Holding /\ pc[t] \in Holding /\ W(s) = W(t) => s = t
  /\ \A t \in Thread : pc[t] = "unlock" => dist[W(t)] # Unset

Handled(p, q) ==
  \/ dist[adj[S[p]][q]] # Unset
  \/ adj[S[p]][q] \in vLock
  \/ \E t \in Thread : pc[t] \in Busy /\ vert[t] = p /\ j[t] <= q

TakenInv ==
  pc[0] \in Expansion =>
    \A p \in taken : \A q \in 1 .. Len(adj[S[p]]) : Handled(p, q)

(***************************************************************************)
(* The running sum gives every thread a range of its own to copy to.       *)
(***************************************************************************)
SumsInv ==
  /\ \A t \in Thread : pc[t] = "counted" \/ pc[0] = "sum" => pSCount[t + 1] = Len(pS[t])
  /\ After =>
       /\ pSCount[0] = start[phase_num] /\ pSCount[NumT] = start[phase_num + 1]
       /\ \A t \in Thread : pSCount[t + 1] = pSCount[t] + Len(pS[t])
       /\ \A s, t \in 0 .. NumT : s <= t => pSCount[s] <= pSCount[t]
       /\ start[phase_num + 1] = Cardinality(Upto(phase_num))

CopyInv ==
  /\ \A t \in Thread : pc[t] # "copy" => k[t] = 0
  /\ \A t \in Thread : pc[t] = "copy" =>
       /\ k[t] <= Len(pS[t])
       /\ \A q \in 1 .. k[t] : S[pSCount[t] + q - 1] = pS[t][q]
  /\ \A t \in Thread : pc[t] = "copied" =>
       \A q \in 1 .. Len(pS[t]) : S[pSCount[t] + q - 1] = pS[t][q]

IInv ==
  /\ TypeOK /\ Together /\ PhasesInv /\ DistInv /\ ListsInv
  /\ FrontierInv /\ WorkInv /\ TakenInv /\ SumsInv /\ CopyInv

-----------------------------------------------------------------------------

LEMMA Basics ==
  /\ N \in Nat /\ NumT \in Nat \ {0} /\ 0 \in Thread
  /\ \A t \in Thread : t \in 0 .. NumT /\ t + 1 \in 0 .. NumT
  /\ IsFiniteSet(Vertex) /\ Cardinality(Vertex) = N /\ Root \in Vertex
<1>1. IsFiniteSet(Vertex) /\ Cardinality(Vertex) = N BY TeamAssumption, FS_Interval
<1> QED BY <1>1, TeamAssumption, GraphAssumption DEF Thread

(***************************************************************************)
(* All threads are in the same stage.                                      *)
(***************************************************************************)
LEMMA SameStage ==
  ASSUME Together, NEW g \in Stages, NEW t \in Thread, pc[t] \in g, NEW s \in Thread
  PROVE  pc[s] \in g
<1>1. PICK h \in Stages : \A r \in Thread : pc[r] \in h BY DEF Together
<1>2. h = g BY <1>1 DEF Stages, Expansion, Expanding, Busy, Gone
<1> QED BY <1>1, <1>2

LEMMA StepMoves ==
  ASSUME TypeOK, NEW t \in Thread, Step(t)
  PROVE  /\ \A s \in Thread \ {t} :
              /\ pc'[s] = pc[s] /\ vert'[s] = vert[s] /\ j'[s] = j[s]
              /\ pS'[s] = pS[s] /\ k'[s] = k[s]
         /\ \/ /\ While(t) /\ pc[t] = "while" /\ MoreLevel /\ pc'[t] = "for"
            \/ /\ While(t) /\ pc[t] = "while" /\ ~MoreLevel /\ pc'[t] = "left"
            \/ /\ For(t) /\ pc[t] = "for" /\ pc'[t] \in {"expanded", "edge"}
            \/ /\ TestLock(t) /\ pc[t] = "edge" /\ pc'[t] \in {"for", "edge", "visit"}
            \/ /\ Visit(t) /\ pc[t] = "visit" /\ pc'[t] = "unlock"
            \/ /\ Unlock(t) /\ pc[t] = "unlock" /\ pc'[t] = "edge"
            \/ /\ Count(t) /\ pc[t] = "count" /\ pc'[t] = "counted"
            \/ /\ Sum(t) /\ pc[t] = "sum" /\ pc'[t] = "summed"
            \/ /\ Copy(t) /\ pc[t] = "copy" /\ pc'[t] \in {"copy", "copied"}
<1>0. /\ pc \in [Thread -> Labels] /\ vert \in [Thread -> 0 .. N - 1]
      /\ j \in [Thread -> Nat] /\ pS \in [Thread -> Seq(Vertex)] /\ k \in [Thread -> 0 .. N]
  BY DEF TypeOK
<1> USE <1>0 DEF Goto, localVars
<1>1. CASE While(t) BY <1>1 DEF While, MoreToDo, MoreLevel
<1>2. CASE For(t) BY <1>2 DEF For
<1>3. CASE TestLock(t) BY <1>3 DEF TestLock
<1>4. CASE Visit(t) BY <1>4 DEF Visit
<1>5. CASE Unlock(t) BY <1>5 DEF Unlock
<1>6. CASE Count(t) BY <1>6 DEF Count
<1>7. CASE Sum(t) BY <1>7 DEF Sum
<1>8. CASE Copy(t) BY <1>8 DEF Copy
<1> QED BY <1>1, <1>2, <1>3, <1>4, <1>5, <1>6, <1>7, <1>8 DEF Step

(***************************************************************************)
(* Which step writes what.                                                 *)
(***************************************************************************)
LEMMA StepWrites ==
  ASSUME NEW t \in Thread, Step(t)
  PROVE  /\ ~Copy(t) => S' = S /\ k' = k
         /\ ~(Sum(t) /\ t = 0) => start' = start /\ phase_num' = phase_num
         /\ ~Count(t) /\ ~(Sum(t) /\ t = 0) => pSCount' = pSCount
         /\ ~For(t) => taken' = taken /\ vert' = vert
         /\ ~Visit(t) => vis' = vis /\ dist' = dist
         /\ ~Visit(t) /\ ~While(t) => pS' = pS
         /\ ~TestLock(t) /\ ~Unlock(t) => vLock' = vLock
         /\ ~For(t) /\ ~TestLock(t) /\ ~Unlock(t) => j' = j
  BY DEF Step, While, For, TestLock, Visit, Unlock, Count, Sum, Copy, teamVars, searchVars,
     localVars

(***************************************************************************)
(* A step stays in its stage.                                              *)
(***************************************************************************)
LEMMA StepStage ==
  ASSUME TypeOK, Together, NEW t \in Thread, Step(t)
  PROVE  /\ Together'
         /\ \A s \in Thread : pc[s] # "returned" /\ pc'[s] # "returned"
         /\ \A s \in Thread : pc'[s] \in Expansion <=> pc[t] \in Expansion
         /\ \A s \in Thread : pc[s] \in Expansion <=> pc[t] \in Expansion
         /\ pc[t] \in {"count", "counted"} => \A s \in Thread : pc[s] \in {"count", "counted"}
         /\ pc[t] \in {"sum", "summed"} => \A s \in Thread : pc[s] \in {"sum", "summed"}
         /\ pc[t] \in {"copy", "copied"} => \A s \in Thread : pc[s] \in {"copy", "copied"}
         /\ After' <=> After \/ (Sum(t) /\ t = 0)
<1>1. PICK g \in Stages : \A s \in Thread : pc[s] \in g BY DEF Together
<1>2. pc[t] # "returned" /\ pc'[t] # "returned" BY StepMoves
<1>3. pc'[t] \in g
 <2>1. \/ pc[t] \in Expansion /\ pc'[t] \in Expansion
       \/ pc[t] = "count" /\ pc'[t] = "counted"
       \/ pc[t] = "sum" /\ pc'[t] = "summed"
       \/ pc[t] = "copy" /\ pc'[t] \in {"copy", "copied"}
   BY StepMoves DEF Expansion, Expanding, Busy, Gone
 <2>2. pc[t] \in g BY <1>1
 <2> QED BY <2>1, <2>2 DEF Stages, Expansion, Expanding, Busy, Gone
<1>4. \A s \in Thread : pc'[s] \in g BY <1>1, <1>3, StepMoves
<1>5. \A s \in Thread : pc[s] # "returned" BY <1>2 DEF Together
<1>6. \A s \in Thread : pc'[s] # "returned" BY <1>2, <1>5, StepMoves
<1>7. Together' BY <1>4, <1>6 DEF Together
<1>8. /\ \A s \in Thread : pc'[s] \in Expansion <=> pc[t] \in Expansion
      /\ \A s \in Thread : pc[s] \in Expansion <=> pc[t] \in Expansion
  BY <1>1, <1>4 DEF Stages, Expansion, Expanding, Busy, Gone
<1>9. /\ pc[t] \in {"count", "counted"} => \A s \in Thread : pc[s] \in {"count", "counted"}
      /\ pc[t] \in {"sum", "summed"} => \A s \in Thread : pc[s] \in {"sum", "summed"}
      /\ pc[t] \in {"copy", "copied"} => \A s \in Thread : pc[s] \in {"copy", "copied"}
  BY <1>1 DEF Stages, Expansion, Expanding, Busy, Gone
<1>10. After' <=> After \/ (Sum(t) /\ t = 0)
 <2>1. CASE t = 0
  <3>1. Sum(t) => pc[t] = "sum" BY DEF Sum
  <3> QED BY <2>1, <3>1, StepMoves DEF After, Summed
 <2>2. CASE t # 0
  <3>1. pc'[0] = pc[0] BY <2>2, Basics, StepMoves
  <3> QED BY <2>2, <3>1 DEF After
 <2> QED BY <2>1, <2>2
<1> QED BY <1>5, <1>6, <1>7, <1>8, <1>9, <1>10

(***************************************************************************)
(* A barrier moves everyone from one label to the next.                    *)
(***************************************************************************)
LEMMA BarrierMoves ==
  ASSUME TypeOK, Barrier
  PROVE  /\ UNCHANGED <<S, start, pSCount, phase_num, vLock, vis, dist, vert, j, pS, k>>
         /\ \/ /\ AllAt("expanded") /\ pc' = [t \in Thread |-> "count"] /\ taken' = taken
            \/ /\ AllAt("counted") /\ pc' = [t \in Thread |-> "sum"] /\ taken' = taken
            \/ /\ AllAt("summed") /\ pc' = [t \in Thread |-> "copy"] /\ taken' = taken
            \/ /\ AllAt("copied") /\ pc' = [t \in Thread |-> "while"] /\ taken' = {}
            \/ /\ AllAt("left") /\ pc' = [t \in Thread |-> "returned"] /\ taken' = taken
<1>1. PICK b \in Barriers :
        /\ AllAt(b[1])
        /\ pc' = [t \in Thread |-> IF pc[t] = b[1] THEN b[2] ELSE pc[t]]
        /\ taken' = IF b[2] = "while" THEN {} ELSE taken
        /\ UNCHANGED <<S, start, pSCount, phase_num, searchVars, localVars>>
  BY DEF Barrier
<1>2. pc' = [t \in Thread |-> b[2]] BY <1>1 DEF AllAt
<1>3. UNCHANGED <<S, start, pSCount, phase_num, vLock, vis, dist, vert, j, pS, k>>
  BY <1>1 DEF searchVars, localVars
<1> QED BY <1>1, <1>2, <1>3 DEF Barriers

-----------------------------------------------------------------------------

(***************************************************************************)
(* The running sum exists and is what its equations say.                   *)
(***************************************************************************)
LEMMA RunningSum ==
  ASSUME NEW b \in Int, NEW a \in [0 .. NumT -> Int]
  PROVE  \E f \in [0 .. NumT -> Int] :
           f = [t \in 0 .. NumT |-> IF t = 0 THEN b ELSE f[t - 1] + a[t]]
<1> DEFINE Upward(f, n) ==
             \A t \in 0 .. n : f[t] = IF t = 0 THEN b ELSE f[t - 1] + a[t]
           Exists(n) == \E f \in [0 .. n -> Int] : Upward(f, n)
           Bad == {n \in 0 .. NumT : ~Exists(n)}
<1>1. Exists(0)
 <2>1. [t \in 0 .. 0 |-> b] \in [0 .. 0 -> Int] /\ Upward([t \in 0 .. 0 |-> b], 0) OBVIOUS
 <2> QED BY <2>1
<1>2. ASSUME NEW m \in 1 .. NumT, Exists(m - 1) PROVE Exists(m)
 <2>1. PICK f \in [0 .. m - 1 -> Int] : Upward(f, m - 1) BY <1>2
 <2>2. m \in Nat /\ m # 0 /\ m \in 0 .. NumT /\ m - 1 \in 0 .. m - 1 BY Basics
 <2> DEFINE g == [t \in 0 .. m |-> IF t = m THEN f[m - 1] + a[m] ELSE f[t]]
 <2>3. g \in [0 .. m -> Int]
  <3>1. f[m - 1] \in Int /\ a[m] \in Int BY <2>2
  <3>2. \A t \in 0 .. m : t # m => f[t] \in Int BY <2>2
  <3> QED BY <3>1, <3>2
 <2>4. Upward(g, m)
  <3> SUFFICES ASSUME NEW t \in 0 .. m PROVE g[t] = IF t = 0 THEN b ELSE g[t - 1] + a[t] OBVIOUS
  <3>1. CASE t = m
   <4>1. g[t] = f[m - 1] + a[m] /\ g[t - 1] = f[m - 1] BY <2>2, <3>1
   <4> QED BY <2>2, <3>1, <4>1
  <3>2. CASE t # m
   <4>1. t \in 0 .. m - 1 /\ (t # 0 => t - 1 \in 0 .. m - 1) BY <2>2, <3>2
   <4>2. g[t] = f[t] /\ (t # 0 => g[t - 1] = f[t - 1]) BY <2>2, <3>2, <4>1
   <4>3. f[t] = IF t = 0 THEN b ELSE f[t - 1] + a[t] BY <2>1, <4>1
   <4> QED BY <4>2, <4>3
  <3> QED BY <3>1, <3>2
 <2> HIDE DEF Upward, g
 <2> QED BY <2>3, <2>4
<1> HIDE DEF Upward, Exists
<1>3. Bad = {}
 <2> SUFFICES ASSUME Bad # {} PROVE FALSE OBVIOUS
 <2>1. Bad \in SUBSET Nat BY Basics
 <2>2. PICK m \in Bad : \A n \in Bad : m <= n BY <2>1, Least
 <2>3. m \in 0 .. NumT /\ m \in Nat /\ ~Exists(m) BY <2>2, Basics
 <2>4. m \in 1 .. NumT BY <1>1, <2>3, Basics
 <2>5. m - 1 \in 0 .. NumT /\ ~(m <= m - 1) BY <2>4, Basics
 <2>6. Exists(m - 1) BY <2>2, <2>5
 <2> QED BY <1>2, <2>3, <2>4, <2>6
<1>4. Exists(NumT) BY <1>3, Basics
<1>5. PICK f \in [0 .. NumT -> Int] : Upward(f, NumT) BY <1>4 DEF Exists
<1>6. f = [t \in 0 .. NumT |-> IF t = 0 THEN b ELSE f[t - 1] + a[t]] BY <1>5 DEF Upward
<1> QED BY <1>6

LEMMA SumsEquations ==
  ASSUME TypeOK, phase_num + 1 \in 0 .. N + 2
  PROVE  /\ Sums \in [0 .. NumT -> Int]
         /\ Sums[0] = start[phase_num + 1]
         /\ \A t \in Thread : Sums[t + 1] = Sums[t] + pSCount[t + 1]
<1> DEFINE b == start[phase_num + 1]
           Eq(f) == f = [t \in 0 .. NumT |-> IF t = 0 THEN b ELSE f[t - 1] + pSCount[t]]
           Wrong(f) == {t \in 0 .. NumT : Sums[t] # f[t]}
<1>1. b \in Int /\ pSCount \in [0 .. NumT -> Int]
 <2>1. start \in [0 .. N + 2 -> 0 .. N] /\ pSCount \in [0 .. NumT -> 0 .. N] /\ N \in Nat
   BY Basics DEF TypeOK
 <2>2. b \in 0 .. N BY <2>1
 <2>3. b \in Int BY <2>1, <2>2
 <2>4. 0 .. N \subseteq Int BY <2>1
 <2>5. pSCount \in [0 .. NumT -> Int] BY <2>1, <2>4, Zenon
 <2> QED BY <2>3, <2>5
<1>2. PICK f \in [0 .. NumT -> Int] : Eq(f) BY <1>1, RunningSum
<1>3. Eq(Sums)
 <2>1. Sums = CHOOSE g : Eq(g) BY DEF Sums
 <2> HIDE DEF Eq
 <2> QED BY <1>2, <2>1
<1>4. /\ \A t \in 0 .. NumT : Sums[t] = IF t = 0 THEN b ELSE Sums[t - 1] + pSCount[t]
      /\ \A t \in 0 .. NumT : f[t] = IF t = 0 THEN b ELSE f[t - 1] + pSCount[t]
  BY <1>2, <1>3
<1>5. Wrong(f) = {}
 <2> SUFFICES ASSUME Wrong(f) # {} PROVE FALSE OBVIOUS
 <2>1. Wrong(f) \in SUBSET Nat BY Basics
 <2>2. PICK m \in Wrong(f) : \A n \in Wrong(f) : m <= n BY <2>1, Least
 <2>3. m \in 0 .. NumT /\ m \in Nat /\ Sums[m] # f[m] BY <2>2, Basics
 <2>4. m # 0 BY <1>4, <2>3
 <2>5. m - 1 \in 0 .. NumT /\ ~(m <= m - 1) BY <2>3, <2>4, Basics
 <2>6. Sums[m - 1] = f[m - 1] BY <2>2, <2>5
 <2> QED BY <1>4, <2>3, <2>4, <2>6
<1>6. \A t \in 0 .. NumT : Sums[t] = f[t] BY <1>5
<1>7. Sums \in [0 .. NumT -> Int]
 <2>1. Sums = [t \in 0 .. NumT |-> IF t = 0 THEN b ELSE Sums[t - 1] + pSCount[t]] BY <1>3
 <2>2. DOMAIN Sums = 0 .. NumT /\ Sums = [t \in 0 .. NumT |-> Sums[t]] BY <2>1, Zenon
 <2> QED BY <1>6, <2>2
<1>8. \A t \in Thread : Sums[t + 1] = Sums[t] + pSCount[t + 1]
 <2>1. \A r \in 0 .. NumT : r # 0 => Sums[r] = Sums[r - 1] + pSCount[r] BY <1>4, Zenon
 <2>2. ASSUME NEW r \in 0 .. NumT, NEW t \in Thread, r # 0, r - 1 = t
       PROVE  Sums[r] = Sums[t] + pSCount[r]
   BY <2>1, <2>2, Zenon
 <2> TAKE t \in Thread
 <2> DEFINE r == t + 1
 <2>3. r \in 0 .. NumT /\ r # 0 /\ r - 1 = t BY Basics DEF Thread
 <2> HIDE DEF r
 <2>4. Sums[r] = Sums[t] + pSCount[r] BY <2>2, <2>3
 <2> QED BY <2>4 DEF r
<1> QED BY <1>4, <1>7, <1>8, Basics

(***************************************************************************)
(* A list without repetitions has as many vertices as entries; lists that  *)
(* share nothing have, up to some thread, as many as the running sum says. *)
(***************************************************************************)
Entries(list) == {list[q] : q \in 1 .. Len(list)}

NoRepetition(lists) ==
  \A s, t \in Thread : \A q \in 1 .. Len(lists[s]), r \in 1 .. Len(lists[t]) :
    lists[s][q] = lists[t][r] => s = t /\ q = r

LEMMA EntriesCounted ==
  ASSUME NEW list \in Seq(Vertex),
         \A q, r \in 1 .. Len(list) : list[q] = list[r] => q = r
  PROVE  /\ Entries(list) \subseteq Vertex
         /\ IsFiniteSet(Entries(list)) /\ Cardinality(Entries(list)) = Len(list)
         /\ Len(list) \in 0 .. N
<1>1. Len(list) \in Nat /\ list \in [1 .. Len(list) -> Vertex] OBVIOUS
<1>2. list \in [1 .. Len(list) -> Entries(list)]
 <2>1. list = [q \in 1 .. Len(list) |-> list[q]] BY <1>1
 <2> QED BY <2>1 DEF Entries
<1>3. list \in Surjection(1 .. Len(list), Entries(list)) BY <1>2 DEF Surjection, Entries
<1>4. list \in Injection(1 .. Len(list), Entries(list)) BY <1>2 DEF Injection, IsInjective
<1>5. IsFiniteSet(1 .. Len(list)) /\ Cardinality(1 .. Len(list)) = Len(list) BY <1>1, FS_Interval
<1>6. IsFiniteSet(Entries(list)) /\ Cardinality(Entries(list)) = Len(list)
  BY <1>3, <1>4, <1>5, FS_Surjection
<1>7. Entries(list) \subseteq Vertex BY <1>1 DEF Entries
<1>8. Len(list) <= N BY <1>6, <1>7, Basics, FS_Subset
<1> QED BY <1>1, <1>6, <1>7, <1>8, Basics

Before(lists, n) == UNION {Entries(lists[t]) : t \in {s \in Thread : s < n}}

LEMMA ListsCounted ==
  ASSUME NEW lists \in [Thread -> Seq(Vertex)], NoRepetition(lists),
         NEW f \in [0 .. NumT -> Int],
         \A t \in Thread : f[t + 1] = f[t] + Len(lists[t])
  PROVE  /\ \A n \in 0 .. NumT : f[n] = f[0] + Cardinality(Before(lists, n))
         /\ \A m, n \in 0 .. NumT : m <= n => f[m] <= f[n]
         /\ f[NumT] = f[0] + Cardinality(UNION {Entries(lists[t]) : t \in Thread})
<1>1. ASSUME NEW t \in Thread
      PROVE  /\ Entries(lists[t]) \subseteq Vertex /\ IsFiniteSet(Entries(lists[t]))
             /\ Cardinality(Entries(lists[t])) = Len(lists[t])
 <2>1. lists[t] \in Seq(Vertex) OBVIOUS
 <2>2. \A q, r \in 1 .. Len(lists[t]) : lists[t][q] = lists[t][r] => q = r BY DEF NoRepetition
 <2> QED BY <2>1, <2>2, EntriesCounted
<1>2. ASSUME NEW n \in 0 .. NumT
      PROVE  /\ Before(lists, n) \subseteq Vertex /\ IsFiniteSet(Before(lists, n))
             /\ Cardinality(Before(lists, n)) \in Nat
 <2>1. Before(lists, n) \subseteq Vertex BY <1>1 DEF Before
 <2> QED BY <2>1, Basics, FS_Subset, FS_CardinalityType
<1>3. Before(lists, 0) = {} BY Basics DEF Before, Thread
<1>4. ASSUME NEW t \in Thread
      PROVE  /\ Before(lists, t + 1) = Before(lists, t) \cup Entries(lists[t])
             /\ Before(lists, t) \cap Entries(lists[t]) = {}
 <2>1. \A s \in Thread : s < t + 1 <=> s < t \/ s = t BY Basics DEF Thread
 <2>2. Before(lists, t + 1) = Before(lists, t) \cup Entries(lists[t]) BY <2>1 DEF Before
 <2>3. \A s \in Thread : s < t => s # t BY Basics DEF Thread
 <2>4. Before(lists, t) \cap Entries(lists[t]) = {} BY <2>3 DEF Before, Entries, NoRepetition
 <2> QED BY <2>2, <2>4
<1>5. ASSUME NEW t \in Thread
      PROVE  Cardinality(Before(lists, t + 1)) = Cardinality(Before(lists, t)) + Len(lists[t])
 <2>1. t \in 0 .. NumT /\ Cardinality({}) = 0 BY Basics, FS_EmptySet
 <2> DEFINE A == Before(lists, t)
            B == Entries(lists[t])
 <2>2. IsFiniteSet(A) /\ IsFiniteSet(B) /\ A \cap B = {} /\ Cardinality(B) = Len(lists[t])
   BY <1>1, <1>2, <1>4, <2>1
 <2>3. Cardinality(A) \in Nat /\ Cardinality(B) \in Nat BY <1>2, <2>1, <2>2, FS_CardinalityType
 <2>4. Before(lists, t + 1) = A \cup B BY <1>4
 <2> HIDE DEF A, B
 <2>5. Cardinality(A \cup B) = Cardinality(A) + Cardinality(B) - Cardinality(A \cap B)
   BY <2>2, FS_Union
 <2>6. Cardinality(A \cup B) = Cardinality(A) + Cardinality(B)
  <3>1. Cardinality(A \cap B) = 0 BY <2>1, <2>2, Zenon
  <3> QED BY <2>3, <2>5, <3>1
 <2>7. Cardinality(Before(lists, t + 1)) = Cardinality(A \cup B) BY <2>4, Zenon
 <2>8. Cardinality(Before(lists, t + 1)) = Cardinality(A) + Len(lists[t]) BY <2>2, <2>6, <2>7, Zenon
 <2> QED BY <2>8 DEF A
<1>6. \A n \in 0 .. NumT : f[n] = f[0] + Cardinality(Before(lists, n))
 <2> DEFINE Wrong == {n \in 0 .. NumT : f[n] # f[0] + Cardinality(Before(lists, n))}
 <2> SUFFICES ASSUME Wrong # {} PROVE FALSE OBVIOUS
 <2>1. Wrong \in SUBSET Nat BY Basics
 <2>2. PICK m \in Wrong : \A n \in Wrong : m <= n BY <2>1, Least
 <2>3. m \in 0 .. NumT /\ m \in Nat /\ f[m] # f[0] + Cardinality(Before(lists, m)) BY <2>2, Basics
 <2>4. f[0] = f[0] + Cardinality(Before(lists, 0))
  <3>1. Cardinality({}) = 0 BY FS_EmptySet
  <3>2. Cardinality(Before(lists, 0)) = 0 BY <1>3, <3>1, Zenon
  <3>3. f[0] \in Int BY Basics
  <3> QED BY <3>2, <3>3
 <2>5. m # 0 BY <2>3, <2>4
 <2>6. m - 1 \in Thread /\ m - 1 \in 0 .. NumT /\ ~(m <= m - 1) /\ m - 1 + 1 = m
   BY <2>3, <2>5, Basics DEF Thread
 <2>7. f[m - 1] = f[0] + Cardinality(Before(lists, m - 1)) BY <2>2, <2>6
 <2>8. f[m] = f[m - 1] + Len(lists[m - 1]) BY <2>6
 <2>9. Cardinality(Before(lists, m)) = Cardinality(Before(lists, m - 1)) + Len(lists[m - 1])
   BY <1>5, <2>6
 <2>10. /\ f[0] \in Int /\ Cardinality(Before(lists, m - 1)) \in Nat
        /\ Len(lists[m - 1]) \in Nat
   BY <1>2, <2>6, Basics
 <2> QED BY <2>3, <2>7, <2>8, <2>9, <2>10
<1>7. \A m, n \in 0 .. NumT : m <= n => f[m] <= f[n]
 <2> TAKE m, n \in 0 .. NumT
 <2> HAVE m <= n
 <2>1. \A s \in Thread : s < m => s < n BY Basics DEF Thread
 <2>2. Before(lists, m) \in SUBSET Before(lists, n) BY <2>1 DEF Before
 <2>3. Cardinality(Before(lists, m)) <= Cardinality(Before(lists, n)) BY <1>2, <2>2, FS_Subset
 <2>4. f[0] \in Int /\ Cardinality(Before(lists, m)) \in Nat /\ Cardinality(Before(lists, n)) \in Nat
   BY <1>2, Basics
 <2>5. f[m] = f[0] + Cardinality(Before(lists, m)) /\ f[n] = f[0] + Cardinality(Before(lists, n))
   BY <1>6
 <2> QED BY <2>3, <2>4, <2>5
<1>8. Before(lists, NumT) = UNION {Entries(lists[t]) : t \in Thread}
 <2>1. \A s \in Thread : s < NumT BY Basics DEF Thread
 <2> QED BY <2>1 DEF Before
<1>9. f[NumT] = f[0] + Cardinality(Before(lists, NumT)) BY <1>6, Basics
<1> QED BY <1>6, <1>7, <1>8, <1>9

(***************************************************************************)
(* Every position between the first and the last sum is in the range of    *)
(* some thread.                                                            *)
(***************************************************************************)
LEMMA RangesCover ==
  ASSUME NEW f \in [0 .. NumT -> Int], NEW p \in Int, f[0] <= p, p < f[NumT]
  PROVE  \E t \in Thread : f[t] <= p /\ p < f[t + 1]
<1> DEFINE Above == {n \in 0 .. NumT : p < f[n]}
<1>1. Above \in SUBSET Nat /\ Above # {} BY Basics
<1>2. PICK m \in Above : \A n \in Above : m <= n BY <1>1, Least
<1>3. m \in 0 .. NumT /\ p < f[m] /\ f[0] \in Int BY <1>2, Basics
<1>4. m # 0 BY <1>3
<1>5. m - 1 \in Thread /\ m - 1 \in 0 .. NumT /\ ~(m <= m - 1) /\ m - 1 + 1 = m
  BY <1>3, <1>4, Basics DEF Thread
<1>6. ~(p < f[m - 1]) /\ f[m - 1] \in Int BY <1>2, <1>5
<1> QED BY <1>3, <1>5, <1>6

-----------------------------------------------------------------------------

(***************************************************************************)
(* The numbers of positions and phases.                                    *)
(***************************************************************************)
LEMMA Bounds ==
  ASSUME IInv
  PROVE  /\ phase_num \in 0 .. N
         /\ phase_num + 1 \in 0 .. N + 2 /\ phase_num + 2 \in 0 .. N + 2
         /\ start[phase_num] \in 0 .. N /\ start[phase_num + 1] \in 0 .. N
         /\ NewLevel \in {phase_num, phase_num + 1} /\ NewLevel \in Nat
         /\ Frontier \subseteq 0 .. N - 1
         /\ MoreLevel => phase_num + 1 <= start[phase_num + 1] /\ phase_num + 1 \in 0 .. N
<1>1. phase_num \in 0 .. N /\ start \in [0 .. N + 2 -> 0 .. N] /\ N \in Nat
      /\ phase_num <= start[phase_num]
  BY Basics DEF IInv, TypeOK, PhasesInv
<1>2. phase_num \in 0 .. N + 2 /\ phase_num + 1 \in 0 .. N + 2 /\ phase_num + 2 \in 0 .. N + 2
  BY <1>1
<1>3. start[phase_num] \in 0 .. N /\ start[phase_num + 1] \in 0 .. N BY <1>1, <1>2
<1>4. NewLevel \in {phase_num, phase_num + 1} /\ NewLevel \in Nat BY <1>1 DEF NewLevel
<1> DEFINE a == start[phase_num]
           b == start[phase_num + 1]
<1>5. a \in 0 .. N /\ b \in 0 .. N /\ a \in Int /\ b \in Int /\ phase_num \in Int /\ phase_num <= a
  BY <1>1, <1>3
<1>6. Frontier = a .. b - 1 /\ (MoreLevel <=> b - a > 0) BY DEF Frontier, MoreLevel
<1> HIDE DEF a, b
<1>7. Frontier \subseteq 0 .. N - 1 BY <1>1, <1>5, <1>6
<1>8. MoreLevel => phase_num + 1 <= b /\ phase_num + 1 \in 0 .. N
 <2> SUFFICES ASSUME MoreLevel PROVE phase_num + 1 <= b /\ phase_num + 1 \in 0 .. N OBVIOUS
 <2>1. b - a > 0 BY <1>6, Zenon
 <2> QED BY SMTT(30), <1>1, <1>5, <2>1
<1> QED BY <1>1, <1>2, <1>3, <1>4, <1>7, <1>8 DEF b

(***************************************************************************)
(* All steps but that of thread 0 that sums leave the phase alone.         *)
(***************************************************************************)
LEMMA StepKeeps ==
  ASSUME IInv, NEW t \in Thread, Step(t), ~(Sum(t) /\ t = 0)
  PROVE  /\ start' = start /\ phase_num' = phase_num
         /\ After' = After /\ NewLevel' = NewLevel /\ MoreLevel' = MoreLevel
         /\ Frontier' = Frontier
         /\ \A d : Upto(d)' = Upto(d)
         /\ TypeOK /\ Together
<1>1. TypeOK /\ Together BY DEF IInv
<1>2. start' = start /\ phase_num' = phase_num BY StepWrites
<1>3. After' = After BY <1>1, StepStage DEF After
<1> QED BY <1>1, <1>2, <1>3 DEF NewLevel, MoreLevel, Frontier, Upto

LEMMA PhasesStep ==
  ASSUME IInv, NEW t \in Thread, Step(t), ~(Sum(t) /\ t = 0)
  PROVE  PhasesInv'
<1>1. PhasesInv /\ 0 \in Thread BY Basics DEF IInv
<1>2. /\ pc'[t] \in Expanding \cup {"count", "counted"} => MoreLevel
      /\ pc'[t] \in Gone => ~MoreLevel
      /\ pc'[t] # "sum"
  BY <1>1, StepKeeps, StepMoves DEF PhasesInv, Expanding, Busy, Gone
<1>3. \A s \in Thread \ {t} : pc'[s] = pc[s] BY StepKeeps, StepMoves
<1>4. pc'[0] = "sum" => MoreLevel BY <1>1, <1>2, <1>3 DEF PhasesInv
<1>5. \A s \in Thread : /\ pc'[s] \in Expanding \cup {"count", "counted"} => MoreLevel
                        /\ pc'[s] \in Gone => ~MoreLevel
  BY <1>1, <1>2, <1>3 DEF PhasesInv
<1> QED BY <1>1, <1>4, <1>5, StepKeeps DEF PhasesInv

(***************************************************************************)
(* A thread in the expansion looks at a neighbour of a vertex of the level.*)
(***************************************************************************)
LEMMA AtWork ==
  ASSUME IInv, NEW t \in Thread, pc[t] \in Busy
  PROVE  /\ pc[0] \in Expansion /\ NewLevel = phase_num + 1
         /\ vert[t] \in taken /\ vert[t] \in Frontier
         /\ V(t) \in Vertex /\ V(t) \in Level(phase_num) /\ dist[V(t)] = phase_num
         /\ Len(adj[V(t)]) \in Nat
         /\ j[t] \in 1 .. Len(adj[V(t)]) + 1
         /\ j[t] <= Len(adj[V(t)]) => W(t) \in Neighbors(V(t)) /\ W(t) \in Vertex
<1>1. Expansion \in Stages /\ pc[t] \in Expansion BY DEF Stages, Expansion, Expanding
<1>2. pc[0] \in Expansion BY <1>1, SameStage, Basics DEF IInv
<1>3. NewLevel = phase_num + 1 BY <1>2 DEF NewLevel, After, Summed, Expansion, Expanding, Busy, Gone
<1>4. vert[t] \in taken /\ j[t] \in 1 .. Len(adj[V(t)]) + 1 BY DEF IInv, WorkInv
<1>5. vert[t] \in Frontier BY <1>2, <1>4 DEF IInv, FrontierInv
<1>6. V(t) \in Level(phase_num) BY <1>2, <1>5 DEF IInv, FrontierInv, V
<1>7. V(t) \in Vertex /\ Delta[V(t)] = phase_num BY <1>6 DEF Level
<1>8. dist[V(t)] = phase_num
 <2>1. phase_num \in Nat /\ LevelReady(phase_num + 1 - 1) BY <1>3, Bounds DEF IInv, DistInv
 <2>2. phase_num \in 0 .. phase_num + 1 - 1 BY <2>1
 <2> QED BY <1>7, <2>1, <2>2 DEF LevelReady, Upto
<1>9. adj[V(t)] \in Seq(Vertex) /\ Len(adj[V(t)]) \in Nat BY <1>7, GraphAssumption
<1>10. j[t] <= Len(adj[V(t)]) => W(t) \in Neighbors(V(t)) /\ W(t) \in Vertex
 <2> SUFFICES ASSUME j[t] <= Len(adj[V(t)]) PROVE W(t) \in Neighbors(V(t)) /\ W(t) \in Vertex
   OBVIOUS
 <2>1. j[t] \in 1 .. Len(adj[V(t)]) BY <1>4, <1>9
 <2> QED BY <1>7, <2>1, GraphTypes DEF W
<1> QED BY <1>2, <1>3, <1>4, <1>5, <1>6, <1>7, <1>8, <1>9, <1>10

(***************************************************************************)
(* A vertex is visited with its distance.                                  *)
(***************************************************************************)
LEMMA Discovery ==
  ASSUME IInv, NEW t \in Thread, Visit(t)
  PROVE  /\ W(t) \in Neighbors(V(t)) /\ W(t) \in Vertex /\ V(t) \in Vertex
         /\ NewLevel = phase_num + 1
         /\ \/ vis[W(t)] /\ dist[W(t)] # Unset /\ dist' = dist /\ vis' = vis /\ pS' = pS
            \/ /\ dist[W(t)] = Unset /\ Delta[W(t)] = NewLevel
               /\ dist' = [dist EXCEPT ![W(t)] = NewLevel]
               /\ vis' = [vis EXCEPT ![W(t)] = TRUE]
               /\ pS' = [pS EXCEPT ![t] = Append(pS[t], W(t))]
<1>1. pc[t] = "visit" /\ pc[t] \in Busy /\ pc[t] \in Holding BY DEF Visit, Busy, Holding
<1>2. j[t] <= Len(adj[V(t)]) BY <1>1 DEF IInv, WorkInv
<1>3. /\ W(t) \in Neighbors(V(t)) /\ W(t) \in Vertex /\ V(t) \in Vertex
      /\ NewLevel = phase_num + 1 /\ dist[V(t)] = phase_num /\ phase_num \in Nat
      /\ Delta[V(t)] = phase_num
  BY <1>1, <1>2, AtWork, Bounds DEF Level
<1>4. vis[W(t)] <=> dist[W(t)] # Unset BY <1>3 DEF IInv, DistInv
<1>5. CASE vis[W(t)] BY <1>3, <1>4, <1>5 DEF Visit
<1>6. CASE ~vis[W(t)]
 <2>1. /\ dist' = [dist EXCEPT ![W(t)] = phase_num + 1]
       /\ vis' = [vis EXCEPT ![W(t)] = TRUE]
       /\ pS' = [pS EXCEPT ![t] = Append(pS[t], W(t))]
   BY <1>3, <1>6 DEF Visit
 <2>2. Delta[W(t)] \in 0 .. phase_num + 1 BY <1>3, DistanceAssumption DEF Unset
 <2>3. Delta[W(t)] \notin 0 .. NewLevel - 1
  <3>1. LevelReady(NewLevel - 1) BY DEF IInv, DistInv
  <3>2. W(t) \in Upto(NewLevel - 1) => dist[W(t)] = Delta[W(t)] BY <3>1 DEF LevelReady
  <3>3. W(t) \in Upto(NewLevel - 1) => dist[W(t)] # Unset BY <2>2, <3>2 DEF Unset
  <3> QED BY <1>3, <1>4, <1>6, <3>3 DEF Upto
 <2>4. Delta[W(t)] = phase_num + 1 BY <1>3, <2>2, <2>3
 <2> QED BY <1>3, <1>4, <1>6, <2>1, <2>4
<1> QED BY <1>5, <1>6

LEMMA DistStep ==
  ASSUME IInv, NEW t \in Thread, Step(t), ~(Sum(t) /\ t = 0)
  PROVE  /\ DistInv'
         /\ \A v \in Vertex : dist[v] # Unset => dist'[v] = dist[v]
<1>1. DistInv /\ TypeOK /\ NewLevel' = NewLevel /\ NewLevel \in Nat
      /\ \A d : Upto(d)' = Upto(d)
  BY StepKeeps, Bounds DEF IInv
<1>2. pc[0] \in Expansion <=> pc'[0] \in Expansion BY <1>1, StepKeeps, StepStage, Basics
<1>3. CASE ~Visit(t)
 <2>1. dist' = dist /\ vis' = vis BY <1>3, StepWrites
 <2> QED BY <1>1, <1>2, <2>1 DEF DistInv, LevelReady
<1>4. CASE Visit(t)
 <2>1. CASE dist' = dist /\ vis' = vis BY <1>1, <1>2, <2>1 DEF DistInv, LevelReady
 <2>2. CASE ~(dist' = dist /\ vis' = vis)
  <3>1. /\ W(t) \in Vertex /\ dist[W(t)] = Unset /\ Delta[W(t)] = NewLevel
        /\ dist' = [dist EXCEPT ![W(t)] = NewLevel] /\ vis' = [vis EXCEPT ![W(t)] = TRUE]
    BY <1>4, <2>2, Discovery
  <3>2. /\ dist \in [Vertex -> Unset .. MaxDelta] /\ vis \in [Vertex -> BOOLEAN] BY <1>1 DEF TypeOK
  <3>3. \A v \in Vertex : /\ v = W(t) => dist'[v] = Delta[v] /\ dist'[v] = NewLevel /\ vis'[v]
                          /\ v # W(t) => dist'[v] = dist[v] /\ vis'[v] = vis[v]
    BY <3>1, <3>2
  <3>4. NewLevel # Unset /\ NewLevel <= NewLevel BY <1>1 DEF Unset
  <3>5. \A d : LevelReady(d) => LevelReady(d)' BY <1>1, <3>3 DEF LevelReady, Upto
  <3>6. /\ \A v \in Vertex : vis'[v] <=> dist'[v] # Unset
        /\ \A v \in Vertex : dist'[v] # Unset => dist'[v] = Delta[v] /\ dist'[v] <= NewLevel
    BY <1>1, <3>3, <3>4 DEF DistInv
  <3>7. LevelReady(NewLevel - 1)' /\ (pc'[0] \notin Expansion => LevelReady(NewLevel)')
    BY <1>1, <1>2, <3>5 DEF DistInv, LevelReady
  <3> QED BY <1>1, <3>1, <3>3, <3>6, <3>7 DEF DistInv
 <2> QED BY <2>1, <2>2
<1> QED BY <1>3, <1>4

(***************************************************************************)
(* What is said of the lists holds while no list and no distance changes.  *)
(***************************************************************************)
LEMMA ListsKept ==
  ASSUME ListsInv, dist' = dist, NewLevel' = NewLevel,
         \A s \in Thread : Found(s)' = Found(s)
  PROVE  ListsInv'
<1>1. \A s \in Thread : \A q \in 1 .. Len(Found(s)') : dist'[Found(s)'[q]] = NewLevel'
 <2> TAKE s \in Thread
 <2>1. Found(s)' = Found(s) /\ \A q \in 1 .. Len(Found(s)) : dist[Found(s)[q]] = NewLevel
   BY DEF ListsInv
 <2> QED BY <2>1
<1>2. \A v \in Vertex : dist'[v] = NewLevel' =>
        \E s \in Thread : \E q \in 1 .. Len(Found(s)') : Found(s)'[q] = v
 <2> SUFFICES ASSUME NEW v \in Vertex, dist'[v] = NewLevel'
              PROVE  \E s \in Thread : \E q \in 1 .. Len(Found(s)') : Found(s)'[q] = v
   OBVIOUS
 <2>1. PICK s \in Thread : \E q \in 1 .. Len(Found(s)) : Found(s)[q] = v BY DEF ListsInv
 <2> QED BY <2>1
<1>3. \A s, t \in Thread : \A q \in 1 .. Len(Found(s)'), r \in 1 .. Len(Found(t)') :
        Found(s)'[q] = Found(t)'[r] => s = t /\ q = r
 <2> TAKE s, t \in Thread
 <2>1. /\ Found(s)' = Found(s) /\ Found(t)' = Found(t)
       /\ \A q \in 1 .. Len(Found(s)), r \in 1 .. Len(Found(t)) :
            Found(s)[q] = Found(t)[r] => s = t /\ q = r
   BY DEF ListsInv
 <2> QED BY <2>1
<1> QED BY <1>1, <1>2, <1>3 DEF ListsInv

(***************************************************************************)
(* A vertex gets into a list when it gets its distance.                    *)
(***************************************************************************)
LEMMA ListsStep ==
  ASSUME IInv, NEW t \in Thread, Step(t), ~(Sum(t) /\ t = 0)
  PROVE  ListsInv'
<1>1. /\ ListsInv /\ TypeOK /\ NewLevel' = NewLevel /\ NewLevel \in Nat
      /\ pS \in [Thread -> Seq(Vertex)]
  BY StepKeeps, Bounds DEF IInv, TypeOK
<1>2. \A s \in Thread \ {t} : Found(s)' = Found(s) BY <1>1, StepMoves DEF Found
<1>3. CASE ~Visit(t)
 <2>1. dist' = dist BY <1>3, StepWrites
 <2>2. Found(t)' = Found(t)
  <3>1. CASE While(t)
   <4>1. pc[t] = "while" /\ (pc'[t] = "for" => pS'[t] = <<>>) /\ pc'[t] \in {"for", "left"}
    <5>1. MoreToDo(t) => pS' = [pS EXCEPT ![t] = <<>>] /\ pc' = [pc EXCEPT ![t] = "for"]
      BY <3>1 DEF While, Goto
    <5>2. ~MoreToDo(t) => pc' = [pc EXCEPT ![t] = "left"] BY <3>1 DEF While, Goto
    <5>3. pc[t] = "while" /\ pc \in [Thread -> Labels] BY <1>1, <3>1 DEF While, TypeOK
    <5> QED BY <1>1, <5>1, <5>2, <5>3
   <4> QED BY <4>1 DEF Found, Gone
  <3>2. CASE ~While(t)
   <4>1. pS' = pS BY <1>3, <3>2, StepWrites
   <4>2. pc[t] \notin {"while"} \cup Gone /\ pc'[t] \notin {"while"} \cup Gone
     BY <1>1, <3>2, StepMoves DEF Gone
   <4> QED BY <4>1, <4>2 DEF Found
  <3> QED BY <3>1, <3>2
 <2>3. \A s \in Thread : Found(s)' = Found(s) BY <1>2, <2>2
 <2> QED BY <1>1, <2>1, <2>3, ListsKept
<1>4. CASE Visit(t)
 <2>1. pc[t] = "visit" /\ pc'[t] = "unlock" BY <1>1, <1>4, StepMoves DEF Visit
 <2>2. Found(t) = pS[t] /\ Found(t)' = pS'[t] BY <2>1 DEF Found, Gone
 <2>3. CASE dist' = dist /\ pS' = pS
  <3>1. \A s \in Thread : Found(s)' = Found(s) BY <1>2, <2>2, <2>3
  <3> QED BY <1>1, <2>3, <3>1, ListsKept
 <2>4. CASE ~(dist' = dist /\ pS' = pS)
  <3> DEFINE w == W(t)
  <3>1. /\ w \in Vertex /\ dist[w] = Unset /\ Delta[w] = NewLevel
        /\ dist' = [dist EXCEPT ![w] = NewLevel]
        /\ pS' = [pS EXCEPT ![t] = Append(pS[t], w)]
    BY <1>4, <2>4, Discovery
  <3> HIDE DEF w
  <3>2. dist \in [Vertex -> Unset .. MaxDelta] /\ NewLevel # Unset BY <1>1 DEF TypeOK, Unset
  <3>3. \A v \in Vertex : /\ v = w => dist'[v] = NewLevel
                          /\ v # w => dist'[v] = dist[v]
    BY <3>1, <3>2
  <3>4. /\ \A s \in Thread : Found(s) \in Seq(Vertex) /\ Len(Found(s)) \in Nat
        /\ \A s \in Thread : \A q \in 1 .. Len(Found(s)) : Found(s)[q] \in Vertex
    BY <1>1 DEF Found
  <3>5. /\ Found(t)' = Append(Found(t), w)
        /\ Len(Found(t)') = Len(Found(t)) + 1
        /\ \A q \in 1 .. Len(Found(t)) : Found(t)'[q] = Found(t)[q]
        /\ Found(t)'[Len(Found(t)) + 1] = w
   <4>1. Found(t)' = Append(Found(t), w) BY <1>1, <2>2, <3>1
   <4> QED BY <3>1, <3>4, <4>1
  <3>6. \A s \in Thread : \A q \in 1 .. Len(Found(s)) : Found(s)[q] # w
    BY <1>1, <3>1, <3>2 DEF ListsInv
  <3>7. ASSUME NEW s \in Thread, NEW q \in 1 .. Len(Found(s)')
        PROVE  \/ q \in 1 .. Len(Found(s)) /\ Found(s)'[q] = Found(s)[q]
               \/ s = t /\ q = Len(Found(t)) + 1 /\ Found(s)'[q] = w
   <4>1. CASE s # t BY <1>2, <3>7, <4>1
   <4>2. CASE s = t
    <5>1. q \in 1 .. Len(Found(t)) + 1 BY <3>5, <3>7, <4>2
    <5>2. q \in 1 .. Len(Found(t)) \/ q = Len(Found(t)) + 1 BY <3>4, <5>1
    <5> QED BY <3>5, <4>2, <5>2
   <4> QED BY <4>1, <4>2
  <3>8. \A s \in Thread : \A q \in 1 .. Len(Found(s)') : dist'[Found(s)'[q]] = NewLevel
   <4> TAKE s \in Thread
   <4> TAKE q \in 1 .. Len(Found(s)')
   <4>1. CASE q \in 1 .. Len(Found(s)) /\ Found(s)'[q] = Found(s)[q]
    <5>1. Found(s)[q] \in Vertex /\ Found(s)[q] # w /\ dist[Found(s)[q]] = NewLevel
      BY <1>1, <3>4, <3>6, <4>1 DEF ListsInv
    <5> QED BY <3>3, <4>1, <5>1
   <4>2. CASE Found(s)'[q] = w BY <3>1, <3>3, <4>2
   <4> QED BY <3>7, <4>1, <4>2
  <3>9. \A v \in Vertex : dist'[v] = NewLevel =>
          \E s \in Thread : \E q \in 1 .. Len(Found(s)') : Found(s)'[q] = v
   <4> TAKE v \in Vertex
   <4> HAVE dist'[v] = NewLevel
   <4>1. CASE v = w
    <5>1. Len(Found(t)) + 1 \in 1 .. Len(Found(t)') BY <3>4, <3>5
    <5> QED BY <3>5, <4>1, <5>1
   <4>2. CASE v # w
    <5>1. PICK s \in Thread : \E q \in 1 .. Len(Found(s)) : Found(s)[q] = v
      BY <1>1, <3>3, <4>2 DEF ListsInv
    <5>2. PICK q \in 1 .. Len(Found(s)) : Found(s)[q] = v BY <5>1
    <5>3. q \in 1 .. Len(Found(s)') /\ Found(s)'[q] = v
     <6>1. CASE s = t
      <7>1. Len(Found(s)') = Len(Found(s)) + 1 /\ Found(s)'[q] = Found(s)[q] BY <3>5, <6>1
      <7> QED BY <3>4, <5>2, <7>1
     <6>2. CASE s # t BY <1>2, <5>2, <6>2
     <6> QED BY <6>1, <6>2
    <5> QED BY <5>3
   <4> QED BY <4>1, <4>2
  <3>10. \A s, r \in Thread : \A q \in 1 .. Len(Found(s)'), p \in 1 .. Len(Found(r)') :
           Found(s)'[q] = Found(r)'[p] => s = r /\ q = p
   <4> TAKE s, r \in Thread
   <4> TAKE q \in 1 .. Len(Found(s)'), p \in 1 .. Len(Found(r)')
   <4>1. \/ q \in 1 .. Len(Found(s)) /\ Found(s)'[q] = Found(s)[q]
         \/ s = t /\ q = Len(Found(t)) + 1 /\ Found(s)'[q] = w
     BY <3>7
   <4>2. \/ p \in 1 .. Len(Found(r)) /\ Found(r)'[p] = Found(r)[p]
         \/ r = t /\ p = Len(Found(t)) + 1 /\ Found(r)'[p] = w
     BY <3>7
   <4>3. q \in 1 .. Len(Found(s)) /\ p \in 1 .. Len(Found(r)) /\ Found(s)[q] = Found(r)[p]
           => s = r /\ q = p
     BY SMTT(30), <1>1 DEF ListsInv
   <4> QED BY <3>6, <4>1, <4>2, <4>3
  <3> QED BY <1>1, <3>8, <3>9, <3>10 DEF ListsInv
 <2> QED BY <2>3, <2>4
<1> QED BY <1>3, <1>4

LEMMA FrontierStep ==
  ASSUME IInv, NEW t \in Thread, Step(t), ~(Sum(t) /\ t = 0)
  PROVE  FrontierInv'
<1> SUFFICES ASSUME pc'[0] \in Expansion
             PROVE  /\ {S'[p] : p \in Frontier} = Level(phase_num)
                    /\ \A p, q \in Frontier : S'[p] = S'[q] => p = q
                    /\ taken' \subseteq Frontier
                    /\ \A s \in Thread : pc'[s] = "expanded" => Frontier \subseteq taken'
  BY StepKeeps DEF FrontierInv, Level
<1>1. TypeOK /\ pc[t] \in Expansion /\ pc[0] \in Expansion BY StepKeeps, StepStage, Basics
<1>2. ~Copy(t) BY <1>1 DEF Copy, Expansion, Expanding, Busy, Gone
<1>3. S' = S BY <1>2, StepWrites
<1>4. /\ {S[p] : p \in Frontier} = Level(phase_num)
      /\ \A p, q \in Frontier : S[p] = S[q] => p = q
      /\ taken \subseteq Frontier
      /\ \A s \in Thread : pc[s] = "expanded" => Frontier \subseteq taken
  BY <1>1 DEF IInv, FrontierInv
<1>5. CASE For(t)
 <2>1. Iterations = Frontier \ taken BY DEF Iterations, Frontier
 <2>2. \/ Iterations = {} /\ taken' = taken
       \/ pc'[t] = "edge" /\ \E p \in Iterations : taken' = taken \cup {p}
   BY <1>1, <1>5 DEF For, Goto, TypeOK
 <2>3. taken \subseteq taken' /\ taken' \subseteq Frontier BY <1>4, <2>1, <2>2
 <2>4. \A s \in Thread : pc'[s] = "expanded" => Frontier \subseteq taken'
   BY <1>1, <1>4, <2>1, <2>2, <2>3, StepMoves
 <2> QED BY <1>3, <1>4, <2>3, <2>4
<1>6. CASE ~For(t)
 <2>1. taken' = taken BY <1>6, StepWrites
 <2>2. pc'[t] # "expanded" BY <1>1, <1>6, StepMoves
 <2> QED BY <1>1, <1>3, <1>4, <2>1, <2>2, StepMoves
<1> QED BY <1>5, <1>6

(***************************************************************************)
(* What a thread does with its neighbours: vertices and neighbours are the *)
(* same as before unless the thread itself moves on.                       *)
(***************************************************************************)
LEMMA SameWork ==
  ASSUME IInv, NEW t \in Thread, Step(t), NEW s \in Thread, pc[s] \in Busy,
         s # t \/ (~For(t) /\ ~TestLock(t) /\ ~Unlock(t))
  PROVE  /\ V(s)' = V(s) /\ W(s)' = W(s) /\ vert'[s] = vert[s] /\ j'[s] = j[s]
         /\ S' = S /\ pc[t] \in Expansion
<1>1. TypeOK /\ Together BY DEF IInv
<1>2. pc[s] \in Expansion /\ Expansion \in Stages BY DEF Expansion, Expanding, Stages
<1>3. pc[t] \in Expansion BY <1>1, <1>2, SameStage
<1>4. ~Copy(t) BY <1>3 DEF Copy, Expansion, Expanding, Busy, Gone
<1>5. S' = S BY <1>4, StepWrites
<1>6. vert'[s] = vert[s] /\ j'[s] = j[s] BY <1>1, StepMoves, StepWrites
<1> QED BY <1>3, <1>5, <1>6 DEF V, W

LEMMA WorkStep ==
  ASSUME IInv, NEW t \in Thread, Step(t), ~(Sum(t) /\ t = 0)
  PROVE  WorkInv'
<1>1. TypeOK /\ Together /\ WorkInv BY DEF IInv
<1>2. /\ pc \in [Thread -> Labels] /\ vert \in [Thread -> 0 .. N - 1]
      /\ j \in [Thread -> Nat] /\ vLock \subseteq Vertex
  BY <1>1 DEF TypeOK
<1>3. taken \subseteq taken' BY StepWrites DEF For
<1>4. \A v \in Vertex : dist[v] # Unset => dist'[v] # Unset BY DistStep
<1>5. ASSUME NEW s \in Thread, s # t, pc'[s] \in Busy
      PROVE  /\ pc[s] \in Busy /\ pc'[s] = pc[s] /\ V(s)' = V(s) /\ W(s)' = W(s)
             /\ vert'[s] = vert[s] /\ j'[s] = j[s]
  BY <1>1, <1>5, StepMoves, SameWork
<1>6. ASSUME NEW s \in Thread, pc[s] \in Holding
      PROVE  pc[s] \in Busy /\ j[s] <= Len(adj[V(s)]) /\ W(s) \in Vertex /\ W(s) \in vLock
  BY <1>1, <1>6, AtWork DEF WorkInv, Holding, Busy
<1>7. \A s \in Thread : pc[s] \in Holding => pc[s] \in Busy BY DEF Holding, Busy
<1>8. ASSUME pc'[t] \in Busy =>
               vert'[t] \in taken' /\ j'[t] \in 1 .. Len(adj[V(t)']) + 1,
             pc'[t] \in Holding => j'[t] <= Len(adj[V(t)']),
             vLock' = {W(s)' : s \in {r \in Thread : pc'[r] \in Holding}},
             pc'[t] \in Holding => \A s \in Thread \ {t} : pc[s] \in Holding => W(s) # W(t)',
             pc'[t] = "unlock" => dist'[W(t)'] # Unset
      PROVE  WorkInv'
 <2>1. ASSUME NEW s \in Thread, s # t
       PROVE  /\ pc'[s] \in Busy => vert'[s] \in taken' /\ j'[s] \in 1 .. Len(adj[V(s)']) + 1
              /\ pc'[s] \in Holding => j'[s] <= Len(adj[V(s)'])
              /\ pc'[s] = "unlock" => dist'[W(s)'] # Unset
  <3>1. pc'[s] \in Busy => vert'[s] \in taken' /\ j'[s] \in 1 .. Len(adj[V(s)']) + 1
    BY <1>1, <1>3, <1>5, <2>1 DEF WorkInv
  <3>2. pc'[s] \in Holding => j'[s] <= Len(adj[V(s)'])
    BY <1>1, <1>5, <2>1 DEF WorkInv, Holding, Busy
  <3>3. pc'[s] = "unlock" => dist'[W(s)'] # Unset
    BY <1>1, <1>4, <1>5, <1>6, <2>1 DEF WorkInv, Holding, Busy
  <3> QED BY <3>1, <3>2, <3>3
 <2>2. ASSUME NEW r \in Thread, NEW s \in Thread, r # s,
              pc'[r] \in Holding, pc'[s] \in Holding
       PROVE  W(r)' # W(s)'
  <3>1. \A x \in Thread \ {t} : pc'[x] \in Holding => pc[x] \in Holding /\ W(x)' = W(x)
    BY <1>5 DEF Holding, Busy
  <3> QED BY <1>1, <1>8, <2>2, <3>1 DEF WorkInv
 <2>3. /\ \A s \in Thread : pc'[s] \in Busy =>
            vert'[s] \in taken' /\ j'[s] \in 1 .. Len(adj[V(s)']) + 1
       /\ \A s \in Thread : pc'[s] \in Holding => j'[s] <= Len(adj[V(s)'])
       /\ \A s \in Thread : pc'[s] = "unlock" => dist'[W(s)'] # Unset
   BY <1>8, <2>1
 <2> QED BY <1>8, <2>2, <2>3 DEF WorkInv
<1>9. ASSUME vLock' = vLock, pc[t] \notin Holding, pc'[t] \notin Holding
      PROVE  vLock' = {W(s)' : s \in {r \in Thread : pc'[r] \in Holding}}
 <2>1. \A s \in Thread : pc'[s] \in Holding <=> pc[s] \in Holding BY <1>1, <1>9, StepMoves
 <2>2. \A s \in Thread : pc'[s] \in Holding => W(s)' = W(s) BY <1>5, <1>9 DEF Holding, Busy
 <2> QED BY <1>1, <1>9, <2>1, <2>2 DEF WorkInv
<1>10. CASE While(t) \/ Count(t) \/ Sum(t) \/ Copy(t)
 <2>1. vLock' = vLock BY <1>10, StepWrites DEF While, Count, Sum, Copy, teamVars, searchVars
 <2>2. pc[t] \notin Holding /\ pc'[t] \notin Busy /\ pc'[t] \notin Holding /\ pc'[t] # "unlock"
   BY <1>1, <1>10, StepMoves DEF Busy, Holding, While, Count, Sum, Copy
 <2> QED BY <1>8, <1>9, <2>1, <2>2
<1>11. CASE For(t)
 <2>1. vLock' = vLock /\ S' = S /\ pc[t] = "for" /\ pc'[t] \in {"expanded", "edge"}
   BY <1>1, <1>11, StepMoves, StepWrites DEF For, searchVars
 <2>2. pc'[t] = "edge" => vert'[t] \in taken' /\ vert'[t] \in Frontier /\ j'[t] = 1
  <3>1. CASE Iterations = {} /\ pc' = [pc EXCEPT ![t] = "expanded"] BY <1>2, <3>1
  <3>2. CASE \E p \in Iterations : /\ taken' = taken \cup {p}
                                   /\ vert' = [vert EXCEPT ![t] = p]
                                   /\ j' = [j EXCEPT ![t] = 1]
    BY <1>2, <3>2 DEF Iterations, Frontier
  <3> QED BY <1>11, <3>1, <3>2 DEF For, Goto
 <2>3. pc'[t] = "edge" => j'[t] \in 1 .. Len(adj[V(t)']) + 1
  <3> SUFFICES ASSUME pc'[t] = "edge" PROVE j'[t] \in 1 .. Len(adj[V(t)']) + 1 OBVIOUS
  <3>1. pc[0] \in Expansion BY <1>1, <2>1, SameStage, Basics DEF Stages, Expansion, Expanding
  <3>2. S[vert'[t]] \in Level(phase_num) BY <2>2, <3>1 DEF IInv, FrontierInv
  <3>3. V(t)' \in Vertex BY <2>1, <3>2 DEF V, Level
  <3>4. adj[V(t)'] \in Seq(Vertex) BY <3>3, GraphAssumption
  <3>5. Len(adj[V(t)']) \in Nat BY <3>4
  <3> QED BY <2>2, <3>5
 <2>4. pc[t] \notin Holding /\ pc'[t] \notin Holding /\ pc'[t] # "unlock" BY <2>1 DEF Holding
 <2>5. pc'[t] \in Busy => pc'[t] = "edge" BY <2>1 DEF Busy
 <2> QED BY <1>8, <1>9, <2>1, <2>2, <2>3, <2>4, <2>5
<1>12. CASE TestLock(t)
 <2>1. /\ pc[t] = "edge" /\ pc[t] \in Busy /\ S' = S /\ vert' = vert /\ taken' = taken
   BY <1>12 DEF TestLock, Busy, teamVars
 <2>2. /\ V(t)' = V(t) /\ vert[t] \in taken /\ j[t] \in 1 .. Len(adj[V(t)]) + 1
       /\ Len(adj[V(t)]) \in Nat
   BY <2>1, AtWork DEF V
 <2>3. CASE vLock' = vLock /\ pc'[t] \notin Holding
  <3>1. \/ pc'[t] = "for"
        \/ j[t] <= Len(adj[V(t)]) /\ j'[t] = j[t] + 1
    BY <1>2, <1>12, <2>2, <2>3 DEF TestLock, Goto, Holding
  <3>2. pc'[t] \in Busy => j'[t] \in 1 .. Len(adj[V(t)]) + 1 BY <2>2, <3>1 DEF Busy
  <3>3. pc[t] \notin Holding /\ pc'[t] # "unlock" BY <2>1, <2>3 DEF Holding
  <3> QED BY <1>8, <1>9, <2>1, <2>2, <2>3, <3>2, <3>3
 <2>4. CASE ~(vLock' = vLock /\ pc'[t] \notin Holding)
  <3>1. /\ j[t] <= Len(adj[V(t)]) /\ W(t) \notin vLock
        /\ vLock' = vLock \cup {W(t)} /\ pc'[t] = "visit" /\ j' = j
    BY <1>2, <1>12, <2>2, <2>4 DEF TestLock, Goto, Holding
  <3>2. W(t)' = W(t) BY <2>2, <3>1 DEF W
  <3>3. \A s \in Thread \ {t} : pc'[s] \in Holding <=> pc[s] \in Holding BY <1>1, StepMoves
  <3>4. \A s \in Thread \ {t} : pc[s] \in Holding => W(s)' = W(s) /\ W(s) \in vLock
    BY <1>5, <1>6, <1>7, <1>1, StepMoves
  <3>5. pc[t] \notin Holding /\ pc'[t] \in Holding /\ pc'[t] # "unlock" BY <2>1, <3>1 DEF Holding
  <3>6. vLock' = {W(s)' : s \in {r \in Thread : pc'[r] \in Holding}}
   <4>1. vLock = {W(s) : s \in {r \in Thread : pc[r] \in Holding}} BY <1>1 DEF WorkInv
   <4>2. ASSUME NEW w \in vLock' PROVE \E s \in Thread : pc'[s] \in Holding /\ W(s)' = w
     BY <3>1, <3>2, <3>3, <3>4, <3>5, <4>1, <4>2
   <4>3. ASSUME NEW s \in Thread, pc'[s] \in Holding PROVE W(s)' \in vLock'
     BY <3>1, <3>2, <3>3, <3>4, <4>3
   <4> QED BY <4>2, <4>3
  <3>7. \A s \in Thread \ {t} : pc[s] \in Holding => W(s) # W(t)' BY <3>1, <3>2, <3>4
  <3> QED BY <1>8, <2>1, <2>2, <3>1, <3>5, <3>6, <3>7
 <2> QED BY <2>3, <2>4
<1>13. CASE Visit(t)
 <2>1. /\ pc[t] = "visit" /\ pc'[t] = "unlock" /\ pc[t] \in Busy /\ pc[t] \in Holding
       /\ taken' = taken /\ vLock' = vLock
   BY <1>1, <1>13, StepMoves, StepWrites DEF Visit, Busy, Holding, teamVars
 <2>2. V(t)' = V(t) /\ W(t)' = W(t) /\ vert'[t] = vert[t] /\ j'[t] = j[t]
   BY <1>13, <2>1, SameWork DEF For, TestLock, Unlock
 <2>3. \A s \in Thread : pc'[s] \in Holding <=> pc[s] \in Holding
   BY <1>1, <2>1, StepMoves DEF Holding
 <2>4. \A s \in Thread : pc'[s] \in Holding => W(s)' = W(s)
   BY <1>5, <2>2, <2>3, <1>1, StepMoves DEF Holding, Busy
 <2>5. vLock' = {W(s)' : s \in {r \in Thread : pc'[r] \in Holding}}
   BY <1>1, <2>1, <2>3, <2>4 DEF WorkInv
 <2>6. dist'[W(t)] # Unset
  <3>1. CASE dist[W(t)] # Unset BY <1>4, <1>6, <2>1, <3>1
  <3>2. CASE dist[W(t)] = Unset
   <4>1. /\ dist' = [dist EXCEPT ![W(t)] = NewLevel] /\ W(t) \in Vertex BY <1>13, <3>2, Discovery
   <4>2. dist'[W(t)] = NewLevel BY <1>1, <4>1 DEF TypeOK
   <4> QED BY <4>2, Bounds DEF Unset
  <3> QED BY <3>1, <3>2
 <2>7. \A s \in Thread \ {t} : pc[s] \in Holding => W(s) # W(t)' BY <1>1, <2>1, <2>2 DEF WorkInv
 <2> QED BY <1>1, <1>8, <2>1, <2>2, <2>5, <2>6, <2>7 DEF WorkInv
<1>14. CASE Unlock(t)
 <2>1. /\ pc[t] = "unlock" /\ pc'[t] = "edge" /\ pc[t] \in Busy /\ pc[t] \in Holding
       /\ taken' = taken /\ S' = S /\ vert' = vert
       /\ vLock' = vLock \ {W(t)} /\ j'[t] = j[t] + 1
   BY <1>2, <1>14 DEF Unlock, Goto, Busy, Holding, teamVars
 <2>2. V(t)' = V(t) BY <2>1 DEF V
 <2>3. /\ vert[t] \in taken /\ j[t] \in 1 .. Len(adj[V(t)]) + 1 /\ j[t] <= Len(adj[V(t)])
       /\ Len(adj[V(t)]) \in Nat
   BY <1>1, <2>1, AtWork DEF WorkInv
 <2>4. j'[t] \in 1 .. Len(adj[V(t)]) + 1 BY <2>1, <2>3
 <2>5. pc'[t] \notin Holding /\ pc'[t] # "unlock" BY <2>1 DEF Holding
 <2>6. \A s \in Thread \ {t} : pc'[s] \in Holding <=> pc[s] \in Holding BY <1>1, StepMoves
 <2>7. \A s \in Thread \ {t} : pc[s] \in Holding => W(s)' = W(s) /\ W(s) \in vLock /\ W(s) # W(t)
   BY <1>1, <1>5, <1>6, <1>7, <2>1, StepMoves DEF WorkInv
 <2>8. vLock' = {W(s)' : s \in {r \in Thread : pc'[r] \in Holding}}
  <3>1. vLock = {W(s) : s \in {r \in Thread : pc[r] \in Holding}} BY <1>1 DEF WorkInv
  <3>2. ASSUME NEW w \in vLock' PROVE \E s \in Thread : pc'[s] \in Holding /\ W(s)' = w
    BY <2>1, <2>6, <2>7, <3>1, <3>2
  <3>3. ASSUME NEW s \in Thread, pc'[s] \in Holding PROVE W(s)' \in vLock'
    BY <2>1, <2>5, <2>6, <2>7, <3>3
  <3> QED BY <3>2, <3>3
 <2> QED BY <1>8, <2>1, <2>2, <2>3, <2>4, <2>5, <2>8
<1> QED BY <1>10, <1>11, <1>12, <1>13, <1>14 DEF Step

(***************************************************************************)
(* A neighbour that has been handled stays so: a lock is released when its *)
(* vertex has been visited.                                                *)
(***************************************************************************)
LEMMA TakenStep ==
  ASSUME IInv, NEW t \in Thread, Step(t), ~(Sum(t) /\ t = 0)
  PROVE  TakenInv'
<1> SUFFICES ASSUME pc'[0] \in Expansion, NEW p \in taken', NEW q \in 1 .. Len(adj[S'[p]])
             PROVE  Handled(p, q)'
  BY DEF TakenInv
<1>1. TypeOK /\ Together /\ pc[t] \in Expansion /\ pc[0] \in Expansion
  BY StepKeeps, StepStage, Basics
<1>2. ~Copy(t) BY <1>1 DEF Copy, Expansion, Expanding, Busy, Gone
<1>3. S' = S BY <1>2, StepWrites
<1>4. p \in Frontier /\ S[p] \in Vertex /\ Delta[S[p]] = phase_num
 <2>1. p \in Frontier /\ {S[x] : x \in Frontier} = Level(phase_num)
   BY <1>1, <1>3, FrontierStep, StepKeeps DEF FrontierInv, IInv
 <2> QED BY <2>1 DEF Level
<1>5. q \in 1 .. Len(adj[S[p]]) /\ q \in Nat /\ adj[S[p]][q] \in Vertex BY <1>3, <1>4, GraphTypes
<1> DEFINE x == adj[S[p]][q]
<1>6. dist[x] # Unset => Handled(p, q)' BY <1>3, <1>5, DistStep DEF Handled
<1>7. p \in taken => Handled(p, q) BY <1>1, <1>3, <1>5 DEF IInv, TakenInv
<1>8. \A s \in Thread \ {t} : pc[s] \in Busy => pc'[s] = pc[s] /\ vert'[s] = vert[s] /\ j'[s] = j[s]
  BY <1>1, StepMoves
<1>9. ASSUME NEW s \in Thread \ {t}, pc[s] \in Busy, vert[s] = p, j[s] <= q PROVE Handled(p, q)'
  BY <1>8, <1>9 DEF Handled
<1>10. CASE While(t)
 <2>1. taken' = taken /\ vLock' = vLock BY <1>10 DEF While, teamVars, searchVars
 <2>2. pc[t] \notin Busy BY <1>10 DEF While, Busy
 <2> QED BY <1>3, <1>6, <1>7, <1>9, <2>1, <2>2 DEF Handled
<1>11. CASE For(t)
 <2>1. vLock' = vLock /\ pc[t] \notin Busy BY <1>11 DEF For, Busy, searchVars
 <2>2. CASE p \in taken BY <1>3, <1>6, <1>7, <1>9, <2>1, <2>2 DEF Handled
 <2>3. CASE p \notin taken
  <3>1. taken' # taken BY <2>3
  <3>2. PICK r \in Iterations : /\ taken' = taken \cup {r}
                                /\ vert' = [vert EXCEPT ![t] = r]
                                /\ j' = [j EXCEPT ![t] = 1]
                                /\ pc' = [pc EXCEPT ![t] = "edge"]
    BY <1>11, <3>1 DEF For, Goto
  <3>3. r = p /\ vert'[t] = p /\ j'[t] = 1 /\ pc'[t] = "edge" BY <1>1, <2>3, <3>2 DEF TypeOK
  <3> QED BY <1>5, <3>3 DEF Handled, Busy
 <2> QED BY <2>2, <2>3
<1>12. CASE TestLock(t)
 <2>1. /\ taken' = taken /\ vert' = vert /\ pc[t] = "edge" /\ vLock \subseteq vLock'
   BY <1>12 DEF TestLock, teamVars
 <2>2. Handled(p, q) BY <1>7, <2>1
 <2>3. ASSUME vert[t] = p, j[t] <= q PROVE Handled(p, q)'
  <3>1. V(t) = S[p] /\ j[t] \in Nat /\ ~(j[t] > Len(adj[V(t)])) /\ Len(adj[V(t)]) \in Nat
   <4>1. V(t) = S[p] /\ j[t] \in Nat /\ Len(adj[V(t)]) \in Nat
     BY <1>1, <2>1, <2>3, AtWork DEF V, Busy, TypeOK
   <4> QED BY <1>5, <2>3, <4>1
  <3>2. CASE pc'[t] \in Busy /\ j'[t] <= q BY <2>1, <2>3, <3>2 DEF Handled
  <3>3. CASE ~(pc'[t] \in Busy /\ j'[t] <= q)
   <4>1. W(t) = V(t) \/ W(t) \in vLock
    <5> SUFFICES ASSUME ~(W(t) = V(t) \/ W(t) \in vLock) PROVE FALSE OBVIOUS
    <5>1. j' = j /\ pc' = [pc EXCEPT ![t] = "visit"] BY <1>12, <3>1 DEF TestLock, Goto
    <5> QED BY <1>1, <2>3, <3>3, <5>1 DEF TypeOK, Busy
   <4>2. j'[t] = j[t] + 1 /\ pc' = pc /\ vLock' = vLock
     BY <1>1, <1>12, <3>1, <4>1 DEF TestLock, TypeOK
   <4>3. j[t] = q BY <1>5, <2>1, <2>3, <3>1, <3>3, <4>2 DEF Busy
   <4>4. W(t) = x BY <3>1, <4>3 DEF W
   <4>5. CASE W(t) \in vLock BY <1>3, <4>2, <4>4, <4>5 DEF Handled
   <4>6. CASE W(t) = V(t)
    <5>1. dist[V(t)] = phase_num BY <2>1, AtWork DEF Busy
    <5>2. dist[x] # Unset BY <4>4, <4>6, <5>1, Bounds DEF Unset
    <5> QED BY <1>6, <5>2
   <4> QED BY <4>1, <4>5, <4>6
  <3> QED BY <3>2, <3>3
 <2>4. x \in vLock => Handled(p, q)' BY <1>3, <2>1 DEF Handled
 <2> QED BY <1>6, <1>9, <2>2, <2>3, <2>4 DEF Handled
<1>13. CASE Visit(t)
 <2>1. taken' = taken /\ vLock' = vLock /\ vert' = vert /\ j' = j /\ pc'[t] \in Busy
   BY <1>1, <1>13, StepMoves DEF Visit, Busy, teamVars
 <2>2. Handled(p, q) BY <1>7, <2>1
 <2>3. vert[t] = p /\ j[t] <= q => Handled(p, q)' BY <2>1 DEF Handled
 <2>4. x \in vLock => Handled(p, q)' BY <1>3, <2>1 DEF Handled
 <2> QED BY <1>6, <1>9, <2>2, <2>3, <2>4 DEF Handled
<1>14. CASE Unlock(t)
 <2>1. /\ taken' = taken /\ vLock' = vLock \ {W(t)} /\ vert' = vert
       /\ j'[t] = j[t] + 1 /\ pc'[t] \in Busy /\ pc[t] = "unlock" /\ pc[t] \in Busy
   BY <1>1, <1>14 DEF Unlock, Goto, Busy, teamVars, TypeOK
 <2>2. Handled(p, q) BY <1>7, <2>1
 <2>3. dist[W(t)] # Unset BY <2>1 DEF IInv, WorkInv
 <2>4. vert[t] = p /\ j[t] <= q => Handled(p, q)'
  <3> SUFFICES ASSUME vert[t] = p, j[t] <= q PROVE Handled(p, q)' OBVIOUS
  <3>1. CASE j[t] = q
   <4>1. W(t) = x BY <3>1 DEF W, V
   <4> QED BY <1>6, <2>3, <4>1
  <3>2. CASE j[t] # q
   <4>1. j[t] \in Nat BY <1>1 DEF TypeOK
   <4>2. j'[t] <= q BY <1>5, <2>1, <3>2, <4>1
   <4> QED BY <2>1, <4>2 DEF Handled
  <3> QED BY <3>1, <3>2
 <2>5. x \in vLock => Handled(p, q)' BY <1>3, <1>6, <2>1, <2>3 DEF Handled
 <2> QED BY <1>6, <1>9, <2>2, <2>4, <2>5 DEF Handled
<1> QED
  BY <1>1, <1>10, <1>11, <1>12, <1>13, <1>14 DEF Step, Count, Sum, Copy, Expansion, Expanding, Busy,
     Gone

-----------------------------------------------------------------------------

(***************************************************************************)
(* Outside the expansion the lists hold the new level, each vertex once.   *)
(***************************************************************************)
LEMMA OwnLists ==
  ASSUME IInv, pc[0] \notin Expansion
  PROVE  /\ \A t \in Thread : pc[t] \notin Expansion /\ Found(t) = pS[t]
         /\ pS \in [Thread -> Seq(Vertex)] /\ \A t \in Thread : Len(pS[t]) \in 0 .. N
         /\ NoRepetition(pS)
         /\ UNION {Entries(pS[t]) : t \in Thread} = Level(NewLevel)
<1>1. Together /\ ListsInv /\ pS \in [Thread -> Seq(Vertex)] /\ LevelReady(NewLevel)
  BY DEF IInv, TypeOK, DistInv
<1>2. \A t \in Thread : pc[t] \notin Expansion BY <1>1, SameStage, Basics DEF Stages
<1>3. \A t \in Thread : Found(t) = pS[t] BY <1>2 DEF Found, Expansion
<1>4. NoRepetition(pS) BY <1>1, <1>3 DEF ListsInv, NoRepetition
<1>5. \A t \in Thread : Len(pS[t]) \in 0 .. N /\ Entries(pS[t]) \subseteq Vertex
 <2> TAKE t \in Thread
 <2>1. pS[t] \in Seq(Vertex) BY <1>1
 <2>2. \A q, r \in 1 .. Len(pS[t]) : pS[t][q] = pS[t][r] => q = r BY <1>4 DEF NoRepetition
 <2> QED BY <2>1, <2>2, EntriesCounted
<1>6. \A v \in Vertex : dist[v] = NewLevel <=> Delta[v] = NewLevel
 <2> TAKE v \in Vertex
 <2>1. dist[v] # Unset => dist[v] = Delta[v] BY DEF IInv, DistInv
 <2>2. Delta[v] = NewLevel => v \in Upto(NewLevel) BY Bounds DEF Upto
 <2> QED BY <1>1, <2>1, <2>2, Bounds DEF LevelReady, Unset
<1>7. \A v \in Vertex : dist[v] = NewLevel <=> \E t \in Thread : v \in Entries(pS[t])
 <2> TAKE v \in Vertex
 <2>1. dist[v] = NewLevel => \E t \in Thread : v \in Entries(pS[t])
   BY <1>1, <1>3 DEF ListsInv, Entries
 <2>2. \A t \in Thread : v \in Entries(pS[t]) => dist[v] = NewLevel
   BY <1>1, <1>3 DEF ListsInv, Entries
 <2> QED BY <2>1, <2>2
<1>8. UNION {Entries(pS[t]) : t \in Thread} = Level(NewLevel) BY <1>5, <1>6, <1>7 DEF Level
<1> QED BY <1>1, <1>2, <1>3, <1>4, <1>5, <1>8

(***************************************************************************)
(* Once thread 0 has summed, no two threads copy to the same position.     *)
(***************************************************************************)
LEMMA OwnRange ==
  ASSUME IInv, After, NEW t \in Thread, NEW q \in 1 .. Len(pS[t])
  PROVE  /\ pSCount[t] + q - 1 \in Frontier /\ pSCount[t] + q - 1 \in 0 .. N - 1
         /\ pSCount[t + 1] = pSCount[t] + Len(pS[t])
         /\ pSCount[t] \in 0 .. N /\ pSCount[t + 1] \in 0 .. N
         /\ \A s \in Thread \ {t} : \A r \in 1 .. Len(pS[s]) :
              pSCount[s] + r - 1 # pSCount[t] + q - 1
<1>1. pc[0] \notin Expansion BY DEF After, Summed, Expansion, Expanding, Busy, Gone
<1>2. pSCount \in [0 .. NumT -> 0 .. N] /\ \A s \in Thread : Len(pS[s]) \in Nat
 <2>1. \A s \in Thread : Len(pS[s]) \in 0 .. N BY <1>1, OwnLists
 <2>2. \A s \in Thread : Len(pS[s]) \in Nat BY <2>1, Basics
 <2> QED BY <2>2 DEF IInv, TypeOK
<1>3. /\ pSCount[0] = start[phase_num] /\ pSCount[NumT] = start[phase_num + 1]
      /\ \A s \in Thread : pSCount[s + 1] = pSCount[s] + Len(pS[s])
      /\ \A s, r \in 0 .. NumT : s <= r => pSCount[s] <= pSCount[r]
  BY DEF IInv, SumsInv
<1>4. \A s \in Thread : /\ s \in 0 .. NumT /\ s + 1 \in 0 .. NumT /\ s \in Int
                        /\ 0 \in 0 .. NumT /\ NumT \in 0 .. NumT
                        /\ 0 <= s /\ s + 1 <= NumT
  BY Basics DEF Thread
<1>5. \A s \in Thread : /\ pSCount[s] \in 0 .. N /\ pSCount[s + 1] \in 0 .. N
                        /\ pSCount[0] <= pSCount[s] /\ pSCount[s + 1] <= pSCount[NumT]
  BY <1>2, <1>3, <1>4
<1>6. pSCount[t] <= pSCount[t] + q - 1 /\ pSCount[t] + q - 1 < pSCount[t + 1]
 <2>1. pSCount[t] \in Int /\ Len(pS[t]) \in Nat /\ pSCount[t + 1] = pSCount[t] + Len(pS[t])
   BY <1>2, <1>3, <1>5
 <2> DEFINE a == pSCount[t]
            b == pSCount[t + 1]
            n == Len(pS[t])
 <2>2. a \in Int /\ n \in Nat /\ b = a + n /\ q \in 1 .. n BY <2>1
 <2> HIDE DEF a, b, n
 <2>3. a <= a + q - 1 /\ a + q - 1 < b BY <2>2
 <2> QED BY <2>3 DEF a, b
<1>7. ASSUME NEW s \in Thread, s # t, NEW r \in 1 .. Len(pS[s])
      PROVE  pSCount[s] + r - 1 # pSCount[t] + q - 1
 <2>1. pSCount[s] <= pSCount[s] + r - 1 /\ pSCount[s] + r - 1 < pSCount[s + 1]
  <3>1. pSCount[s] \in Int /\ Len(pS[s]) \in Nat /\ pSCount[s + 1] = pSCount[s] + Len(pS[s])
    BY <1>2, <1>3, <1>5
  <3> DEFINE a == pSCount[s]
             b == pSCount[s + 1]
             n == Len(pS[s])
  <3>2. a \in Int /\ n \in Nat /\ b = a + n /\ r \in 1 .. n BY <3>1
  <3> HIDE DEF a, b, n
  <3>3. a <= a + r - 1 /\ a + r - 1 < b BY <3>2
  <3> QED BY <3>3 DEF a, b
 <2>2. pSCount[s] + r - 1 \in Int /\ pSCount[t] + q - 1 \in Int
  <3>1. pSCount[s] \in Int /\ pSCount[t] \in Int /\ r \in Int /\ q \in Int BY <1>5
  <3> QED BY <3>1
 <2>3. s + 1 <= t \/ t + 1 <= s BY <1>4, <1>7
 <2>4. pSCount[s + 1] <= pSCount[t] \/ pSCount[t + 1] <= pSCount[s] BY <1>3, <1>4, <2>3
 <2> DEFINE a == pSCount[s] + r - 1
            b == pSCount[t] + q - 1
 <2> HIDE DEF a, b
 <2>5. /\ pSCount[s] <= a /\ a < pSCount[s + 1] /\ a \in Int
       /\ pSCount[t] <= b /\ b < pSCount[t + 1] /\ b \in Int
       /\ pSCount[s] \in Int /\ pSCount[s + 1] \in Int
       /\ pSCount[t] \in Int /\ pSCount[t + 1] \in Int
   BY <1>5, <1>6, <2>1, <2>2 DEF a, b
 <2>6. a # b BY <2>4, <2>5
 <2> QED BY <2>6 DEF a, b
<1>8. pSCount[t] + q - 1 \in Frontier
 <2>1. pSCount[0] <= pSCount[t] /\ pSCount[t + 1] <= pSCount[NumT] BY <1>5
 <2>2. /\ pSCount[0] \in Int /\ pSCount[NumT] \in Int /\ pSCount[t + 1] \in Int
       /\ pSCount[t] + q - 1 \in Int /\ pSCount[t] \in Int
   BY <1>2, <1>4, <1>5
 <2> DEFINE b == pSCount[t] + q - 1
 <2>3. b \in pSCount[0] .. pSCount[NumT] - 1 BY <1>6, <2>1, <2>2
 <2> QED BY <1>3, <2>3 DEF Frontier
<1> QED BY <1>3, <1>5, <1>7, <1>8, Bounds

LEMMA SumsStep ==
  ASSUME IInv, NEW t \in Thread, Step(t), ~(Sum(t) /\ t = 0)
  PROVE  SumsInv'
<1>1. TypeOK /\ Together /\ SumsInv /\ 0 \in Thread BY Basics DEF IInv
<1>2. start' = start /\ phase_num' = phase_num /\ After' = After
      /\ Upto(phase_num)' = Upto(phase_num)
  BY StepKeeps
<1>3. CASE pc[t] \in Expansion
 <2>1. \A s \in Thread : pc'[s] \in Expansion BY <1>1, <1>3, StepStage
 <2>2. /\ \A s \in Thread : pc'[s] # "counted"
       /\ pc'[0] # "sum" /\ ~After'
   BY <1>1, <2>1 DEF After, Summed, Expansion, Expanding, Busy, Gone
 <2> QED BY <2>2 DEF SumsInv
<1>4. CASE pc[t] \notin Expansion
 <2>1. ~Visit(t) /\ ~While(t) BY <1>4 DEF Visit, While, Expansion, Expanding, Busy
 <2>2. pS' = pS BY <2>1, StepWrites
 <2>3. CASE Count(t)
  <3>1. \A s \in Thread : pc[s] \in {"count", "counted"} BY <1>1, <2>3, StepStage DEF Count
  <3>2. pc'[0] # "sum" /\ ~After'
   <4>1. pc'[0] = pc[0] \/ pc'[0] = "counted" BY <1>1, <2>3, StepMoves DEF Count
   <4> QED BY <1>1, <3>1, <4>1 DEF After, Summed
  <3>3. /\ pSCount' = [pSCount EXCEPT ![t + 1] = Len(pS[t])]
        /\ pSCount \in [0 .. NumT -> 0 .. N]
    BY <1>1, <2>3 DEF Count, TypeOK
  <3>4. ASSUME NEW s \in Thread, pc'[s] = "counted" PROVE pSCount'[s + 1] = Len(pS[s])
   <4> DEFINE r == s + 1
   <4>1. r \in 0 .. NumT /\ t + 1 \in 0 .. NumT /\ (s = t <=> r = t + 1) BY Basics DEF Thread
   <4>2. s # t => pSCount[r] = Len(pS[s]) BY <1>1, <3>4, StepMoves DEF SumsInv
   <4> HIDE DEF r
   <4>3. pSCount'[r] = Len(pS[s]) BY <3>3, <4>1, <4>2
   <4> QED BY <4>3 DEF r
  <3> QED BY <2>2, <3>2, <3>4 DEF SumsInv
 <2>4. CASE ~Count(t)
  <3>1. pSCount' = pSCount BY <2>4, StepWrites
  <3>2. \A s \in Thread : /\ pc'[s] = "counted" => pc[s] = "counted"
                          /\ pc'[s] = "sum" => pc[s] = "sum"
    BY <1>1, <1>4, <2>4, StepMoves DEF Expansion, Expanding, Busy
  <3> QED BY <1>1, <1>2, <2>2, <3>1, <3>2 DEF SumsInv
 <2> QED BY <2>3, <2>4
<1> QED BY <1>3, <1>4

LEMMA CopyStep ==
  ASSUME IInv, NEW t \in Thread, Step(t), ~(Sum(t) /\ t = 0)
  PROVE  CopyInv'
<1>1. TypeOK /\ Together /\ CopyInv /\ 0 \in Thread BY Basics DEF IInv
<1>2. /\ \A s \in Thread \ {t} : pc'[s] = pc[s] /\ k'[s] = k[s]
      /\ k \in [Thread -> 0 .. N] /\ pc \in [Thread -> Labels]
  BY <1>1, StepMoves DEF TypeOK
<1>3. CASE ~Copy(t)
 <2>1. S' = S /\ k' = k BY <1>3, StepWrites
 <2>2. pc[t] \notin {"copy", "copied"} /\ pc'[t] \notin {"copy", "copied"} BY <1>1, <1>3, StepMoves
 <2>3. \A s \in Thread : pc[s] \notin {"copy", "copied"} BY <1>1, <2>2, SameStage DEF Stages
 <2>4. \A s \in Thread : pc'[s] \notin {"copy", "copied"} BY <1>2, <2>2, <2>3
 <2> QED BY <1>1, <2>1, <2>3, <2>4 DEF CopyInv
<1>4. CASE Copy(t)
 <2>1. /\ pc[t] = "copy" /\ pS' = pS /\ pSCount' = pSCount
       /\ \A s \in Thread : pc[s] \in {"copy", "copied"}
   BY <1>1, <1>4, StepStage DEF Copy
 <2>2. After /\ pc[0] \notin Expansion
   BY <1>1, <2>1 DEF After, Summed, Expansion, Expanding, Busy, Gone
 <2>3. /\ pSCount[t + 1] = pSCount[t] + Len(pS[t])
       /\ pSCount[t] \in 0 .. N /\ Len(pS[t]) \in 0 .. N
       /\ k[t] \in 0 .. N /\ k[t] <= Len(pS[t])
  <3>1. pSCount[t + 1] = pSCount[t] + Len(pS[t]) BY <2>2 DEF IInv, SumsInv
  <3>2. pSCount[t] \in 0 .. N BY <1>1, Basics DEF TypeOK
  <3>3. k[t] \in 0 .. N /\ k[t] <= Len(pS[t]) BY <1>1, <1>2, <2>1 DEF CopyInv
  <3> QED BY <2>2, <3>1, <3>2, <3>3, OwnLists
 <2> DEFINE a == pSCount[t]
            n == Len(pS[t])
            i == k[t]
 <2>4. /\ a \in Int /\ n \in Nat /\ i \in Nat /\ i <= n
       /\ (From(t) + k[t] < pSCount[t + 1] <=> a + i < a + n)
  <3>1. a \in Int /\ n \in Nat /\ i \in Nat /\ i <= n BY <2>3, Basics
  <3> QED BY <2>3, <3>1 DEF From
 <2>5. \A q \in 1 .. i : S[a + q - 1] = pS[t][q] BY <1>1, <2>1 DEF CopyInv
 <2>6. CASE i < n
  <3>1. From(t) + k[t] < pSCount[t + 1] BY <2>4, <2>6
  <3>2. /\ S' = [S EXCEPT ![a + i] = pS[t][i + 1]]
        /\ k' = [k EXCEPT ![t] = i + 1] /\ pc' = pc
    BY <1>4, <3>1 DEF Copy, From
  <3>3. i + 1 \in 1 .. n BY <2>4, <2>6
  <3>4. /\ a + (i + 1) - 1 \in 0 .. N - 1
        /\ \A s \in Thread \ {t} : \A r \in 1 .. Len(pS[s]) :
             pSCount[s] + r - 1 # a + (i + 1) - 1
    BY <2>2, <3>3, OwnRange
  <3>5. a + (i + 1) - 1 = a + i
   <4> HIDE DEF a, i
   <4> QED BY <2>4
  <3>6. /\ \A x : x # a + i => S'[x] = S[x]
        /\ S'[a + i] = pS[t][i + 1]
    BY <1>1, <3>2, <3>4, <3>5 DEF TypeOK
  <3>7. \A s \in Thread \ {t} : \A r \in 1 .. Len(pS[s]) :
          S'[pSCount[s] + r - 1] = S[pSCount[s] + r - 1]
    BY <3>4, <3>5, <3>6
  <3>8. \A q \in 1 .. i + 1 : S'[a + q - 1] = pS[t][q]
   <4> TAKE q \in 1 .. i + 1
   <4> HIDE DEF a, i
   <4>1. CASE q = i + 1 BY <2>4, <3>6, <4>1
   <4>2. CASE q # i + 1
    <5>1. q \in 1 .. i /\ a + q - 1 # a + i BY <2>4, <4>2
    <5> QED BY <2>5, <3>6, <5>1
   <4> QED BY <4>1, <4>2
  <3>9. k'[t] = i + 1 /\ i + 1 <= n BY <1>2, <2>4, <2>6, <3>2
  <3>10. ASSUME NEW s \in Thread, s # t
         PROVE  /\ pc[s] # "copy" => k'[s] = 0
                /\ pc[s] = "copy" =>
                     /\ k'[s] <= Len(pS[s])
                     /\ \A q \in 1 .. k'[s] : S'[pSCount[s] + q - 1] = pS[s][q]
                /\ pc[s] = "copied" =>
                     \A q \in 1 .. Len(pS[s]) : S'[pSCount[s] + q - 1] = pS[s][q]
   <4>1. k'[s] = k[s] /\ k[s] \in Nat /\ Len(pS[s]) \in Nat BY <1>2, <2>2, <3>10, OwnLists, Basics
   <4>2. /\ pc[s] # "copy" => k[s] = 0
         /\ pc[s] = "copy" =>
              /\ k[s] <= Len(pS[s])
              /\ \A q \in 1 .. k[s] : S[pSCount[s] + q - 1] = pS[s][q]
         /\ pc[s] = "copied" =>
              \A q \in 1 .. Len(pS[s]) : S[pSCount[s] + q - 1] = pS[s][q]
     BY <1>1 DEF CopyInv
   <4>3. pc[s] = "copy" => \A q \in 1 .. k[s] : q \in 1 .. Len(pS[s]) BY <4>1, <4>2
   <4> QED BY <3>7, <3>10, <4>1, <4>2, <4>3
  <3>11. \A s \in Thread : pc'[s] # "copy" => k'[s] = 0 BY <2>1, <3>2, <3>10
  <3>12. \A s \in Thread : pc'[s] = "copy" =>
           /\ k'[s] <= Len(pS'[s])
           /\ \A q \in 1 .. k'[s] : S'[pSCount'[s] + q - 1] = pS'[s][q]
    BY <2>1, <3>2, <3>8, <3>9, <3>10
  <3>13. \A s \in Thread : pc'[s] = "copied" =>
           \A q \in 1 .. Len(pS'[s]) : S'[pSCount'[s] + q - 1] = pS'[s][q]
    BY <2>1, <3>2, <3>10
  <3> QED BY <3>11, <3>12, <3>13 DEF CopyInv
 <2>7. CASE ~(i < n)
  <3>1. ~(From(t) + k[t] < pSCount[t + 1]) /\ i = n
   <4>1. ~(a + i < a + n) /\ i = n
    <5> HIDE DEF a, i, n
    <5> QED BY <2>4, <2>7
   <4> QED BY <2>4, <4>1
  <3>2. S' = S /\ k' = [k EXCEPT ![t] = 0] /\ pc' = [pc EXCEPT ![t] = "copied"]
    BY <1>4, <3>1 DEF Copy, Goto
  <3>3. k'[t] = 0 /\ pc'[t] = "copied" BY <1>2, <3>2
  <3>4. \A q \in 1 .. Len(pS[t]) : S'[pSCount[t] + q - 1] = pS[t][q] BY <2>5, <3>1, <3>2
  <3> QED BY <1>1, <1>2, <2>1, <3>2, <3>3, <3>4 DEF CopyInv
 <2> QED BY <2>6, <2>7
<1> QED BY <1>3, <1>4

LEMMA TypeStep ==
  ASSUME IInv, NEW t \in Thread, Step(t), ~(Sum(t) /\ t = 0)
  PROVE  TypeOK'
<1>1. /\ S \in [0 .. N - 1 -> Vertex \cup {Free}]
      /\ start \in [0 .. N + 2 -> 0 .. N]
      /\ pSCount \in [0 .. NumT -> 0 .. N]
      /\ phase_num \in 0 .. N
      /\ vLock \subseteq Vertex
      /\ vis \in [Vertex -> BOOLEAN]
      /\ dist \in [Vertex -> Unset .. MaxDelta]
      /\ taken \subseteq 0 .. N - 1
      /\ pc \in [Thread -> Labels]
      /\ vert \in [Thread -> 0 .. N - 1]
      /\ j \in [Thread -> Nat]
      /\ pS \in [Thread -> Seq(Vertex)]
      /\ k \in [Thread -> 0 .. N]
  BY DEF IInv, TypeOK
<1>2. start' = start /\ phase_num' = phase_num BY StepWrites
<1>3. pc' \in [Thread -> Labels]
 <2>1. \E l \in Labels : pc' = [pc EXCEPT ![t] = l] \/ pc' = pc
   BY DEF Step, While, For, TestLock, Visit, Unlock, Count, Sum, Copy, Goto, Labels, Barriers
 <2> QED BY <1>1, <2>1
<1>4. CASE While(t)
 <2>1. pS' = [pS EXCEPT ![t] = <<>>] \/ pS' = pS BY <1>4 DEF While
 <2>2. pS \in [Thread -> Seq(Vertex)] /\ <<>> \in Seq(Vertex) BY <1>1
 <2>3. pS' \in [Thread -> Seq(Vertex)] BY <2>1, <2>2, Zenon
 <2> QED BY <1>1, <1>2, <1>3, <1>4, <2>3 DEF While, TypeOK, teamVars, searchVars
<1>5. CASE For(t)
 <2>1. Iterations \subseteq 0 .. N - 1 BY Bounds DEF Iterations, Frontier
 <2>2. \/ taken' = taken /\ vert' = vert /\ j' = j
       \/ \E p \in Iterations :
            /\ taken' = taken \cup {p} /\ vert' = [vert EXCEPT ![t] = p]
            /\ j' = [j EXCEPT ![t] = 1]
   BY <1>5 DEF For
 <2>3. taken' \subseteq 0 .. N - 1 BY ZenonT(40), <1>1, <2>1, <2>2
 <2>4. vert' \in [Thread -> 0 .. N - 1]
  <3>1. vert \in [Thread -> 0 .. N - 1] BY <1>1
  <3> QED BY <2>1, <2>2, <3>1, Zenon
 <2>5. j' \in [Thread -> Nat]
  <3>1. j \in [Thread -> Nat] /\ 1 \in Nat BY <1>1
  <3> QED BY <2>2, <3>1, Zenon
 <2> QED BY <1>1, <1>2, <1>3, <1>5, <2>3, <2>4, <2>5 DEF For, TypeOK, searchVars
<1>6. CASE TestLock(t)
 <2>1. pc[t] \in Busy BY <1>6 DEF TestLock, Busy
 <2>2. Len(adj[V(t)]) \in Nat /\ (j[t] <= Len(adj[V(t)]) => W(t) \in Vertex) BY <2>1, AtWork
 <2>3. j[t] \in Nat BY <1>1
 <2>4. j' = j \/ j' = [j EXCEPT ![t] = j[t] + 1] BY <1>6 DEF TestLock
 <2>5. j' \in [Thread -> Nat]
  <3>1. j \in [Thread -> Nat] /\ j[t] + 1 \in Nat BY <1>1, <2>3
  <3> QED BY <2>4, <3>1, Zenon
 <2>6. vLock' \subseteq Vertex
  <3>1. vLock' = vLock \/ (~(j[t] > Len(adj[V(t)])) /\ vLock' = vLock \cup {W(t)})
    BY <1>6 DEF TestLock
  <3> QED BY <1>1, <2>2, <2>3, <3>1
 <2> QED BY <1>1, <1>2, <1>3, <1>6, <2>5, <2>6 DEF TestLock, TypeOK, teamVars
<1>7. CASE Visit(t)
 <2>1. W(t) \in Vertex /\ (Delta[W(t)] = NewLevel => NewLevel \in Unset .. MaxDelta)
   BY <1>7, Discovery, DistanceAssumption
 <2>2. \/ dist' = dist /\ vis' = vis /\ pS' = pS
       \/ /\ dist' = [dist EXCEPT ![W(t)] = NewLevel] /\ NewLevel \in Unset .. MaxDelta
          /\ vis' = [vis EXCEPT ![W(t)] = TRUE]
          /\ pS' = [pS EXCEPT ![t] = Append(pS[t], W(t))]
   BY <1>7, <2>1, Discovery
 <2>3. pS[t] \in Seq(Vertex) BY <1>1
 <2>4. Append(pS[t], W(t)) \in Seq(Vertex) BY <2>1, <2>3
 <2>5. /\ dist' \in [Vertex -> Unset .. MaxDelta] /\ vis' \in [Vertex -> BOOLEAN] BY <1>1, <2>2
 <2>6. pS' \in [Thread -> Seq(Vertex)] BY <1>1, <2>2, <2>4
 <2> QED BY <1>1, <1>2, <1>3, <1>7, <2>5, <2>6 DEF Visit, TypeOK, teamVars
<1>8. CASE Unlock(t)
 <2>1. j[t] + 1 \in Nat BY <1>1
 <2>2. j' \in [Thread -> Nat] /\ vLock' \subseteq Vertex BY <1>1, <1>8, <2>1 DEF Unlock
 <2> QED BY <1>1, <1>2, <1>3, <1>8, <2>2 DEF Unlock, TypeOK, teamVars
<1>9. CASE Count(t)
 <2>1. pc[0] \notin Expansion
  <3>1. pc[0] \in {"count", "counted"} BY <1>9, StepStage, Basics DEF IInv, Count
  <3> QED BY <3>1 DEF Expansion, Expanding, Busy, Gone
 <2>2. Len(pS[t]) \in 0 .. N BY <2>1, OwnLists
 <2>3. pSCount' \in [0 .. NumT -> 0 .. N] BY <1>1, <1>9, <2>2 DEF Count
 <2> QED BY <1>1, <1>2, <1>3, <1>9, <2>3 DEF Count, TypeOK, searchVars, localVars
<1>10. CASE Sum(t) BY <1>1, <1>2, <1>3, <1>10 DEF Sum, TypeOK, searchVars, localVars
<1>11. CASE Copy(t)
 <2>1. pc[t] = "copy" /\ pc[0] \in {"copy", "copied"} BY <1>11, StepStage, Basics DEF IInv, Copy
 <2>2. pc[0] \notin Expansion /\ After BY <2>1 DEF After, Summed, Expansion, Expanding, Busy, Gone
 <2>3. Len(pS[t]) \in 0 .. N /\ k[t] \in 0 .. N /\ pS[t] \in Seq(Vertex)
       /\ pSCount[t] \in 0 .. N
   BY <1>1, <2>2, OwnLists, Basics
 <2>4. CASE From(t) + k[t] < pSCount[t + 1]
  <3> DEFINE a == pSCount[t]
             n == Len(pS[t])
             i == k[t]
  <3>1. /\ a \in Int /\ n \in 0 .. N /\ i \in Nat /\ N \in Nat
        /\ a + i < a + n
   <4>1. pSCount[t + 1] = a + n BY <2>2 DEF IInv, SumsInv
   <4> QED BY <2>3, <2>4, <4>1, Basics DEF From
  <3>2. i + 1 \in 1 .. n /\ i + 1 \in 0 .. N
   <4> HIDE DEF a, i, n
   <4> QED BY <3>1
  <3>3. pS[t][i + 1] \in Vertex BY <2>3, <3>2
  <3>4. /\ S' = [S EXCEPT ![a + i] = pS[t][i + 1]]
        /\ k' = [k EXCEPT ![t] = i + 1]
    BY <1>11, <2>4 DEF Copy, From
  <3>5. S' \in [0 .. N - 1 -> Vertex \cup {Free}] BY <1>1, <3>3, <3>4
  <3>6. k' \in [Thread -> 0 .. N] BY <1>1, <3>2, <3>4
  <3> QED BY <1>1, <1>2, <1>3, <1>11, <3>5, <3>6 DEF Copy, TypeOK, searchVars
 <2>5. CASE ~(From(t) + k[t] < pSCount[t + 1])
  <3>1. S' = S /\ k' = [k EXCEPT ![t] = 0] /\ 0 \in 0 .. N BY <1>11, <2>5, Basics DEF Copy
  <3>2. k' \in [Thread -> 0 .. N] BY <1>1, <3>1
  <3> QED BY <1>1, <1>2, <1>3, <1>11, <3>1, <3>2 DEF Copy, TypeOK, searchVars
 <2> QED BY <2>4, <2>5
<1> QED BY <1>4, <1>5, <1>6, <1>7, <1>8, <1>9, <1>10, <1>11 DEF Step

LEMMA StepInv ==
  ASSUME IInv, NEW t \in Thread, Step(t), ~(Sum(t) /\ t = 0)
  PROVE  IInv'
  BY TypeStep, StepStage, PhasesStep, DistStep, ListsStep, FrontierStep, WorkStep, TakenStep,
     SumsStep, CopyStep DEF IInv

-----------------------------------------------------------------------------

LEMMA LevelCounted ==
  ASSUME NEW d \in Nat
  PROVE  /\ Cardinality(Upto(d)) \in 0 .. N
         /\ Cardinality(Upto(d + 1)) = Cardinality(Upto(d)) + Cardinality(Level(d + 1))
<1> DEFINE A == Upto(d)
           B == Level(d + 1)
<1>1. IsFiniteSet(A) /\ Cardinality(A) <= N
 <2>1. A \in SUBSET Vertex BY DEF Upto
 <2> HIDE DEF A
 <2> QED BY <2>1, Basics, FS_Subset
<1>2. IsFiniteSet(B)
 <2>1. B \in SUBSET Vertex BY DEF Level
 <2> HIDE DEF B
 <2> QED BY <2>1, Basics, FS_Subset
<1>3. A \cap B = {} BY GraphTypes DEF Upto, Level
<1>4. Upto(d + 1) = A \cup B
 <2>1. \A x \in Int : x \in 0 .. d + 1 <=> x \in 0 .. d \/ x = d + 1 OBVIOUS
 <2>2. \A v \in Vertex : Delta[v] \in 0 .. d + 1 <=> Delta[v] \in 0 .. d \/ Delta[v] = d + 1
   BY <2>1, GraphTypes
 <2> QED BY <2>2 DEF Upto, Level
<1>5. Cardinality(A) \in Nat /\ Cardinality(B) \in Nat /\ Cardinality({}) = 0
  BY <1>1, <1>2, FS_CardinalityType, FS_EmptySet
<1> HIDE DEF A, B
<1>6. Cardinality(A \cup B) = Cardinality(A) + Cardinality(B) - Cardinality(A \cap B)
  BY <1>1, <1>2, FS_Union
<1>7. Cardinality(A \cap B) = 0 BY <1>3, <1>5, Zenon
<1>8. Cardinality(A \cup B) = Cardinality(A) + Cardinality(B) BY <1>5, <1>6, <1>7
<1>9. Cardinality(Upto(d + 1)) = Cardinality(A) + Cardinality(B) BY <1>4, <1>8, Zenon
<1>10. Cardinality(A) \in 0 .. N BY <1>1, <1>5, Basics
<1> QED BY <1>9, <1>10 DEF A, B

(***************************************************************************)
(* The sums are where the next level starts, where each thread copies to,  *)
(* and where the level after it will start.                                *)
(***************************************************************************)
LEMMA SumsAre ==
  ASSUME IInv, pc[0] = "sum"
  PROVE  /\ MoreLevel /\ ~After /\ NewLevel = phase_num + 1 /\ phase_num + 1 \in 0 .. N
         /\ phase_num + 1 <= start[phase_num + 1]
         /\ Sums \in [0 .. NumT -> 0 .. N]
         /\ Sums[0] = start[phase_num + 1]
         /\ \A t \in Thread : Sums[t + 1] = Sums[t] + Len(pS[t])
         /\ \A s, t \in 0 .. NumT : s <= t => Sums[s] <= Sums[t]
         /\ Sums[NumT] = Cardinality(Upto(phase_num + 1))
         /\ start[phase_num + 1] = Cardinality(Upto(phase_num))
         /\ \A t \in Thread : pc[t] \in {"sum", "summed"}
<1>1. MoreLevel /\ ~After /\ NewLevel = phase_num + 1 /\ pc[0] \notin Expansion
  BY DEF IInv, PhasesInv, After, NewLevel, Summed, Expansion, Expanding, Busy, Gone
<1>2. /\ phase_num \in Nat /\ phase_num + 1 \in 0 .. N + 2 /\ phase_num + 1 \in 0 .. N
      /\ phase_num + 1 <= start[phase_num + 1]
  BY <1>1, Bounds, Basics
<1>3. TypeOK /\ Together /\ \A t \in Thread : pSCount[t + 1] = Len(pS[t]) BY DEF IInv, SumsInv
<1>4. \A t \in Thread : pc[t] \in {"sum", "summed"} BY <1>3, SameStage, Basics DEF Stages
<1>5. /\ Sums \in [0 .. NumT -> Int] /\ Sums[0] = start[phase_num + 1]
      /\ \A t \in Thread : Sums[t + 1] = Sums[t] + Len(pS[t])
  BY <1>2, <1>3, SumsEquations
<1>6. /\ pS \in [Thread -> Seq(Vertex)] /\ NoRepetition(pS)
      /\ UNION {Entries(pS[t]) : t \in Thread} = Level(phase_num + 1)
  BY <1>1, OwnLists
<1>7. /\ \A s, t \in 0 .. NumT : s <= t => Sums[s] <= Sums[t]
      /\ Sums[NumT] = Sums[0] + Cardinality(UNION {Entries(pS[t]) : t \in Thread})
  BY <1>5, <1>6, ListsCounted
<1>8. start[phase_num + 1] = Cardinality(Upto(phase_num))
 <2>1. start[phase_num + 1] = Cardinality(Upto((phase_num + 1) - 1))
  <3>1. start[NewLevel] = Cardinality(Upto(NewLevel - 1)) BY DEF IInv, PhasesInv
  <3> QED BY <1>1, <3>1, Zenon
 <2>2. (phase_num + 1) - 1 = phase_num BY <1>2
 <2> QED BY <2>1, <2>2, Zenon
<1>9. Sums[NumT] = Cardinality(Upto(phase_num)) + Cardinality(Level(phase_num + 1))
  BY <1>5, <1>6, <1>7, <1>8, Zenon
<1>10. /\ Cardinality(Upto(phase_num + 1)) = Cardinality(Upto(phase_num)) + Cardinality(Level(phase_num + 1))
       /\ Cardinality(Upto(phase_num + 1)) \in 0 .. N
  BY <1>2, LevelCounted
<1>11. Sums[NumT] = Cardinality(Upto(phase_num + 1)) /\ Sums[NumT] \in 0 .. N BY <1>9, <1>10, Zenon
<1>12. \A t \in 0 .. NumT : Sums[t] \in 0 .. N
 <2> TAKE t \in 0 .. NumT
 <2>1. 0 \in 0 .. NumT /\ NumT \in 0 .. NumT /\ 0 <= t /\ t <= NumT BY Basics
 <2>2. Sums[0] <= Sums[t] /\ Sums[t] <= Sums[NumT] BY <1>7, <2>1
 <2>3. Sums[t] \in Int /\ Sums[0] \in 0 .. N BY <1>5, Bounds
 <2> QED BY <1>11, <2>2, <2>3, Basics
<1>13. Sums \in [0 .. NumT -> 0 .. N] BY <1>5, <1>12
<1> QED BY <1>1, <1>2, <1>4, <1>5, <1>7, <1>8, <1>11, <1>13

(***************************************************************************)
(* Thread 0 turns the counts into positions and goes to the next phase.    *)
(***************************************************************************)
LEMMA SumZero ==
  ASSUME IInv, Sum(0)
  PROVE  IInv'
<1>1. /\ pc[0] = "sum" /\ pSCount' = Sums /\ phase_num' = phase_num + 1
      /\ start' = [start EXCEPT ![phase_num + 2] = Sums[NumT]]
      /\ pc' = [pc EXCEPT ![0] = "summed"]
      /\ S' = S /\ taken' = taken /\ vLock' = vLock /\ vis' = vis /\ dist' = dist
      /\ vert' = vert /\ j' = j /\ pS' = pS /\ k' = k
  BY DEF Sum, Goto, searchVars, localVars
<1>2. TypeOK /\ Together /\ 0 \in Thread BY Basics DEF IInv
<1>3. /\ MoreLevel /\ ~After /\ NewLevel = phase_num + 1 /\ phase_num + 1 \in 0 .. N
      /\ phase_num + 1 <= start[phase_num + 1]
      /\ Sums \in [0 .. NumT -> 0 .. N] /\ Sums[0] = start[phase_num + 1]
      /\ \A t \in Thread : Sums[t + 1] = Sums[t] + Len(pS[t])
      /\ \A s, t \in 0 .. NumT : s <= t => Sums[s] <= Sums[t]
      /\ Sums[NumT] = Cardinality(Upto(phase_num + 1))
      /\ start[phase_num + 1] = Cardinality(Upto(phase_num))
      /\ \A t \in Thread : pc[t] \in {"sum", "summed"}
  BY <1>1, SumsAre
<1>4. /\ start \in [0 .. N + 2 -> 0 .. N] /\ pc \in [Thread -> Labels]
      /\ phase_num \in 0 .. N /\ phase_num \in Nat
      /\ phase_num + 1 \in 0 .. N + 2 /\ phase_num + 2 \in 0 .. N + 2
      /\ phase_num + 1 # phase_num + 2 /\ (phase_num + 1) + 1 = phase_num + 2
      /\ (phase_num + 1) - 1 = phase_num
      /\ NumT \in 0 .. NumT /\ Sums[NumT] \in 0 .. N
 <2>1. phase_num \in 0 .. N /\ NumT \in Nat /\ N \in Nat BY <1>2, Basics DEF TypeOK
 <2>2. /\ phase_num \in Nat /\ phase_num + 1 \in 0 .. N + 2 /\ phase_num + 2 \in 0 .. N + 2
       /\ phase_num + 1 # phase_num + 2 /\ (phase_num + 1) + 1 = phase_num + 2
       /\ (phase_num + 1) - 1 = phase_num /\ NumT \in 0 .. NumT
   BY <2>1
 <2>3. Sums[NumT] \in 0 .. N BY <1>3, <2>2
 <2> QED BY <1>2, <2>1, <2>2, <2>3 DEF TypeOK
<1>5. /\ start'[phase_num + 1] = start[phase_num + 1] /\ start'[phase_num + 2] = Sums[NumT]
      /\ start' \in [0 .. N + 2 -> 0 .. N]
  BY <1>1, <1>4
<1>6. /\ \A t \in Thread : pc'[t] \in {"sum", "summed"}
      /\ pc'[0] = "summed" /\ pc' \in [Thread -> Labels]
 <2>1. "summed" \in Labels BY DEF Labels, Barriers
 <2> QED BY <1>1, <1>2, <1>3, <1>4, <2>1
<1>7. After' /\ NewLevel' = phase_num + 1 /\ NewLevel' = NewLevel
  BY <1>1, <1>3, <1>6 DEF After, Summed, NewLevel
<1>8. \A t \in Thread : /\ pc'[t] \notin Expansion /\ pc'[t] \notin Busy /\ pc'[t] \notin Holding
                        /\ pc[t] \notin Expansion /\ pc[t] \notin Busy /\ pc[t] \notin Holding
  BY <1>3, <1>6 DEF Expansion, Expanding, Busy, Gone, Holding
<1>9. TypeOK' BY <1>1, <1>2, <1>3, <1>5, <1>6 DEF TypeOK
<1>10. Together' BY <1>6 DEF Together, Stages
<1>11. PhasesInv'
 <2>1. \A t \in Thread : /\ pc'[t] \notin Expanding \cup {"count", "counted"}
                         /\ pc'[t] \notin Gone
   BY <1>6 DEF Expanding, Busy, Gone
 <2>2. phase_num' <= start'[phase_num'] BY <1>1, <1>3, <1>5
 <2>3. (start[NewLevel] = Cardinality(Upto(NewLevel - 1)))'
  <3>1. start'[phase_num + 1] = Cardinality(Upto((phase_num + 1) - 1)) BY <1>3, <1>4, <1>5, Zenon
  <3>2. \A d : Upto(d)' = Upto(d) BY DEF Upto
  <3> QED BY <1>7, <3>1, <3>2, Zenon
 <2> QED BY <1>6, <2>1, <2>2, <2>3 DEF PhasesInv
<1>12. DistInv'
 <2>1. \A d : LevelReady(d)' = LevelReady(d) BY <1>1 DEF LevelReady, Upto
 <2>2. /\ DistInv /\ LevelReady(NewLevel) /\ pc[0] \notin Expansion BY <1>2, <1>8 DEF IInv, DistInv
 <2>3. NewLevel' - 1 = NewLevel - 1 BY <1>7
 <2>4. /\ \A v \in Vertex : vis'[v] <=> dist'[v] # Unset
       /\ \A v \in Vertex : dist'[v] # Unset => dist'[v] = Delta[v] /\ dist'[v] <= NewLevel'
   BY <1>1, <1>7, <2>2 DEF DistInv
 <2>5. LevelReady(NewLevel - 1)' /\ LevelReady(NewLevel)'
   BY <1>1, <1>7, <2>2 DEF DistInv, LevelReady, Upto
 <2> QED BY <2>4, <2>5 DEF DistInv
<1>13. ListsInv'
 <2>1. \A t \in Thread : Found(t)' = Found(t) BY <1>1, <1>3, <1>6 DEF Found, Gone
 <2>2. ListsInv BY DEF IInv
 <2> QED BY <1>1, <1>7, <2>1, <2>2 DEF ListsInv
<1>14. FrontierInv' /\ TakenInv' BY <1>2, <1>8 DEF FrontierInv, TakenInv
<1>15. WorkInv'
 <2>1. vLock = {W(t) : t \in {s \in Thread : pc[s] \in Holding}} BY DEF IInv, WorkInv
 <2>2. vLock' = {} BY <1>1, <1>8, <2>1
 <2>3. {s \in Thread : pc'[s] \in Holding} = {} /\ \A t \in Thread : pc'[t] # "unlock" BY <1>6, <1>8
 <2> QED BY <1>8, <2>2, <2>3 DEF WorkInv
<1>16. SumsInv'
 <2>1. \A t \in Thread : pc'[t] # "counted" BY <1>6
 <2>2. /\ pSCount'[0] = start'[phase_num'] /\ pSCount'[NumT] = start'[phase_num' + 1]
   BY <1>1, <1>3, <1>4, <1>5
 <2>3. /\ \A t \in Thread : pSCount'[t + 1] = pSCount'[t] + Len(pS'[t])
       /\ \A s, t \in 0 .. NumT : s <= t => pSCount'[s] <= pSCount'[t]
   BY <1>1, <1>3
 <2>4. (start[phase_num + 1] = Cardinality(Upto(phase_num)))'
  <3>1. start'[(phase_num + 1) + 1] = Cardinality(Upto(phase_num + 1)) BY <1>3, <1>4, <1>5, Zenon
  <3>2. \A d : Upto(d)' = Upto(d) BY DEF Upto
  <3> QED BY <1>1, <3>1, <3>2, Zenon
 <2> QED BY <1>6, <2>1, <2>2, <2>3, <2>4 DEF SumsInv
<1>17. CopyInv'
 <2>1. \A t \in Thread : /\ pc[t] # "copy" /\ pc'[t] # "copy" /\ pc'[t] # "copied" BY <1>3, <1>6
 <2>2. CopyInv BY DEF IInv
 <2> QED BY <1>1, <2>1, <2>2 DEF CopyInv
<1> QED BY <1>9, <1>10, <1>11, <1>12, <1>13, <1>14, <1>15, <1>16, <1>17 DEF IInv

-----------------------------------------------------------------------------

(***************************************************************************)
(* At a barrier nobody holds a lock.                                       *)
(***************************************************************************)
LEMMA AtBarrier ==
  ASSUME IInv, Barrier
  PROVE  /\ TypeOK' /\ Together' /\ WorkInv'
         /\ vLock = {} /\ \A t \in Thread : pc[t] \notin Busy /\ pc'[t] \notin Busy
         /\ \A d : Upto(d)' = Upto(d)
<1>1. TypeOK /\ Together BY DEF IInv
<1>2. /\ UNCHANGED <<S, start, pSCount, phase_num, vLock, vis, dist, vert, j, pS, k>>
      /\ taken' = taken \/ taken' = {}
      /\ \/ AllAt("expanded") /\ pc' = [t \in Thread |-> "count"]
         \/ AllAt("counted") /\ pc' = [t \in Thread |-> "sum"]
         \/ AllAt("summed") /\ pc' = [t \in Thread |-> "copy"]
         \/ AllAt("copied") /\ pc' = [t \in Thread |-> "while"]
         \/ AllAt("left") /\ pc' = [t \in Thread |-> "returned"]
  BY <1>1, BarrierMoves
<1>3. \A t \in Thread : /\ pc[t] \notin Busy /\ pc'[t] \notin Busy
                        /\ pc[t] \notin Holding /\ pc'[t] \notin Holding
                        /\ pc'[t] # "unlock"
  BY <1>2 DEF AllAt, Busy, Holding
<1>4. TypeOK'
 <2>1. pc' \in [Thread -> Labels] BY <1>2 DEF Labels, Barriers
 <2>2. taken' \subseteq 0 .. N - 1 BY <1>1, <1>2 DEF TypeOK
 <2> QED BY <1>1, <1>2, <2>1, <2>2 DEF TypeOK
<1>5. Together'
 <2>1. \A t \in Thread : pc'[t] = pc'[0] BY <1>2, Basics
 <2>2. \E g \in Stages : pc'[0] \in g BY <1>2, Basics DEF Stages, Expansion, Gone
 <2> QED BY <2>1, <2>2 DEF Together
<1>6. vLock = {}
 <2>1. vLock = {W(t) : t \in {s \in Thread : pc[s] \in Holding}} BY DEF IInv, WorkInv
 <2> QED BY <1>3, <2>1
<1>7. WorkInv'
 <2>1. vLock' = {} /\ {s \in Thread : pc'[s] \in Holding} = {} BY <1>2, <1>3, <1>6
 <2> QED BY <1>3, <2>1 DEF WorkInv
<1>8. \A d : Upto(d)' = Upto(d) BY DEF Upto
<1> QED BY <1>3, <1>4, <1>5, <1>6, <1>7, <1>8

(***************************************************************************)
(* When the level is expanded, every neighbour of it has its distance:     *)
(* none is left to a thread that holds its lock.                           *)
(***************************************************************************)
LEMMA LevelExpanded ==
  ASSUME IInv, Barrier, AllAt("expanded")
  PROVE  LevelReady(phase_num + 1)
<1>1. pc[0] = "expanded" /\ pc[0] \in Expansion /\ 0 \in Thread
  BY Basics DEF AllAt, Expansion, Expanding
<1>2. NewLevel = phase_num + 1 /\ phase_num \in Nat
  BY <1>1, Bounds, Basics DEF NewLevel, After, Summed
<1>3. LevelReady(phase_num)
 <2>1. LevelReady(NewLevel - 1) BY DEF IInv, DistInv
 <2>2. NewLevel - 1 = phase_num BY <1>2
 <2> QED BY <2>1, <2>2, Zenon
<1>4. /\ {S[p] : p \in Frontier} = Level(phase_num)
      /\ Frontier \subseteq taken
      /\ \A p \in taken : \A q \in 1 .. Len(adj[S[p]]) : Handled(p, q)
  BY <1>1 DEF IInv, FrontierInv, TakenInv
<1> SUFFICES ASSUME NEW v \in Upto(phase_num + 1) PROVE dist[v] = Delta[v] BY DEF LevelReady
<1>5. v \in Vertex /\ Delta[v] \in 0 .. phase_num + 1 /\ Delta[v] \in Int BY GraphTypes DEF Upto
<1>6. CASE Delta[v] <= phase_num
 <2>1. v \in Upto(phase_num) BY <1>2, <1>5, <1>6 DEF Upto
 <2> QED BY <1>3, <2>1 DEF LevelReady
<1>7. CASE ~(Delta[v] <= phase_num)
 <2>1. Delta[v] = phase_num + 1 /\ Delta[v] > 0 BY <1>2, <1>5, <1>7
 <2>2. PICK u \in Vertex : Delta[u] = Delta[v] - 1 /\ v \in Neighbors(u)
   BY <1>5, <2>1, DistanceAssumption
 <2>3. u \in Level(phase_num) BY <1>2, <2>1, <2>2 DEF Level
 <2>4. PICK p \in Frontier : S[p] = u BY <1>4, <2>3
 <2>5. PICK q \in 1 .. Len(adj[u]) : v = adj[u][q] BY <2>2, GraphTypes
 <2>6. Handled(p, q) BY <1>4, <2>4, <2>5
 <2>7. dist[v] # Unset BY <2>4, <2>5, <2>6, AtBarrier DEF Handled
 <2> QED BY <1>5, <2>7 DEF IInv, DistInv
<1> QED BY <1>6, <1>7

(***************************************************************************)
(* What has been copied is the next level, each vertex once.               *)
(***************************************************************************)
LEMMA LevelCopied ==
  ASSUME IInv, Barrier, AllAt("copied")
  PROVE  /\ {S[p] : p \in Frontier} = Level(phase_num)
         /\ \A p, q \in Frontier : S[p] = S[q] => p = q
<1>1. After /\ pc[0] \notin Expansion /\ NewLevel = phase_num
  BY Basics DEF AllAt, After, Summed, NewLevel, Expansion, Expanding, Busy, Gone
<1>2. /\ pS \in [Thread -> Seq(Vertex)] /\ NoRepetition(pS)
      /\ UNION {Entries(pS[t]) : t \in Thread} = Level(phase_num)
      /\ \A t \in Thread : Len(pS[t]) \in 0 .. N
  BY <1>1, OwnLists
<1>3. /\ \A t \in Thread : \A q \in 1 .. Len(pS[t]) : S[pSCount[t] + q - 1] = pS[t][q]
      /\ \A t \in Thread : pSCount[t + 1] = pSCount[t] + Len(pS[t])
      /\ pSCount[0] = start[phase_num] /\ pSCount[NumT] = start[phase_num + 1]
  BY <1>1 DEF IInv, CopyInv, SumsInv, AllAt
<1>4. pSCount \in [0 .. NumT -> Int]
 <2>1. pSCount \in [0 .. NumT -> 0 .. N] BY DEF IInv, TypeOK
 <2>2. 0 .. N \subseteq Int BY Basics
 <2> QED BY <2>1, <2>2, Zenon
<1>5. ASSUME NEW p \in Frontier
      PROVE  \E t \in Thread : \E q \in 1 .. Len(pS[t]) : p = pSCount[t] + q - 1 /\ S[p] = pS[t][q]
 <2> DEFINE b == start[phase_num]
            e == start[phase_num + 1]
 <2>1. p \in Int /\ pSCount[0] <= p /\ p < pSCount[NumT]
  <3>1. b \in Int /\ e \in Int /\ p \in b .. e - 1 BY Bounds, Basics DEF Frontier
  <3>2. pSCount[0] = b /\ pSCount[NumT] = e BY <1>3
  <3> HIDE DEF b, e
  <3> QED BY <3>1, <3>2
 <2>2. PICK t \in Thread : pSCount[t] <= p /\ p < pSCount[t + 1] BY <1>4, <2>1, RangesCover
 <2> DEFINE a == pSCount[t]
            n == Len(pS[t])
            q == p - a + 1
 <2>3. a \in Int /\ n \in Nat /\ a <= p /\ p < a + n
  <3>1. a \in Int /\ n \in Nat BY <1>2, <1>4, Basics
  <3> QED BY <1>3, <2>2, <3>1
 <2>4. q \in 1 .. n /\ p = a + q - 1
  <3> HIDE DEF a, n
  <3> QED BY <2>1, <2>3
 <2>5. S[a + q - 1] = pS[t][q] BY <1>3, <2>4
 <2> HIDE DEF a, q
 <2>6. S[p] = pS[t][q] BY <2>4, <2>5, Zenon
 <2> QED BY <2>4, <2>6 DEF a
<1>6. ASSUME NEW p \in Frontier PROVE S[p] \in Level(phase_num)
 <2>1. PICK t \in Thread : \E q \in 1 .. Len(pS[t]) : p = pSCount[t] + q - 1 /\ S[p] = pS[t][q]
   BY <1>5
 <2>2. S[p] \in Entries(pS[t]) BY <2>1 DEF Entries
 <2> QED BY <1>2, <2>2
<1>7. ASSUME NEW v \in Level(phase_num) PROVE \E p \in Frontier : S[p] = v
 <2>1. PICK t \in Thread : v \in Entries(pS[t]) BY <1>2
 <2>2. PICK q \in 1 .. Len(pS[t]) : v = pS[t][q] BY <2>1 DEF Entries
 <2>3. pSCount[t] + q - 1 \in Frontier BY <1>1, OwnRange
 <2> QED BY <1>3, <2>2, <2>3
<1>8. ASSUME NEW p \in Frontier, NEW r \in Frontier, S[p] = S[r] PROVE p = r
 <2>1. PICK s \in Thread : \E q \in 1 .. Len(pS[s]) : p = pSCount[s] + q - 1 /\ S[p] = pS[s][q]
   BY <1>5
 <2>2. PICK t \in Thread : \E q \in 1 .. Len(pS[t]) : r = pSCount[t] + q - 1 /\ S[r] = pS[t][q]
   BY <1>5
 <2>3. PICK x \in 1 .. Len(pS[s]) : p = pSCount[s] + x - 1 /\ S[p] = pS[s][x] BY <2>1
 <2>4. PICK y \in 1 .. Len(pS[t]) : r = pSCount[t] + y - 1 /\ S[r] = pS[t][y] BY <2>2
 <2>5. s = t /\ x = y BY <1>2, <1>8, <2>3, <2>4 DEF NoRepetition
 <2> QED BY <2>3, <2>4, <2>5
<1> QED BY <1>6, <1>7, <1>8

LEMMA BarrierInv ==
  ASSUME IInv, Barrier
  PROVE  IInv'
<1>1. /\ TypeOK /\ Together /\ PhasesInv /\ DistInv /\ ListsInv /\ FrontierInv
      /\ SumsInv /\ CopyInv /\ 0 \in Thread /\ phase_num \in Nat
  BY Bounds, Basics DEF IInv
<1>2. /\ S' = S /\ start' = start /\ pSCount' = pSCount /\ phase_num' = phase_num
      /\ vLock' = vLock /\ vis' = vis /\ dist' = dist
      /\ vert' = vert /\ j' = j /\ pS' = pS /\ k' = k
      /\ MoreLevel' = MoreLevel /\ Frontier' = Frontier
      /\ \A d : LevelReady(d)' = LevelReady(d)
  BY <1>1, BarrierMoves DEF MoreLevel, Frontier, LevelReady, Upto
<1>3. /\ TypeOK' /\ Together' /\ WorkInv'
      /\ vLock = {} /\ \A t \in Thread : pc[t] \notin Busy /\ pc'[t] \notin Busy
      /\ \A d : Upto(d)' = Upto(d)
  BY AtBarrier
<1>4. ASSUME \A t \in Thread : pc[t] # "copy" /\ pc'[t] # "copy" /\ pc'[t] # "copied"
      PROVE  CopyInv'
  BY <1>1, <1>2, <1>4 DEF CopyInv
<1>5. ASSUME \A t \in Thread : Found(t)' = Found(t), NewLevel' = NewLevel PROVE ListsInv'
  BY <1>1, <1>2, <1>5 DEF ListsInv
<1>6. ASSUME pc'[0] \notin Expansion PROVE FrontierInv' /\ TakenInv'
  BY <1>6 DEF FrontierInv, TakenInv
<1>7. ASSUME NewLevel' = NewLevel,
             \A t \in Thread : pc'[t] \notin Expanding \cup {"count", "counted", "sum"} \/ MoreLevel,
             \A t \in Thread : pc'[t] \notin Gone \/ ~MoreLevel
      PROVE  PhasesInv'
 <2>1. (start[NewLevel] = Cardinality(Upto(NewLevel - 1)))'
  <3>1. start[NewLevel] = Cardinality(Upto(NewLevel - 1)) BY <1>1 DEF PhasesInv
  <3> QED BY <1>2, <1>3, <1>7, <3>1, Zenon
 <2> QED BY <1>1, <1>2, <1>7, <2>1 DEF PhasesInv
<1>8. ASSUME NewLevel' = NewLevel, pc'[0] \notin Expansion => LevelReady(NewLevel) PROVE DistInv'
 <2>1. LevelReady(NewLevel - 1)' /\ (pc'[0] \notin Expansion => LevelReady(NewLevel)')
   BY <1>1, <1>2, <1>8 DEF DistInv, LevelReady, Upto
 <2> QED BY <1>1, <1>2, <1>8, <2>1 DEF DistInv
<1>9. CASE AllAt("expanded") /\ pc' = [t \in Thread |-> "count"]
 <2>1. \A t \in Thread : pc[t] = "expanded" /\ pc'[t] = "count" BY <1>9 DEF AllAt
 <2>2. /\ ~After /\ ~After' /\ MoreLevel /\ pc'[0] \notin Expansion
       /\ NewLevel = phase_num + 1 /\ NewLevel' = NewLevel
       /\ \A t \in Thread : Found(t)' = Found(t)
   BY <1>1, <1>2, <2>1 DEF After, Summed, PhasesInv, NewLevel, Expansion, Expanding, Busy, Gone,
      Found
 <2>3. LevelReady(NewLevel) BY <1>9, <2>2, LevelExpanded
 <2>4. PhasesInv' BY <1>7, <2>1, <2>2 DEF Gone
 <2>5. SumsInv' BY <1>1, <2>1, <2>2 DEF SumsInv
 <2> QED BY <1>3, <1>4, <1>5, <1>6, <1>8, <2>1, <2>2, <2>3, <2>4, <2>5 DEF IInv
<1>10. CASE AllAt("counted") /\ pc' = [t \in Thread |-> "sum"]
 <2>1. \A t \in Thread : pc[t] = "counted" /\ pc'[t] = "sum" BY <1>10 DEF AllAt
 <2>2. /\ ~After /\ ~After' /\ MoreLevel /\ pc[0] \notin Expansion /\ pc'[0] \notin Expansion
       /\ NewLevel = phase_num + 1 /\ NewLevel' = NewLevel
       /\ \A t \in Thread : Found(t)' = Found(t)
   BY <1>1, <1>2, <2>1 DEF After, Summed, PhasesInv, NewLevel, Expansion, Expanding, Busy, Gone,
      Found
 <2>3. LevelReady(NewLevel) BY <1>1, <2>2 DEF DistInv
 <2>4. PhasesInv' BY <1>7, <2>1, <2>2 DEF Gone
 <2>5. SumsInv' BY <1>1, <1>2, <2>1, <2>2 DEF SumsInv
 <2> QED BY <1>3, <1>4, <1>5, <1>6, <1>8, <2>1, <2>2, <2>3, <2>4, <2>5 DEF IInv
<1>11. CASE AllAt("summed") /\ pc' = [t \in Thread |-> "copy"]
 <2>1. \A t \in Thread : pc[t] = "summed" /\ pc'[t] = "copy" BY <1>11 DEF AllAt
 <2>2. /\ After /\ After' /\ pc[0] \notin Expansion /\ pc'[0] \notin Expansion
       /\ NewLevel = phase_num /\ NewLevel' = NewLevel
       /\ \A t \in Thread : Found(t)' = Found(t)
   BY <1>1, <1>2, <2>1 DEF After, Summed, NewLevel, Expansion, Expanding, Busy, Gone, Found
 <2>3. LevelReady(NewLevel) BY <1>1, <2>2 DEF DistInv
 <2>4. PhasesInv' BY <1>7, <2>1, <2>2 DEF Gone, Expanding, Busy
 <2>5. SumsInv'
  <3>1. (start[phase_num + 1] = Cardinality(Upto(phase_num)))'
   <4>1. start[phase_num + 1] = Cardinality(Upto(phase_num)) BY <1>1, <2>2 DEF SumsInv
   <4> QED BY <1>2, <1>3, <4>1, Zenon
  <3>2. \A t \in Thread : pc'[t] # "counted" /\ pc'[0] # "sum" BY <1>1, <2>1
  <3> QED BY <1>1, <1>2, <2>2, <3>1, <3>2 DEF SumsInv
 <2>6. CopyInv'
  <3>1. \A t \in Thread : k'[t] = 0 /\ Len(pS[t]) >= 0
    BY <1>1, <1>2, <2>1, <2>2, OwnLists, Basics DEF CopyInv
  <3> QED BY <1>2, <2>1, <3>1 DEF CopyInv
 <2> QED BY <1>3, <1>5, <1>6, <1>8, <2>2, <2>3, <2>4, <2>5, <2>6 DEF IInv
<1>12. CASE AllAt("copied") /\ pc' = [t \in Thread |-> "while"] /\ taken' = {}
 <2>1. \A t \in Thread : pc[t] = "copied" /\ pc'[t] = "while" BY <1>12 DEF AllAt
 <2>2. /\ After /\ ~After' /\ pc[0] \notin Expansion
       /\ NewLevel = phase_num /\ NewLevel' = phase_num + 1
       /\ (phase_num + 1) - 1 = phase_num
   BY <1>1, <1>2, <2>1 DEF After, Summed, NewLevel, Expansion, Expanding, Busy, Gone
 <2>3. PhasesInv'
  <3>1. (start[NewLevel] = Cardinality(Upto(NewLevel - 1)))'
   <4>1. start[phase_num + 1] = Cardinality(Upto(phase_num)) BY <1>1, <2>2 DEF SumsInv
   <4>2. start'[phase_num + 1] = Cardinality(Upto((phase_num + 1) - 1)) BY <1>2, <2>2, <4>1, Zenon
   <4> QED BY <1>3, <2>2, <4>2, Zenon
  <3>2. \A t \in Thread : pc'[t] \notin Expanding \cup {"count", "counted", "sum"} \cup Gone
    BY <2>1 DEF Expanding, Busy, Gone
  <3> QED BY <1>1, <1>2, <3>1, <3>2 DEF PhasesInv
 <2>4. \A v \in Vertex : dist[v] # Unset => dist[v] <= phase_num BY <1>1, <2>2 DEF DistInv
 <2>5. DistInv'
  <3>1. LevelReady(phase_num) BY <1>1, <2>2 DEF DistInv
  <3>2. LevelReady((phase_num + 1) - 1) BY <2>2, <3>1, Zenon
  <3>3. LevelReady(NewLevel - 1)' BY <2>2, <3>2, <1>2 DEF LevelReady, Upto
  <3>4. pc'[0] \in Expansion BY <1>1, <2>1 DEF Expansion
  <3>5. \A v \in Vertex : dist'[v] # Unset => dist'[v] = Delta[v] /\ dist'[v] <= phase_num + 1
    BY <1>1, <1>2, <2>4, GraphTypes DEF DistInv
  <3> QED BY <1>1, <1>2, <2>2, <3>3, <3>4, <3>5 DEF DistInv
 <2>6. ListsInv'
  <3>1. \A t \in Thread : Found(t)' = <<>> BY <2>1 DEF Found
  <3>2. \A t \in Thread : 1 .. Len(Found(t)') = {} BY <3>1
  <3>3. \A v \in Vertex : dist'[v] # phase_num + 1 BY <1>1, <1>2, <2>4 DEF Unset
  <3> QED BY <2>2, <3>2, <3>3 DEF ListsInv
 <2>7. FrontierInv' BY <1>2, <1>12, <2>1, LevelCopied DEF FrontierInv, Level
 <2>8. TakenInv' BY <1>12 DEF TakenInv
 <2>9. SumsInv' BY <1>1, <2>1, <2>2 DEF SumsInv
 <2> QED BY <1>3, <1>4, <2>1, <2>3, <2>5, <2>6, <2>7, <2>8, <2>9 DEF IInv
<1>13. CASE AllAt("left") /\ pc' = [t \in Thread |-> "returned"] /\ taken' = taken
 <2>1. \A t \in Thread : pc[t] = "left" /\ pc'[t] = "returned" BY <1>13 DEF AllAt
 <2>2. /\ ~After /\ ~After' /\ ~MoreLevel /\ pc[0] \in Expansion /\ pc'[0] \in Expansion
       /\ NewLevel = phase_num + 1 /\ NewLevel' = NewLevel
       /\ \A t \in Thread : Found(t)' = Found(t)
   BY <1>1, <1>2, <2>1 DEF After, Summed, PhasesInv, NewLevel, Expansion, Expanding, Busy, Gone,
      Found
 <2>3. PhasesInv' BY <1>7, <2>1, <2>2 DEF Expanding, Busy
 <2>4. FrontierInv' BY <1>1, <1>2, <1>13, <2>1, <2>2 DEF FrontierInv, Level
 <2>5. TakenInv'
  <3>1. \A p, q : Handled(p, q) => Handled(p, q)' BY <1>2, <1>3 DEF Handled
  <3>2. \A p \in taken : \A q \in 1 .. Len(adj[S[p]]) : Handled(p, q) BY <2>2 DEF IInv, TakenInv
  <3> QED BY <1>2, <1>13, <3>1, <3>2 DEF TakenInv
 <2>6. SumsInv' BY <1>1, <2>1, <2>2 DEF SumsInv
 <2> QED BY <1>3, <1>4, <1>5, <1>8, <2>1, <2>2, <2>3, <2>4, <2>5, <2>6 DEF IInv
<1> QED BY <1>1, <1>9, <1>10, <1>11, <1>12, <1>13, BarrierMoves

-----------------------------------------------------------------------------

LEMMA InitInv ==
  ASSUME Init
  PROVE  IInv
<1>1. /\ 0 \in Thread /\ \A t \in Thread : pc[t] = "while"
      /\ start[0] = 0 /\ start[1] = 1 /\ S[0] = Root /\ phase_num = 0
      /\ N \in Nat /\ N >= 1 /\ Root \in Vertex /\ 0 \in 0 .. N - 1
      /\ vLock = {} /\ taken = {} /\ \A t \in Thread : k[t] = 0
      /\ \A v \in Vertex : /\ dist[v] = (IF v = Root THEN 0 ELSE Unset)
                           /\ vis[v] <=> v = Root
 <2>1. N \in Nat /\ Root \in 0 .. N - 1 /\ 0 \in Thread BY Basics, TeamAssumption
 <2>2. 0 \in 0 .. N + 2 /\ 1 \in 0 .. N + 2 /\ 0 \in 0 .. N - 1 /\ N >= 1 BY <2>1
 <2> QED BY <2>1, <2>2, Basics DEF Init
<1>2. TypeOK
 <2>1. S \in [0 .. N - 1 -> Vertex \cup {Free}] BY <1>1 DEF Init
 <2>2. start \in [0 .. N + 2 -> 0 .. N] BY <1>1 DEF Init
 <2>3. pSCount \in [0 .. NumT -> 0 .. N] /\ phase_num \in 0 .. N BY <1>1 DEF Init
 <2>4. vLock \subseteq Vertex /\ vis \in [Vertex -> BOOLEAN] BY DEF Init
 <2>5. dist \in [Vertex -> Unset .. MaxDelta] BY GraphAssumption DEF Init, Unset
 <2>6. taken \subseteq 0 .. N - 1 /\ pc \in [Thread -> Labels] BY DEF Init, Labels
 <2>7. vert \in [Thread -> 0 .. N - 1] /\ j \in [Thread -> Nat] BY <1>1 DEF Init
 <2>8. pS \in [Thread -> Seq(Vertex)] /\ k \in [Thread -> 0 .. N] BY <1>1 DEF Init
 <2> QED BY <2>1, <2>2, <2>3, <2>4, <2>5, <2>6, <2>7, <2>8 DEF TypeOK
<1>3. Together BY <1>1 DEF Together, Stages, Expansion
<1>4. ~After /\ NewLevel = 1
 <2>1. pc[0] = "while" BY <1>1
 <2> QED BY <1>1, <2>1 DEF After, Summed, NewLevel
<1>5. Upto(0) = {Root} /\ Level(0) = {Root}
 <2>1. \A v \in Vertex : Delta[v] = 0 <=> v = Root BY DistanceAssumption
 <2> QED BY <1>1, <2>1, GraphTypes DEF Upto, Level
<1>6. PhasesInv
 <2>1. Cardinality({Root}) = 1 BY FS_Singleton
 <2>2. NewLevel - 1 = 0 BY <1>4
 <2>3. Cardinality(Upto(NewLevel - 1)) = 1 BY <1>5, <2>1, <2>2, Zenon
 <2>4. start[NewLevel] = Cardinality(Upto(NewLevel - 1)) BY <1>1, <1>4, <2>3, Zenon
 <2>5. /\ \A t \in Thread : pc[t] \notin Expanding \cup {"count", "counted"} \cup Gone
       /\ pc[0] # "sum"
   BY <1>1 DEF Expanding, Busy, Gone
 <2>6. phase_num <= start[phase_num] BY <1>1
 <2> QED BY <2>4, <2>5, <2>6 DEF PhasesInv
<1>7. DistInv
 <2>1. \A v \in Vertex : /\ dist[v] = (IF v = Root THEN 0 ELSE Unset)
                         /\ vis[v] <=> v = Root
   BY <1>1
 <2>2. Delta[Root] = 0 BY <1>1, DistanceAssumption
 <2>3. LevelReady(0) BY <1>5, <2>1, <2>2 DEF LevelReady, Upto
 <2>4. NewLevel - 1 = 0 /\ pc[0] \in Expansion BY <1>1, <1>4 DEF Expansion
 <2> QED BY <1>4, <2>1, <2>2, <2>3, <2>4 DEF DistInv, Unset
<1>8. ListsInv
 <2>1. \A t \in Thread : Found(t) = <<>> BY <1>1 DEF Found
 <2>2. \A t \in Thread : 1 .. Len(Found(t)) = {} BY <2>1
 <2>3. \A v \in Vertex : dist[v] # 1
  <3> TAKE v \in Vertex
  <3>1. dist[v] = 0 \/ dist[v] = Unset BY <1>1, Zenon
  <3> QED BY <3>1 DEF Unset
 <2> QED BY <1>4, <2>2, <2>3 DEF ListsInv
<1>9. FrontierInv
 <2>1. Frontier = {0} BY <1>1 DEF Frontier
 <2>2. {S[p] : p \in Frontier} = {Root} BY <1>1, <2>1
 <2> QED BY <1>1, <1>5, <2>1, <2>2 DEF FrontierInv
<1>10. WorkInv
 <2>1. \A t \in Thread : pc[t] \notin Busy /\ pc[t] \notin Holding /\ pc[t] # "unlock"
   BY <1>1 DEF Busy, Holding
 <2> QED BY <1>1, <2>1 DEF WorkInv
<1>11. TakenInv BY <1>1 DEF TakenInv
<1>12. SumsInv /\ CopyInv BY <1>1, <1>4 DEF SumsInv, CopyInv
<1> QED BY <1>2, <1>3, <1>6, <1>7, <1>8, <1>9, <1>10, <1>11, <1>12 DEF IInv

(***************************************************************************)
(* The invariant is inductive.                                             *)
(***************************************************************************)
LEMMA Inductive ==
  ASSUME IInv, [Next]_vars
  PROVE  IInv'
<1>1. CASE Barrier BY <1>1, BarrierInv
<1>2. ASSUME NEW t \in Thread, Step(t) PROVE IInv' BY <1>2, SumZero, StepInv
<1>3. CASE UNCHANGED vars
 <2>1. /\ S' = S /\ start' = start /\ pSCount' = pSCount /\ phase_num' = phase_num
       /\ taken' = taken /\ vLock' = vLock /\ vis' = vis /\ dist' = dist /\ pc' = pc
       /\ vert' = vert /\ j' = j /\ pS' = pS /\ k' = k
   BY <1>3 DEF vars, teamVars, searchVars, localVars
 <2>2. TypeOK' /\ Together' BY <2>1 DEF IInv, TypeOK, Together
 <2>3. PhasesInv' /\ DistInv' /\ ListsInv'
   BY <2>1 DEF IInv, PhasesInv, DistInv, ListsInv, After, NewLevel, Upto, LevelReady, MoreLevel,
      Found
 <2>4. FrontierInv' /\ WorkInv' /\ TakenInv'
   BY <2>1 DEF IInv, FrontierInv, WorkInv, TakenInv, Frontier, Handled, Level, V, W
 <2>5. SumsInv' /\ CopyInv' BY <2>1 DEF IInv, SumsInv, CopyInv, After, Upto
 <2> QED BY <2>2, <2>3, <2>4, <2>5 DEF IInv
<1> QED BY <1>1, <1>2, <1>3 DEF Next, Exited

(***************************************************************************)
(* Every state of the search satisfies the invariant.                      *)
(***************************************************************************)
THEOREM InvCorrect == Spec => []IInv
  BY InitInv, Inductive, PTL DEF Spec

(***************************************************************************)
(* A phase starts with exactly its level between start[p] and start[p+1],  *)
(* though threads skip neighbours whose lock is taken and copy into S side *)
(* by side.                                                                *)
(***************************************************************************)
THEOREM LevelsExact == Spec => []FrontierExact
<1>1. IInv => FrontierExact
 <2> SUFFICES ASSUME IInv, NEW t \in Thread, pc[t] = "while"
              PROVE  /\ {S[p] : p \in Frontier} = Level(phase_num)
                     /\ \A p, q \in Frontier : S[p] = S[q] => p = q
   BY DEF FrontierExact, Frontier
 <2>1. pc[0] \in Expansion BY SameStage, Basics DEF IInv, Stages, Expansion
 <2> QED BY <2>1 DEF IInv, FrontierInv
<1> QED BY <1>1, InvCorrect, PTL

(***************************************************************************)
(* The threads leave the search after the same level: nobody waits at a    *)
(* barrier for one that has left.                                          *)
(***************************************************************************)
THEOREM AllLeave == Spec => []LeaveTogether
<1>1. IInv => LeaveTogether
 <2> SUFFICES ASSUME IInv, NEW t \in Thread, pc[t] \in Gone
              PROVE  \A s \in Thread : pc[s] \in {"while"} \cup Gone /\ ~MoreLevel
   BY DEF LeaveTogether, Gone, MoreLevel, MoreToDo
 <2>1. Together /\ PhasesInv BY DEF IInv
 <2>2. ~MoreLevel BY <2>1 DEF PhasesInv
 <2>3. \A s \in Thread : pc[s] \in Expansion BY <2>1, SameStage DEF Stages, Expansion
 <2> QED BY <2>1, <2>2, <2>3 DEF PhasesInv, Expansion
<1> QED BY <1>1, InvCorrect, PTL

(***************************************************************************)
(* While a level is expanded, the levels before it are done.               *)
(***************************************************************************)
LEMMA CloserCovered ==
  ASSUME IInv, pc[0] \in Expansion, NEW x \in Vertex, dist[x] \in 0 .. phase_num - 1
  PROVE  LevelOrder!Covered(x)
<1>1. phase_num \in Nat /\ LevelReady(phase_num)
 <2>1. phase_num \in Nat /\ NewLevel = phase_num + 1 /\ LevelReady(NewLevel - 1)
   BY Bounds, Basics DEF IInv, DistInv, NewLevel, After, Summed, Expansion, Expanding, Busy, Gone
 <2>2. NewLevel - 1 = phase_num BY <2>1
 <2> QED BY <2>1, <2>2, Zenon
<1>2. Delta[x] = dist[x] /\ Delta[x] # Unset BY DEF IInv, DistInv, Unset
<1> SUFFICES ASSUME NEW v \in Neighbors(x) PROVE dist[v] # Unset
  BY DEF LevelOrder!Covered, LevelOrder!Neighbors, Neighbors, LevelOrder!Unset, Unset
<1>3. v \in Vertex /\ Delta[v] \in 0 .. Delta[x] + 1 BY <1>2, GraphTypes, DistanceAssumption
<1>4. v \in Upto(phase_num) BY <1>1, <1>2, <1>3 DEF Upto
<1>5. dist[v] = Delta[v] BY <1>1, <1>4 DEF LevelReady
<1> QED BY <1>3, <1>5 DEF Unset

(***************************************************************************)
(* An empty level is the end: every vertex that can be reached has been.   *)
(***************************************************************************)
LEMMA AllCovered ==
  ASSUME IInv, pc[0] \in Expansion, ~MoreLevel, NEW u \in Vertex, dist[u] # Unset
  PROVE  LevelOrder!Covered(u)
<1>1. phase_num \in Nat BY Bounds, Basics
<1>2. Frontier = {}
 <2> DEFINE a == start[phase_num]
            b == start[phase_num + 1]
 <2>1. a \in Int /\ b \in Int /\ ~(b - a > 0) BY Bounds, Basics DEF MoreLevel
 <2>2. a .. b - 1 = {}
  <3> HIDE DEF a, b
  <3> QED BY <2>1
 <2> QED BY <2>2 DEF Frontier
<1>3. Level(phase_num) = {} BY <1>2 DEF IInv, FrontierInv
<1>4. \A v \in Vertex : Delta[v] < phase_num BY <1>1, <1>3, NothingBeyond
<1>5. dist[u] = Delta[u] /\ dist[u] \in 0 .. phase_num - 1
 <2>1. dist[u] = Delta[u] BY DEF IInv, DistInv
 <2>2. Delta[u] \in Int /\ Delta[u] >= -1 /\ Delta[u] < phase_num /\ Delta[u] # -1
   BY <1>4, <2>1, GraphTypes DEF Unset
 <2> QED BY <1>1, <2>1, <2>2
<1> QED BY <1>5, CloserCovered

(***************************************************************************)
(* A visit that finds a new vertex discovers it in the order of the        *)
(* levels, and a thread leaves when nothing is left to find.               *)
(***************************************************************************)
Finished == {t \in Thread : pc[t] \in Gone}

LEMMA StepRefines ==
  ASSUME IInv, NEW t \in Thread, Step(t)
  PROVE  \/ dist' = dist /\ Finished' = Finished
         \/ LevelOrder!Discover(V(t), W(t)) /\ V(t) \in Vertex /\ W(t) \in Vertex
         \/ LevelOrder!Finish(t)
<1>1. TypeOK /\ Together BY DEF IInv
<1>2. CASE Visit(t)
 <2>1. Finished' = Finished
  <3>1. pc[t] \notin Gone /\ pc'[t] \notin Gone BY <1>1, <1>2, StepMoves DEF Visit, Gone
  <3> QED BY <1>1, <3>1, StepMoves DEF Finished
 <2>2. CASE dist' = dist BY <2>1, <2>2
 <2>3. CASE dist' # dist
  <3>1. /\ W(t) \in Neighbors(V(t)) /\ W(t) \in Vertex /\ V(t) \in Vertex
        /\ NewLevel = phase_num + 1 /\ dist[W(t)] = Unset
        /\ dist' = [dist EXCEPT ![W(t)] = NewLevel]
    BY <1>2, <2>3, Discovery
  <3>2. pc[t] \in Busy BY <1>2 DEF Visit, Busy
  <3>3. dist[V(t)] = phase_num /\ pc[0] \in Expansion /\ phase_num \in Nat
   <4>1. dist[V(t)] = phase_num /\ pc[0] \in Expansion BY <3>2, AtWork
   <4>2. phase_num \in Nat BY Bounds, Basics
   <4> QED BY <4>1, <4>2
  <3>4. dist[V(t)] # Unset /\ dist' = [dist EXCEPT ![W(t)] = dist[V(t)] + 1] BY <3>1, <3>3 DEF Unset
  <3>5. \A x \in Vertex : dist[x] \in 0 .. dist[V(t)] - 1 => LevelOrder!Covered(x)
    BY <3>3, CloserCovered
  <3>6. LevelOrder!Discover(V(t), W(t))
    BY <2>1, <3>1, <3>4, <3>5 DEF LevelOrder!Discover, LevelOrder!Neighbors, Neighbors,
       LevelOrder!Unset, Unset, Finished, Gone
  <3> QED BY <3>1, <3>6
 <2> QED BY <2>2, <2>3
<1>3. CASE While(t) /\ ~MoreLevel
 <2>1. pc[t] = "while" /\ pc'[t] = "left" /\ dist' = dist
   BY <1>1, <1>3, StepMoves, StepWrites DEF While, searchVars
 <2>2. t \notin Finished /\ Finished' = Finished \cup {t}
   BY <1>1, <2>1, StepMoves DEF Finished, Gone
 <2>3. pc[0] \in Expansion BY <1>1, <2>1, SameStage, Basics DEF Stages, Expansion
 <2>4. \A u \in Vertex : dist[u] # Unset => LevelOrder!Covered(u) BY <1>3, <2>3, AllCovered
 <2>5. LevelOrder!Finish(t)
   BY <2>1, <2>2, <2>4 DEF LevelOrder!Finish, LevelOrder!Unset, Unset, Finished, Gone
 <2> QED BY <2>5
<1>4. CASE ~Visit(t) /\ ~(While(t) /\ ~MoreLevel)
 <2>1. dist' = dist BY <1>4, StepWrites
 <2>2. pc[t] \notin Gone /\ pc'[t] \notin Gone BY <1>1, <1>4, StepMoves DEF Gone
 <2>3. Finished' = Finished BY <1>1, <2>2, StepMoves DEF Finished
 <2> QED BY <2>1, <2>3
<1> QED BY <1>2, <1>3, <1>4

(***************************************************************************)
(* Every step of the level-synchronous search is a step of LevelOrderBfs   *)
(* or leaves distances and finished calls alone; so the search implements  *)
(* the specification that the wait-free one implements, too.               *)
(***************************************************************************)
THEOREM Refinement == Spec => ImplementsLevelOrder
<1>1. Init => LevelOrder!Init
 <2> SUFFICES ASSUME Init PROVE LevelOrder!Init OBVIOUS
 <2>1. Finished = {} BY DEF Init, Finished, Gone
 <2> QED BY <2>1 DEF Init, LevelOrder!Init, LevelOrder!Unset, Unset, Finished, Gone
<1>2. IInv /\ [Next]_vars => [LevelOrder!Next]_LevelOrder!vars
 <2> SUFFICES ASSUME IInv, [Next]_vars PROVE [LevelOrder!Next]_LevelOrder!vars OBVIOUS
 <2>1. ASSUME dist' = dist, Finished' = Finished PROVE [LevelOrder!Next]_LevelOrder!vars
   BY <2>1 DEF LevelOrder!vars, Finished, Gone
 <2>2. CASE Barrier
  <3>1. dist' = dist /\ \A t \in Thread : pc'[t] \in Gone <=> pc[t] \in Gone
    BY <2>2, BarrierMoves DEF IInv, Gone, AllAt
  <3> QED BY <2>1, <3>1 DEF Finished
 <2>3. ASSUME NEW t \in Thread, Step(t) PROVE [LevelOrder!Next]_LevelOrder!vars
   BY <2>1, <2>3, StepRefines DEF LevelOrder!Next
 <2>4. CASE UNCHANGED vars BY <2>1, <2>4 DEF vars, searchVars, Finished
 <2> QED BY <2>2, <2>3, <2>4 DEF Next, Exited
<1> QED BY <1>1, <1>2, InvCorrect, PTL DEF Spec, ImplementsLevelOrder, LevelOrder!Spec

-----------------------------------------------------------------------------
(***************************************************************************)
(* The other search of Locking_BFS: LockBfs, for every graph and every     *)
(* number of threads, with variables of its own beside those the two       *)
(* searches have under the same name.  Its parameters are those of         *)
(* BarrierBfs, whose TeamAssumption says all that PoolAssumption does.     *)
(***************************************************************************)
VARIABLES q, u, d

Queue == INSTANCE LockBfs

USE DEF Unset, Queue!Unset, Neighbors, Queue!Neighbors

QueueLabels == {"pop", "test", "write", "push", "returned"}
QueueAtVertex == {"test", "write", "push"}

QueueTypeOK ==
  /\ dist \in [Vertex -> Nat \cup {Unset}]
  /\ q \in Seq(Vertex)
  /\ pc \in [Queue!Thread -> QueueLabels]
  /\ u \in [Queue!Thread -> Vertex]
  /\ d \in [Queue!Thread -> Nat \cup {Unset}]
  /\ j \in [Queue!Thread -> Nat \ {0}]

(***************************************************************************)
(* What is in the queue or in the hands of a thread has been discovered,   *)
(* and the distance a thread has read, which may be older than the one in  *)
(* dist, is not too small either.                                          *)
(***************************************************************************)
QueueFound == \A n \in DOMAIN q : dist[q[n]] # Unset

QueueHolds(t) ==
  pc[t] \in QueueAtVertex =>
    /\ dist[u[t]] # Unset
    /\ d[t] # Unset /\ Delta[u[t]] # Unset /\ d[t] >= Delta[u[t]]
    /\ pc[t] # "test" => j[t] <= Len(adj[u[t]])

(***************************************************************************)
(* The neighbours a thread has dealt with have a distance, and keep one.   *)
(***************************************************************************)
QueueCovers(t) ==
  pc[t] \in QueueAtVertex =>
    /\ \A p \in 1 .. j[t] - 1 : p \in DOMAIN adj[u[t]] => dist[adj[u[t]][p]] # Unset
    /\ pc[t] = "push" => dist[Queue!V(t)] # Unset

(***************************************************************************)
(* No thread is the last to return while there is something in the queue.  *)
(***************************************************************************)
QueueServed == q # <<>> => \E t \in Queue!Thread : pc[t] # "returned"

QueueIInv ==
  /\ QueueTypeOK
  /\ Queue!NeverTooSmall /\ dist[Root] # Unset
  /\ QueueFound /\ QueueServed
  /\ \A t \in Queue!Thread : QueueHolds(t) /\ QueueCovers(t)
  /\ Queue!NoneLost

-----------------------------------------------------------------------------

LEMMA QueueInitIInv == Queue!Init => QueueIInv
<1> SUFFICES ASSUME Queue!Init PROVE QueueIInv OBVIOUS
<1> USE GraphAssumption DEF Queue!Init, Unset
<1>1. QueueTypeOK BY DEF QueueTypeOK, QueueLabels
<1>2. Queue!NeverTooSmall BY DistanceAssumption DEF Queue!NeverTooSmall
<1>3. QueueFound BY DEF QueueFound
<1>4. (\A t \in Queue!Thread : QueueHolds(t) /\ QueueCovers(t)) /\ QueueServed
 <2>1. 0 \in Queue!Thread /\ pc[0] # "returned" BY TeamAssumption DEF Queue!Thread
 <2> QED BY <2>1 DEF QueueHolds, QueueCovers, QueueAtVertex, QueueServed
<1>5. Queue!NoneLost
 <2> SUFFICES ASSUME NEW v \in Vertex, dist[v] # Unset PROVE v \in {q[n] : n \in DOMAIN q}
   BY DEF Queue!NoneLost
 <2>1. v = Root /\ q = <<Root>> OBVIOUS
 <2>2. 1 \in DOMAIN q /\ q[1] = Root BY <2>1
 <2> QED BY <2>1, <2>2
<1> QED BY <1>1, <1>2, <1>3, <1>4, <1>5 DEF QueueIInv

(***************************************************************************)
(* The neighbour a thread is at.                                           *)
(***************************************************************************)
LEMMA QueueVertexAt ==
  ASSUME QueueTypeOK, NEW t \in Queue!Thread, j[t] <= Len(adj[u[t]])
  PROVE  j[t] \in DOMAIN adj[u[t]] /\ Queue!V(t) \in Vertex /\ Queue!V(t) \in Neighbors(u[t])
<1>1. u[t] \in Vertex /\ j[t] \in Nat \ {0} BY DEF QueueTypeOK
<1>2. adj[u[t]] \in Seq(Vertex) BY <1>1, GraphAssumption
<1>3. j[t] \in DOMAIN adj[u[t]] BY <1>1, <1>2
<1> QED BY <1>2, <1>3 DEF Queue!V, Neighbors

(***************************************************************************)
(* What a step of thread t leaves alone.                                   *)
(***************************************************************************)
QueueStep(t) == Queue!Pop(t) \/ Queue!TestDist(t) \/ Queue!WriteDist(t) \/ Queue!Push(t)

LEMMA QueueStepFrame ==
  ASSUME QueueTypeOK, NEW t \in Queue!Thread, QueueStep(t)
  PROVE  \A s \in Queue!Thread \ {t} :
           pc'[s] = pc[s] /\ u'[s] = u[s] /\ d'[s] = d[s] /\ j'[s] = j[s]
  BY DEF QueueStep, Queue!Pop, Queue!TestDist, Queue!WriteDist, Queue!Push, Queue!Goto, QueueTypeOK

LEMMA QueueStepType ==
  ASSUME QueueIInv, NEW t \in Queue!Thread, QueueStep(t)
  PROVE  QueueTypeOK'
<1>0. QueueTypeOK /\ QueueHolds(t) BY DEF QueueIInv
<1> USE <1>0 DEF QueueTypeOK, QueueLabels, Unset
<1>1. CASE Queue!Pop(t)
 <2>1. CASE q = <<>> BY <1>1, <2>1 DEF Queue!Pop, Queue!Goto
 <2>2. CASE q # <<>>
  <3>1. Head(q) \in Vertex /\ Tail(q) \in Seq(Vertex) BY <2>2
  <3>2. dist[Head(q)] \in Nat \cup {-1} BY <3>1
  <3>3. /\ u' = [u EXCEPT ![t] = Head(q)] /\ d' = [d EXCEPT ![t] = dist[Head(q)]]
        /\ q' = Tail(q) /\ j' = [j EXCEPT ![t] = 1]
        /\ pc' = [pc EXCEPT ![t] = "test"] /\ dist' = dist
    BY <1>1, <2>2 DEF Queue!Pop, Queue!Goto
  <3> QED BY <3>1, <3>2, <3>3
 <2> QED BY <2>1, <2>2
<1>2. CASE Queue!TestDist(t)
 <2>1. /\ dist' = dist /\ q' = q /\ u' = u /\ d' = d
       /\ j' = j \/ j' = [j EXCEPT ![t] = @ + 1]
       /\ pc' = pc \/ pc' = [pc EXCEPT ![t] = "pop"] \/ pc' = [pc EXCEPT ![t] = "write"]
   BY <1>2 DEF Queue!TestDist, Queue!Goto
 <2>2. j' \in [Queue!Thread -> Nat \ {0}]
  <3>1. j[t] + 1 \in Nat \ {0} /\ j \in [Queue!Thread -> Nat \ {0}] OBVIOUS
  <3> HIDE DEF QueueTypeOK
  <3> QED BY <2>1, <3>1
 <2>3. pc' \in [Queue!Thread -> QueueLabels] BY <2>1
 <2> QED BY <2>1, <2>2, <2>3
<1>3. CASE Queue!WriteDist(t)
 <2>1. d[t] \in Nat BY <1>3 DEF Queue!WriteDist, QueueHolds, QueueAtVertex
 <2>2. Queue!NewDist(t) \in Nat BY <2>1 DEF Queue!NewDist
 <2> QED BY <1>3, <2>2 DEF Queue!WriteDist, Queue!Goto
<1>4. CASE Queue!Push(t)
 <2>1. Queue!V(t) \in Vertex BY <1>4, QueueVertexAt DEF Queue!Push, QueueHolds, QueueAtVertex
 <2> QED BY <1>4, <2>1 DEF Queue!Push, Queue!Goto
<1> QED BY <1>1, <1>2, <1>3, <1>4 DEF QueueStep

(***************************************************************************)
(* A vertex that has a distance keeps one.                                 *)
(***************************************************************************)
LEMMA QueueDistStays ==
  ASSUME QueueIInv, NEW t \in Queue!Thread, QueueStep(t)
  PROVE  \A v \in Vertex : dist[v] # Unset => dist'[v] # Unset
<1>1. CASE Queue!WriteDist(t)
 <2>1. d[t] \in Nat BY <1>1 DEF QueueIInv, QueueTypeOK, Queue!WriteDist, QueueHolds, QueueAtVertex
 <2> QED BY <1>1, <2>1 DEF QueueIInv, QueueTypeOK, Queue!WriteDist, Queue!NewDist, Unset
<1>2. CASE Queue!Pop(t) \/ Queue!TestDist(t) \/ Queue!Push(t)
  BY <1>2 DEF Queue!Pop, Queue!TestDist, Queue!Push
<1> QED BY <1>1, <1>2 DEF QueueStep

LEMMA QueueStepNeverTooSmall ==
  ASSUME QueueIInv, NEW t \in Queue!Thread, QueueStep(t)
  PROVE  Queue!NeverTooSmall'
<1>1. CASE Queue!WriteDist(t)
 <2>1. /\ d[t] \in Nat /\ u[t] \in Vertex
       /\ Delta[u[t]] # Unset /\ d[t] >= Delta[u[t]]
       /\ j[t] <= Len(adj[u[t]])
   BY <1>1 DEF QueueIInv, QueueTypeOK, Queue!WriteDist, QueueHolds, QueueAtVertex
 <2>2. Queue!V(t) \in Vertex /\ Queue!V(t) \in Neighbors(u[t]) BY <2>1, QueueVertexAt DEF QueueIInv
 <2>3. Delta[Queue!V(t)] \in 0 .. Delta[u[t]] + 1 /\ Delta[u[t]] \in Int
   BY <2>1, <2>2, DistanceAssumption, GraphAssumption DEF Unset
 <2>4. dist' = [dist EXCEPT ![Queue!V(t)] = d[t] + 1] BY <1>1 DEF Queue!WriteDist, Queue!NewDist
 <2> SUFFICES ASSUME NEW v \in Vertex, dist'[v] # Unset
              PROVE  Delta[v] # Unset /\ dist'[v] >= Delta[v]
   BY DEF Queue!NeverTooSmall
 <2>5. CASE v = Queue!V(t) BY <2>1, <2>2, <2>3, <2>4, <2>5 DEF QueueIInv, QueueTypeOK, Unset
 <2>6. CASE v # Queue!V(t) BY <2>4, <2>6 DEF QueueIInv, QueueTypeOK, Queue!NeverTooSmall
 <2> QED BY <2>5, <2>6
<1>2. CASE Queue!Pop(t) \/ Queue!TestDist(t) \/ Queue!Push(t)
  BY <1>2 DEF QueueIInv, Queue!NeverTooSmall, Queue!Pop, Queue!TestDist, Queue!Push
<1> QED BY <1>1, <1>2 DEF QueueStep

LEMMA QueueStepQueueFound ==
  ASSUME QueueIInv, NEW t \in Queue!Thread, QueueStep(t)
  PROVE  QueueFound'
<1> SUFFICES ASSUME NEW n \in DOMAIN q' PROVE dist'[q'[n]] # Unset BY DEF QueueFound
<1>0. q \in Seq(Vertex) /\ \A i \in DOMAIN q : q[i] \in Vertex /\ dist'[q[i]] # Unset
  BY QueueDistStays DEF QueueIInv, QueueTypeOK, QueueFound
<1>1. CASE Queue!Push(t)
 <2>1. Queue!V(t) \in Vertex /\ dist'[Queue!V(t)] # Unset
   BY <1>1, QueueVertexAt, QueueDistStays DEF QueueIInv, Queue!Push, QueueHolds, QueueCovers,
      QueueAtVertex
 <2> QED BY <1>0, <1>1, <2>1 DEF Queue!Push
<1>2. CASE Queue!Pop(t)
 <2>1. CASE q = <<>> BY <1>0, <1>2, <2>1 DEF Queue!Pop
 <2>2. CASE q # <<>> BY <1>0, <1>2, <2>2 DEF Queue!Pop
 <2> QED BY <2>1, <2>2
<1>3. CASE Queue!TestDist(t) \/ Queue!WriteDist(t) BY <1>0, <1>3 DEF Queue!TestDist, Queue!WriteDist
<1> QED BY <1>1, <1>2, <1>3 DEF QueueStep

LEMMA QueueStepQueueServed ==
  ASSUME QueueIInv, NEW t \in Queue!Thread, QueueStep(t)
  PROVE  QueueServed'
<1>1. pc \in [Queue!Thread -> QueueLabels] BY DEF QueueIInv, QueueTypeOK
<1>2. CASE Queue!Pop(t) BY <1>1, <1>2 DEF Queue!Pop, Queue!Goto, QueueServed
<1>3. CASE Queue!TestDist(t) \/ Queue!WriteDist(t) \/ Queue!Push(t)
 <2>1. pc'[t] # "returned" BY <1>1, <1>3 DEF Queue!TestDist, Queue!WriteDist, Queue!Push, Queue!Goto
 <2> QED BY <2>1 DEF QueueServed
<1> QED BY <1>2, <1>3 DEF QueueStep

LEMMA QueueStepHolds ==
  ASSUME QueueIInv, NEW t \in Queue!Thread, QueueStep(t), NEW s \in Queue!Thread
  PROVE  QueueHolds(s)'
<1> SUFFICES ASSUME pc'[s] \in QueueAtVertex
             PROVE  /\ dist'[u'[s]] # Unset
                    /\ d'[s] # Unset /\ Delta[u'[s]] # Unset /\ d'[s] >= Delta[u'[s]]
                    /\ pc'[s] # "test" => j'[s] <= Len(adj[u'[s]])
  BY DEF QueueHolds
<1>1. CASE s # t
 <2>1. pc'[s] = pc[s] /\ u'[s] = u[s] /\ d'[s] = d[s] /\ j'[s] = j[s]
   BY <1>1, QueueStepFrame DEF QueueIInv
 <2> QED BY <2>1, QueueDistStays DEF QueueIInv, QueueTypeOK, QueueHolds
<1>2. CASE s = t /\ Queue!Pop(t)
 <2>1. q # <<>> /\ q \in Seq(Vertex)
   BY <1>2 DEF QueueIInv, QueueTypeOK, Queue!Pop, Queue!Goto, QueueAtVertex
 <2>2. /\ u'[t] = Head(q) /\ d'[t] = dist[Head(q)] /\ pc'[t] = "test"
       /\ dist' = dist
   BY <1>2, <2>1 DEF QueueIInv, QueueTypeOK, Queue!Pop, Queue!Goto
 <2>3. Head(q) \in Vertex /\ dist[Head(q)] # Unset BY <2>1 DEF QueueIInv, QueueFound
 <2> QED BY <1>2, <2>2, <2>3 DEF QueueIInv, Queue!NeverTooSmall
<1>3. CASE s = t /\ (Queue!TestDist(t) \/ Queue!WriteDist(t) \/ Queue!Push(t))
 <2>1. u'[t] = u[t] /\ d'[t] = d[t] /\ pc[t] \in QueueAtVertex
   BY <1>3 DEF Queue!TestDist, Queue!WriteDist, Queue!Push, QueueAtVertex
 <2>2. pc'[t] # "test" => j'[t] <= Len(adj[u[t]])
  <3>1. CASE Queue!TestDist(t)
   <4>1. ~Queue!AtEnd(t) => j[t] <= Len(adj[u[t]])
     BY GraphAssumption DEF Queue!AtEnd, QueueIInv, QueueTypeOK
   <4> QED BY <1>3, <3>1, <4>1 DEF QueueIInv, QueueTypeOK, Queue!TestDist, Queue!Goto, QueueAtVertex
  <3>2. CASE Queue!WriteDist(t) \/ Queue!Push(t)
    BY <3>2 DEF QueueIInv, QueueTypeOK, Queue!WriteDist, Queue!Push, Queue!Goto, QueueHolds,
       QueueAtVertex
  <3> QED BY <1>3, <3>1, <3>2
 <2> QED BY <1>3, <2>1, <2>2, QueueDistStays DEF QueueIInv, QueueTypeOK, QueueHolds
<1> QED BY <1>1, <1>2, <1>3 DEF QueueStep

LEMMA QueueStepCovers ==
  ASSUME QueueIInv, NEW t \in Queue!Thread, QueueStep(t), NEW s \in Queue!Thread
  PROVE  QueueCovers(s)'
<1> SUFFICES ASSUME pc'[s] \in QueueAtVertex
             PROVE  /\ \A p \in 1 .. j'[s] - 1 : p \in DOMAIN adj[u'[s]] =>
                         dist'[adj[u'[s]][p]] # Unset
                    /\ pc'[s] = "push" => dist'[adj[u'[s]][j'[s]]] # Unset
  BY DEF QueueCovers, Queue!V
<1>0. \A x \in Vertex, p \in Nat : p \in DOMAIN adj[x] => adj[x][p] \in Vertex BY GraphAssumption
<1>1. CASE s # t
 <2>1. pc'[s] = pc[s] /\ u'[s] = u[s] /\ j'[s] = j[s] BY <1>1, QueueStepFrame DEF QueueIInv
 <2>2. u[s] \in Vertex /\ j[s] \in Nat \ {0} BY DEF QueueIInv, QueueTypeOK
 <2>3. pc[s] = "push" => Queue!V(s) \in Vertex
   BY QueueVertexAt DEF QueueIInv, QueueHolds, QueueAtVertex
 <2>4. /\ \A p \in 1 .. j[s] - 1 : p \in DOMAIN adj[u[s]] => dist[adj[u[s]][p]] # Unset
       /\ pc[s] = "push" => dist[Queue!V(s)] # Unset
   BY <2>1 DEF QueueIInv, QueueCovers
 <2> QED BY <1>0, <2>1, <2>2, <2>3, <2>4, QueueDistStays DEF Queue!V
<1>2. CASE s = t /\ Queue!Pop(t)
  BY <1>2 DEF QueueIInv, QueueTypeOK, Queue!Pop, Queue!Goto, QueueAtVertex
<1>3. CASE s = t /\ Queue!TestDist(t)
 <2>1. u' = u /\ dist' = dist /\ pc[t] = "test" /\ ~Queue!AtEnd(t) /\ pc'[t] # "push"
   BY <1>3 DEF QueueIInv, QueueTypeOK, Queue!TestDist, Queue!Goto, QueueAtVertex
 <2>2. dist[Queue!V(t)] = Unset \/ j'[t] = j[t] + 1
   BY <1>3, <2>1 DEF QueueIInv, QueueTypeOK, Queue!TestDist
 <2>3. dist[Queue!V(t)] = Unset => j'[t] = j[t]
   BY <1>3, <2>1 DEF QueueIInv, QueueTypeOK, Queue!TestDist
 <2>4. \A p \in 1 .. j[t] - 1 : p \in DOMAIN adj[u[t]] => dist[adj[u[t]][p]] # Unset
   BY <2>1 DEF QueueIInv, QueueCovers, QueueAtVertex
 <2>5. j[t] \in Nat \ {0} BY DEF QueueIInv, QueueTypeOK
 <2>6. CASE dist[Queue!V(t)] = Unset BY <1>3, <2>1, <2>3, <2>4, <2>6
 <2>7. CASE dist[Queue!V(t)] # Unset BY <1>3, <2>1, <2>2, <2>4, <2>5, <2>7 DEF Queue!V
 <2> QED BY <2>6, <2>7
<1>4. CASE s = t /\ Queue!WriteDist(t)
 <2>1. u' = u /\ j' = j /\ pc[t] = "write" /\ dist' = [dist EXCEPT ![Queue!V(t)] = Queue!NewDist(t)]
   BY <1>4 DEF Queue!WriteDist
 <2>2. Queue!V(t) \in Vertex /\ u[t] \in Vertex /\ j[t] \in Nat \ {0}
   BY <2>1, QueueVertexAt DEF QueueIInv, QueueTypeOK, QueueHolds, QueueAtVertex
 <2>3. Queue!NewDist(t) # Unset
   BY <2>1 DEF QueueIInv, QueueTypeOK, QueueHolds, QueueAtVertex, Queue!NewDist, Unset
 <2>4. dist'[Queue!V(t)] # Unset BY <2>1, <2>2, <2>3 DEF QueueIInv, QueueTypeOK
 <2>5. \A p \in 1 .. j[t] - 1 : p \in DOMAIN adj[u[t]] => dist[adj[u[t]][p]] # Unset
   BY <2>1 DEF QueueIInv, QueueCovers, QueueAtVertex
 <2> QED BY <1>0, <1>4, <2>1, <2>2, <2>4, <2>5, QueueDistStays DEF Queue!V
<1>5. CASE s = t /\ Queue!Push(t)
 <2>1. u' = u /\ dist' = dist /\ j'[t] = j[t] + 1 /\ pc[t] = "push" /\ pc'[t] = "test"
   BY <1>5 DEF QueueIInv, QueueTypeOK, Queue!Push, Queue!Goto
 <2>2. dist[Queue!V(t)] # Unset /\ j[t] \in Nat \ {0}
   BY <2>1 DEF QueueIInv, QueueTypeOK, QueueCovers, QueueAtVertex
 <2>3. \A p \in 1 .. j[t] - 1 : p \in DOMAIN adj[u[t]] => dist[adj[u[t]][p]] # Unset
   BY <2>1 DEF QueueIInv, QueueCovers, QueueAtVertex
 <2> QED BY <1>5, <2>1, <2>2, <2>3 DEF Queue!V
<1> QED BY <1>1, <1>2, <1>3, <1>4, <1>5 DEF QueueStep

(***************************************************************************)
(* A thread lets go of a vertex only when all of its neighbours have a     *)
(* distance, and what leaves the queue is in the hands of the thread.      *)
(***************************************************************************)
Queued(v) == \E n \in DOMAIN q : q[n] = v
QueueInHand(t, v) ==
  \/ pc[t] = "push" /\ Queue!V(t) = v
  \/ pc[t] \in QueueAtVertex /\ u[t] = v

LEMMA QueueStepQueued ==
  ASSUME QueueIInv, NEW t \in Queue!Thread, QueueStep(t), NEW v \in Vertex, Queued(v)
  PROVE  Queued(v)' \/ QueueInHand(t, v)'
<1> PICK n \in DOMAIN q : q[n] = v BY DEF Queued
<1>0. q \in Seq(Vertex) BY DEF QueueIInv, QueueTypeOK
<1>1. CASE Queue!Pop(t)
 <2>1. /\ q # <<>> /\ q' = Tail(q)
       /\ u'[t] = Head(q) /\ pc'[t] = "test"
   BY <1>0, <1>1 DEF QueueIInv, QueueTypeOK, Queue!Pop, Queue!Goto
 <2>2. CASE n = 1 BY <1>0, <2>1, <2>2 DEF QueueInHand, QueueAtVertex
 <2>3. CASE n # 1
  <3>1. n - 1 \in DOMAIN q' /\ q'[n - 1] = v BY <1>0, <2>1, <2>3
  <3> QED BY <3>1 DEF Queued
 <2> QED BY <2>2, <2>3
<1>2. CASE Queue!Push(t)
 <2>1. n \in DOMAIN q' /\ q'[n] = v
  <3>1. Queue!V(t) \in Vertex
    BY <1>2, QueueVertexAt DEF QueueIInv, Queue!Push, QueueHolds, QueueAtVertex
  <3> QED BY <1>0, <1>2, <3>1 DEF Queue!Push
 <2> QED BY <2>1 DEF Queued
<1>3. CASE Queue!TestDist(t) \/ Queue!WriteDist(t)
  BY <1>3 DEF Queue!TestDist, Queue!WriteDist, Queued
<1> QED BY <1>1, <1>2, <1>3 DEF QueueStep

LEMMA QueueStepInHand ==
  ASSUME QueueIInv, NEW t \in Queue!Thread, QueueStep(t), NEW v \in Vertex,
         NEW s \in Queue!Thread, QueueInHand(s, v),
         NEW w \in Neighbors(v), dist[w] = Unset
  PROVE  Queued(v)' \/ QueueInHand(s, v)'
<1>1. CASE s # t BY <1>1, QueueStepFrame DEF QueueIInv, QueueInHand, Queue!V
<1>2. CASE s = t /\ Queue!Pop(t) BY <1>2 DEF Queue!Pop, QueueInHand, QueueAtVertex
<1>3. CASE s = t /\ Queue!TestDist(t)
 <2>1. u' = u /\ u[t] = v /\ pc[t] = "test" BY <1>3 DEF Queue!TestDist, QueueInHand
 <2>2. PICK p \in DOMAIN adj[v] : w = adj[v][p] BY DEF Neighbors
 <2>3. ~Queue!AtEnd(t)
  <3>1. ~(p \in 1 .. j[t] - 1) BY <2>1, <2>2 DEF QueueIInv, QueueCovers, QueueAtVertex
  <3> QED BY <2>1, <2>2, <3>1, GraphAssumption DEF Queue!AtEnd, QueueIInv, QueueTypeOK
 <2>4. pc'[t] \in QueueAtVertex
   BY <1>3, <2>1, <2>3 DEF Queue!TestDist, Queue!Goto, QueueIInv, QueueTypeOK, QueueAtVertex
 <2> QED BY <1>3, <2>1, <2>4 DEF QueueInHand
<1>4. CASE s = t /\ Queue!WriteDist(t)
 <2>1. u' = u /\ j' = j /\ pc[t] = "write" /\ pc'[t] = "push"
   BY <1>4 DEF Queue!WriteDist, Queue!Goto, QueueIInv, QueueTypeOK
 <2> QED BY <1>4, <2>1 DEF QueueInHand, QueueAtVertex
<1>5. CASE s = t /\ Queue!Push(t)
 <2>1. u' = u /\ pc'[t] = "test" /\ q' = Append(q, Queue!V(t))
   BY <1>5 DEF Queue!Push, Queue!Goto, QueueIInv, QueueTypeOK
 <2>2. CASE u[t] = v BY <1>5, <2>1, <2>2 DEF QueueInHand, QueueAtVertex
 <2>3. CASE Queue!V(t) = v
  <3>1. Len(q) + 1 \in DOMAIN q' /\ q'[Len(q) + 1] = v BY <2>1, <2>3 DEF QueueIInv, QueueTypeOK
  <3> QED BY <3>1 DEF Queued
 <2> QED BY <1>5, <2>2, <2>3 DEF QueueInHand
<1> QED BY <1>1, <1>2, <1>3, <1>4, <1>5 DEF QueueStep

LEMMA QueueStepNoneLost ==
  ASSUME QueueIInv, NEW t \in Queue!Thread, QueueStep(t)
  PROVE  Queue!NoneLost'
<1> SUFFICES ASSUME NEW v \in Vertex, dist'[v] # Unset,
                    NEW w \in Neighbors(v), dist'[w] = Unset
             PROVE  Queued(v)' \/ \E s \in Queue!Thread : QueueInHand(s, v)'
  BY DEF Queue!NoneLost, Queued, QueueInHand, QueueAtVertex
<1>1. w \in Vertex BY GraphAssumption DEF Neighbors
<1>2. dist[w] = Unset BY <1>1, QueueDistStays
<1>3. CASE dist[v] # Unset
 <2>1. Queued(v) \/ \E s \in Queue!Thread : QueueInHand(s, v)
   BY <1>2, <1>3 DEF QueueIInv, Queue!NoneLost, Queued, QueueInHand, QueueAtVertex
 <2> QED BY <1>2, <2>1, QueueStepQueued, QueueStepInHand
<1>4. CASE dist[v] = Unset
 <2>1. Queue!WriteDist(t) /\ v = Queue!V(t)
   BY <1>4 DEF QueueStep, Queue!Pop, Queue!TestDist, Queue!WriteDist, Queue!Push, QueueIInv,
      QueueTypeOK
 <2>2. Queue!V(t)' = v /\ pc'[t] = "push"
   BY <2>1 DEF Queue!WriteDist, Queue!Goto, Queue!V, QueueIInv, QueueTypeOK
 <2> QED BY <2>2 DEF QueueInHand
<1> QED BY <1>3, <1>4

-----------------------------------------------------------------------------

LEMMA QueueNextIInv == QueueIInv /\ [Queue!Next]_(Queue!vars) => QueueIInv'
<1> SUFFICES ASSUME QueueIInv, [Queue!Next]_(Queue!vars) PROVE QueueIInv' OBVIOUS
<1>1. ASSUME NEW t \in Queue!Thread, QueueStep(t) PROVE QueueIInv'
 <2>1. dist'[Root] # Unset BY <1>1, QueueDistStays, GraphAssumption DEF QueueIInv
 <2>2. \A s \in Queue!Thread : QueueHolds(s)' /\ QueueCovers(s)'
   BY <1>1, QueueStepHolds, QueueStepCovers
 <2> QED
   BY <1>1, <2>1, <2>2, QueueStepType, QueueStepNeverTooSmall, QueueStepQueueFound,
      QueueStepQueueServed, QueueStepNoneLost DEF QueueIInv
<1>2. CASE UNCHANGED Queue!vars
 <2>1. dist' = dist /\ q' = q /\ pc' = pc /\ u' = u /\ d' = d /\ j' = j BY <1>2 DEF Queue!vars
 <2>2. QueueTypeOK' /\ QueueFound' /\ QueueServed'
   BY <2>1 DEF QueueIInv, QueueTypeOK, QueueFound, QueueServed
 <2>3. Queue!NeverTooSmall' /\ dist'[Root] # Unset BY <2>1 DEF QueueIInv, Queue!NeverTooSmall
 <2>4. \A t \in Queue!Thread : QueueHolds(t)' /\ QueueCovers(t)'
   BY <2>1 DEF QueueIInv, QueueHolds, QueueCovers, Queue!V
 <2>5. Queue!NoneLost' BY <2>1 DEF QueueIInv, Queue!NoneLost, Queue!V
 <2> QED BY <2>2, <2>3, <2>4, <2>5 DEF QueueIInv
<1> QED BY <1>1, <1>2 DEF Queue!Next, QueueStep, Queue!Exited

LEMMA QueueInvCorrect == Queue!Spec => []QueueIInv
  BY QueueInitIInv, QueueNextIInv, PTL DEF Queue!Spec

(***************************************************************************)
(* No distance is ever too small, and only vertices that can be reached    *)
(* get one, whatever the threads do to dist outside of the semaphore.      *)
(***************************************************************************)
THEOREM QueueDistancesLargeEnough == Queue!Spec => []Queue!NeverTooSmall
<1>1. QueueIInv => Queue!NeverTooSmall BY DEF QueueIInv
<1> QED BY <1>1, QueueInvCorrect, PTL

(***************************************************************************)
(* A thread that returns at an empty queue leaves no vertex behind that    *)
(* nobody else is going to expand.                                         *)
(***************************************************************************)
THEOREM QueueNothingLost == Queue!Spec => []Queue!NoneLost
<1>1. QueueIInv => Queue!NoneLost BY DEF QueueIInv
<1> QED BY <1>1, QueueInvCorrect, PTL

(***************************************************************************)
(* When all threads have returned, the queue is empty and the vertices     *)
(* that have a distance are those that can be reached.                     *)
(***************************************************************************)
QueueAllFound ==
  (\A t \in Queue!Thread : pc[t] = "returned") =>
    /\ q = <<>>
    /\ \A v \in Vertex : dist[v] # Unset <=> Delta[v] # Unset

(***************************************************************************)
(* A search that has ended is complete: the queue is empty and nothing     *)
(* that can be reached lacks a distance, though a thread decides to leave  *)
(* by what it reads under the semaphore alone.                             *)
(***************************************************************************)
THEOREM QueueEndComplete == Queue!Spec => []QueueAllFound
<1>1. QueueIInv => QueueAllFound
 <2> SUFFICES ASSUME QueueIInv, \A t \in Queue!Thread : pc[t] = "returned"
              PROVE  q = <<>> /\ \A v \in Vertex : dist[v] # Unset <=> Delta[v] # Unset
   BY DEF QueueAllFound
 <2>1. q = <<>> BY DEF QueueIInv, QueueServed
 <2>2. DOMAIN q = {} BY <2>1
 <2>3. \A w \in Vertex : dist[w] # Unset => \A v \in Neighbors(w) : dist[v] # Unset
   BY <2>1, <2>2 DEF QueueIInv, Queue!NoneLost
 <2> DEFINE Missed == {n \in Nat : \E v \in Vertex : Delta[v] = n /\ dist[v] = Unset}
 <2>4. Missed = {}
  <3> SUFFICES ASSUME Missed # {} PROVE FALSE OBVIOUS
  <3>1. PICK m \in Missed : \A n \in Missed : m <= n BY Least
  <3>2. PICK v \in Vertex : Delta[v] = m /\ dist[v] = Unset /\ m \in Nat BY <3>1
  <3>3. m > 0 BY <3>2, DistanceAssumption DEF QueueIInv
  <3>4. PICK w \in Vertex : Delta[w] = m - 1 /\ v \in Neighbors(w) BY <3>2, <3>3, DistanceAssumption
  <3>5. m - 1 \in Nat /\ ~(m <= m - 1) BY <3>2, <3>3
  <3>6. dist[w] # Unset BY <3>1, <3>4, <3>5
  <3> QED BY <2>3, <3>2, <3>4, <3>6
 <2>5. \A v \in Vertex : Delta[v] # Unset => dist[v] # Unset
  <3> TAKE v \in Vertex
  <3>1. Delta[v] # Unset => Delta[v] \in Nat BY GraphTypes DEF Unset
  <3> QED BY <2>4, <3>1
 <2>6. \A v \in Vertex : dist[v] # Unset => Delta[v] # Unset BY DEF QueueIInv, Queue!NeverTooSmall
 <2> QED BY <2>1, <2>5, <2>6
<1> QED BY <1>1, QueueInvCorrect, PTL

=============================================================================
