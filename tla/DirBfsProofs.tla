---------------------------- MODULE DirBfsProofs ----------------------------
(***************************************************************************)
(* Proofs about DirBfs, for every undirected graph, every size of the team,*)
(* of its buffers and of a word, every chunk of whole words and every      *)
(* alpha and beta: the frontier is exact, the queue has room, and the      *)
(* search implements LevelOrderBfs.                                        *)
(***************************************************************************)
EXTENDS DirBfs, BfsGraphProofs, FiniteSetTheorems

-----------------------------------------------------------------------------
(***************************************************************************)
(* The inductive invariant.  A step of the team that builds the level depth, *)
(* and one that pushes into the queue.                                     *)
(***************************************************************************)
Building == loop \in {"td", "bu"}
Pushing == loop \in {"td", "to_queue"}

LabelsOf(l) ==
  {"joined"} \cup
  CASE l = "td" -> {"vertex", "edge", "swap", "push", "flush", "copy"}
    [] l = "to_bitmap" -> {"read", "swap"}
    [] l = "bu" -> {"chunk", "test", "set"}
    [] l = "to_queue" -> {"push", "flush", "copy"}
    [] OTHER -> {}

Labels == {"joined", "vertex", "edge", "swap", "push", "flush", "copy", "read", "chunk",
           "test", "set"}
Local == [pc : Labels, i : Nat, end : Nat, j : Nat, val : Int, at : Nat,
          lqueue : Seq(Vertex), word : SUBSET Vertex, count : Int]

TypeOK ==
  /\ beta \in Nat \ {0}
  /\ dist \in [Vertex -> Int]
  /\ queue \in [shared : [Vertex -> Vertex \cup {Unset}],
                in : Nat, out_start : Nat, out_end : Nat]
  /\ front \subseteq Vertex /\ curr \subseteq Vertex
  /\ depth \in Nat /\ awake_count \in Int
  /\ loop \in {"test", "td", "to_bitmap", "bu", "to_queue", "clear", "returned"}
  /\ chunk \in 0 .. N
  /\ my \in [Thread -> Local]
  /\ \A t \in Thread : my[t].pc \in LabelsOf(loop)

(***************************************************************************)
(* Distances are right, and all there up to the level Ready.  A step is run *)
(* only on a level that is not empty, and the search ends at one that is.  *)
(***************************************************************************)
Ready == IF Building THEN depth - 1 ELSE depth

DistInv ==
  /\ \A v \in Vertex : dist[v] >= 0 => dist[v] = Delta[v] /\ dist[v] <= depth
  /\ \A v \in Vertex : Delta[v] \in 0 .. Ready => dist[v] = Delta[v]
  /\ Building => depth >= 1 /\ Level(depth - 1) # {}
  /\ loop = "to_bitmap" => QueueSize > 0
  /\ loop = "bu" => awake_count > 0
  /\ loop \in {"clear", "returned"} => Level(depth) = {}
  /\ loop = "returned" => \A v \in Vertex : dist[v] >= Unset

(***************************************************************************)
(* Where the threads of a loop are: each in a part of its own of what there *)
(* is to do.  A pending vertex has been won and is not in a buffer yet.    *)
(***************************************************************************)
First == IF loop = "to_queue" THEN 0 ELSE queue.out_start
Length == IF loop = "to_queue" THEN N ELSE QueueSize

Pending(t) ==
  /\ loop = "td"
  /\ my[t].pc = "push" \/ (my[t].pc \in {"flush", "copy"} /\ my[t].i # my[t].end)

RangeInv ==
  \A t \in Thread :
    /\ loop # "bu" /\ my[t].pc # "joined" =>
         /\ First + PartStart(t, Length) <= my[t].i /\ my[t].i <= my[t].end
         /\ my[t].end = First + PartStart(t + 1, Length)
    /\ loop = "td" /\ (my[t].pc \in {"edge", "swap"} \/ Pending(t)) =>
         my[t].i < my[t].end /\ my[t].j \in 1 .. Degree(U(t))
    /\ loop = "td" /\ my[t].pc = "swap" =>
         my[t].val < 0 /\ (dist[V(t)] = my[t].val \/ dist[V(t)] >= 0)
    /\ my[t].pc = "vertex" => my[t].j = 1
    /\ loop = "to_bitmap" /\ my[t].pc = "swap" => my[t].i < my[t].end
    /\ ~Pushing \/ my[t].pc = "joined" => my[t].lqueue = <<>>

(***************************************************************************)
(* Where the vertices are that have been found: at an entry of the queue that *)
(* is written, or in a buffer, which may have entries reserved to go to.   *)
(***************************************************************************)
Reserved(t, p) == my[t].pc = "copy" /\ p \in my[t].at .. my[t].at + Len(my[t].lqueue) - 1
Written(p) == p \in 0 .. queue.in - 1 /\ \A t \in Thread : ~Reserved(t, p)
Buffered(t, v) == \E k \in 1 .. Len(my[t].lqueue) : my[t].lqueue[k] = v
New(v) ==
  \/ \E p \in queue.out_end .. queue.in - 1 : Written(p) /\ queue.shared[p] = v
  \/ \E t \in Thread : Buffered(t, v)
Newest == IF loop \in {"test", "to_bitmap"} THEN queue.out_start ELSE queue.out_end

(***************************************************************************)
(* Reserved entries lie apart behind the window ...                        *)
(***************************************************************************)
Places ==
  /\ queue.out_start <= queue.out_end /\ queue.out_end <= queue.in
  /\ ~Pushing => queue.out_end = queue.in
  /\ \A t \in Thread : my[t].pc = "copy" =>
       queue.out_end <= my[t].at /\ my[t].at + Len(my[t].lqueue) <= queue.in
  /\ \A s, t \in Thread : \A p \in 0 .. queue.in - 1 : Reserved(s, p) /\ Reserved(t, p) => s = t

(***************************************************************************)
(* ... no vertex is twice in the queue, and the newest level is at its end ... *)
(***************************************************************************)
WrittenInv ==
  /\ \A p \in 0 .. queue.in - 1 : Written(p) =>
       /\ queue.shared[p] \in Vertex /\ dist[queue.shared[p]] >= 0
       /\ dist[queue.shared[p]] = depth <=> p >= Newest
  /\ \A p, q \in 0 .. queue.in - 1 :
       Written(p) /\ Written(q) /\ queue.shared[p] = queue.shared[q] => p = q

(***************************************************************************)
(* ... nor in a buffer and somewhere else ...                              *)
(***************************************************************************)
BuffersInv ==
  /\ \A t \in Thread : \A k \in 1 .. Len(my[t].lqueue) : dist[my[t].lqueue[k]] = depth
  /\ \A s, t \in Thread : \A k \in 1 .. Len(my[s].lqueue), l \in 1 .. Len(my[t].lqueue) :
       my[s].lqueue[k] = my[t].lqueue[l] => s = t /\ k = l
  /\ \A t \in Thread : \A k \in 1 .. Len(my[t].lqueue) : \A p \in 0 .. queue.in - 1 :
       Written(p) => queue.shared[p] # my[t].lqueue[k]

(***************************************************************************)
(* ... nor pending at two threads or at one and somewhere else.            *)
(***************************************************************************)
PendingInv ==
  /\ \A t \in Thread : Pending(t) => dist[V(t)] = depth /\ ~New(V(t))
  /\ \A s, t \in Thread : Pending(s) /\ Pending(t) /\ V(s) = V(t) => s = t

(***************************************************************************)
(* BitmapToQueue(): what threads have passed of the bitmap is in the queue or a *)
(* buffer, and nothing else is.                                            *)
(***************************************************************************)
Passed(t, v) ==
  /\ v \in PartStart(t, N) .. PartStart(t + 1, N) - 1
  /\ my[t].pc = "joined" \/ v < my[t].i

GatherInv ==
  loop = "to_queue" =>
    /\ \A v \in Vertex : New(v) => \E t \in Thread : Passed(t, v)
    /\ \A v \in front : \A t \in Thread : Passed(t, v) => New(v)

(***************************************************************************)
(* No vertex of the level is missing.                                      *)
(***************************************************************************)
CompleteInv ==
  /\ loop = "td" =>
       /\ \A v \in Vertex : dist[v] = depth => New(v) \/ \E t \in Thread : Pending(t) /\ V(t) = v
       /\ \A v \in Vertex : dist[v] = depth - 1 => \E p \in Window : queue.shared[p] = v
       /\ \A p \in Window : dist[queue.shared[p]] = depth - 1
  /\ loop \in {"test", "to_bitmap"} =>
       \A v \in Vertex : dist[v] = depth => \E p \in Window : queue.shared[p] = v

(***************************************************************************)
(* TDStep(): the neighbor of an entry has a distance, or is still to be read. *)
(***************************************************************************)
ToDo(t, p, q) ==
  /\ my[t].pc # "joined" /\ my[t].i <= p /\ p < my[t].end
  /\ my[t].i = p => my[t].j <= q

EdgesInv ==
  loop = "td" =>
    \A p \in Window : \A q \in 1 .. Degree(queue.shared[p]) :
      dist[adj[queue.shared[p]][q]] >= 0 \/ \E t \in Thread : ToDo(t, p, q)

(***************************************************************************)
(* The bitmap of the frontier: no vertex that has no distance yet, and all of *)
(* the level, as far as it has been written.                               *)
(***************************************************************************)
Left(t, p) == my[t].pc # "joined" /\ my[t].i <= p /\ p < my[t].end

FrontInv ==
  /\ \A v \in front : dist[v] \in 0 .. Ready
  /\ loop = "bu" => Level(depth - 1) \subseteq front
  /\ loop = "to_queue" => front = Level(depth)
  /\ loop = "to_bitmap" =>
       \A p \in Window : queue.shared[p] \in front \/ \E t \in Thread : Left(t, p)

(***************************************************************************)
(* BUStep(): threads that have a chunk have words of their own, of what lies *)
(* ahead of them; the bits that are set are those of the vertices that have *)
(* been found, except those about to be set.                               *)
(***************************************************************************)
Scanning(t) == my[t].pc \in {"test", "set"}
Ahead(t) == my[t].i .. my[t].end - 1

BottomUpInv ==
  loop = "bu" =>
    /\ chunk % Word = 0 \/ chunk = N
    /\ \A t \in Thread : Scanning(t) => my[t].i < my[t].end /\ my[t].end <= chunk
    /\ \A t \in Thread : Scanning(t) =>
         /\ \A u \in Ahead(t) : \A w \in chunk .. N - 1 : u \div Word # w \div Word
         /\ \A s \in Thread \ {t} : Scanning(s) =>
              \A u \in Ahead(t) : \A w \in Ahead(s) : u \div Word # w \div Word
    /\ \A t \in Thread : my[t].pc = "set" =>
         dist[my[t].i] = depth /\ my[t].word = curr \cap InWord(my[t].i)
    /\ \A v \in Vertex : v \in curr <=>
         dist[v] = depth /\ \A t \in Thread : my[t].pc = "set" => my[t].i # v
    /\ \A v \in Level(depth) : dist[v] = depth \/ v >= chunk \/
         \E t \in Thread : Scanning(t) /\ v \in Ahead(t)
    /\ \A t \in Thread : my[t].count # 0 => \E v \in Vertex : dist[v] = depth
    /\ \A t \in Thread : my[t].pc = "joined" => chunk = N

IInv ==
  /\ TypeOK /\ DistInv /\ RangeInv /\ Places /\ WrittenInv /\ BuffersInv /\ PendingInv
  /\ GatherInv /\ CompleteInv /\ EdgesInv /\ FrontInv /\ BottomUpInv

-----------------------------------------------------------------------------
LEMMA Basics ==
  /\ N \in Nat /\ N >= 1 /\ Vertex = 0 .. N - 1 /\ Root \in Vertex
  /\ NumT \in Nat \ {0} /\ Word \in Nat \ {0} /\ Chunk \in Nat \ {0}
  /\ LocalSize \in Nat \ {0} /\ Chunk % Word = 0
  /\ Thread \subseteq Nat /\ 0 \in Thread
  /\ \A t \in Thread : t < NumT /\ t + 1 \in 0 .. NumT
  /\ IsFiniteSet(Vertex) /\ Cardinality(Vertex) = N
<1>1. IsFiniteSet(Vertex) /\ Cardinality(Vertex) = N BY DirAssumption, FS_Interval
<1> QED BY <1>1, DirAssumption, GraphAssumption DEF Thread

LEMMA Division ==
  ASSUME NEW x \in Nat, NEW n \in Nat \ {0}
  PROVE  /\ x \div n \in Nat /\ x % n \in 0 .. n - 1
         /\ x = n * (x \div n) + (x % n)
<1>1. x % n = x - n * (x \div n) BY SMT
<1>2. x % n \in 0 .. n - 1 BY SMT
<1>3. x \div n \in Nat BY SMT
<1> DEFINE q == x \div n
           r == x % n
<1> HIDE DEF q, r
<1>4. n * q \in Int /\ r = x - n * q /\ r \in 0 .. n - 1 BY <1>1, <1>2, <1>3 DEF q, r
<1>5. x = n * q + r BY <1>4
<1> QED BY <1>2, <1>3, <1>5 DEF q, r

(***************************************************************************)
(* The static schedule: the parts lie one behind the other.                *)
(***************************************************************************)
LEMMA PartBounds ==
  ASSUME NEW n \in Nat
  PROVE  /\ PartStart(0, n) = 0 /\ PartStart(NumT, n) = n
         /\ \A t \in 0 .. NumT : PartStart(t, n) \in 0 .. n
         /\ \A s, t \in 0 .. NumT : s <= t => PartStart(s, n) <= PartStart(t, n)
<1> DEFINE q == n \div NumT
           r == n % NumT
           Extra(t) == IF t < r THEN t ELSE r
<1>1. NumT \in Nat \ {0} BY Basics
<1>2. q \in Nat /\ r \in 0 .. NumT - 1 /\ n = NumT * q + r BY <1>1, Division
<1>3. \A t \in 0 .. NumT : PartStart(t, n) = q * t + Extra(t) BY DEF PartStart
<1> HIDE DEF q, r
<1>4. \A s, t \in 0 .. NumT : s <= t => q * s <= q * t /\ q * s \in Nat /\ q * t \in Nat
 <2> TAKE s, t \in 0 .. NumT
 <2> HAVE s <= t
 <2>1. s \in Nat /\ t \in Nat /\ t - s \in Nat BY <1>1
 <2>2. q * (t - s) \in Nat /\ q * t = q * s + q * (t - s) /\ q * s \in Nat BY <1>2, <2>1
 <2> QED BY <2>2
<1>5. \A s, t \in 0 .. NumT :
        s <= t => Extra(s) <= Extra(t) /\ Extra(s) \in Nat /\ Extra(t) \in Nat
  BY <1>1, <1>2
<1>6. PartStart(0, n) = 0 BY <1>1, <1>2, <1>3
<1>7. PartStart(NumT, n) = n BY <1>1, <1>2, <1>3
<1>8. \A s, t \in 0 .. NumT : s <= t => PartStart(s, n) <= PartStart(t, n) /\ PartStart(s, n) \in Nat
 <2> TAKE s, t \in 0 .. NumT
 <2> HAVE s <= t
 <2>1. q * s <= q * t /\ q * s \in Nat /\ q * t \in Nat BY <1>4
 <2>2. Extra(s) <= Extra(t) /\ Extra(s) \in Nat /\ Extra(t) \in Nat BY <1>5
 <2>3. PartStart(s, n) = q * s + Extra(s) /\ PartStart(t, n) = q * t + Extra(t) BY <1>3
 <2> HIDE DEF Extra
 <2> QED BY <2>1, <2>2, <2>3
<1>9. \A t \in 0 .. NumT : PartStart(t, n) \in 0 .. n BY <1>1, <1>7, <1>8
<1> QED BY <1>6, <1>7, <1>8, <1>9

LEMMA PartsCover ==
  ASSUME NEW n \in Nat, NEW i \in 0 .. n - 1
  PROVE  \E t \in Thread : PartStart(t, n) <= i /\ i < PartStart(t + 1, n)
<1> DEFINE After == {t \in 0 .. NumT : i < PartStart(t, n)}
<1>1. NumT \in After /\ After \in SUBSET Nat BY Basics, PartBounds
<1>2. PICK m \in After : \A k \in After : m <= k BY <1>1, Least
<1>3. m \in 0 .. NumT /\ i < PartStart(m, n) /\ m # 0 BY <1>2, PartBounds
<1>4. m - 1 \in Thread /\ m - 1 \in 0 .. NumT /\ ~ (m <= m - 1) BY <1>3, Basics DEF Thread
<1>5. PartStart(m - 1, n) <= i
 <2>1. m - 1 \notin After BY <1>2, <1>4
 <2>2. PartStart(m - 1, n) \in 0 .. n BY <1>4, PartBounds
 <2> QED BY <1>4, <2>1, <2>2
<1>6. (m - 1) + 1 = m BY <1>3, Basics
<1> QED BY <1>3, <1>4, <1>5, <1>6

LEMMA PartsApart ==
  ASSUME NEW n \in Nat, NEW s \in Thread, NEW t \in Thread, NEW i \in Int,
         PartStart(s, n) <= i, i < PartStart(s + 1, n),
         PartStart(t, n) <= i, i < PartStart(t + 1, n)
  PROVE  s = t
<1>1. /\ s \in 0 .. NumT /\ s + 1 \in 0 .. NumT /\ t \in 0 .. NumT /\ t + 1 \in 0 .. NumT
      /\ s \in Nat /\ t \in Nat
  BY Basics
<1>2. /\ PartStart(s, n) \in 0 .. n /\ PartStart(s + 1, n) \in 0 .. n
      /\ PartStart(t, n) \in 0 .. n /\ PartStart(t + 1, n) \in 0 .. n
      /\ s + 1 <= t => PartStart(s + 1, n) <= PartStart(t, n)
      /\ t + 1 <= s => PartStart(t + 1, n) <= PartStart(s, n)
  BY <1>1, PartBounds
<1> QED BY <1>1, <1>2

(***************************************************************************)
(* A place where a word begins divides the vertices by their words.        *)
(***************************************************************************)
LEMMA WordBoundary ==
  ASSUME NEW c \in Nat, c % Word = 0, NEW u \in Nat, NEW w \in Nat, u < c, c <= w
  PROVE  u \div Word # w \div Word
<1>1. Word \in Nat \ {0} BY Basics
<1> DEFINE k == c \div Word
           a == u \div Word
           b == w \div Word
<1>2. k \in Nat /\ c = Word * k BY <1>1, Division
<1>3. a \in Nat /\ Word * a <= u BY <1>1, Division
<1>4. b \in Nat /\ w < Word * b + Word BY <1>1, Division
<1> HIDE DEF k, a, b
<1>5. Word * a < Word * k BY <1>1, <1>2, <1>3
<1>6. a < k BY <1>1, <1>2, <1>3, <1>5
<1>7. Word * k < Word * (b + 1) BY <1>1, <1>2, <1>4
<1>8. k < b + 1 BY <1>1, <1>2, <1>4, <1>7
<1> QED BY <1>2, <1>3, <1>4, <1>6, <1>8 DEF a, b

LEMMA NextBoundary ==
  ASSUME NEW c \in Nat, c % Word = 0
  PROVE  (c + Chunk) % Word = 0
<1>1. Word \in Nat \ {0} /\ Chunk \in Nat /\ Chunk % Word = 0 BY Basics
<1> DEFINE k == c \div Word
           l == Chunk \div Word
<1>2. k \in Nat /\ c = Word * k /\ l \in Nat /\ Chunk = Word * l BY <1>1, Division
<1> HIDE DEF k, l
<1>3. c + Chunk = Word * (k + l) BY <1>1, <1>2
<1> QED BY <1>1, <1>2, <1>3

LEMMA TakenIs ==
  ASSUME chunk \in 0 .. N
  PROVE  LET next == IF chunk + Chunk <= N THEN chunk + Chunk ELSE N
         IN /\ Taken = chunk .. next - 1
            /\ chunk + Cardinality(Taken) = next
<1> DEFINE a == chunk + Chunk
           next == IF a <= N THEN a ELSE N
<1>1. N \in Nat /\ Chunk \in Nat /\ chunk \in Nat /\ chunk <= N BY Basics
<1>2. Min({a, N}) = next
 <2>1. next \in {a, N} /\ \A y \in {a, N} : next <= y BY <1>1
 <2>2. \A m \in {a, N} : (\A y \in {a, N} : m <= y) => m = next BY <1>1
 <2>3. Min({a, N}) = CHOOSE m \in {a, N} : \A y \in {a, N} : m <= y BY DEF Min
 <2> QED BY <2>1, <2>2, <2>3
<1>3. Taken = chunk .. next - 1 BY <1>2 DEF Taken
<1>4. next \in Nat /\ chunk <= next BY <1>1
<1>5. Cardinality(Taken) = next - chunk
 <2> HIDE DEF next
 <2>1. chunk \in Int /\ next - 1 \in Int BY <1>1, <1>4
 <2>2. Cardinality(chunk .. next - 1) = IF chunk > next - 1 THEN 0 ELSE (next - 1) - chunk + 1
   BY <2>1, FS_Interval
 <2> QED BY <1>1, <1>3, <1>4, <2>2
<1> QED BY <1>1, <1>3, <1>4, <1>5

(***************************************************************************)
(* The reduction exists, and of zeros it is zero.                          *)
(***************************************************************************)
LEMMA RunningSum ==
  ASSUME NEW a \in [Thread -> Int]
  PROVE  \E f \in [0 .. NumT -> Int] :
           f = [t \in 0 .. NumT |-> IF t = 0 THEN 0 ELSE f[t - 1] + a[t - 1]]
<1> DEFINE Upward(f, n) ==
             \A t \in 0 .. n : f[t] = IF t = 0 THEN 0 ELSE f[t - 1] + a[t - 1]
           Exists(n) == \E f \in [0 .. n -> Int] : Upward(f, n)
           Bad == {n \in 0 .. NumT : ~Exists(n)}
<1>1. Exists(0)
 <2>1. [t \in 0 .. 0 |-> 0] \in [0 .. 0 -> Int] /\ Upward([t \in 0 .. 0 |-> 0], 0) OBVIOUS
 <2> QED BY <2>1
<1>2. ASSUME NEW m \in 1 .. NumT, Exists(m - 1) PROVE Exists(m)
 <2>1. PICK f \in [0 .. m - 1 -> Int] : Upward(f, m - 1) BY <1>2
 <2>2. m \in Nat /\ m # 0 /\ m - 1 \in Thread /\ m - 1 \in 0 .. m - 1 BY Basics DEF Thread
 <2> DEFINE g == [t \in 0 .. m |-> IF t = m THEN f[m - 1] + a[m - 1] ELSE f[t]]
 <2>3. g \in [0 .. m -> Int]
  <3>1. f[m - 1] \in Int /\ a[m - 1] \in Int BY <2>2
  <3>2. \A t \in 0 .. m : t # m => f[t] \in Int BY <2>2
  <3> QED BY <3>1, <3>2
 <2>4. Upward(g, m)
  <3> SUFFICES ASSUME NEW t \in 0 .. m PROVE g[t] = IF t = 0 THEN 0 ELSE g[t - 1] + a[t - 1] OBVIOUS
  <3>1. CASE t = m
   <4>1. g[t] = f[m - 1] + a[m - 1] /\ g[t - 1] = f[m - 1] BY <2>2, <3>1
   <4> QED BY <2>2, <3>1, <4>1
  <3>2. CASE t # m
   <4>1. t \in 0 .. m - 1 /\ (t # 0 => t - 1 \in 0 .. m - 1) BY <2>2, <3>2
   <4>2. g[t] = f[t] /\ (t # 0 => g[t - 1] = f[t - 1]) BY <2>2, <3>2, <4>1
   <4>3. f[t] = IF t = 0 THEN 0 ELSE f[t - 1] + a[t - 1] BY <2>1, <4>1
   <4> QED BY <4>2, <4>3
  <3> QED BY <3>1, <3>2
 <2> HIDE DEF Upward, g
 <2> QED BY <2>3, <2>4
<1> HIDE DEF Upward, Exists
<1>3. Bad = {}
 <2> SUFFICES ASSUME Bad # {} PROVE FALSE OBVIOUS
 <2>1. Bad \in SUBSET Nat BY Basics
 <2>2. PICK m \in Bad : \A n \in Bad : m <= n BY <2>1, Least
 <2>3. m \in 0 .. NumT /\ m \in Nat /\ ~Exists(m) BY <2>2, Basics
 <2>4. m \in 1 .. NumT BY <1>1, <2>3, Basics
 <2>5. m - 1 \in 0 .. NumT /\ ~(m <= m - 1) BY <2>4, Basics
 <2>6. Exists(m - 1) BY <2>2, <2>5
 <2> QED BY <1>2, <2>3, <2>4, <2>6
<1>4. Exists(NumT) BY <1>3, Basics
<1>5. PICK f \in [0 .. NumT -> Int] : Upward(f, NumT) BY <1>4 DEF Exists
<1>6. f = [t \in 0 .. NumT |-> IF t = 0 THEN 0 ELSE f[t - 1] + a[t - 1]] BY <1>5 DEF Upward
<1> QED BY <1>6

LEMMA TotalIs ==
  ASSUME TypeOK
  PROVE  /\ Total \in Int
         /\ Total # 0 => \E t \in Thread : my[t].count # 0
<1> DEFINE a == [t \in Thread |-> my[t].count]
           Eq(f) == f = [t \in 0 .. NumT |-> IF t = 0 THEN 0 ELSE f[t - 1] + a[t - 1]]
           Bad == {t \in 0 .. NumT : Sums[t] \notin Int}
           Odd == {t \in 0 .. NumT : Sums[t] # 0}
<1>1. \A t \in Thread : my[t].count \in Int BY DEF TypeOK, Local
<1>2. a \in [Thread -> Int] BY <1>1
<1>3. PICK f \in [0 .. NumT -> Int] : Eq(f) BY <1>2, RunningSum
<1>4. Eq(Sums)
 <2> DEFINE Eq2(h) == h = [t \in 0 .. NumT |-> IF t = 0 THEN 0 ELSE h[t - 1] + my[t - 1].count]
 <2>1. \A t \in 0 .. NumT : t # 0 => t - 1 \in Thread BY Basics DEF Thread
 <2>2. \A g : [t \in 0 .. NumT |-> IF t = 0 THEN 0 ELSE g[t - 1] + a[t - 1]]
            = [t \in 0 .. NumT |-> IF t = 0 THEN 0 ELSE g[t - 1] + my[t - 1].count]
   BY <2>1
 <2>3. \A g : Eq(g) <=> Eq2(g) BY <2>2
 <2>4. Sums = CHOOSE g : Eq2(g) BY DEF Sums
 <2> HIDE DEF Eq, Eq2
 <2> QED BY <1>3, <2>3, <2>4
<1>5. \A t \in 0 .. NumT : Sums[t] = IF t = 0 THEN 0 ELSE Sums[t - 1] + a[t - 1] BY <1>4
<1>6. \A t \in 0 .. NumT : t # 0 => a[t - 1] \in Int /\ t - 1 \in 0 .. NumT /\ t - 1 \in Thread
  BY <1>2, Basics DEF Thread
<1> HIDE DEF a
<1>7. Bad = {}
 <2> SUFFICES ASSUME Bad # {} PROVE FALSE OBVIOUS
 <2>1. Bad \in SUBSET Nat BY Basics
 <2>2. PICK m \in Bad : \A k \in Bad : m <= k BY <2>1, Least
 <2>3. m \in 0 .. NumT /\ m \in Nat /\ Sums[m] \notin Int BY <2>2, Basics
 <2>4. Sums[m] = IF m = 0 THEN 0 ELSE Sums[m - 1] + a[m - 1] BY <1>5, <2>3
 <2>5. m # 0 /\ ~(m <= m - 1) BY <2>3, <2>4
 <2>6. Sums[m - 1] \in Int BY <1>6, <2>2, <2>3, <2>5
 <2> QED BY <1>6, <2>3, <2>4, <2>5, <2>6
<1>8. ASSUME \A t \in Thread : a[t] = 0 PROVE Odd = {}
 <2> SUFFICES ASSUME Odd # {} PROVE FALSE OBVIOUS
 <2>1. Odd \in SUBSET Nat BY Basics
 <2>2. PICK m \in Odd : \A k \in Odd : m <= k BY <2>1, Least
 <2>3. m \in 0 .. NumT /\ m \in Nat /\ Sums[m] # 0 BY <2>2, Basics
 <2>4. m # 0 BY <1>5, <2>3
 <2>5. ~(m <= m - 1) BY <2>3
 <2>6. Sums[m - 1] = 0 /\ a[m - 1] = 0 BY <1>6, <1>8, <2>2, <2>3, <2>4, <2>5
 <2> QED BY <1>5, <2>3, <2>4, <2>6
<1>9. NumT \in 0 .. NumT BY Basics
<1>10. Total # 0 => \E t \in Thread : a[t] # 0 BY <1>8, <1>9 DEF Total
<1> QED BY <1>7, <1>9, <1>10 DEF Total, a

-----------------------------------------------------------------------------
(***************************************************************************)
(* What the invariant says of a thread and of the queue.                   *)
(***************************************************************************)
LEMMA MyTypes ==
  ASSUME TypeOK, NEW t \in Thread
  PROVE  /\ my[t] \in Local /\ my[t].pc \in LabelsOf(loop)
         /\ my[t].i \in Nat /\ my[t].end \in Nat /\ my[t].j \in Nat /\ my[t].val \in Int
         /\ my[t].at \in Nat /\ my[t].lqueue \in Seq(Vertex) /\ my[t].word \subseteq Vertex
         /\ my[t].count \in Int
         /\ Len(my[t].lqueue) \in Nat
         /\ \A k \in 1 .. Len(my[t].lqueue) : my[t].lqueue[k] \in Vertex
<1>1. my[t] \in Local /\ my[t].pc \in LabelsOf(loop) BY DEF TypeOK
<1>2. my[t].lqueue \in Seq(Vertex) BY <1>1 DEF Local
<1> QED BY <1>1, <1>2 DEF Local

LEMMA QueueTypes ==
  ASSUME TypeOK
  PROVE  /\ queue.shared \in [Vertex -> Vertex \cup {Unset}]
         /\ queue.in \in Nat /\ queue.out_start \in Nat /\ queue.out_end \in Nat
         /\ queue = [shared |-> queue.shared, in |-> queue.in,
                     out_start |-> queue.out_start, out_end |-> queue.out_end]
  BY DEF TypeOK

LEMMA LoopLabels ==
  ASSUME TypeOK, NEW t \in Thread
  PROVE  /\ loop = "td" <=> my[t].pc \in {"vertex", "edge"} \/ (loop = "td" /\ my[t].pc \in {"swap", "push", "flush", "copy", "joined"})
         /\ loop = "to_bitmap" => my[t].pc \in {"read", "swap", "joined"}
         /\ loop = "bu" => my[t].pc \in {"chunk", "test", "set", "joined"}
         /\ loop = "to_queue" => my[t].pc \in {"push", "flush", "copy", "joined"}
         /\ loop \in {"test", "clear", "returned"} => my[t].pc = "joined"
<1>1. /\ my[t].pc \in LabelsOf(loop)
      /\ loop \in {"test", "td", "to_bitmap", "bu", "to_queue", "clear", "returned"}
  BY DEF TypeOK
<1>2. CASE loop = "td" BY <1>1, <1>2 DEF LabelsOf
<1>3. CASE loop = "to_bitmap" BY <1>1, <1>3 DEF LabelsOf
<1>4. CASE loop = "bu" BY <1>1, <1>4 DEF LabelsOf
<1>5. CASE loop = "to_queue" BY <1>1, <1>5 DEF LabelsOf
<1>6. CASE loop \in {"test", "clear", "returned"} BY <1>1, <1>6 DEF LabelsOf
<1> QED BY <1>1, <1>2, <1>3, <1>4, <1>5, <1>6

LEMMA WindowIs ==
  ASSUME TypeOK, Places
  PROVE  /\ QueueSize \in Nat
         /\ \A p \in Window : p \in 0 .. queue.in - 1 /\ Written(p) /\ p < queue.out_end
         /\ Window = {p \in Int : queue.out_start <= p /\ p < queue.out_end}
<1>1. /\ queue.in \in Nat /\ queue.out_start \in Nat /\ queue.out_end \in Nat
      /\ queue.out_start <= queue.out_end /\ queue.out_end <= queue.in
  BY QueueTypes DEF Places
<1>2. \A p \in Window : p \in 0 .. queue.in - 1 /\ p < queue.out_end BY <1>1 DEF Window
<1>3. \A p \in Window : Written(p)
 <2> SUFFICES ASSUME NEW p \in Window, NEW t \in Thread, Reserved(t, p) PROVE FALSE
   BY <1>2 DEF Written
 <2>1. my[t].at \in Nat /\ p >= my[t].at /\ my[t].pc = "copy" BY MyTypes DEF Reserved
 <2>2. queue.out_end <= my[t].at BY <2>1 DEF Places
 <2> QED BY <1>1, <1>2, <2>1, <2>2
<1>4. QueueSize \in Nat /\ Window = {p \in Int : queue.out_start <= p /\ p < queue.out_end}
  BY <1>1 DEF QueueSize, Window
<1> QED BY <1>2, <1>3, <1>4

LEMMA InWindow ==
  ASSUME TypeOK, Places, WrittenInv, NEW p \in Window
  PROVE  queue.shared[p] \in Vertex /\ dist[queue.shared[p]] >= 0
  BY WindowIs DEF WrittenInv

(***************************************************************************)
(* A thread of a loop over the queue has entries of the window.            *)
(***************************************************************************)
LEMMA EntryOf ==
  ASSUME IInv, NEW t \in Thread, loop \in {"td", "to_bitmap"}, my[t].pc # "joined"
  PROVE  /\ queue.out_start <= my[t].i /\ my[t].i <= my[t].end /\ my[t].end <= queue.out_end
         /\ my[t].i # my[t].end => my[t].i \in Window
<1>0. TypeOK /\ Places /\ RangeInv BY DEF IInv
<1>1. /\ queue.out_start \in Nat /\ queue.out_end \in Nat /\ QueueSize \in Nat
      /\ my[t].i \in Nat /\ my[t].end \in Nat
  BY <1>0, QueueTypes, MyTypes, WindowIs
<1>2. First = queue.out_start /\ Length = QueueSize BY DEF First, Length
<1>3. /\ queue.out_start + PartStart(t, QueueSize) <= my[t].i /\ my[t].i <= my[t].end
      /\ my[t].end = queue.out_start + PartStart(t + 1, QueueSize)
  BY <1>0, <1>2 DEF RangeInv
<1>4. PartStart(t, QueueSize) \in 0 .. QueueSize /\ PartStart(t + 1, QueueSize) \in 0 .. QueueSize
 <2>1. t \in 0 .. NumT /\ t + 1 \in 0 .. NumT BY Basics
 <2> QED BY <1>1, <2>1, PartBounds
<1>5. QueueSize = queue.out_end - queue.out_start BY DEF QueueSize
<1>6. queue.out_start <= my[t].i /\ my[t].i <= my[t].end /\ my[t].end <= queue.out_end
  BY <1>1, <1>3, <1>4, <1>5
<1>7. my[t].i # my[t].end => my[t].i \in Window BY <1>0, <1>1, <1>6, WindowIs
<1> QED BY <1>6, <1>7

(***************************************************************************)
(* The edge a thread of TDStep() is at.                                    *)
(***************************************************************************)
LEMMA EdgeOf ==
  ASSUME IInv, NEW t \in Thread, loop = "td",
         my[t].pc \in {"edge", "swap"} \/ Pending(t)
  PROVE  /\ my[t].i \in Window /\ my[t].i < my[t].end
         /\ my[t].j \in 1 .. Degree(U(t)) /\ Degree(U(t)) \in Nat
         /\ U(t) \in Vertex /\ V(t) \in Vertex /\ V(t) \in Neighbors(U(t))
         /\ dist[U(t)] = depth - 1 /\ Delta[U(t)] = depth - 1
<1>0. TypeOK /\ Places /\ RangeInv /\ WrittenInv /\ CompleteInv /\ DistInv BY DEF IInv
<1>1. my[t].i < my[t].end /\ my[t].j \in 1 .. Degree(U(t)) BY <1>0 DEF RangeInv
<1>2. my[t].i \in Nat /\ my[t].end \in Nat /\ my[t].pc # "joined" BY <1>0, MyTypes DEF Pending
<1>3. my[t].i \in Window BY <1>1, <1>2, EntryOf
<1>4. U(t) \in Vertex /\ dist[U(t)] >= 0 BY <1>0, <1>3, InWindow DEF U
<1>5. dist[U(t)] = depth - 1 BY <1>0, <1>3 DEF CompleteInv, U
<1>6. Delta[U(t)] = depth - 1 BY <1>0, <1>4, <1>5 DEF DistInv
<1>7. adj[U(t)] \in Seq(Vertex) BY <1>4, GraphAssumption
<1>8. Degree(U(t)) \in Nat /\ Degree(U(t)) = Len(adj[U(t)]) BY <1>7 DEF Degree
<1>9. V(t) \in Vertex /\ V(t) \in Neighbors(U(t))
 <2>1. V(t) = adj[U(t)][my[t].j] BY DEF V
 <2>2. V(t) \in Neighbors(U(t)) BY <1>1, <1>4, <1>8, <2>1, GraphTypes
 <2> QED BY <1>4, <2>2, GraphTypes
<1> QED BY <1>1, <1>3, <1>4, <1>5, <1>6, <1>8, <1>9

(***************************************************************************)
(* The vertices of the entries, written or reserved, are all different, so *)
(* that there are not more entries than vertices.                          *)
(***************************************************************************)
LEMMA Fits ==
  ASSUME TypeOK, Places, WrittenInv, BuffersInv
  PROVE  queue.in <= N
<1> DEFINE Owner(p) == CHOOSE t \in Thread : Reserved(t, p)
           Entry == 0 .. queue.in - 1
           slot == [p \in Entry |-> IF Written(p) THEN queue.shared[p]
                                    ELSE my[Owner(p)].lqueue[p - my[Owner(p)].at + 1]]
           Index(p) == p - my[Owner(p)].at + 1
<1>1. queue.in \in Nat /\ \A p \in Entry : p \in Int BY QueueTypes
<1>2. ASSUME NEW p \in Entry, ~Written(p)
      PROVE  /\ Owner(p) \in Thread /\ Reserved(Owner(p), p)
             /\ Index(p) \in 1 .. Len(my[Owner(p)].lqueue)
             /\ p = Index(p) + my[Owner(p)].at - 1 /\ my[Owner(p)].at \in Nat
 <2>1. \E t \in Thread : Reserved(t, p) BY <1>2 DEF Written
 <2>2. Owner(p) \in Thread /\ Reserved(Owner(p), p) BY <2>1
 <2> DEFINE o == Owner(p)
 <2> HIDE DEF o
 <2>3. o \in Thread /\ Reserved(o, p) BY <2>2 DEF o
 <2>4. p \in my[o].at .. my[o].at + Len(my[o].lqueue) - 1 BY <2>3 DEF Reserved
 <2>5. my[o].at \in Nat /\ Len(my[o].lqueue) \in Nat BY <2>3, MyTypes
 <2>6. p - my[o].at + 1 \in 1 .. Len(my[o].lqueue) /\ p = (p - my[o].at + 1) + my[o].at - 1
  <3> DEFINE a == my[o].at
             n == Len(my[o].lqueue)
  <3>1. a \in Nat /\ n \in Nat /\ p \in Int /\ p \in a .. a + n - 1 BY <1>1, <2>4, <2>5
  <3> HIDE DEF a, n
  <3>2. p - a + 1 \in 1 .. n /\ p = (p - a + 1) + a - 1 BY <3>1
  <3> QED BY <3>2 DEF a, n
 <2> QED BY <2>2, <2>5, <2>6 DEF o
<1> HIDE DEF Owner, Index
<1>3. \A p \in Entry : slot[p] = IF Written(p) THEN queue.shared[p]
                                 ELSE my[Owner(p)].lqueue[Index(p)]
  BY DEF Index
<1>4. slot \in [Entry -> Vertex]
 <2>1. \A p \in Entry : Written(p) => queue.shared[p] \in Vertex BY DEF WrittenInv
 <2>2. \A p \in Entry : ~Written(p) => my[Owner(p)].lqueue[Index(p)] \in Vertex BY <1>2, MyTypes
 <2>3. \A p \in Entry : slot[p] \in Vertex BY <1>3, <2>1, <2>2
 <2> QED BY <2>3
<1>5. ASSUME NEW p \in Entry, NEW q \in Entry, slot[p] = slot[q] PROVE p = q
 <2>1. CASE Written(p) /\ Written(q) BY <1>3, <1>5, <2>1 DEF WrittenInv
 <2>2. CASE ~Written(p) /\ ~Written(q)
  <3>1. my[Owner(p)].lqueue[Index(p)] = my[Owner(q)].lqueue[Index(q)] BY <1>3, <1>5, <2>2
  <3>2. Owner(p) = Owner(q) /\ Index(p) = Index(q) BY <1>2, <2>2, <3>1 DEF BuffersInv
  <3> QED BY <1>2, <2>2, <3>2
 <2>3. CASE Written(p) /\ ~Written(q)
  <3>1. queue.shared[p] = my[Owner(q)].lqueue[Index(q)] BY <1>3, <1>5, <2>3
  <3> QED BY <1>2, <2>3, <3>1 DEF BuffersInv
 <2>4. CASE ~Written(p) /\ Written(q)
  <3>1. queue.shared[q] = my[Owner(p)].lqueue[Index(p)] BY <1>3, <1>5, <2>4
  <3> QED BY <1>2, <2>4, <3>1 DEF BuffersInv
 <2> QED BY <2>1, <2>2, <2>3, <2>4
<1>6. slot \in Injection(Entry, Vertex)
 <2> HIDE DEF slot
 <2>1. \A p, q \in Entry : slot[p] = slot[q] => p = q BY <1>5
 <2>2. DOMAIN slot = Entry BY <1>4
 <2> QED BY <1>4, <2>1, <2>2 DEF Injection, IsInjective
<1>7. Cardinality(Entry) <= Cardinality(Vertex) /\ Cardinality(Vertex) = N
  BY <1>6, Basics, FS_Injection
<1>8. Cardinality(Entry) = queue.in
 <2> DEFINE last == queue.in - 1
 <2>1. last \in Int /\ last + 1 = queue.in /\ Entry = 0 .. last /\ last >= -1 BY <1>1
 <2> HIDE DEF last, Entry
 <2>2. Cardinality(0 .. last) = IF 0 > last THEN 0 ELSE last - 0 + 1 BY <2>1, FS_Interval
 <2> QED BY <2>1, <2>2
<1> QED BY <1>7, <1>8

(***************************************************************************)
(* In a loop that does not push, nothing is on its way to the queue.       *)
(***************************************************************************)
LEMMA Quiet ==
  ASSUME TypeOK, RangeInv, ~Pushing
  PROVE  /\ \A t \in Thread : /\ my[t].lqueue = <<>> /\ Len(my[t].lqueue) = 0
                              /\ my[t].pc \notin {"flush", "copy", "push"} /\ ~Pending(t)
         /\ \A t \in Thread, p \in Int : ~Reserved(t, p)
         /\ \A p \in Int : Written(p) <=> p \in 0 .. queue.in - 1
<1>1. \A t \in Thread : my[t].lqueue = <<>> /\ Len(my[t].lqueue) = 0 BY DEF RangeInv
<1>2. loop \in {"test", "to_bitmap", "bu", "clear", "returned"} BY DEF TypeOK, Pushing
<1>3. \A t \in Thread : my[t].pc \notin {"flush", "copy", "push"} BY <1>2, LoopLabels
<1>4. \A t \in Thread : ~Pending(t) BY <1>3 DEF Pending
<1>5. \A t \in Thread, p \in Int : ~Reserved(t, p) BY <1>3 DEF Reserved
<1>6. \A p \in Int : Written(p) <=> p \in 0 .. queue.in - 1 BY <1>5 DEF Written
<1> QED BY <1>1, <1>3, <1>4, <1>5, <1>6

-----------------------------------------------------------------------------
(***************************************************************************)
(* A step of a thread: what it leaves alone, and types.                    *)
(***************************************************************************)
LEMMA StepFrame ==
  ASSUME TypeOK, NEW t \in Thread, Step(t)
  PROVE  /\ alpha' = alpha /\ beta' = beta /\ depth' = depth
         /\ awake_count' = awake_count /\ loop' = loop
         /\ queue'.out_start = queue.out_start /\ queue'.out_end = queue.out_end
         /\ \A s \in Thread \ {t} : my'[s] = my[s]
         /\ my' = [my EXCEPT ![t] = my'[t]]
<1>1. my \in [Thread -> Local] /\ queue \in [shared : [Vertex -> Vertex \cup {Unset}],
                                       in : Nat, out_start : Nat, out_end : Nat]
  BY DEF TypeOK
<1> USE <1>1 DEF params, counts, At, Goto, Push
<1>2. CASE TakeVertex(t) \/ ReadDist(t) BY <1>2 DEF TakeVertex, ReadDist
<1>3. CASE CompareAndSwap(t) BY <1>3 DEF CompareAndSwap
<1>4. CASE PushVertex(t) BY <1>4 DEF PushVertex
<1>5. CASE Flush(t) BY <1>5 DEF Flush
<1>6. CASE Copy(t) BY <1>6 DEF Copy
<1>7. CASE ReadWord(t) \/ SwapWord(t) BY <1>7 DEF ReadWord, SwapWord
<1>8. CASE TakeChunk(t) BY <1>8 DEF TakeChunk
<1>9. CASE TestVertex(t) BY <1>9 DEF TestVertex
<1>10. CASE SetBit(t) BY <1>10 DEF SetBit
<1>11. CASE Gather(t) BY <1>11 DEF Gather
<1> QED BY <1>2, <1>3, <1>4, <1>5, <1>6, <1>7, <1>8, <1>9, <1>10, <1>11 DEF Step

(***************************************************************************)
(* Which step writes what.                                                 *)
(***************************************************************************)
LEMMA StepWrites ==
  ASSUME NEW t \in Thread, Step(t)
  PROVE  /\ ~CompareAndSwap(t) /\ ~TestVertex(t) => dist' = dist
         /\ ~Flush(t) /\ ~Copy(t) => queue' = queue
         /\ ~SwapWord(t) => front' = front
         /\ ~SetBit(t) => curr' = curr
         /\ ~TakeChunk(t) => chunk' = chunk
         /\ TakeVertex(t) \/ ReadDist(t) \/ CompareAndSwap(t) \/ PushVertex(t) => loop = "td"
         /\ ReadWord(t) \/ SwapWord(t) => loop = "to_bitmap"
         /\ TakeChunk(t) \/ TestVertex(t) \/ SetBit(t) => loop = "bu"
         /\ Gather(t) => loop = "to_queue"
  BY DEF Step, At, TakeVertex, ReadDist, CompareAndSwap, PushVertex, Flush, Copy, ReadWord,
     SwapWord, TakeChunk, TestVertex, SetBit, Gather

\* Records stay records.
LEMMA Updates ==
  ASSUME NEW m \in Local
  PROVE  /\ \A l \in Labels : [m EXCEPT !.pc = l] \in Local
         /\ \A x \in Nat : [m EXCEPT !.i = x] \in Local
         /\ \A n \in Int : [m EXCEPT !.count = n] \in Local
         /\ \A s \in Seq(Vertex) : [m EXCEPT !.lqueue = s] \in Local
         /\ \A y \in Nat, z \in Int, l \in Labels :
              [m EXCEPT !.j = y, !.val = z, !.pc = l] \in Local
         /\ \A x, y \in Nat, z \in Int, l \in Labels :
              [m EXCEPT !.i = x, !.j = y, !.val = z, !.pc = l] \in Local
         /\ \A x, y \in Nat, w \in SUBSET Vertex, l \in Labels :
              [m EXCEPT !.i = x, !.end = y, !.word = w, !.pc = l] \in Local
         /\ \A x \in Nat, w \in SUBSET Vertex, l \in Labels :
              [m EXCEPT !.i = x, !.word = w, !.pc = l] \in Local
         /\ \A x \in Nat, w \in SUBSET Vertex, l \in Labels :
              [m EXCEPT !.pc = l, !.i = x, !.word = w] \in Local
         /\ \A s \in Seq(Vertex), x \in Nat, l \in Labels :
              [m EXCEPT !.lqueue = s, !.at = x, !.pc = l] \in Local
         /\ \A x, y \in Nat, l \in Labels : [m EXCEPT !.i = x, !.end = y, !.pc = l] \in Local
         /\ \A n \in Int, w \in SUBSET Vertex, l \in Labels :
              [m EXCEPT !.count = n, !.word = w, !.pc = l] \in Local
  BY DEF Local

LEMMA FieldTypes ==
  ASSUME NEW m \in Local
  PROVE  /\ m.pc \in Labels /\ m.i \in Nat /\ m.end \in Nat /\ m.j \in Nat /\ m.val \in Int
         /\ m.at \in Nat /\ m.lqueue \in Seq(Vertex) /\ m.word \in SUBSET Vertex
         /\ m.count \in Int
  BY DEF Local

LEMMA FromEdgeIs ==
  ASSUME TypeOK, NEW t \in Thread, NEW k \in Nat
  PROVE  LET n == FromEdge(t, k)
         IN /\ n \in Local /\ n.end = my[t].end /\ n.at = my[t].at /\ n.lqueue = my[t].lqueue
            /\ n.word = my[t].word /\ n.count = my[t].count
            /\ k <= Degree(U(t)) => n.pc = "edge" /\ n.i = my[t].i /\ n.j = k
            /\ ~(k <= Degree(U(t))) => n.pc = "vertex" /\ n.i = my[t].i + 1 /\ n.j = 1
<1>1. my[t] \in Local BY DEF TypeOK
<1>0. /\ my[t].i + 1 \in Nat /\ 1 \in Nat /\ 0 \in Int
      /\ "edge" \in Labels /\ "vertex" \in Labels
  BY <1>1, FieldTypes DEF Labels
<1>2. CASE k <= Degree(U(t))
 <2> DEFINE n == [my[t] EXCEPT !.j = k, !.val = 0, !.pc = "edge"]
 <2>1. FromEdge(t, k) = n BY <1>2 DEF FromEdge
 <2>2. n \in Local BY <1>0, <1>1, Updates
 <2>3. /\ n.end = my[t].end /\ n.at = my[t].at /\ n.lqueue = my[t].lqueue
       /\ n.word = my[t].word /\ n.count = my[t].count
       /\ n.pc = "edge" /\ n.i = my[t].i /\ n.j = k
   BY <1>1 DEF Local
 <2> QED BY <1>2, <2>1, <2>2, <2>3
<1>3. CASE ~(k <= Degree(U(t)))
 <2> DEFINE n == [my[t] EXCEPT !.i = my[t].i + 1, !.j = 1, !.val = 0, !.pc = "vertex"]
 <2>1. FromEdge(t, k) = n BY <1>3 DEF FromEdge
 <2>2. n \in Local BY <1>0, <1>1, Updates
 <2>3. /\ n.end = my[t].end /\ n.at = my[t].at /\ n.lqueue = my[t].lqueue
       /\ n.word = my[t].word /\ n.count = my[t].count
       /\ n.pc = "vertex" /\ n.i = my[t].i + 1 /\ n.j = 1
   BY <1>1 DEF Local
 <2> QED BY <1>3, <2>1, <2>2, <2>3
<1> QED BY <1>2, <1>3

LEMMA NextVertexIs ==
  ASSUME NEW me \in Local
  PROVE  /\ NextVertex(me) \in Local /\ NextVertex(me).word = {}
         /\ NextVertex(me).lqueue = me.lqueue /\ NextVertex(me).count = me.count
         /\ NextVertex(me).j = me.j
         /\ me.i + 1 = me.end => NextVertex(me).pc = "chunk"
         /\ me.i + 1 # me.end =>
              /\ NextVertex(me).pc = "test" /\ NextVertex(me).i = me.i + 1
              /\ NextVertex(me).end = me.end
<1>0. me.i + 1 \in Nat /\ 0 \in Nat /\ {} \in SUBSET Vertex /\ {"chunk", "test"} \subseteq Labels
  BY FieldTypes DEF Labels
<1>1. CASE me.i + 1 = me.end
 <2> DEFINE n == [me EXCEPT !.i = 0, !.end = 0, !.word = {}, !.pc = "chunk"]
 <2>1. NextVertex(me) = n BY <1>1 DEF NextVertex
 <2>2. n \in Local BY <1>0, Updates
 <2>3. /\ n.word = {} /\ n.lqueue = me.lqueue /\ n.count = me.count /\ n.j = me.j
       /\ n.pc = "chunk"
   BY DEF Local
 <2> QED BY <1>1, <2>1, <2>2, <2>3
<1>2. CASE me.i + 1 # me.end
 <2> DEFINE n == [me EXCEPT !.i = me.i + 1, !.word = {}, !.pc = "test"]
 <2>1. NextVertex(me) = n BY <1>2 DEF NextVertex
 <2>2. n \in Local BY <1>0, Updates
 <2>3. /\ n.word = {} /\ n.lqueue = me.lqueue /\ n.count = me.count /\ n.j = me.j
       /\ n.pc = "test" /\ n.i = me.i + 1 /\ n.end = me.end
   BY DEF Local
 <2> QED BY <1>2, <2>1, <2>2, <2>3
<1> QED BY <1>1, <1>2

LEMMA IdleIs ==
  /\ Idle \in Local /\ Idle.pc = "joined" /\ Idle.lqueue = <<>> /\ Idle.count = 0
  /\ Idle.i = 0 /\ Idle.end = 0 /\ Idle.j = 1
  /\ \A n \in Int : [Idle EXCEPT !.count = n] \in Local
<1>1. Idle \in Local BY DEF Idle, Local, Labels
<1> QED BY <1>1, Updates DEF Idle

(***************************************************************************)
(* The steps that push, one way or the other.                              *)
(***************************************************************************)
LEMMA PushIs ==
  ASSUME TypeOK, NEW t \in Thread, NEW v \in Vertex, NEW next \in Local,
         next.lqueue = my[t].lqueue,
         my'[t] = IF Len(my[t].lqueue) = LocalSize THEN [my[t] EXCEPT !.pc = "flush"]
                  ELSE [next EXCEPT !.lqueue = Append(my[t].lqueue, v)]
  PROVE  /\ my'[t] \in Local
         /\ Len(my[t].lqueue) = LocalSize => my'[t] = [my[t] EXCEPT !.pc = "flush"]
         /\ Len(my[t].lqueue) # LocalSize =>
              /\ my'[t] = [next EXCEPT !.lqueue = Append(my[t].lqueue, v)]
              /\ my'[t].lqueue = Append(my[t].lqueue, v)
              /\ Len(my'[t].lqueue) = Len(my[t].lqueue) + 1
              /\ \A k \in 1 .. Len(my[t].lqueue) : my'[t].lqueue[k] = my[t].lqueue[k]
              /\ my'[t].lqueue[Len(my[t].lqueue) + 1] = v
              /\ my'[t].pc = next.pc /\ my'[t].i = next.i /\ my'[t].end = next.end
              /\ my'[t].j = next.j /\ my'[t].at = next.at
<1>1. my \in [Thread -> Local] /\ my[t] \in Local /\ my[t].lqueue \in Seq(Vertex)
  BY MyTypes DEF TypeOK
<1>3. CASE Len(my[t].lqueue) = LocalSize BY <1>1, <1>3 DEF Local, Labels
<1>4. CASE Len(my[t].lqueue) # LocalSize
 <2>1. my'[t] = [next EXCEPT !.lqueue = Append(my[t].lqueue, v)] BY <1>4
 <2>2. /\ my'[t].lqueue = Append(my[t].lqueue, v)
       /\ my'[t].pc = next.pc /\ my'[t].i = next.i /\ my'[t].end = next.end
       /\ my'[t].j = next.j /\ my'[t].at = next.at
   BY <2>1 DEF Local
 <2>3. Append(my[t].lqueue, v) \in Seq(Vertex) BY <1>1
 <2>4. my'[t] \in Local BY <2>1, <2>3 DEF Local
 <2>5. /\ Len(my'[t].lqueue) = Len(my[t].lqueue) + 1
       /\ \A k \in 1 .. Len(my[t].lqueue) : my'[t].lqueue[k] = my[t].lqueue[k]
       /\ my'[t].lqueue[Len(my[t].lqueue) + 1] = v
   BY <1>1, <2>2
 <2> QED BY <1>4, <2>1, <2>2, <2>4, <2>5
<1> QED BY <1>3, <1>4

LEMMA StepLocal ==
  ASSUME IInv, NEW t \in Thread, Step(t)
  PROVE  my'[t] \in Local /\ my'[t].pc \in LabelsOf(loop)
<1>0. TypeOK /\ my \in [Thread -> Local] /\ my[t] \in Local BY MyTypes DEF IInv, TypeOK
<1>1. CASE TakeVertex(t)
 <2>1. /\ loop = "td"
       /\ my'[t] = IF my[t].i = my[t].end THEN [my[t] EXCEPT !.pc = "flush"] ELSE FromEdge(t, 1)
   BY <1>0, <1>1 DEF TakeVertex, At
 <2>2. FromEdge(t, 1) \in Local /\ FromEdge(t, 1).pc \in {"edge", "vertex"} BY <1>0, FromEdgeIs
 <2>3. [my[t] EXCEPT !.pc = "flush"] \in Local /\ [my[t] EXCEPT !.pc = "flush"].pc = "flush"
   BY <1>0 DEF Local, Labels
 <2> QED BY <2>1, <2>2, <2>3 DEF LabelsOf
<1>2. CASE ReadDist(t)
 <2>1. /\ loop = "td"
       /\ my'[t] = IF dist[V(t)] < 0 THEN [my[t] EXCEPT !.val = dist[V(t)], !.pc = "swap"]
                   ELSE NextEdge(t)
   BY <1>0, <1>2 DEF ReadDist, At
 <2>2. NextEdge(t) \in Local /\ NextEdge(t).pc \in {"edge", "vertex"}
   BY <1>0, FromEdgeIs, MyTypes DEF NextEdge
 <2>3. V(t) \in Vertex /\ dist[V(t)] \in Int BY <1>0, <1>2, <2>1, EdgeOf DEF ReadDist, At, TypeOK
 <2>4. /\ [my[t] EXCEPT !.val = dist[V(t)], !.pc = "swap"] \in Local
       /\ [my[t] EXCEPT !.val = dist[V(t)], !.pc = "swap"].pc = "swap"
   BY <1>0, <2>3 DEF Local, Labels
 <2> QED BY <2>1, <2>2, <2>4 DEF LabelsOf
<1>3. CASE CompareAndSwap(t)
 <2>1. /\ loop = "td"
       /\ my'[t] = [my[t] EXCEPT !.pc = "push"] \/ my'[t] = NextEdge(t)
   BY <1>0, <1>3 DEF CompareAndSwap, At, Goto
 <2>2. NextEdge(t) \in Local /\ NextEdge(t).pc \in {"edge", "vertex"}
   BY <1>0, FromEdgeIs, MyTypes DEF NextEdge
 <2>3. [my[t] EXCEPT !.pc = "push"] \in Local /\ [my[t] EXCEPT !.pc = "push"].pc = "push"
   BY <1>0 DEF Local, Labels
 <2> QED BY <2>1, <2>2, <2>3 DEF LabelsOf
<1>4. CASE PushVertex(t)
 <2> DEFINE next == [NextEdge(t) EXCEPT !.count = @ - my[t].val]
 <2>1. loop = "td" /\ my[t].pc = "push" /\ Push(t, V(t), next) BY <1>4 DEF PushVertex, At
 <2>2. NextEdge(t) \in Local /\ NextEdge(t).pc \in {"edge", "vertex"}
       /\ NextEdge(t).lqueue = my[t].lqueue
   BY <1>0, FromEdgeIs, MyTypes DEF NextEdge
 <2>3. next \in Local /\ next.pc \in {"edge", "vertex"} /\ next.lqueue = my[t].lqueue
  <3>1. NextEdge(t).count - my[t].val \in Int BY <1>0, <2>2, FieldTypes
  <3>2. next \in Local BY <2>2, <3>1, Updates
  <3> QED BY <2>2, <3>2 DEF Local
 <2>4. V(t) \in Vertex BY <2>1, EdgeOf DEF Pending
 <2> HIDE DEF next
 <2>5. my'[t] \in Local /\ (my'[t] = [my[t] EXCEPT !.pc = "flush"] \/ my'[t].pc = next.pc)
  <3> DEFINE v == V(t)
  <3>1. /\ v \in Vertex
        /\ my'[t] = IF Len(my[t].lqueue) = LocalSize THEN [my[t] EXCEPT !.pc = "flush"]
                   ELSE [next EXCEPT !.lqueue = Append(my[t].lqueue, v)]
    BY <1>0, <2>1, <2>3, <2>4 DEF Push
  <3> HIDE DEF v
  <3>2. my'[t] \in Local
   <4>1. Append(my[t].lqueue, v) \in Seq(Vertex) /\ "flush" \in Labels
     BY <1>0, <3>1, MyTypes DEF Labels
   <4>2. /\ [next EXCEPT !.lqueue = Append(my[t].lqueue, v)] \in Local
         /\ [my[t] EXCEPT !.pc = "flush"] \in Local
     BY <1>0, <2>3, <4>1, Updates
   <4> QED BY <3>1, <4>2
  <3>3. CASE Len(my[t].lqueue) = LocalSize BY <3>1, <3>2, <3>3
  <3>4. CASE Len(my[t].lqueue) # LocalSize
   <4>1. my'[t].pc = next.pc BY <1>0, <2>3, <3>1, <3>4, PushIs
   <4> QED BY <3>2, <4>1
  <3> QED BY <3>3, <3>4
 <2>6. [my[t] EXCEPT !.pc = "flush"].pc = "flush" BY <1>0 DEF Local
 <2> QED BY <2>1, <2>3, <2>5, <2>6 DEF LabelsOf
<1>5. CASE Flush(t)
 <2>1. my[t].pc = "flush" /\ my'[t] = [my[t] EXCEPT !.at = queue.in, !.pc = "copy"]
   BY <1>0, <1>5 DEF Flush
 <2>2. my'[t] \in Local /\ my'[t].pc = "copy" BY <1>0, <2>1, QueueTypes DEF Local, Labels
 <2>3. "copy" \in LabelsOf(loop) BY <1>0, <2>1, LoopLabels, MyTypes DEF LabelsOf, TypeOK
 <2> QED BY <2>2, <2>3
<1>6. CASE Copy(t)
 <2>1. /\ my[t].pc = "copy"
       /\ \/ my'[t] = [Idle EXCEPT !.count = my[t].count]
          \/ my'[t] = [my[t] EXCEPT !.lqueue = <<>>, !.at = 0, !.pc = "push"]
   BY <1>0, <1>6 DEF Copy
 <2>2. [Idle EXCEPT !.count = my[t].count] \in Local
       /\ [Idle EXCEPT !.count = my[t].count].pc = "joined"
   BY <1>0, MyTypes, IdleIs DEF Idle
 <2>3. /\ [my[t] EXCEPT !.lqueue = <<>>, !.at = 0, !.pc = "push"] \in Local
       /\ [my[t] EXCEPT !.lqueue = <<>>, !.at = 0, !.pc = "push"].pc = "push"
  <3>1. <<>> \in Seq(Vertex) /\ 0 \in Nat /\ "push" \in Labels BY DEF Labels
  <3> QED BY <1>0, <3>1, Updates DEF Local
 <2>4. {"push", "joined"} \subseteq LabelsOf(loop)
   BY <1>0, <2>1, LoopLabels, MyTypes DEF LabelsOf, TypeOK
 <2> QED BY <2>1, <2>2, <2>3, <2>4
<1>7. CASE ReadWord(t)
 <2>1. /\ loop = "to_bitmap"
       /\ \/ my'[t] = Idle
          \/ my'[t] = [my[t] EXCEPT !.word = front \cap InWord(U(t)), !.pc = "swap"]
   BY <1>0, <1>7 DEF ReadWord, At
 <2>2. front \cap InWord(U(t)) \subseteq Vertex BY <1>0 DEF TypeOK
 <2>3. /\ [my[t] EXCEPT !.word = front \cap InWord(U(t)), !.pc = "swap"] \in Local
       /\ [my[t] EXCEPT !.word = front \cap InWord(U(t)), !.pc = "swap"].pc = "swap"
   BY <1>0, <2>2 DEF Local, Labels
 <2> QED BY <2>1, <2>3, IdleIs DEF LabelsOf
<1>8. CASE SwapWord(t)
 <2>1. /\ loop = "to_bitmap"
       /\ \/ my'[t] = [my[t] EXCEPT !.pc = "read", !.i = my[t].i + 1, !.word = {}]
          \/ my'[t] = [my[t] EXCEPT !.pc = "read"]
   BY <1>0, <1>8 DEF SwapWord, At, Goto
 <2>2. my[t].i + 1 \in Nat /\ {} \in SUBSET Vertex /\ "read" \in Labels
   BY <1>0, FieldTypes DEF Labels
 <2>3. my'[t] \in Local
  <3>1. [my[t] EXCEPT !.pc = "read"] \in Local BY <1>0, <2>2, Updates
  <3>2. [my[t] EXCEPT !.pc = "read", !.i = my[t].i + 1, !.word = {}] \in Local
    BY <1>0, <2>2, Updates
  <3> QED BY <2>1, <3>1, <3>2
 <2>4. my'[t].pc = "read" BY <1>0, <2>1 DEF Local
 <2> QED BY <2>1, <2>3, <2>4 DEF LabelsOf
<1>9. CASE TakeChunk(t)
 <2>1. /\ loop = "bu"
       /\ my'[t] = IF chunk >= N THEN [Idle EXCEPT !.count = my[t].count]
                   ELSE [my[t] EXCEPT !.i = chunk, !.end = chunk', !.pc = "test"]
       /\ chunk' = chunk + Cardinality(Taken)
   BY <1>0, <1>9 DEF TakeChunk, At
 <2>2. chunk \in 0 .. N BY <1>0 DEF TypeOK
 <2>3. chunk \in Nat /\ chunk' \in Nat
  <3>1. chunk + Cardinality(Taken) = IF chunk + Chunk <= N THEN chunk + Chunk ELSE N
    BY <2>2, TakenIs
  <3>2. N \in Nat /\ Chunk \in Nat BY Basics
  <3>3. chunk \in Nat BY <2>2, <3>2
  <3>4. chunk + Cardinality(Taken) \in Nat BY <3>1, <3>2, <3>3
  <3> QED BY <2>1, <3>3, <3>4
 <2>4. [Idle EXCEPT !.count = my[t].count] \in Local
       /\ [Idle EXCEPT !.count = my[t].count].pc = "joined"
   BY <1>0, MyTypes, IdleIs DEF Idle
 <2>5. /\ [my[t] EXCEPT !.i = chunk, !.end = chunk', !.pc = "test"] \in Local
       /\ [my[t] EXCEPT !.i = chunk, !.end = chunk', !.pc = "test"].pc = "test"
   BY <1>0, <2>3 DEF Local, Labels
 <2> QED BY <2>1, <2>4, <2>5 DEF LabelsOf
<1>10. CASE TestVertex(t)
 <2>1. /\ loop = "bu"
       /\ \/ my'[t] = [my[t] EXCEPT !.count = my[t].count + 1,
                                    !.word = curr \cap InWord(my[t].i), !.pc = "set"]
          \/ my'[t] = NextVertex(my[t])
   BY <1>0, <1>10 DEF TestVertex, At
 <2>2. curr \cap InWord(my[t].i) \subseteq Vertex BY <1>0 DEF TypeOK
 <2> DEFINE n == [my[t] EXCEPT !.count = my[t].count + 1,
                               !.word = curr \cap InWord(my[t].i), !.pc = "set"]
 <2>3. n \in Local /\ n.pc = "set"
  <3>1. my[t].count + 1 \in Int /\ "set" \in Labels BY <1>0, FieldTypes DEF Labels
  <3> QED BY <1>0, <2>2, <3>1, Updates DEF Local
 <2>4. NextVertex(my[t]) \in Local /\ NextVertex(my[t]).pc \in {"chunk", "test"}
   BY <1>0, NextVertexIs
 <2> QED BY <2>1, <2>3, <2>4 DEF LabelsOf
<1>11. CASE SetBit(t)
 <2>1. loop = "bu" /\ my'[t] = NextVertex(my[t]) BY <1>0, <1>11 DEF SetBit, At
 <2>2. NextVertex(my[t]) \in Local /\ NextVertex(my[t]).pc \in {"chunk", "test"}
   BY <1>0, NextVertexIs
 <2> QED BY <2>1, <2>2 DEF LabelsOf
<1>12. CASE Gather(t)
 <2>1. loop = "to_queue" /\ my[t].pc = "push" BY <1>12 DEF Gather, At
 <2> DEFINE next == [my[t] EXCEPT !.i = my[t].i + 1]
 <2>2. \/ my'[t] = [my[t] EXCEPT !.pc = "flush"]
       \/ my[t].i \in front /\ Push(t, my[t].i, next)
       \/ my'[t] = next
   BY <1>0, <1>12 DEF Gather, Goto
 <2>3. next \in Local /\ next.pc = "push" /\ next.lqueue = my[t].lqueue
  <3>1. my[t].i + 1 \in Nat BY <1>0, FieldTypes
  <3>2. next \in Local BY <1>0, <3>1, Updates
  <3>3. next.pc = my[t].pc /\ next.lqueue = my[t].lqueue BY <1>0 DEF Local
  <3> QED BY <2>1, <3>2, <3>3
 <2>4. [my[t] EXCEPT !.pc = "flush"] \in Local /\ [my[t] EXCEPT !.pc = "flush"].pc = "flush"
   BY <1>0 DEF Local, Labels
 <2>5. front \subseteq Vertex BY <1>0 DEF TypeOK
 <2> HIDE DEF next
 <2>6. my[t].i \in front /\ Push(t, my[t].i, next) =>
         my'[t] \in Local /\ my'[t].pc \in {"push", "flush"}
  <3> HAVE my[t].i \in front /\ Push(t, my[t].i, next)
  <3> DEFINE v == my[t].i
  <3>1. /\ v \in Vertex
        /\ my'[t] = IF Len(my[t].lqueue) = LocalSize THEN [my[t] EXCEPT !.pc = "flush"]
                   ELSE [next EXCEPT !.lqueue = Append(my[t].lqueue, v)]
    BY <1>0, <2>3, <2>5 DEF Push
  <3> HIDE DEF v
  <3> QED BY <1>0, <2>3, <2>4, <3>1, PushIs, SMTT(30)
 <2> QED BY <2>1, <2>2, <2>3, <2>4, <2>6 DEF LabelsOf
<1> QED BY <1>1, <1>2, <1>3, <1>4, <1>5, <1>6, <1>7, <1>8, <1>9, <1>10, <1>11, <1>12 DEF Step

LEMMA AheadIs ==
  ASSUME IInv, NEW t \in Thread, loop = "bu", my[t].pc \in {"test", "set"}
  PROVE  /\ my[t].i \in Vertex /\ my[t].i < my[t].end /\ my[t].end <= chunk
         /\ my[t].i \in Ahead(t) /\ chunk \in Nat /\ chunk <= N
         /\ Ahead(t) \subseteq Vertex
         /\ \A v \in Int : v \in Ahead(t) <=> my[t].i <= v /\ v < my[t].end
<1>1. my[t].i < my[t].end /\ my[t].end <= chunk BY DEF IInv, BottomUpInv, Scanning
<1>2. my[t].i \in Nat /\ my[t].end \in Nat /\ chunk \in 0 .. N BY MyTypes DEF IInv, TypeOK
<1>3. N \in Nat /\ Vertex = 0 .. N - 1 BY Basics
<1> QED BY <1>1, <1>2, <1>3 DEF Ahead

LEMMA StepType ==
  ASSUME IInv, NEW t \in Thread, Step(t)
  PROVE  TypeOK'
<1>0. TypeOK /\ Places /\ WrittenInv BY DEF IInv
<1>1. /\ beta' = beta /\ depth' = depth /\ awake_count' = awake_count /\ loop' = loop
      /\ \A s \in Thread \ {t} : my'[s] = my[s]
      /\ my' = [my EXCEPT ![t] = my'[t]]
  BY <1>0, StepFrame
<1>2. my'[t] \in Local /\ my'[t].pc \in LabelsOf(loop) BY StepLocal
<1>3. my' \in [Thread -> Local] BY <1>0, <1>1, <1>2 DEF TypeOK
<1>4. \A s \in Thread : my'[s].pc \in LabelsOf(loop') BY <1>0, <1>1, <1>2 DEF TypeOK
<1>5. dist' \in [Vertex -> Int]
 <2>1. dist \in [Vertex -> Int] /\ depth \in Int BY <1>0 DEF TypeOK
 <2>2. CASE CompareAndSwap(t) BY <2>1, <2>2 DEF CompareAndSwap
 <2>3. CASE TestVertex(t) BY <2>1, <2>3 DEF TestVertex
 <2> QED BY <2>1, <2>2, <2>3, StepWrites
<1>6. queue' \in [shared : [Vertex -> Vertex \cup {Unset}],
                  in : Nat, out_start : Nat, out_end : Nat]
 <2>1. /\ queue \in [shared : [Vertex -> Vertex \cup {Unset}],
                     in : Nat, out_start : Nat, out_end : Nat]
       /\ queue.shared \in [Vertex -> Vertex \cup {Unset}]
       /\ queue.in \in Nat
   BY <1>0, QueueTypes DEF TypeOK
 <2>2. CASE Flush(t)
  <3>1. queue' = [queue EXCEPT !.in = queue.in + Len(my[t].lqueue)] BY <2>2 DEF Flush
  <3>2. queue.in + Len(my[t].lqueue) \in Nat BY <1>0, <2>1, MyTypes
  <3> QED BY <2>1, <3>1, <3>2
 <2>3. CASE Copy(t)
  <3> DEFINE mine == my[t].at .. my[t].at + Len(my[t].lqueue) - 1
             new == [p \in Vertex |-> IF p \in mine THEN my[t].lqueue[p - my[t].at + 1]
                                      ELSE queue.shared[p]]
  <3>1. queue' = [queue EXCEPT !.shared = new] BY <2>3 DEF Copy
  <3>2. new \in [Vertex -> Vertex \cup {Unset}]
   <4>1. my[t].at \in Nat /\ Len(my[t].lqueue) \in Nat
         /\ \A k \in 1 .. Len(my[t].lqueue) : my[t].lqueue[k] \in Vertex
     BY <1>0, MyTypes
   <4>2. \A p \in mine : p - my[t].at + 1 \in 1 .. Len(my[t].lqueue) BY <4>1
   <4>3. \A p \in Vertex : new[p] \in Vertex \cup {Unset} BY <2>1, <4>1, <4>2
   <4> QED BY <4>3
  <3> HIDE DEF new
  <3> QED BY <2>1, <3>1, <3>2
 <2> QED BY <2>1, <2>2, <2>3, StepWrites
<1>7. front' \subseteq Vertex
 <2>1. front \subseteq Vertex BY <1>0 DEF TypeOK
 <2>2. CASE SwapWord(t)
  <3>1. loop = "to_bitmap" /\ my[t].pc = "swap" BY <2>2 DEF SwapWord, At
  <3>2. my[t].i < my[t].end /\ my[t].i \in Nat /\ my[t].end \in Nat /\ my[t].word \subseteq Vertex
    BY <1>0, <3>1, MyTypes DEF IInv, RangeInv
  <3>3. U(t) \in Vertex BY <1>0, <3>1, <3>2, EntryOf, InWindow DEF U
  <3> QED BY <2>1, <2>2, <3>2, <3>3 DEF SwapWord, Stored
 <2> QED BY <2>1, <2>2, StepWrites
<1>8. curr' \subseteq Vertex
 <2>1. curr \subseteq Vertex BY <1>0 DEF TypeOK
 <2>2. CASE SetBit(t)
  <3>1. my[t].i \in Vertex BY <2>2, AheadIs DEF SetBit, At
  <3>2. my[t].word \subseteq Vertex BY <1>0, MyTypes
  <3> QED BY <2>1, <2>2, <3>1, <3>2 DEF SetBit, Stored
 <2> QED BY <2>1, <2>2, StepWrites
<1>9. chunk' \in 0 .. N
 <2>1. chunk \in 0 .. N BY <1>0 DEF TypeOK
 <2>2. CASE TakeChunk(t)
  <3>1. chunk' = IF chunk + Chunk <= N THEN chunk + Chunk ELSE N
    BY <2>1, <2>2, TakenIs DEF TakeChunk
  <3> QED BY <2>1, <3>1, Basics
 <2> QED BY <2>1, <2>2, StepWrites
<1> QED BY <1>0, <1>1, <1>3, <1>4, <1>5, <1>6, <1>7, <1>8, <1>9 DEF TypeOK

-----------------------------------------------------------------------------
(***************************************************************************)
(* A vertex that a step of the team finds is of the level it builds.       *)
(***************************************************************************)
LEMMA Reach ==
  ASSUME IInv, Building, NEW w \in Vertex, dist[w] \in 0 .. depth - 1,
         NEW u \in Neighbors(w), dist[u] < 0
  PROVE  u \in Vertex /\ Delta[u] = depth /\ Delta[w] = depth - 1 /\ dist[w] = depth - 1
<1>1. TypeOK /\ DistInv BY DEF IInv
<1>2. u \in Vertex /\ depth \in Nat /\ dist[u] \in Int /\ Delta[u] \in Int /\ Delta[w] \in Int
  BY <1>1, GraphTypes DEF TypeOK
<1>3. Delta[w] = dist[w] BY <1>1, <1>2 DEF DistInv
<1>4. Delta[u] \in 0 .. Delta[w] + 1
 <2>1. Delta[w] # Unset BY <1>2, <1>3 DEF Unset
 <2> QED BY <2>1, DistanceAssumption
<1>5. ~(Delta[u] \in 0 .. depth - 1)
 <2>1. Ready = depth - 1 BY DEF Ready
 <2>2. Delta[u] \in 0 .. depth - 1 => dist[u] = Delta[u] BY <1>1, <1>2, <2>1 DEF DistInv
 <2> QED BY <1>2, <2>2
<1> QED BY <1>2, <1>3, <1>4, <1>5

LEMMA DistStep ==
  ASSUME TypeOK, DistInv, Building, loop' = loop, depth' = depth, awake_count' = awake_count,
         NEW u \in Vertex, dist[u] < 0, Delta[u] = depth, dist' = [dist EXCEPT ![u] = depth]
  PROVE  DistInv'
<1>1. loop \in {"td", "bu"} /\ Building' /\ depth \in Nat /\ depth >= 1 /\ Ready = depth - 1 /\ Ready' = depth - 1
  BY DEF Building, DistInv, Ready, TypeOK
<1>2. dist \in [Vertex -> Int] /\ \A v \in Vertex : Delta[v] \in Int BY GraphTypes DEF TypeOK
<1>3. \A v \in Vertex : dist'[v] = IF v = u THEN depth ELSE dist[v] BY <1>2
<1>4. \A v \in Vertex : dist'[v] >= 0 => dist'[v] = Delta[v] /\ dist'[v] <= depth
  BY <1>1, <1>2, <1>3 DEF DistInv
<1>5. \A v \in Vertex : Delta[v] \in 0 .. Ready' => dist'[v] = Delta[v]
  BY <1>1, <1>2, <1>3 DEF DistInv
<1>6. Level(depth - 1) # {} /\ Level(depth' - 1) = Level(depth - 1) BY DEF DistInv, Level
<1>7. loop = "bu" => awake_count > 0 BY DEF DistInv
<1> QED BY <1>1, <1>4, <1>5, <1>6, <1>7 DEF DistInv

(***************************************************************************)
(* A step that takes no vertex anywhere keeps them where they are.         *)
(***************************************************************************)
LEMMA PlacesKept ==
  ASSUME TypeOK, TypeOK', NEW t \in Thread,
         \A s \in Thread \ {t} : my'[s] = my[s],
         my'[t].lqueue = my[t].lqueue,
         my'[t].pc = "copy" <=> my[t].pc = "copy",
         my[t].pc = "copy" => my'[t].at = my[t].at,
         queue' = queue
  PROVE  /\ \A s \in Thread : \A p : Reserved(s, p)' <=> Reserved(s, p)
         /\ \A p : Written(p)' <=> Written(p)
         /\ \A v : New(v)' <=> New(v)
         /\ \A s \in Thread : my'[s].lqueue = my[s].lqueue
<1>1. \A s \in Thread : my'[s].lqueue = my[s].lqueue OBVIOUS
<1>2. \A s \in Thread : \A p : Reserved(s, p)' <=> Reserved(s, p)
 <2> TAKE s \in Thread
 <2>1. CASE s = t BY <1>1, <2>1 DEF Reserved
 <2>2. CASE s # t BY <1>1, <2>2 DEF Reserved
 <2> QED BY <2>1, <2>2
<1>3. \A p : Written(p)' <=> Written(p) BY <1>2 DEF Written
<1>4. \A s \in Thread : \A v : Buffered(s, v)' <=> Buffered(s, v) BY <1>1 DEF Buffered
<1>5. \A v : New(v)' <=> New(v) BY <1>3, <1>4 DEF New
<1> QED BY <1>1, <1>2, <1>3, <1>5

LEMMA TokensKept ==
  ASSUME TypeOK, TypeOK', Places, WrittenInv, BuffersInv, NEW t \in Thread,
         \A s \in Thread \ {t} : my'[s] = my[s],
         my'[t].lqueue = my[t].lqueue,
         my'[t].pc = "copy" <=> my[t].pc = "copy",
         my[t].pc = "copy" => my'[t].at = my[t].at,
         queue' = queue, loop' = loop, depth' = depth,
         \/ dist' = dist
         \/ \E u \in Vertex : dist[u] < 0 /\ dist' = [dist EXCEPT ![u] = depth]
  PROVE  Places' /\ WrittenInv' /\ BuffersInv'
<1>1. /\ \A s \in Thread : \A p : Reserved(s, p)' <=> Reserved(s, p)
      /\ \A p : Written(p)' <=> Written(p)
      /\ \A s \in Thread : my'[s].lqueue = my[s].lqueue
  BY PlacesKept
<1>2. dist \in [Vertex -> Int] BY DEF TypeOK
<1>3. \A v \in Vertex : dist[v] >= 0 => dist'[v] = dist[v] BY <1>2
<1>4. Places'
 <2>1. \A s \in Thread : my'[s].pc = "copy" =>
         queue.out_end <= my'[s].at /\ my'[s].at + Len(my'[s].lqueue) <= queue.in
  <3> TAKE s \in Thread
  <3>1. CASE s = t BY <3>1 DEF Places
  <3>2. CASE s # t BY <3>2 DEF Places
  <3> QED BY <3>1, <3>2
 <2> QED BY <1>1, <2>1 DEF Places, Pushing
<1>5. WrittenInv'
 <2>1. Newest' = Newest BY DEF Newest
 <2>2. \A p \in 0 .. queue.in - 1 : Written(p) =>
         /\ queue.shared[p] \in Vertex /\ dist'[queue.shared[p]] >= 0
         /\ dist'[queue.shared[p]] = depth <=> p >= Newest
   BY <1>3 DEF WrittenInv
 <2> QED BY <1>1, <2>1, <2>2 DEF WrittenInv
<1>6. BuffersInv'
 <2>1. \A s \in Thread : \A k \in 1 .. Len(my[s].lqueue) : dist'[my[s].lqueue[k]] = depth
  <3> TAKE s \in Thread
  <3> TAKE k \in 1 .. Len(my[s].lqueue)
  <3>1. my[s].lqueue[k] \in Vertex BY MyTypes
  <3>2. dist[my[s].lqueue[k]] = depth /\ depth >= 0 BY DEF BuffersInv, TypeOK
  <3> QED BY <1>3, <3>1, <3>2
 <2>2. \A s \in Thread : \A k \in 1 .. Len(my'[s].lqueue) : dist'[my'[s].lqueue[k]] = depth'
   BY <1>1, <2>1
 <2>3. \A s, r \in Thread : \A k \in 1 .. Len(my'[s].lqueue), l \in 1 .. Len(my'[r].lqueue) :
         my'[s].lqueue[k] = my'[r].lqueue[l] => s = r /\ k = l
   BY <1>1, SMTT(30) DEF BuffersInv
 <2>4. \A s \in Thread : \A k \in 1 .. Len(my'[s].lqueue) : \A p \in 0 .. queue'.in - 1 :
         Written(p)' => queue'.shared[p] # my'[s].lqueue[k]
   BY <1>1 DEF BuffersInv
 <2> QED BY <2>2, <2>3, <2>4 DEF BuffersInv
<1> QED BY <1>4, <1>5, <1>6

-----------------------------------------------------------------------------
(***************************************************************************)
(* BUStep(): one step of a thread.                                         *)
(***************************************************************************)
LEMMA TestVertexIs ==
  ASSUME IInv, NEW t \in Thread, TestVertex(t)
  PROVE  LET u == my[t].i
         IN /\ loop = "bu" /\ my[t].pc = "test" /\ u \in Vertex /\ u \in Ahead(t)
            /\ UNCHANGED <<queue, front, curr, chunk, depth, awake_count, loop>>
            /\ my'[t].lqueue = my[t].lqueue
            /\ \/ /\ dist[u] < 0 /\ Delta[u] = depth /\ dist' = [dist EXCEPT ![u] = depth]
                  /\ \E w \in Vertex : dist[w] = depth - 1 /\ u \in Neighbors(w)
                  /\ my'[t].pc = "set" /\ my'[t].i = u /\ my'[t].end = my[t].end
                  /\ my'[t].word = curr \cap InWord(u)
               \/ /\ dist' = dist /\ my'[t] = NextVertex(my[t])
                  /\ Delta[u] = depth => dist[u] = depth
<1>0. TypeOK /\ DistInv /\ my \in [Thread -> Local] /\ my[t] \in Local BY MyTypes DEF IInv, TypeOK
<1> DEFINE u == my[t].i
<1>1. loop = "bu" /\ my[t].pc = "test" BY DEF TestVertex, At
<1>2. u \in Vertex /\ u \in Ahead(t) BY <1>1, AheadIs
<1>3. UNCHANGED <<queue, front, curr, chunk, depth, awake_count, loop>>
  BY DEF TestVertex, params, counts
<1>4. Building /\ depth \in Nat /\ depth >= 1 /\ Ready = depth - 1 /\ dist[u] \in Int /\ Delta[u] \in Int
  BY <1>0, <1>1, <1>2, GraphTypes DEF Building, Ready, DistInv, TypeOK
<1>5. CASE dist[u] < 0 /\ Neighbors(u) \cap front # {}
 <2>1. dist' = [dist EXCEPT ![u] = depth] BY <1>5 DEF TestVertex
 <2>2. my'[t] = [my[t] EXCEPT !.count = my[t].count + 1, !.word = curr \cap InWord(u), !.pc = "set"]
   BY <1>0, <1>5 DEF TestVertex
 <2>3. /\ my'[t].pc = "set" /\ my'[t].i = u /\ my'[t].end = my[t].end
       /\ my'[t].word = curr \cap InWord(u) /\ my'[t].lqueue = my[t].lqueue
   BY <1>0, <2>2 DEF Local
 <2>4. PICK w \in Neighbors(u) : w \in front BY <1>5
 <2>5. w \in Vertex /\ u \in Neighbors(w) BY <1>2, <2>4, SymmetryAssumption, GraphTypes
 <2>6. dist[w] \in 0 .. depth - 1 BY <1>4, <2>4 DEF IInv, FrontInv
 <2>7. Delta[u] = depth /\ dist[w] = depth - 1 BY <1>4, <1>5, <2>5, <2>6, Reach
 <2> QED BY <1>1, <1>2, <1>3, <1>5, <2>1, <2>3, <2>5, <2>7
<1>6. CASE ~(dist[u] < 0 /\ Neighbors(u) \cap front # {})
 <2>1. dist' = dist /\ my'[t] = NextVertex(my[t]) BY <1>0, <1>6 DEF TestVertex
 <2>2. my'[t].lqueue = my[t].lqueue BY <1>0, <2>1, NextVertexIs
 <2>3. ASSUME Delta[u] = depth PROVE dist[u] = depth
  <3>1. PICK w \in Vertex : Delta[w] = depth - 1 /\ u \in Neighbors(w)
    BY <1>2, <1>4, <2>3, DistanceAssumption
  <3>2. w \in front BY <1>1, <3>1 DEF IInv, FrontInv, Level
  <3>3. w \in Neighbors(u) BY <3>1, SymmetryAssumption
  <3>4. dist[u] >= 0 BY <1>4, <1>6, <3>2, <3>3
  <3> QED BY <1>0, <1>2, <2>3, <3>4 DEF DistInv
 <2> QED BY <1>1, <1>2, <1>3, <2>1, <2>2, <2>3
<1> QED BY <1>5, <1>6

LEMMA SetBitIs ==
  ASSUME IInv, NEW t \in Thread, SetBit(t)
  PROVE  LET u == my[t].i
         IN /\ loop = "bu" /\ my[t].pc = "set" /\ u \in Vertex /\ u \in Ahead(t)
            /\ UNCHANGED <<queue, front, dist, chunk, depth, awake_count, loop>>
            /\ my'[t].lqueue = my[t].lqueue /\ my'[t] = NextVertex(my[t])
            /\ dist[u] = depth /\ curr' = curr \cup {u}
<1>0. my \in [Thread -> Local] /\ my[t] \in Local /\ TypeOK BY MyTypes DEF IInv, TypeOK
<1> DEFINE u == my[t].i
<1>1. loop = "bu" /\ my[t].pc = "set" BY DEF SetBit, At
<1>2. u \in Vertex /\ u \in Ahead(t) BY <1>1, AheadIs
<1>3. UNCHANGED <<queue, front, dist, chunk, depth, awake_count, loop>>
  BY DEF SetBit, params, counts
<1>4. my'[t] = NextVertex(my[t]) BY <1>0 DEF SetBit
<1>5. my'[t].lqueue = my[t].lqueue BY <1>0, <1>4, NextVertexIs
<1>6. dist[u] = depth /\ my[t].word = curr \cap InWord(u) BY <1>1 DEF IInv, BottomUpInv
<1>7. curr' = (curr \ InWord(u)) \cup (my[t].word \cup {u}) BY DEF SetBit, Stored
<1>8. curr' = curr \cup {u} BY <1>6, <1>7
<1> QED BY <1>1, <1>2, <1>3, <1>4, <1>5, <1>6, <1>8

LEMMA TakeChunkIs ==
  ASSUME IInv, NEW t \in Thread, TakeChunk(t)
  PROVE  /\ loop = "bu" /\ my[t].pc = "chunk"
         /\ UNCHANGED <<queue, front, curr, dist, depth, awake_count, loop>>
         /\ my'[t].lqueue = my[t].lqueue /\ my'[t].count = my[t].count
         /\ chunk' = IF chunk + Chunk <= N THEN chunk + Chunk ELSE N
         /\ chunk' \in 0 .. N /\ chunk <= chunk' /\ chunk \in 0 .. N
         /\ \/ chunk = N /\ chunk' = N /\ my'[t].pc = "joined"
            \/ /\ chunk < N /\ chunk < chunk' /\ my'[t].pc = "test"
               /\ my'[t].i = chunk /\ my'[t].end = chunk'
<1>0. TypeOK /\ my \in [Thread -> Local] /\ my[t] \in Local BY MyTypes DEF IInv, TypeOK
<1>1. loop = "bu" /\ my[t].pc = "chunk" BY DEF TakeChunk, At
<1>2. UNCHANGED <<queue, front, curr, dist, depth, awake_count, loop>>
  BY DEF TakeChunk, params, counts
<1>3. chunk \in 0 .. N /\ N \in Nat /\ Chunk \in Nat \ {0} BY <1>0, Basics DEF TypeOK
<1>4. chunk' = IF chunk + Chunk <= N THEN chunk + Chunk ELSE N BY <1>3, TakenIs DEF TakeChunk
<1>5. my[t].lqueue = <<>> BY <1>1 DEF IInv, RangeInv, Pushing
<1>6. CASE chunk >= N
 <2>1. my'[t] = [Idle EXCEPT !.count = my[t].count] BY <1>0, <1>6 DEF TakeChunk
 <2>2. my'[t].lqueue = <<>> /\ my'[t].count = my[t].count /\ my'[t].pc = "joined" BY <2>1 DEF Idle
 <2> QED BY <1>1, <1>2, <1>3, <1>4, <1>5, <1>6, <2>2
<1>7. CASE ~(chunk >= N)
 <2> DEFINE c == chunk'
 <2>1. my'[t] = [my[t] EXCEPT !.i = chunk, !.end = c, !.pc = "test"] BY <1>0, <1>7 DEF TakeChunk
 <2> HIDE DEF c
 <2>2. /\ my'[t].lqueue = my[t].lqueue /\ my'[t].count = my[t].count /\ my'[t].pc = "test"
       /\ my'[t].i = chunk /\ my'[t].end = c
   BY <1>0, <2>1 DEF Local
 <2> QED BY <1>1, <1>2, <1>3, <1>4, <1>7, <2>2 DEF c
<1> QED BY <1>6, <1>7

(***************************************************************************)
(* The invariant of the step, its parts one by one.                        *)
(***************************************************************************)
ChunksApart ==
  /\ chunk % Word = 0 \/ chunk = N
  /\ \A t \in Thread : Scanning(t) => my[t].i < my[t].end /\ my[t].end <= chunk
  /\ \A t \in Thread : Scanning(t) =>
       \A u \in Ahead(t) : \A w \in chunk .. N - 1 : u \div Word # w \div Word
  /\ \A s, t \in Thread : s # t /\ Scanning(s) /\ Scanning(t) =>
       \A u \in Ahead(t) : \A w \in Ahead(s) : u \div Word # w \div Word

BitsSet ==
  /\ \A t \in Thread : my[t].pc = "set" =>
       dist[my[t].i] = depth /\ my[t].word = curr \cap InWord(my[t].i)
  /\ \A v \in Vertex : v \in curr <=>
       dist[v] = depth /\ \A t \in Thread : my[t].pc = "set" => my[t].i # v

LevelScanned ==
  /\ \A v \in Level(depth) : dist[v] = depth \/ v >= chunk \/
       \E t \in Thread : Scanning(t) /\ v \in Ahead(t)
  /\ \A t \in Thread : my[t].count # 0 => \E v \in Vertex : dist[v] = depth
  /\ \A t \in Thread : my[t].pc = "joined" => chunk = N

LEMMA BottomUpParts == BottomUpInv <=> (loop = "bu" => ChunksApart /\ BitsSet /\ LevelScanned)
<1>1. (\A t \in Thread : Scanning(t) =>
         /\ \A u \in Ahead(t) : \A w \in chunk .. N - 1 : u \div Word # w \div Word
         /\ \A s \in Thread \ {t} : Scanning(s) =>
              \A u \in Ahead(t) : \A w \in Ahead(s) : u \div Word # w \div Word)
      <=> /\ \A t \in Thread : Scanning(t) =>
               \A u \in Ahead(t) : \A w \in chunk .. N - 1 : u \div Word # w \div Word
          /\ \A s, t \in Thread : s # t /\ Scanning(s) /\ Scanning(t) =>
               \A u \in Ahead(t) : \A w \in Ahead(s) : u \div Word # w \div Word
  OBVIOUS
<1> QED BY <1>1 DEF BottomUpInv, ChunksApart, BitsSet, LevelScanned

LEMMA BottomUpNext == (BottomUpInv <=> (loop = "bu" => ChunksApart /\ BitsSet /\ LevelScanned))'
  BY BottomUpParts, PTL

(***************************************************************************)
(* A thread goes on to the next vertex, or gets a chunk.                   *)
(***************************************************************************)
LEMMA AheadNext ==
  ASSUME IInv, NEW t \in Thread, loop = "bu", my[t].pc \in {"test", "set"},
         my'[t] = NextVertex(my[t])
  PROVE  /\ my'[t].pc \in {"chunk", "test"} /\ my'[t].count = my[t].count
         /\ my'[t].pc = "test" =>
              /\ my'[t].i < my'[t].end /\ my'[t].end = my[t].end
              /\ Ahead(t)' = Ahead(t) \ {my[t].i}
         /\ my'[t].pc # "test" => Ahead(t) = {my[t].i}
<1>1. my[t] \in Local /\ my[t].i \in Nat /\ my[t].end \in Nat /\ my[t].i < my[t].end
  BY MyTypes, AheadIs DEF IInv
<1>2. CASE my[t].i + 1 = my[t].end
 <2>1. my'[t].pc = "chunk" /\ my'[t].count = my[t].count BY <1>1, <1>2, NextVertexIs
 <2>2. Ahead(t) = {my[t].i} BY <1>1, <1>2 DEF Ahead
 <2> QED BY <2>1, <2>2
<1>3. CASE my[t].i + 1 # my[t].end
 <2>1. /\ my'[t].pc = "test" /\ my'[t].count = my[t].count /\ my'[t].i = my[t].i + 1
       /\ my'[t].end = my[t].end
   BY <1>1, <1>3, NextVertexIs
 <2>2. Ahead(t)' = Ahead(t) \ {my[t].i} BY <1>1, <1>3, <2>1 DEF Ahead
 <2> QED BY <1>1, <1>3, <2>1, <2>2
<1> QED BY <1>2, <1>3

LEMMA ChunksKept ==
  ASSUME TypeOK, ChunksApart, NEW t \in Thread, \A s \in Thread \ {t} : my'[s] = my[s],
         chunk' = chunk, Scanning(t),
         Scanning(t)' => my'[t].i < my'[t].end /\ my'[t].end = my[t].end /\ Ahead(t)' \subseteq Ahead(t)
  PROVE  ChunksApart'
<1>1. \A s \in Thread \ {t} : (Scanning(s)' <=> Scanning(s)) /\ Ahead(s)' = Ahead(s)
  BY DEF Scanning, Ahead
<1>2. \A s \in Thread : Scanning(s)' => Scanning(s) /\ Ahead(s)' \subseteq Ahead(s) BY <1>1
<1>3. \A s \in Thread : Scanning(s)' => my'[s].i < my'[s].end /\ my'[s].end <= chunk
 <2> TAKE s \in Thread
 <2>1. CASE s = t BY <2>1 DEF ChunksApart
 <2>2. CASE s # t BY <1>1, <2>2 DEF ChunksApart
 <2> QED BY <2>1, <2>2
<1>4. \A s \in Thread : Scanning(s)' =>
        \A u \in Ahead(s)' : \A w \in chunk .. N - 1 : u \div Word # w \div Word
  BY <1>2 DEF ChunksApart
<1>5. \A s, r \in Thread : s # r /\ Scanning(s)' /\ Scanning(r)' =>
        \A u \in Ahead(r)' : \A w \in Ahead(s)' : u \div Word # w \div Word
  BY <1>2 DEF ChunksApart
<1>6. chunk % Word = 0 \/ chunk = N BY DEF ChunksApart
<1> QED BY <1>3, <1>4, <1>5, <1>6 DEF ChunksApart

LEMMA ChunkTaken ==
  ASSUME IInv, NEW t \in Thread, TakeChunk(t), \A s \in Thread \ {t} : my'[s] = my[s]
  PROVE  ChunksApart'
<1>0. TypeOK /\ ChunksApart BY BottomUpParts, TakeChunkIs DEF IInv
<1>1. /\ chunk' = IF chunk + Chunk <= N THEN chunk + Chunk ELSE N
      /\ chunk' \in 0 .. N /\ chunk <= chunk' /\ chunk \in 0 .. N
      /\ \/ chunk = N /\ chunk' = N /\ my'[t].pc = "joined"
         \/ /\ chunk < N /\ chunk < chunk' /\ my'[t].pc = "test"
            /\ my'[t].i = chunk /\ my'[t].end = chunk'
  BY TakeChunkIs
<1>2. \A s \in Thread \ {t} : (Scanning(s)' <=> Scanning(s)) /\ Ahead(s)' = Ahead(s)
  BY DEF Scanning, Ahead
<1>3. chunk' % Word = 0 \/ chunk' = N BY <1>0, <1>1, NextBoundary DEF ChunksApart
<1>4. \A u \in 0 .. chunk' - 1 : \A w \in chunk' .. N - 1 : u \div Word # w \div Word
 <2> DEFINE c == chunk'
 <2>1. c \in 0 .. N /\ (c % Word = 0 \/ c = N) BY <1>1, <1>3
 <2> HIDE DEF c
 <2> SUFFICES ASSUME NEW u \in 0 .. c - 1, NEW w \in c .. N - 1 PROVE u \div Word # w \div Word
   BY DEF c
 <2>2. c \in Nat /\ u \in Nat /\ w \in Nat /\ u < c /\ c <= w /\ w < N BY <2>1, Basics
 <2>3. c % Word = 0 BY <2>1, <2>2
 <2> QED BY <2>2, <2>3, WordBoundary
<1>5. Scanning(t)' => /\ Ahead(t)' = chunk .. chunk' - 1 /\ my'[t].i < my'[t].end
                      /\ my'[t].end <= chunk'
  BY <1>1 DEF Scanning, Ahead
<1>6. \A s \in Thread \ {t} : Scanning(s) =>
        /\ my[s].i < my[s].end /\ my[s].end <= chunk /\ Ahead(s) \subseteq 0 .. chunk - 1
        /\ \A u \in Ahead(s) : \A w \in chunk .. N - 1 : u \div Word # w \div Word
 <2> SUFFICES ASSUME NEW s \in Thread, Scanning(s)
              PROVE  /\ my[s].i < my[s].end /\ my[s].end <= chunk
                     /\ Ahead(s) \subseteq 0 .. chunk - 1
                     /\ \A u \in Ahead(s) : \A w \in chunk .. N - 1 : u \div Word # w \div Word
   OBVIOUS
 <2>1. my[s].i \in Nat /\ my[s].end \in Nat BY <1>0, MyTypes
 <2>2. my[s].i < my[s].end /\ my[s].end <= chunk BY <1>0 DEF ChunksApart
 <2>3. Ahead(s) \subseteq 0 .. chunk - 1 BY <1>1, <2>1, <2>2 DEF Ahead
 <2> QED BY <1>0, <2>2, <2>3 DEF ChunksApart
<1>7. \A s \in Thread : Scanning(s)' => my'[s].i < my'[s].end /\ my'[s].end <= chunk'
 <2> TAKE s \in Thread
 <2>1. CASE s = t BY <1>5, <2>1
 <2>2. CASE s # t
  <3> HAVE Scanning(s)'
  <3>1. my[s].i < my[s].end /\ my[s].end <= chunk /\ my[s].end \in Nat /\ my'[s] = my[s]
    BY <1>0, <1>2, <1>6, <2>2, MyTypes
  <3> QED BY <1>1, <3>1
 <2> QED BY <2>1, <2>2
<1>8. \A s \in Thread : Scanning(s)' =>
        \A u \in Ahead(s)' : \A w \in chunk' .. N - 1 : u \div Word # w \div Word
 <2> TAKE s \in Thread
 <2> HAVE Scanning(s)'
 <2>1. Ahead(s)' \subseteq 0 .. chunk' - 1
  <3>1. CASE s = t BY <1>1, <1>5, <3>1
  <3>2. CASE s # t BY <1>1, <1>2, <1>6, <3>2
  <3> QED BY <3>1, <3>2
 <2> QED BY <1>4, <2>1
<1>9. \A s, r \in Thread : s # r /\ Scanning(s)' /\ Scanning(r)' =>
        \A u \in Ahead(r)' : \A w \in Ahead(s)' : u \div Word # w \div Word
 <2>1. chunk .. chunk' - 1 \subseteq chunk .. N - 1 BY <1>1, Basics
 <2> TAKE s, r \in Thread
 <2> HAVE s # r /\ Scanning(s)' /\ Scanning(r)'
 <2>2. CASE r = t BY <1>2, <1>5, <1>6, <2>1, <2>2
 <2>3. CASE s = t BY <1>2, <1>5, <1>6, <2>1, <2>3
 <2>4. CASE r # t /\ s # t BY <1>0, <1>2, <2>4 DEF ChunksApart
 <2> QED BY <2>2, <2>3, <2>4
<1> QED BY <1>3, <1>7, <1>8, <1>9 DEF ChunksApart

(***************************************************************************)
(* What a step leaves as it is.                                            *)
(***************************************************************************)
LEMMA DistSame ==
  ASSUME DistInv, loop' = loop, depth' = depth, awake_count' = awake_count, dist' = dist,
         queue'.out_start = queue.out_start, queue'.out_end = queue.out_end
  PROVE  DistInv'
<1>1. Building' = Building /\ Ready' = Ready /\ QueueSize' = QueueSize
  BY DEF Building, Ready, QueueSize
<1>2. \A d : Level(d)' = Level(d) BY DEF Level
<1>3. Level(depth - 1)' = Level(depth - 1) /\ Level(depth)' = Level(depth) BY DEF Level
<1>4. \A v \in Vertex : dist'[v] >= 0 => dist'[v] = Delta[v] /\ dist'[v] <= depth' BY DEF DistInv
<1>5. \A v \in Vertex : Delta[v] \in 0 .. Ready' => dist'[v] = Delta[v] BY <1>1 DEF DistInv
<1>6. Building' => depth' >= 1 /\ Level(depth - 1)' # {} BY <1>1, <1>3 DEF DistInv
<1>7. /\ loop' = "to_bitmap" => QueueSize' > 0
      /\ loop' = "bu" => awake_count' > 0
      /\ loop' \in {"clear", "returned"} => Level(depth)' = {}
      /\ loop' = "returned" => \A v \in Vertex : dist'[v] >= Unset
  BY <1>1, <1>3 DEF DistInv
<1> QED BY <1>4, <1>5, <1>6, <1>7 DEF DistInv

LEMMA FrontKept ==
  ASSUME TypeOK, FrontInv, loop' = loop, depth' = depth, front' = front, loop # "to_bitmap",
         \/ dist' = dist
         \/ \E u \in Vertex : dist[u] < 0 /\ dist' = [dist EXCEPT ![u] = depth]
  PROVE  FrontInv'
<1>1. dist \in [Vertex -> Int] /\ front \subseteq Vertex /\ Ready' = Ready
  BY DEF TypeOK, Ready, Building
<1>2. \A v \in front' : dist'[v] \in 0 .. Ready'
 <2> TAKE v \in front'
 <2>1. v \in Vertex /\ dist[v] \in 0 .. Ready /\ dist[v] >= 0 /\ dist[v] \in Int
   BY <1>1 DEF FrontInv
 <2>2. dist'[v] = dist[v] BY <1>1, <2>1
 <2> QED BY <1>1, <2>1, <2>2
<1>3. Level(depth - 1)' = Level(depth - 1) /\ Level(depth)' = Level(depth) BY DEF Level
<1>4. /\ loop' = "bu" => Level(depth - 1)' \subseteq front'
      /\ loop' = "to_queue" => front' = Level(depth)'
  BY <1>3 DEF FrontInv
<1> QED BY <1>2, <1>4 DEF FrontInv

LEMMA BuKept ==
  ASSUME IInv, NEW t \in Thread, Step(t), loop = "bu", queue' = queue, front' = front,
         my'[t].lqueue = my[t].lqueue,
         \/ dist' = dist
         \/ \E u \in Vertex : /\ dist[u] < 0 /\ Delta[u] = depth
                              /\ dist' = [dist EXCEPT ![u] = depth]
  PROVE  /\ TypeOK' /\ DistInv' /\ RangeInv' /\ Places' /\ WrittenInv' /\ BuffersInv'
         /\ PendingInv' /\ GatherInv' /\ CompleteInv' /\ EdgesInv' /\ FrontInv'
<1>0. /\ TypeOK /\ DistInv /\ Places /\ WrittenInv /\ BuffersInv /\ FrontInv /\ RangeInv
      /\ TypeOK'
  BY StepType DEF IInv
<1>1. /\ depth' = depth /\ awake_count' = awake_count /\ loop' = loop
      /\ \A s \in Thread \ {t} : my'[s] = my[s]
  BY <1>0, StepFrame
<1>2. my[t].pc # "copy" /\ my'[t].pc # "copy" BY <1>0, StepLocal DEF LabelsOf, TypeOK
<1>3. Places' /\ WrittenInv' /\ BuffersInv' BY <1>0, <1>1, <1>2, TokensKept
<1>4. DistInv'
 <2>1. CASE dist' = dist BY <1>0, <1>1, <2>1, DistSame
 <2>2. CASE dist' # dist BY <1>0, <1>1, <2>2, DistStep DEF Building
 <2> QED BY <2>1, <2>2
<1>5. FrontInv' BY <1>0, <1>1, FrontKept
<1>6. RangeInv'
 <2>1. loop' = "bu" /\ ~Pushing /\ \A s \in Thread : my'[s].pc # "vertex"
   BY <1>0, <1>1, LoopLabels DEF Pushing, TypeOK, LabelsOf
 <2>2. \A s \in Thread : my'[s].lqueue = <<>> BY <1>0, <1>1, <2>1 DEF RangeInv
 <2> QED BY <2>1, <2>2 DEF RangeInv, Pending
<1>7. PendingInv' /\ GatherInv' /\ CompleteInv' /\ EdgesInv'
  BY <1>1 DEF PendingInv, Pending, GatherInv, CompleteInv, EdgesInv
<1> QED BY <1>0, <1>3, <1>4, <1>5, <1>6, <1>7

LEMMA TakeChunkStep ==
  ASSUME IInv, NEW t \in Thread, TakeChunk(t)
  PROVE  IInv'
<1>0. TypeOK /\ BitsSet /\ LevelScanned /\ Step(t) BY BottomUpParts, TakeChunkIs DEF IInv, Step
<1>1. /\ loop = "bu" /\ my[t].pc = "chunk" /\ loop' = loop
      /\ UNCHANGED <<queue, front, curr, dist, depth, awake_count>>
      /\ my'[t].lqueue = my[t].lqueue /\ my'[t].count = my[t].count
      /\ chunk' \in 0 .. N /\ chunk <= chunk' /\ chunk \in 0 .. N
      /\ \/ chunk = N /\ chunk' = N /\ my'[t].pc = "joined"
         \/ /\ chunk < N /\ chunk < chunk' /\ my'[t].pc = "test"
            /\ my'[t].i = chunk /\ my'[t].end = chunk'
  BY TakeChunkIs
<1>2. \A s \in Thread \ {t} : my'[s] = my[s] BY <1>0, StepFrame
<1>3. ChunksApart' BY <1>2, ChunkTaken
<1>4. BitsSet'
 <2>1. \A s \in Thread : my'[s].pc = "set" <=> my[s].pc = "set" BY <1>1, <1>2
 <2>2. \A s \in Thread : my[s].pc = "set" => my'[s] = my[s] BY <1>1, <1>2
 <2>3. \A s \in Thread : my'[s].pc = "set" =>
         dist'[my'[s].i] = depth' /\ my'[s].word = curr' \cap InWord(my'[s].i)
   BY <1>0, <1>1, <2>1, <2>2 DEF BitsSet
 <2>4. \A v \in Vertex : v \in curr' <=>
         dist'[v] = depth' /\ \A s \in Thread : my'[s].pc = "set" => my'[s].i # v
   BY <1>0, <1>1, <2>1, <2>2 DEF BitsSet
 <2>5. \A s \in Thread : InWord(my[s].i)' = InWord(my'[s].i) BY DEF InWord
 <2> QED BY <2>3, <2>4, <2>5 DEF BitsSet
<1>5. LevelScanned'
 <2>1. \A v \in Level(depth)' : dist'[v] = depth' \/ v >= chunk' \/
         \E s \in Thread : Scanning(s)' /\ v \in Ahead(s)'
  <3> TAKE v \in Level(depth)'
  <3>1. v \in Level(depth) /\ v \in Vertex /\ v \in Int /\ v < N BY <1>1, Basics DEF Level
  <3>2. CASE dist[v] = depth BY <1>1, <3>2
  <3>3. CASE v >= chunk /\ ~(v >= chunk')
   <4>1. my'[t].pc = "test" /\ my'[t].i = chunk /\ my'[t].end = chunk' BY <1>1, <3>1, <3>3
   <4>2. Scanning(t)' /\ v \in Ahead(t)'
    <5>1. v \in my'[t].i .. my'[t].end - 1
     <6> DEFINE c == chunk'
     <6>1. c \in Int /\ chunk \in Int /\ v \in Int /\ v >= chunk /\ ~(v >= c)
       BY <1>1, <3>1, <3>3, Basics
     <6> HIDE DEF c
     <6>2. v \in chunk .. c - 1 BY <6>1
     <6> QED BY <4>1, <6>2 DEF c
    <5> QED BY <4>1, <5>1 DEF Scanning, Ahead
   <4> QED BY <4>2
  <3>4. CASE \E s \in Thread : Scanning(s) /\ v \in Ahead(s)
   <4>1. PICK s \in Thread : Scanning(s) /\ v \in Ahead(s) BY <3>4
   <4>2. s # t BY <1>1, <4>1 DEF Scanning
   <4>3. Scanning(s)' /\ v \in Ahead(s)' BY <1>2, <4>1, <4>2 DEF Scanning, Ahead
   <4> QED BY <4>3
  <3> QED BY <1>0, <3>1, <3>2, <3>3, <3>4 DEF LevelScanned
 <2>2. \A s \in Thread : my'[s].count # 0 => \E v \in Vertex : dist'[v] = depth'
   BY <1>0, <1>1, <1>2 DEF LevelScanned
 <2>3. \A s \in Thread : my'[s].pc = "joined" => chunk' = N
  <3> TAKE s \in Thread
  <3> HAVE my'[s].pc = "joined"
  <3>1. CASE s = t BY <1>1, <3>1
  <3>2. CASE s # t
   <4>1. chunk = N BY <1>0, <1>2, <3>2 DEF LevelScanned
   <4> QED BY <1>1, <4>1, Basics
  <3> QED BY <3>1, <3>2
 <2> QED BY <2>1, <2>2, <2>3 DEF LevelScanned
<1>6. BottomUpInv' BY <1>3, <1>4, <1>5, BottomUpNext
<1>7. /\ TypeOK' /\ DistInv' /\ RangeInv' /\ Places' /\ WrittenInv' /\ BuffersInv'
      /\ PendingInv' /\ GatherInv' /\ CompleteInv' /\ EdgesInv' /\ FrontInv'
  BY <1>0, <1>1, BuKept
<1> QED BY <1>6, <1>7 DEF IInv

(***************************************************************************)
(* The vertices threads are at are of different words.                     *)
(***************************************************************************)
LEMMA WordsApart ==
  ASSUME IInv, NEW s \in Thread, NEW t \in Thread, s # t, loop = "bu", Scanning(s), Scanning(t)
  PROVE  /\ my[s].i # my[t].i
         /\ my[t].i \notin InWord(my[s].i)
<1>1. ChunksApart BY BottomUpParts DEF IInv
<1>2. my[s].i \in Ahead(s) /\ my[t].i \in Ahead(t) BY AheadIs DEF Scanning
<1>3. my[s].i \div Word # my[t].i \div Word BY <1>1, <1>2 DEF ChunksApart
<1> QED BY <1>3 DEF InWord

LEMMA TestVertexStep ==
  ASSUME IInv, NEW t \in Thread, TestVertex(t)
  PROVE  IInv'
<1>0. TypeOK /\ BitsSet /\ LevelScanned /\ ChunksApart /\ Step(t) /\ my \in [Thread -> Local]
  BY BottomUpParts, TestVertexIs DEF IInv, Step, TypeOK
<1> DEFINE u == my[t].i
<1>1. /\ loop = "bu" /\ my[t].pc = "test" /\ u \in Vertex /\ u \in Ahead(t)
      /\ UNCHANGED <<queue, front, curr, chunk, depth, awake_count, loop>>
      /\ my'[t].lqueue = my[t].lqueue
  BY TestVertexIs
<1>2. \A s \in Thread \ {t} : my'[s] = my[s] BY <1>0, StepFrame
<1>3. \/ /\ dist[u] < 0 /\ Delta[u] = depth /\ dist' = [dist EXCEPT ![u] = depth]
         /\ my'[t].pc = "set" /\ my'[t].i = u /\ my'[t].end = my[t].end
         /\ my'[t].word = curr \cap InWord(u)
      \/ /\ dist' = dist /\ my'[t] = NextVertex(my[t])
         /\ Delta[u] = depth => dist[u] = depth
  BY TestVertexIs
<1>4. /\ TypeOK' /\ DistInv' /\ RangeInv' /\ Places' /\ WrittenInv' /\ BuffersInv'
      /\ PendingInv' /\ GatherInv' /\ CompleteInv' /\ EdgesInv' /\ FrontInv'
  BY <1>0, <1>1, <1>3, BuKept
<1>5. my[t].i < my[t].end /\ Scanning(t) BY <1>1, AheadIs DEF Scanning
<1>6. dist \in [Vertex -> Int] /\ depth \in Nat BY <1>0 DEF TypeOK
<1>7. CASE /\ dist[u] < 0 /\ Delta[u] = depth /\ dist' = [dist EXCEPT ![u] = depth]
           /\ my'[t].pc = "set" /\ my'[t].i = u /\ my'[t].end = my[t].end
           /\ my'[t].word = curr \cap InWord(u)
 <2>1. Ahead(t)' = Ahead(t) /\ Scanning(t)' BY <1>7 DEF Ahead, Scanning
 <2>2. ChunksApart' BY <1>0, <1>1, <1>2, <1>5, <1>7, <2>1, ChunksKept
 <2>3. \A v \in Vertex : dist'[v] = IF v = u THEN depth ELSE dist[v] BY <1>6, <1>7
 <2>4. \A s \in Thread \ {t} : my[s].pc = "set" => my[s].i # u /\ my[s].i \in Vertex
   BY <1>1, <1>5, WordsApart, AheadIs DEF Scanning
 <2>5. BitsSet'
  <3>1. \A s \in Thread : my'[s].pc = "set" =>
          dist'[my'[s].i] = depth /\ my'[s].word = curr \cap InWord(my'[s].i)
   <4> TAKE s \in Thread
   <4>1. CASE s = t BY <1>1, <1>7, <2>3, <4>1
   <4>2. CASE s # t BY <1>0, <1>2, <2>3, <2>4, <4>2 DEF BitsSet
   <4> QED BY <4>1, <4>2
  <3>2. \A v \in Vertex : v \in curr <=>
          dist'[v] = depth /\ \A s \in Thread : my'[s].pc = "set" => my'[s].i # v
   <4> TAKE v \in Vertex
   <4>1. CASE v = u
    <5>1. dist[u] # depth BY <1>6, <1>7
    <5> QED BY <1>0, <1>1, <1>7, <4>1, <5>1 DEF BitsSet
   <4>2. CASE v # u
    <5>1. (\A s \in Thread : my'[s].pc = "set" => my'[s].i # v)
           <=> (\A s \in Thread : my[s].pc = "set" => my[s].i # v)
      BY <1>1, <1>2, <1>7, <4>2
    <5>2. dist'[v] = dist[v] BY <2>3, <4>2
    <5> QED BY <1>0, <5>1, <5>2 DEF BitsSet
   <4> QED BY <4>1, <4>2
  <3>3. \A s \in Thread : InWord(my[s].i)' = InWord(my'[s].i) BY DEF InWord
  <3>4. curr' = curr /\ depth' = depth BY <1>1
  <3> QED BY <3>1, <3>2, <3>3, <3>4 DEF BitsSet
 <2>6. LevelScanned'
  <3>1. \A s \in Thread : (Scanning(s) => Scanning(s)') /\ Ahead(s)' = Ahead(s)
    BY <1>2, <2>1 DEF Scanning, Ahead
  <3>2. \A v \in Level(depth)' : dist'[v] = depth' \/ v >= chunk' \/
          \E s \in Thread : Scanning(s)' /\ v \in Ahead(s)'
   <4> TAKE v \in Level(depth)'
   <4>1. v \in Level(depth) /\ v \in Vertex BY <1>1 DEF Level
   <4>2. dist[v] = depth => dist'[v] = depth BY <2>3, <4>1
   <4> QED BY <1>0, <1>1, <3>1, <4>1, <4>2 DEF LevelScanned
  <3>3. \E v \in Vertex : dist'[v] = depth' BY <1>1, <2>3
  <3>4. \A s \in Thread : my'[s].pc = "joined" => chunk' = N
    BY <1>0, <1>1, <1>2, <1>7 DEF LevelScanned
  <3> QED BY <3>2, <3>3, <3>4 DEF LevelScanned
 <2>7. BottomUpInv' BY <2>2, <2>5, <2>6, BottomUpNext
 <2> QED BY <1>4, <2>7 DEF IInv
<1>8. CASE /\ dist' = dist /\ my'[t] = NextVertex(my[t])
           /\ Delta[u] = depth => dist[u] = depth
 <2>1. /\ my'[t].pc \in {"chunk", "test"} /\ my'[t].count = my[t].count
       /\ my'[t].pc = "test" =>
            /\ my'[t].i < my'[t].end /\ my'[t].end = my[t].end
            /\ Ahead(t)' = Ahead(t) \ {u}
       /\ my'[t].pc # "test" => Ahead(t) = {u}
   BY <1>1, <1>8, AheadNext
 <2>2. ChunksApart'
  <3>1. Scanning(t)' => my'[t].pc = "test" BY <2>1 DEF Scanning
  <3> QED BY <1>0, <1>1, <1>2, <1>5, <2>1, <3>1, ChunksKept
 <2>3. BitsSet'
  <3>1. \A s \in Thread : my'[s].pc = "set" <=> my[s].pc = "set" BY <1>1, <1>2, <2>1
  <3>2. \A s \in Thread : my[s].pc = "set" => my'[s] = my[s] BY <1>1, <1>2
  <3>3. \A s \in Thread : my'[s].pc = "set" =>
          dist'[my'[s].i] = depth' /\ my'[s].word = curr' \cap InWord(my'[s].i)
    BY <1>0, <1>1, <1>8, <3>1, <3>2 DEF BitsSet
  <3>4. \A v \in Vertex : v \in curr' <=>
          dist'[v] = depth' /\ \A s \in Thread : my'[s].pc = "set" => my'[s].i # v
    BY <1>0, <1>1, <1>8, <3>1, <3>2 DEF BitsSet
  <3>5. \A s \in Thread : InWord(my[s].i)' = InWord(my'[s].i) BY DEF InWord
  <3> QED BY <3>3, <3>4, <3>5 DEF BitsSet
 <2>4. LevelScanned'
  <3>1. \A v \in Level(depth)' : dist'[v] = depth' \/ v >= chunk' \/
          \E s \in Thread : Scanning(s)' /\ v \in Ahead(s)'
   <4> TAKE v \in Level(depth)'
   <4>1. v \in Level(depth) /\ v \in Vertex /\ Delta[v] = depth BY <1>1 DEF Level
   <4>2. CASE \E s \in Thread : Scanning(s) /\ v \in Ahead(s)
    <5>1. PICK s \in Thread : Scanning(s) /\ v \in Ahead(s) BY <4>2
    <5>2. CASE s # t
     <6>1. Scanning(s)' /\ v \in Ahead(s)' BY <1>2, <5>1, <5>2 DEF Scanning, Ahead
     <6> QED BY <6>1
    <5>3. CASE s = t /\ v = u BY <1>1, <1>8, <4>1, <5>3
    <5>4. CASE s = t /\ v # u
     <6>1. my'[t].pc = "test" /\ v \in Ahead(t)' BY <2>1, <5>1, <5>4
     <6> QED BY <6>1 DEF Scanning
    <5> QED BY <5>2, <5>3, <5>4
   <4>3. CASE dist[v] = depth \/ v >= chunk BY <1>1, <1>8, <4>3
   <4> QED BY <1>0, <4>1, <4>2, <4>3 DEF LevelScanned
  <3>2. \A s \in Thread : my'[s].count # 0 => \E v \in Vertex : dist'[v] = depth'
   <4>1. \A s \in Thread : my'[s].count = my[s].count BY <1>2, <2>1
   <4> QED BY <1>0, <1>1, <1>8, <4>1 DEF LevelScanned
  <3>3. \A s \in Thread : my'[s].pc = "joined" => chunk' = N
    BY <1>0, <1>1, <1>2, <2>1 DEF LevelScanned
  <3> QED BY <3>1, <3>2, <3>3 DEF LevelScanned
 <2>5. BottomUpInv' BY <2>2, <2>3, <2>4, BottomUpNext
 <2> QED BY <1>4, <2>5 DEF IInv
<1> QED BY <1>3, <1>7, <1>8

LEMMA SetBitStep ==
  ASSUME IInv, NEW t \in Thread, SetBit(t)
  PROVE  IInv'
<1>0. TypeOK /\ BitsSet /\ LevelScanned /\ ChunksApart /\ Step(t)
  BY BottomUpParts, SetBitIs DEF IInv, Step
<1> DEFINE u == my[t].i
<1>1. /\ loop = "bu" /\ my[t].pc = "set" /\ u \in Vertex /\ u \in Ahead(t)
      /\ UNCHANGED <<queue, front, dist, chunk, depth, awake_count, loop>>
      /\ my'[t].lqueue = my[t].lqueue /\ my'[t] = NextVertex(my[t])
      /\ dist[u] = depth /\ curr' = curr \cup {u}
  BY SetBitIs
<1>2. \A s \in Thread \ {t} : my'[s] = my[s] BY <1>0, StepFrame
<1>3. /\ TypeOK' /\ DistInv' /\ RangeInv' /\ Places' /\ WrittenInv' /\ BuffersInv'
      /\ PendingInv' /\ GatherInv' /\ CompleteInv' /\ EdgesInv' /\ FrontInv'
  BY <1>0, <1>1, BuKept
<1>4. my[t].i < my[t].end /\ Scanning(t) BY <1>1, AheadIs DEF Scanning
<1>5. /\ my'[t].pc \in {"chunk", "test"} /\ my'[t].count = my[t].count
      /\ my'[t].pc = "test" =>
           /\ my'[t].i < my'[t].end /\ my'[t].end = my[t].end
           /\ Ahead(t)' = Ahead(t) \ {u}
      /\ my'[t].pc # "test" => Ahead(t) = {u}
  BY <1>1, AheadNext
<1>6. ChunksApart'
 <2>1. Scanning(t)' => my'[t].pc = "test" BY <1>5 DEF Scanning
 <2> QED BY <1>0, <1>1, <1>2, <1>4, <1>5, <2>1, ChunksKept
<1>7. BitsSet'
 <2>1. \A s \in Thread : my'[s].pc = "set" <=> s # t /\ my[s].pc = "set" BY <1>1, <1>2, <1>5
 <2>2. \A s \in Thread \ {t} : my[s].pc = "set" => my[s].i # u /\ u \notin InWord(my[s].i)
   BY <1>1, <1>4, WordsApart DEF Scanning
 <2>3. \A s \in Thread : my'[s].pc = "set" =>
         dist'[my'[s].i] = depth' /\ my'[s].word = curr' \cap InWord(my'[s].i)
  <3> TAKE s \in Thread
  <3> HAVE my'[s].pc = "set"
  <3>1. s # t /\ my[s].pc = "set" /\ my'[s] = my[s] BY <1>2, <2>1
  <3>2. dist[my[s].i] = depth /\ my[s].word = curr \cap InWord(my[s].i) BY <1>0, <3>1 DEF BitsSet
  <3> QED BY <1>1, <2>2, <3>1, <3>2
 <2>4. \A v \in Vertex : v \in curr' <=>
         dist'[v] = depth' /\ \A s \in Thread : my'[s].pc = "set" => my'[s].i # v
  <3> TAKE v \in Vertex
  <3>1. CASE v = u BY <1>1, <1>2, <2>1, <2>2, <3>1
  <3>2. CASE v # u
   <4>1. (\A s \in Thread : my'[s].pc = "set" => my'[s].i # v)
          <=> (\A s \in Thread : my[s].pc = "set" => my[s].i # v)
     BY <1>2, <2>1, <3>2
   <4> QED BY <1>0, <1>1, <3>2, <4>1 DEF BitsSet
  <3> QED BY <3>1, <3>2
 <2>5. \A s \in Thread : InWord(my[s].i)' = InWord(my'[s].i) BY DEF InWord
 <2> QED BY <2>3, <2>4, <2>5 DEF BitsSet
<1>8. LevelScanned'
 <2>1. \A v \in Level(depth)' : dist'[v] = depth' \/ v >= chunk' \/
         \E s \in Thread : Scanning(s)' /\ v \in Ahead(s)'
  <3> TAKE v \in Level(depth)'
  <3>1. v \in Level(depth) /\ v \in Vertex /\ Delta[v] = depth BY <1>1 DEF Level
  <3>2. CASE \E s \in Thread : Scanning(s) /\ v \in Ahead(s)
   <4>1. PICK s \in Thread : Scanning(s) /\ v \in Ahead(s) BY <3>2
   <4>2. CASE s # t
    <5>1. Scanning(s)' /\ v \in Ahead(s)' BY <1>2, <4>1, <4>2 DEF Scanning, Ahead
    <5> QED BY <5>1
   <4>3. CASE s = t /\ v = u BY <1>1, <4>3
   <4>4. CASE s = t /\ v # u
    <5>1. my'[t].pc = "test" /\ v \in Ahead(t)' BY <1>5, <4>1, <4>4
    <5> QED BY <5>1 DEF Scanning
   <4> QED BY <4>2, <4>3, <4>4
  <3>3. CASE dist[v] = depth \/ v >= chunk BY <1>1, <3>3
  <3> QED BY <1>0, <3>1, <3>2, <3>3 DEF LevelScanned
 <2>2. \A s \in Thread : my'[s].count # 0 => \E v \in Vertex : dist'[v] = depth' BY <1>1
 <2>3. \A s \in Thread : my'[s].pc = "joined" => chunk' = N
   BY <1>0, <1>1, <1>2, <1>5 DEF LevelScanned
 <2> QED BY <2>1, <2>2, <2>3 DEF LevelScanned
<1>9. BottomUpInv' BY <1>6, <1>7, <1>8, BottomUpNext
<1> QED BY <1>3, <1>9 DEF IInv

-----------------------------------------------------------------------------
(***************************************************************************)
(* QueueToBitmap(): one step of a thread.                                  *)
(***************************************************************************)
LEMMA ToBitmapKept ==
  ASSUME IInv, NEW t \in Thread, Step(t), loop = "to_bitmap", queue' = queue, dist' = dist,
         my'[t].lqueue = my[t].lqueue
  PROVE  /\ TypeOK' /\ DistInv' /\ Places' /\ WrittenInv' /\ BuffersInv'
         /\ PendingInv' /\ GatherInv' /\ CompleteInv' /\ EdgesInv' /\ BottomUpInv'
<1>0. /\ TypeOK /\ DistInv /\ Places /\ WrittenInv /\ BuffersInv /\ CompleteInv
      /\ TypeOK'
  BY StepType DEF IInv
<1>1. /\ depth' = depth /\ awake_count' = awake_count /\ loop' = loop
      /\ \A s \in Thread \ {t} : my'[s] = my[s]
  BY <1>0, StepFrame
<1>2. my[t].pc # "copy" /\ my'[t].pc # "copy" BY <1>0, StepLocal DEF LabelsOf, TypeOK
<1>3. Places' /\ WrittenInv' /\ BuffersInv' BY <1>0, <1>1, <1>2, TokensKept
<1>4. DistInv' BY <1>0, <1>1, DistSame
<1>5. CompleteInv' BY <1>0, <1>1 DEF CompleteInv, Window
<1>6. PendingInv' /\ GatherInv' /\ EdgesInv' /\ BottomUpInv'
  BY <1>1 DEF PendingInv, Pending, GatherInv, EdgesInv, BottomUpInv
<1> QED BY <1>0, <1>3, <1>4, <1>5, <1>6

\* The range of a thread that goes on, or is done.
LEMMA RangeOn ==
  ASSUME IInv, TypeOK', NEW t \in Thread, loop = "to_bitmap", loop' = loop, queue' = queue,
         \A s \in Thread \ {t} : my'[s] = my[s],
         my'[t].lqueue = my[t].lqueue,
         \/ my'[t].pc = "joined"
         \/ /\ my[t].pc # "joined" /\ my'[t].end = my[t].end
            /\ my[t].i <= my'[t].i /\ my'[t].i <= my[t].end
            /\ my'[t].pc = "swap" => my'[t].i < my[t].end
  PROVE  RangeInv'
<1>0. TypeOK /\ RangeInv /\ Places BY DEF IInv
<1>1. First' = First /\ Length' = Length BY DEF First, Length, QueueSize
<1>2. \A s \in Thread : my'[s].pc # "vertex" /\ my'[s].lqueue = <<>>
 <2>1. \A s \in Thread : my'[s].pc # "vertex" BY LoopLabels DEF TypeOK, LabelsOf
 <2> QED BY <1>0, <2>1 DEF RangeInv, Pushing
<1>3. \A s \in Thread : my'[s].pc # "joined" =>
        /\ First + PartStart(s, Length) <= my'[s].i /\ my'[s].i <= my'[s].end
        /\ my'[s].end = First + PartStart(s + 1, Length)
 <2> TAKE s \in Thread
 <2>1. CASE s = t
  <3> HAVE my'[s].pc # "joined"
  <3>1. /\ First + PartStart(t, Length) <= my[t].i
        /\ my[t].end = First + PartStart(t + 1, Length)
    BY <1>0, <2>1 DEF RangeInv
  <3>2. First + PartStart(t, Length) \in Int
   <4>1. Length \in Nat /\ First \in Nat BY <1>0, WindowIs, QueueTypes, Basics DEF Length, First
   <4>2. t \in 0 .. NumT BY SMTT(30), Basics
   <4>3. PartStart(t, Length) \in 0 .. Length BY <4>1, <4>2, PartBounds
   <4> QED BY <4>1, <4>3
  <3>3. my[t].i \in Nat /\ my'[t].i \in Nat BY <1>0, MyTypes DEF TypeOK, Local
  <3> QED BY <2>1, <3>1, <3>2, <3>3
 <2>2. CASE s # t BY <1>0, <2>2 DEF RangeInv
 <2> QED BY <2>1, <2>2
<1>4. \A s \in Thread : my'[s].pc = "swap" => my'[s].i < my'[s].end
 <2> TAKE s \in Thread
 <2>1. CASE s = t BY <2>1
 <2>2. CASE s # t BY <1>0, <2>2 DEF RangeInv
 <2> QED BY <2>1, <2>2
<1> QED BY <1>1, <1>2, <1>3, <1>4 DEF RangeInv, Pending

LEMMA ReadWordStep ==
  ASSUME IInv, NEW t \in Thread, ReadWord(t)
  PROVE  IInv'
<1>0. TypeOK /\ RangeInv /\ FrontInv /\ Step(t) /\ my \in [Thread -> Local] /\ my[t] \in Local
  BY MyTypes DEF IInv, Step, TypeOK
<1>1. /\ loop = "to_bitmap" /\ my[t].pc = "read"
      /\ UNCHANGED <<queue, front, dist, depth, loop>>
  BY DEF ReadWord, At, counts
<1>2. \A s \in Thread \ {t} : my'[s] = my[s] BY <1>0, StepFrame
<1>3. my[t].lqueue = <<>> BY <1>0, <1>1 DEF RangeInv, Pushing
<1>4. \/ my[t].i = my[t].end /\ my'[t] = Idle
      \/ /\ my[t].i # my[t].end
         /\ my'[t] = [my[t] EXCEPT !.word = front \cap InWord(U(t)), !.pc = "swap"]
  BY <1>0 DEF ReadWord
<1>5. \/ my[t].i = my[t].end /\ my'[t].pc = "joined" /\ my'[t].lqueue = <<>>
      \/ /\ my[t].i # my[t].end /\ my'[t].pc = "swap" /\ my'[t].i = my[t].i
         /\ my'[t].end = my[t].end /\ my'[t].lqueue = my[t].lqueue
  BY <1>0, <1>4, IdleIs DEF Local
<1>6. /\ TypeOK' /\ DistInv' /\ Places' /\ WrittenInv' /\ BuffersInv'
      /\ PendingInv' /\ GatherInv' /\ CompleteInv' /\ EdgesInv' /\ BottomUpInv'
  BY <1>0, <1>1, <1>3, <1>5, ToBitmapKept
<1>7. RangeInv'
 <2>1. my[t].i <= my[t].end /\ my[t].i \in Nat /\ my[t].end \in Nat
   BY <1>0, <1>1, MyTypes DEF RangeInv
 <2> QED BY <1>1, <1>2, <1>3, <1>5, <1>6, <2>1, RangeOn
<1>8. FrontInv'
 <2>1. \A v \in front' : dist'[v] \in 0 .. Ready' BY <1>0, <1>1 DEF FrontInv, Ready, Building
 <2>2. \A p \in Window' : queue'.shared[p] \in front' \/ \E s \in Thread : Left(s, p)'
  <3> TAKE p \in Window'
  <3>1. p \in Window /\ p \in Int BY <1>1 DEF Window
  <3>2. CASE queue.shared[p] \in front BY <1>1, <3>2
  <3>3. CASE \E s \in Thread : Left(s, p)
   <4>1. PICK s \in Thread : Left(s, p) BY <3>3
   <4>2. CASE s # t BY <1>2, <4>1, <4>2 DEF Left
   <4>3. CASE s = t
    <5>1. my[t].i <= p /\ p < my[t].end /\ my[t].i \in Nat /\ my[t].end \in Nat
      BY <1>0, <4>1, <4>3, MyTypes DEF Left
    <5>2. Left(t, p)' BY <1>5, <3>1, <5>1 DEF Left
    <5> QED BY <5>2
   <4> QED BY <4>2, <4>3
  <3> QED BY <1>0, <1>1, <3>1, <3>2, <3>3 DEF FrontInv
 <2> QED BY <1>1, <2>1, <2>2 DEF FrontInv
<1> QED BY <1>6, <1>7, <1>8 DEF IInv

LEMMA SwapWordStep ==
  ASSUME IInv, NEW t \in Thread, SwapWord(t)
  PROVE  IInv'
<1>0. /\ TypeOK /\ RangeInv /\ FrontInv /\ DistInv /\ Places /\ WrittenInv /\ Step(t)
      /\ my \in [Thread -> Local] /\ my[t] \in Local
  BY MyTypes DEF IInv, Step, TypeOK
<1>1. /\ loop = "to_bitmap" /\ my[t].pc = "swap"
      /\ UNCHANGED <<queue, dist, depth, loop>>
  BY DEF SwapWord, At, counts
<1>2. \A s \in Thread \ {t} : my'[s] = my[s] BY <1>0, StepFrame
<1>3. my[t].i < my[t].end /\ my[t].i \in Nat /\ my[t].end \in Nat
  BY <1>0, <1>1, MyTypes DEF RangeInv
<1>4. my[t].i \in Window /\ U(t) \in Vertex /\ dist[U(t)] >= 0
  BY <1>0, <1>1, <1>3, EntryOf, InWindow DEF U
<1>5. /\ my'[t].pc = "read" /\ my'[t].end = my[t].end /\ my'[t].lqueue = my[t].lqueue
      /\ \/ front' = front \cup {U(t)} /\ my'[t].i = my[t].i + 1
         \/ front' = front /\ my'[t].i = my[t].i
 <2>1. CASE SameWord(t)
  <3>1. front' = (front \ InWord(U(t))) \cup (my[t].word \cup {U(t)}) BY <2>1 DEF SwapWord, Stored
  <3>2. front' = front \cup {U(t)} BY <2>1, <3>1 DEF SameWord
  <3>3. my'[t] = [my[t] EXCEPT !.pc = "read", !.i = my[t].i + 1, !.word = {}]
    BY <1>0, <2>1 DEF SwapWord
  <3> QED BY <1>0, <3>2, <3>3 DEF Local
 <2>2. CASE ~SameWord(t)
  <3>1. front' = front /\ my'[t] = [my[t] EXCEPT !.pc = "read"] BY <1>0, <2>2 DEF SwapWord, Goto
  <3> QED BY <1>0, <3>1 DEF Local
 <2> QED BY <2>1, <2>2
<1>6. /\ TypeOK' /\ DistInv' /\ Places' /\ WrittenInv' /\ BuffersInv'
      /\ PendingInv' /\ GatherInv' /\ CompleteInv' /\ EdgesInv' /\ BottomUpInv'
  BY <1>0, <1>1, <1>5, ToBitmapKept
<1>7. RangeInv' BY <1>1, <1>2, <1>3, <1>5, <1>6, RangeOn
<1>8. FrontInv'
 <2>1. \A v \in front' : dist'[v] \in 0 .. Ready'
  <3>1. dist[U(t)] \in 0 .. depth BY <1>0, <1>4 DEF DistInv, TypeOK
  <3>2. Ready = depth /\ Ready' = depth BY <1>1 DEF Ready, Building
  <3> QED BY <1>0, <1>1, <1>5, <3>1, <3>2 DEF FrontInv
 <2>2. \A p \in Window' : queue'.shared[p] \in front' \/ \E s \in Thread : Left(s, p)'
  <3> TAKE p \in Window'
  <3>1. p \in Window /\ p \in Int BY <1>1 DEF Window
  <3>2. CASE queue.shared[p] \in front BY <1>1, <1>5, <3>2
  <3>3. CASE \E s \in Thread : Left(s, p)
   <4>1. PICK s \in Thread : Left(s, p) BY <3>3
   <4>2. CASE s # t BY <1>2, <4>1, <4>2 DEF Left
   <4>3. CASE s = t /\ my[t].i = p /\ front' = front \cup {U(t)} BY <1>1, <4>3 DEF U
   <4>4. CASE s = t /\ (my[t].i # p \/ my'[t].i = my[t].i)
    <5>1. my[t].i <= p /\ p < my[t].end BY <4>1, <4>4 DEF Left
    <5>2. Left(t, p)' BY <1>3, <1>5, <3>1, <4>4, <5>1 DEF Left
    <5> QED BY <5>2
   <4> QED BY <1>5, <4>2, <4>3, <4>4
  <3> QED BY <1>0, <1>1, <3>1, <3>2, <3>3 DEF FrontInv
 <2> QED BY <1>1, <2>1, <2>2 DEF FrontInv
<1> QED BY <1>6, <1>7, <1>8 DEF IInv

-----------------------------------------------------------------------------
(***************************************************************************)
(* A vertex a thread is at, and that stays it, is as new as before.        *)
(***************************************************************************)
LEMMA NewAt ==
  ASSUME NEW t \in Thread, V(t)' = V(t), \A w : New(w)' <=> New(w)
  PROVE  New(V(t))' <=> New(V(t))
<1>1. PICK w : w = V(t) OBVIOUS
<1>2. V(t)' = w /\ (New(w)' <=> New(w)) BY <1>1
<1>3. New(V(t))' <=> New(w)' BY <1>2 DEF New, Buffered
<1>4. New(V(t)) <=> New(w) BY <1>1
<1> QED BY <1>2, <1>3, <1>4

(***************************************************************************)
(* The loops that push: what is new in the queue or in a buffer is of the  *)
(* newest level.                                                           *)
(***************************************************************************)
LEMMA NewFound ==
  ASSUME IInv, Pushing, NEW v, New(v)
  PROVE  v \in Vertex /\ dist[v] = depth /\ depth \in Nat
<1>0. TypeOK /\ Places /\ WrittenInv /\ BuffersInv /\ depth \in Nat BY DEF IInv, TypeOK
<1>1. CASE \E p \in queue.out_end .. queue.in - 1 : Written(p) /\ queue.shared[p] = v
 <2>1. PICK p \in queue.out_end .. queue.in - 1 : Written(p) /\ queue.shared[p] = v BY <1>1
 <2>2. queue.out_end \in Nat /\ queue.in \in Nat BY <1>0, QueueTypes
 <2>3. p \in 0 .. queue.in - 1 /\ p >= queue.out_end BY <2>1, <2>2
 <2>4. Newest = queue.out_end BY DEF Newest, Pushing
 <2> QED BY <1>0, <2>1, <2>3, <2>4 DEF WrittenInv
<1>2. CASE \E t \in Thread : Buffered(t, v)
 <2>1. PICK t \in Thread : Buffered(t, v) BY <1>2
 <2>2. PICK k \in 1 .. Len(my[t].lqueue) : my[t].lqueue[k] = v BY <2>1 DEF Buffered
 <2> QED BY <1>0, <2>2, MyTypes DEF BuffersInv
<1> QED BY <1>1, <1>2 DEF New

LEMMA PartsTyped ==
  ASSUME TypeOK, Places, NEW t \in Thread
  PROVE  /\ Length \in Nat /\ First \in Nat
         /\ PartStart(t, Length) \in 0 .. Length /\ PartStart(t + 1, Length) \in 0 .. Length
         /\ First + PartStart(t, Length) \in Nat /\ First + PartStart(t + 1, Length) \in Nat
<1>1. Length \in Nat /\ First \in Nat BY WindowIs, QueueTypes, Basics DEF Length, First
<1>2. t \in 0 .. NumT /\ t + 1 \in 0 .. NumT BY Basics
<1>3. PartStart(t, Length) \in 0 .. Length /\ PartStart(t + 1, Length) \in 0 .. Length
  BY <1>1, <1>2, PartBounds
<1> QED BY <1>1, <1>3

(***************************************************************************)
(* A thread stays at its edge as long as the window does.                  *)
(***************************************************************************)
LEMMA SameEdge ==
  ASSUME IInv, NEW t \in Thread, loop = "td", my[t].pc \in {"edge", "swap"} \/ Pending(t),
         my'[t].i = my[t].i, my'[t].j = my[t].j,
         \A p \in Window : queue'.shared[p] = queue.shared[p]
  PROVE  U(t)' = U(t) /\ V(t)' = V(t) /\ Degree(U(t))' = Degree(U(t))
<1>1. my[t].i \in Window BY EdgeOf
<1>2. U(t)' = U(t) BY <1>1 DEF U
<1> QED BY <1>2 DEF V, Degree

LEMMA PushRange ==
  ASSUME IInv, TypeOK', NEW t \in Thread, Pushing, loop' = loop,
         queue'.out_start = queue.out_start, queue'.out_end = queue.out_end,
         \A s \in Thread \ {t} : my'[s] = my[s],
         \A p \in Window : queue'.shared[p] = queue.shared[p],
         \A v \in Vertex : dist'[v] = dist[v] \/ dist'[v] >= 0,
         my'[t].pc = "joined" => my'[t].lqueue = <<>>,
         my'[t].pc # "joined" =>
           /\ my[t].pc # "joined" /\ my'[t].end = my[t].end
           /\ my[t].i <= my'[t].i /\ my'[t].i <= my[t].end,
         loop = "td" /\ (my'[t].pc \in {"edge", "swap"} \/ Pending(t)') =>
           my'[t].i < my'[t].end /\ my'[t].j \in 1 .. Degree(U(t))',
         loop = "td" /\ my'[t].pc = "swap" =>
           my'[t].val < 0 /\ (dist'[V(t)'] = my'[t].val \/ dist'[V(t)'] >= 0),
         my'[t].pc = "vertex" => my'[t].j = 1
  PROVE  RangeInv'
<1>0. TypeOK /\ RangeInv /\ Places /\ loop \in {"td", "to_queue"} BY DEF IInv, Pushing
<1>1. First' = First /\ Length' = Length BY DEF First, Length, QueueSize
<1>2. \A s \in Thread : my'[s].pc # "joined" =>
        /\ First + PartStart(s, Length) <= my'[s].i /\ my'[s].i <= my'[s].end
        /\ my'[s].end = First + PartStart(s + 1, Length)
 <2> TAKE s \in Thread
 <2>1. CASE s = t
  <3> HAVE my'[s].pc # "joined"
  <3>1. /\ First + PartStart(t, Length) <= my[t].i
        /\ my[t].end = First + PartStart(t + 1, Length)
    BY <1>0, <2>1 DEF RangeInv
  <3>2. First + PartStart(t, Length) \in Nat BY <1>0, PartsTyped
  <3>3. my[t].i \in Nat /\ my'[t].i \in Nat BY <1>0, MyTypes DEF TypeOK, Local
  <3> QED BY <2>1, <3>1, <3>2, <3>3
 <2>2. CASE s # t BY <1>0, <2>2 DEF RangeInv
 <2> QED BY <2>1, <2>2
<1>3. \A s \in Thread : loop = "td" /\ (my'[s].pc \in {"edge", "swap"} \/ Pending(s)') =>
        my'[s].i < my'[s].end /\ my'[s].j \in 1 .. Degree(U(s))'
 <2> TAKE s \in Thread
 <2>1. CASE s = t BY <2>1
 <2>2. CASE s # t
  <3> HAVE loop = "td" /\ (my'[s].pc \in {"edge", "swap"} \/ Pending(s)')
  <3>1. my'[s] = my[s] /\ (my[s].pc \in {"edge", "swap"} \/ Pending(s)) BY <2>2 DEF Pending
  <3>2. Degree(U(s))' = Degree(U(s)) BY <3>1, SameEdge
  <3> QED BY <1>0, <3>1, <3>2 DEF RangeInv
 <2> QED BY <2>1, <2>2
<1>4. \A s \in Thread : loop = "td" /\ my'[s].pc = "swap" =>
        my'[s].val < 0 /\ (dist'[V(s)'] = my'[s].val \/ dist'[V(s)'] >= 0)
 <2> TAKE s \in Thread
 <2>1. CASE s = t BY <2>1
 <2>2. CASE s # t
  <3> HAVE loop = "td" /\ my'[s].pc = "swap"
  <3>1. my'[s] = my[s] /\ my[s].pc = "swap" BY <2>2
  <3>2. V(s)' = V(s) /\ V(s) \in Vertex BY <3>1, SameEdge, EdgeOf
  <3>3. my[s].val < 0 /\ (dist[V(s)] = my[s].val \/ dist[V(s)] >= 0) BY <1>0, <3>1 DEF RangeInv
  <3> QED BY <3>1, <3>2, <3>3
 <2> QED BY <2>1, <2>2
<1>5. \A s \in Thread : my'[s].pc = "vertex" => my'[s].j = 1 BY <1>0 DEF RangeInv
<1>6. \A s \in Thread : my'[s].pc = "joined" => my'[s].lqueue = <<>> BY <1>0 DEF RangeInv
<1>7. Pushing' /\ loop' # "to_bitmap" BY <1>0 DEF Pushing
<1> QED BY <1>0, <1>1, <1>2, <1>3, <1>4, <1>5, <1>6, <1>7 DEF RangeInv

(***************************************************************************)
(* Vertices that stay pending, or in the queue or a buffer.                *)
(***************************************************************************)
LEMMA FoundKept ==
  ASSUME IInv, NEW t \in Thread, loop = "td", loop' = loop, depth' = depth, dist' = dist,
         queue'.out_start = queue.out_start, queue'.out_end = queue.out_end,
         \A s \in Thread \ {t} : my'[s] = my[s],
         \A p \in Window : queue'.shared[p] = queue.shared[p],
         \A v : New(v)' <=> New(v),
         Pending(t)' <=> Pending(t),
         Pending(t) => my'[t].i = my[t].i /\ my'[t].j = my[t].j
  PROVE  PendingInv' /\ CompleteInv'
<1>0. TypeOK /\ PendingInv /\ CompleteInv BY DEF IInv
<1>1. \A s \in Thread : Pending(s)' <=> Pending(s)
 <2> TAKE s \in Thread
 <2>1. CASE s = t BY <2>1
 <2>2. CASE s # t BY <2>2 DEF Pending
 <2> QED BY <2>1, <2>2
<1>2. \A s \in Thread : Pending(s) => V(s)' = V(s)
 <2> TAKE s \in Thread
 <2> HAVE Pending(s)
 <2>1. my'[s].i = my[s].i /\ my'[s].j = my[s].j
  <3>1. CASE s = t BY <3>1
  <3>2. CASE s # t BY <3>2
  <3> QED BY <3>1, <3>2
 <2> QED BY <2>1, SameEdge
<1>3. PendingInv'
 <2>1. \A s \in Thread : Pending(s)' => dist'[V(s)'] = depth' /\ ~New(V(s))'
  <3> TAKE s \in Thread
  <3> HAVE Pending(s)'
  <3>1. V(s)' = V(s) /\ dist[V(s)] = depth /\ ~New(V(s)) BY <1>0, <1>1, <1>2 DEF PendingInv
  <3> DEFINE v == V(s)
  <3>2. ~New(v) /\ V(s)' = v BY <3>1
  <3>3. New(V(s))' <=> New(V(s)) BY <3>1, NewAt
  <3> QED BY <3>1, <3>3
 <2>2. \A s, r \in Thread : Pending(s)' /\ Pending(r)' /\ V(s)' = V(r)' => s = r
   BY <1>0, <1>1, <1>2 DEF PendingInv
 <2> QED BY <2>1, <2>2 DEF PendingInv
<1>4. CompleteInv'
 <2>1. Window' = Window BY DEF Window
 <2>2. \A v \in Vertex : dist'[v] = depth' =>
         New(v)' \/ \E s \in Thread : Pending(s)' /\ V(s)' = v
   BY <1>0, <1>1, <1>2 DEF CompleteInv
 <2>3. \A v \in Vertex : dist'[v] = depth' - 1 => \E p \in Window' : queue'.shared[p] = v
   BY <1>0, <2>1 DEF CompleteInv
 <2>4. \A p \in Window' : dist'[queue'.shared[p]] = depth' - 1 BY <1>0, <2>1 DEF CompleteInv
 <2> QED BY <2>2, <2>3, <2>4 DEF CompleteInv
<1> QED BY <1>3, <1>4

LEMMA EdgesOn ==
  ASSUME IInv, NEW t \in Thread, loop = "td", loop' = loop,
         queue'.out_start = queue.out_start, queue'.out_end = queue.out_end,
         \A s \in Thread \ {t} : my'[s] = my[s],
         \A p \in Window : queue'.shared[p] = queue.shared[p],
         \A v \in Vertex : dist[v] >= 0 => dist'[v] >= 0,
         \A p \in Window : \A q \in 1 .. Degree(queue.shared[p]) :
           ToDo(t, p, q) => ToDo(t, p, q)' \/ dist'[adj[queue.shared[p]][q]] >= 0
  PROVE  EdgesInv'
<1>0. TypeOK /\ EdgesInv /\ Places /\ WrittenInv BY DEF IInv
<1>1. Window' = Window BY DEF Window
<1>2. \A p \in Window : \A q \in 1 .. Degree(queue.shared[p]) :
        adj[queue.shared[p]][q] \in Vertex
 <2> TAKE p \in Window
 <2> TAKE q \in 1 .. Degree(queue.shared[p])
 <2>1. queue.shared[p] \in Vertex BY <1>0, InWindow
 <2> QED BY <2>1, GraphTypes DEF Degree
<1>3. \A s \in Thread \ {t}, p, q \in Int : ToDo(s, p, q)' <=> ToDo(s, p, q) BY DEF ToDo
<1>4. \A p \in Window' : \A q \in 1 .. Degree(queue'.shared[p]) :
        dist'[adj[queue'.shared[p]][q]] >= 0 \/ \E s \in Thread : ToDo(s, p, q)'
 <2> TAKE p \in Window'
 <2>1. p \in Window /\ queue'.shared[p] = queue.shared[p] /\ p \in Int BY <1>0, <1>1, WindowIs
 <2> TAKE q \in 1 .. Degree(queue'.shared[p])
 <2>2. q \in 1 .. Degree(queue.shared[p]) /\ q \in Int BY <2>1
 <2>3. CASE dist[adj[queue.shared[p]][q]] >= 0 BY <1>2, <2>1, <2>2, <2>3
 <2>4. CASE ToDo(t, p, q) BY <2>1, <2>2, <2>4
 <2>5. CASE \E s \in Thread \ {t} : ToDo(s, p, q) BY <1>3, <2>1, <2>2, <2>5
 <2> QED BY <1>0, <2>1, <2>2, <2>3, <2>4, <2>5 DEF EdgesInv
<1>5. \A v : Degree(v)' = Degree(v) BY DEF Degree
<1> QED BY <1>4, <1>5 DEF EdgesInv, Degree

-----------------------------------------------------------------------------
(***************************************************************************)
(* TDStep(): one step of a thread.                                         *)
(***************************************************************************)
LEMMA NextEdgeRange ==
  ASSUME IInv, NEW t \in Thread, loop = "td", queue' = queue,
         my[t].pc \in {"edge", "swap", "push"},
         my'[t].pc = NextEdge(t).pc, my'[t].i = NextEdge(t).i, my'[t].j = NextEdge(t).j,
         my'[t].end = NextEdge(t).end
  PROVE  /\ my'[t].pc \in {"edge", "vertex"}
         /\ my'[t].end = my[t].end /\ my[t].i <= my'[t].i /\ my'[t].i <= my[t].end
         /\ my'[t].pc = "edge" => my'[t].i < my'[t].end /\ my'[t].j \in 1 .. Degree(U(t))'
         /\ my'[t].pc = "vertex" => my'[t].j = 1
         /\ \A p \in Window : \A q \in 1 .. Degree(queue.shared[p]) :
              ToDo(t, p, q) => ToDo(t, p, q)' \/ (p = my[t].i /\ q = my[t].j)
<1>0. TypeOK /\ Places /\ my[t] \in Local /\ (my[t].pc \in {"edge", "swap"} \/ Pending(t))
  BY MyTypes DEF IInv, Pending
<1>1. /\ my[t].i < my[t].end /\ my[t].j \in 1 .. Degree(U(t)) /\ Degree(U(t)) \in Nat
      /\ my[t].i \in Nat /\ my[t].end \in Nat /\ my[t].j \in Nat
  BY <1>0, EdgeOf, MyTypes
<1>2. \A p \in Window : p \in Int BY <1>0, WindowIs
<1>3. CASE my[t].j + 1 <= Degree(U(t))
 <2>1. /\ my'[t].pc = "edge" /\ my'[t].i = my[t].i /\ my'[t].j = my[t].j + 1
       /\ my'[t].end = my[t].end
   BY <1>0, <1>1, <1>3, FromEdgeIs DEF NextEdge
 <2>2. Degree(U(t))' = Degree(U(t)) BY <2>1 DEF U, Degree
 <2>3. my'[t].j \in 1 .. Degree(U(t))' BY <1>1, <1>3, <2>1, <2>2
 <2>4. \A p \in Window : \A q \in 1 .. Degree(queue.shared[p]) :
         ToDo(t, p, q) => ToDo(t, p, q)' \/ (p = my[t].i /\ q = my[t].j)
   BY <1>1, <2>1 DEF ToDo
 <2> QED BY <1>1, <2>1, <2>3, <2>4
<1>4. CASE ~(my[t].j + 1 <= Degree(U(t)))
 <2>1. /\ my'[t].pc = "vertex" /\ my'[t].i = my[t].i + 1 /\ my'[t].j = 1
       /\ my'[t].end = my[t].end
   BY <1>0, <1>1, <1>4, FromEdgeIs DEF NextEdge
 <2>2. my[t].j = Degree(U(t)) BY <1>1, <1>4
 <2>3. \A p \in Window : \A q \in 1 .. Degree(queue.shared[p]) :
         ToDo(t, p, q) => ToDo(t, p, q)' \/ (p = my[t].i /\ q = my[t].j)
  <3> TAKE p \in Window
  <3> TAKE q \in 1 .. Degree(queue.shared[p])
  <3> HAVE ToDo(t, p, q)
  <3>1. CASE p = my[t].i
   <4>1. q \in 1 .. Degree(U(t)) /\ my[t].j <= q BY <3>1 DEF ToDo, U
   <4> QED BY <1>1, <2>2, <3>1, <4>1
  <3>2. CASE p # my[t].i
   <4>1. q >= 1 /\ p \in Int BY <1>2
   <4>2. my[t].i + 1 <= p /\ p < my[t].end BY <1>1, <3>2, <4>1 DEF ToDo
   <4> QED BY <2>1, <4>1, <4>2 DEF ToDo
  <3> QED BY <3>1, <3>2
 <2> QED BY <1>1, <2>1, <2>3
<1> QED BY <1>3, <1>4

(***************************************************************************)
(* A step of TDStep() that leaves the queue and the buffers alone.         *)
(***************************************************************************)
LEMMA TdKept ==
  ASSUME IInv, NEW t \in Thread, Step(t), loop = "td", queue' = queue, front' = front,
         my'[t].lqueue = my[t].lqueue, my[t].pc # "copy", my'[t].pc # "copy",
         \/ dist' = dist
         \/ \E u \in Vertex : /\ dist[u] < 0 /\ Delta[u] = depth
                              /\ dist' = [dist EXCEPT ![u] = depth]
  PROVE  /\ TypeOK' /\ DistInv' /\ Places' /\ WrittenInv' /\ BuffersInv'
         /\ GatherInv' /\ FrontInv' /\ BottomUpInv'
         /\ \A v : New(v)' <=> New(v)
<1>0. /\ TypeOK /\ DistInv /\ Places /\ WrittenInv /\ BuffersInv /\ FrontInv
      /\ TypeOK'
  BY StepType DEF IInv
<1>1. /\ depth' = depth /\ awake_count' = awake_count /\ loop' = loop
      /\ \A s \in Thread \ {t} : my'[s] = my[s]
  BY <1>0, StepFrame
<1>2. Places' /\ WrittenInv' /\ BuffersInv' BY <1>0, <1>1, TokensKept
<1>3. \A v : New(v)' <=> New(v) BY <1>0, <1>1, PlacesKept
<1>4. DistInv'
 <2>1. CASE dist' = dist BY <1>0, <1>1, <2>1, DistSame
 <2>2. CASE dist' # dist BY <1>0, <1>1, <2>2, DistStep DEF Building
 <2> QED BY <2>1, <2>2
<1>5. FrontInv' BY <1>0, <1>1, FrontKept
<1>6. GatherInv' /\ BottomUpInv' BY <1>1 DEF GatherInv, BottomUpInv
<1> QED BY <1>0, <1>2, <1>3, <1>4, <1>5, <1>6

LEMMA TakeVertexStep ==
  ASSUME IInv, NEW t \in Thread, TakeVertex(t)
  PROVE  IInv'
<1>0. TypeOK /\ RangeInv /\ Places /\ Step(t) /\ my \in [Thread -> Local] /\ my[t] \in Local
  BY MyTypes DEF IInv, Step, TypeOK
<1>1. /\ loop = "td" /\ my[t].pc = "vertex"
      /\ UNCHANGED <<queue, dist, front, depth, loop>>
  BY DEF TakeVertex, At, counts
<1>2. \A s \in Thread \ {t} : my'[s] = my[s] BY <1>0, StepFrame
<1>3. /\ my[t].i \in Nat /\ my[t].end \in Nat /\ my[t].i <= my[t].end /\ my[t].j = 1
  BY <1>0, <1>1, MyTypes DEF RangeInv
<1>4. \/ /\ my[t].i = my[t].end /\ my'[t].pc = "flush" /\ my'[t].i = my[t].i
         /\ my'[t].end = my[t].end /\ my'[t].lqueue = my[t].lqueue
      \/ /\ my[t].i # my[t].end /\ my'[t] = FromEdge(t, 1)
 <2>1. my'[t] = IF my[t].i = my[t].end THEN [my[t] EXCEPT !.pc = "flush"] ELSE FromEdge(t, 1)
   BY <1>0 DEF TakeVertex
 <2> QED BY <1>0, <2>1 DEF Local
<1>5. /\ my'[t].lqueue = my[t].lqueue /\ my'[t].end = my[t].end
      /\ my'[t].pc \in {"flush", "edge", "vertex"}
      /\ my[t].i <= my'[t].i /\ my'[t].i <= my[t].end
      /\ my'[t].pc = "flush" => my'[t].i = my'[t].end
      /\ my'[t].pc = "edge" => my'[t].i < my'[t].end /\ my'[t].j \in 1 .. Degree(U(t))'
      /\ my'[t].pc = "vertex" => my'[t].j = 1
      /\ \A p \in Window : \A q \in 1 .. Degree(queue.shared[p]) :
            ToDo(t, p, q) => ToDo(t, p, q)'
 <2>1. CASE my[t].i = my[t].end
  <3>1. \A p \in Window, q \in Int : ~ToDo(t, p, q) BY <1>0, <1>3, <2>1, WindowIs DEF ToDo
  <3> QED BY <1>3, <1>4, <2>1, <3>1
 <2>2. CASE my[t].i # my[t].end
  <3>1. my[t].i \in Window BY <1>1, <2>2, EntryOf
  <3>2. U(t) \in Vertex BY <1>0, <3>1, InWindow DEF U, IInv
  <3>3. Degree(U(t)) \in Nat
   <4>1. adj[U(t)] \in Seq(Vertex) BY <3>2, GraphAssumption
   <4> QED BY <4>1 DEF Degree
  <3>4. \A p \in Window : p \in Int BY <1>0, WindowIs
  <3>5. CASE 1 <= Degree(U(t))
   <4>1. /\ my'[t].pc = "edge" /\ my'[t].i = my[t].i /\ my'[t].j = 1
         /\ my'[t].end = my[t].end /\ my'[t].lqueue = my[t].lqueue
     BY <1>0, <1>4, <2>2, <3>5, FromEdgeIs
   <4>2. Degree(U(t))' = Degree(U(t)) BY <1>1, <4>1 DEF U, Degree
   <4>3. my'[t].j \in 1 .. Degree(U(t))' BY <3>3, <3>5, <4>1, <4>2
   <4>4. \A p \in Window : \A q \in 1 .. Degree(queue.shared[p]) :
           ToDo(t, p, q) => ToDo(t, p, q)'
     BY <1>3, <4>1 DEF ToDo
   <4> QED BY <1>3, <2>2, <4>1, <4>3, <4>4
  <3>6. CASE ~(1 <= Degree(U(t)))
   <4>1. /\ my'[t].pc = "vertex" /\ my'[t].i = my[t].i + 1 /\ my'[t].j = 1
         /\ my'[t].end = my[t].end /\ my'[t].lqueue = my[t].lqueue
     BY <1>0, <1>4, <2>2, <3>6, FromEdgeIs
   <4>2. \A p \in Window : \A q \in 1 .. Degree(queue.shared[p]) :
           ToDo(t, p, q) => ToDo(t, p, q)'
    <5> TAKE p \in Window
    <5> TAKE q \in 1 .. Degree(queue.shared[p])
    <5> HAVE ToDo(t, p, q)
    <5>1. p # my[t].i
     <6> SUFFICES ASSUME p = my[t].i PROVE FALSE OBVIOUS
     <6>1. q \in 1 .. Degree(U(t)) BY DEF U
     <6> QED BY <3>3, <3>6, <6>1
    <5>2. my[t].i + 1 <= p /\ p < my[t].end /\ q >= 1 BY <1>3, <3>4, <5>1 DEF ToDo
    <5> QED BY <4>1, <5>2 DEF ToDo
   <4> QED BY <1>3, <2>2, <4>1, <4>2
  <3> QED BY <3>5, <3>6
 <2> QED BY <2>1, <2>2
<1>6. /\ TypeOK' /\ DistInv' /\ Places' /\ WrittenInv' /\ BuffersInv'
      /\ GatherInv' /\ FrontInv' /\ BottomUpInv'
      /\ \A v : New(v)' <=> New(v)
  BY <1>0, <1>1, <1>5, TdKept
<1>7. ~Pending(t) /\ ~Pending(t)' BY <1>1, <1>5 DEF Pending
<1>8. RangeInv' BY <1>1, <1>2, <1>5, <1>6, <1>7, PushRange DEF Pushing
<1>9. PendingInv' /\ CompleteInv' BY <1>1, <1>2, <1>6, <1>7, FoundKept
<1>10. EdgesInv' BY <1>1, <1>2, <1>5, EdgesOn
<1> QED BY <1>6, <1>8, <1>9, <1>10 DEF IInv

\* A step to the next edge that leaves the queue and the buffers alone, and dist.
LEMMA NextEdgeStep ==
  ASSUME IInv, NEW t \in Thread, Step(t), loop = "td", my[t].pc \in {"edge", "swap"},
         queue' = queue, front' = front, dist' = dist, my'[t] = NextEdge(t), dist[V(t)] >= 0
  PROVE  IInv'
<1>0. TypeOK /\ my[t] \in Local BY MyTypes DEF IInv
<1>1. depth' = depth /\ loop' = loop /\ \A s \in Thread \ {t} : my'[s] = my[s] BY <1>0, StepFrame
<1>2. my'[t].lqueue = my[t].lqueue BY <1>0, FromEdgeIs, MyTypes DEF NextEdge
<1>3. /\ my'[t].pc \in {"edge", "vertex"}
      /\ my'[t].end = my[t].end /\ my[t].i <= my'[t].i /\ my'[t].i <= my[t].end
      /\ my'[t].pc = "edge" => my'[t].i < my'[t].end /\ my'[t].j \in 1 .. Degree(U(t))'
      /\ my'[t].pc = "vertex" => my'[t].j = 1
      /\ \A p \in Window : \A q \in 1 .. Degree(queue.shared[p]) :
           ToDo(t, p, q) => ToDo(t, p, q)' \/ (p = my[t].i /\ q = my[t].j)
  BY NextEdgeRange
<1>4. /\ TypeOK' /\ DistInv' /\ Places' /\ WrittenInv' /\ BuffersInv'
      /\ GatherInv' /\ FrontInv' /\ BottomUpInv'
      /\ \A v : New(v)' <=> New(v)
  BY <1>2, <1>3, TdKept
<1>5. ~Pending(t) /\ ~Pending(t)' BY <1>3 DEF Pending
<1>6. RangeInv' BY <1>1, <1>2, <1>3, <1>4, <1>5, PushRange DEF Pushing
<1>7. PendingInv' /\ CompleteInv' BY <1>1, <1>4, <1>5, FoundKept
<1>8. EdgesInv'
 <2>1. dist'[adj[queue.shared[my[t].i]][my[t].j]] >= 0 BY DEF V, U
 <2> QED BY <1>1, <1>3, <2>1, EdgesOn
<1> QED BY <1>4, <1>6, <1>7, <1>8 DEF IInv

LEMMA ReadDistStep ==
  ASSUME IInv, NEW t \in Thread, ReadDist(t)
  PROVE  IInv'
<1>0. TypeOK /\ RangeInv /\ Step(t) /\ my \in [Thread -> Local] /\ my[t] \in Local
  BY MyTypes DEF IInv, Step, TypeOK
<1>1. /\ loop = "td" /\ my[t].pc = "edge"
      /\ UNCHANGED <<queue, dist, front, depth, loop>>
  BY DEF ReadDist, At, counts
<1>2. \A s \in Thread \ {t} : my'[s] = my[s] BY <1>0, StepFrame
<1>3. V(t) \in Vertex /\ dist[V(t)] \in Int BY <1>0, <1>1, EdgeOf DEF TypeOK
<1>4. CASE dist[V(t)] < 0
 <2> DEFINE d == dist[V(t)]
 <2>1. my'[t] = [my[t] EXCEPT !.val = d, !.pc = "swap"] BY <1>0, <1>4 DEF ReadDist
 <2> HIDE DEF d
 <2>2. /\ my'[t].pc = "swap" /\ my'[t].val = d /\ my'[t].i = my[t].i /\ my'[t].j = my[t].j
       /\ my'[t].end = my[t].end /\ my'[t].lqueue = my[t].lqueue
   BY <1>0, <2>1 DEF Local
 <2>3. /\ TypeOK' /\ DistInv' /\ Places' /\ WrittenInv' /\ BuffersInv'
       /\ GatherInv' /\ FrontInv' /\ BottomUpInv'
       /\ \A v : New(v)' <=> New(v)
   BY <1>0, <1>1, <2>2, TdKept
 <2>4. ~Pending(t) /\ ~Pending(t)' BY <1>1, <2>2 DEF Pending
 <2>5. V(t)' = V(t) /\ Degree(U(t))' = Degree(U(t)) BY <1>1, <2>2, SameEdge
 <2>6. /\ my[t].i < my[t].end /\ my[t].j \in 1 .. Degree(U(t)) /\ my[t].i \in Nat
       /\ my[t].end \in Nat
   BY <1>0, <1>1, EdgeOf, MyTypes
 <2>7. RangeInv'
  <3>1. my'[t].val < 0 /\ dist'[V(t)'] = my'[t].val BY <1>1, <1>4, <2>2, <2>5 DEF d
  <3> QED BY <1>1, <1>2, <2>2, <2>3, <2>5, <2>6, <3>1, PushRange DEF Pushing
 <2>8. PendingInv' /\ CompleteInv' BY <1>1, <1>2, <2>3, <2>4, FoundKept
 <2>9. EdgesInv'
  <3>1. \A p, q : ToDo(t, p, q) => ToDo(t, p, q)' BY <2>2 DEF ToDo
  <3> QED BY <1>1, <1>2, <3>1, EdgesOn
 <2> QED BY <2>3, <2>7, <2>8, <2>9 DEF IInv
<1>5. CASE ~(dist[V(t)] < 0)
 <2>1. my'[t] = NextEdge(t) /\ dist[V(t)] >= 0 BY <1>0, <1>3, <1>5 DEF ReadDist
 <2> QED BY <1>0, <1>1, <2>1, NextEdgeStep
<1> QED BY <1>4, <1>5

LEMMA CompareAndSwapStep ==
  ASSUME IInv, NEW t \in Thread, CompareAndSwap(t)
  PROVE  IInv'
<1>0. /\ TypeOK /\ RangeInv /\ PendingInv /\ CompleteInv /\ Places /\ WrittenInv /\ Step(t)
      /\ my \in [Thread -> Local] /\ my[t] \in Local
  BY MyTypes DEF IInv, Step, TypeOK
<1>1. /\ loop = "td" /\ my[t].pc = "swap"
      /\ UNCHANGED <<queue, front, depth, loop>>
  BY DEF CompareAndSwap, At, counts
<1>2. \A s \in Thread \ {t} : my'[s] = my[s] BY <1>0, StepFrame
<1>3. /\ V(t) \in Vertex /\ dist[V(t)] \in Int /\ my[t].i < my[t].end
      /\ my[t].j \in 1 .. Degree(U(t)) /\ my[t].i \in Nat /\ my[t].end \in Nat
  BY <1>0, <1>1, EdgeOf, MyTypes DEF TypeOK
<1>4. my[t].val < 0 /\ (dist[V(t)] = my[t].val \/ dist[V(t)] >= 0) BY <1>0, <1>1 DEF RangeInv
<1>5. CASE Wins(t)
 <2> DEFINE v == V(t)
 <2>1. v \in Vertex /\ dist[v] < 0 /\ dist' = [dist EXCEPT ![v] = depth]
   BY <1>3, <1>4, <1>5 DEF Wins, CompareAndSwap
 <2>2. my'[t] = [my[t] EXCEPT !.pc = "push"] BY <1>0, <1>5 DEF CompareAndSwap, Goto
 <2>3. /\ my'[t].pc = "push" /\ my'[t].i = my[t].i /\ my'[t].j = my[t].j
       /\ my'[t].end = my[t].end /\ my'[t].lqueue = my[t].lqueue
   BY <1>0, <2>2 DEF Local
 <2>4. Building /\ depth \in Nat /\ depth >= 1 BY <1>0, <1>1 DEF Building, IInv, DistInv, TypeOK
 <2>5. Delta[v] = depth
  <3>1. /\ U(t) \in Vertex /\ v \in Neighbors(U(t)) /\ dist[U(t)] = depth - 1 BY <1>1, EdgeOf
  <3> HIDE DEF v
  <3> QED BY <2>1, <2>4, <3>1, Reach
 <2>6. V(t)' = V(t) /\ Degree(U(t))' = Degree(U(t)) BY <1>1, <2>3, SameEdge
 <2>7. \A w \in Vertex : dist'[w] = IF w = v THEN depth ELSE dist[w] BY <1>0, <2>1 DEF TypeOK
 <2>8. \A w : New(w) => w # v BY <1>1, <2>1, NewFound DEF Pushing
 <2> HIDE DEF v
 <2>9. /\ TypeOK' /\ DistInv' /\ Places' /\ WrittenInv' /\ BuffersInv'
       /\ GatherInv' /\ FrontInv' /\ BottomUpInv'
       /\ \A w : New(w)' <=> New(w)
   BY <1>0, <1>1, <2>1, <2>3, <2>5, TdKept
 <2>10. \A w \in Vertex : dist[w] >= 0 => dist'[w] = dist[w] BY <1>0, <2>1, <2>7 DEF TypeOK
 <2>11. Pending(t)' /\ V(t)' = v BY <1>1, <2>3, <2>6 DEF Pending, v
 <2>12. \A s \in Thread \ {t} : (Pending(s)' <=> Pending(s)) /\ (Pending(s) => V(s)' = V(s))
  <3> TAKE s \in Thread \ {t}
  <3>1. Pending(s)' <=> Pending(s) BY <1>1, <1>2 DEF Pending
  <3>2. Pending(s) => V(s)' = V(s) BY <1>1, <1>2, SameEdge
  <3> QED BY <3>1, <3>2
 <2>13. \A s \in Thread : Pending(s) => V(s) # v /\ V(s) \in Vertex
  <3> TAKE s \in Thread
  <3> HAVE Pending(s)
  <3>1. V(s) \in Vertex /\ dist[V(s)] = depth BY <1>0, <1>1, EdgeOf DEF PendingInv
  <3> QED BY <2>1, <2>4, <3>1
 <2>14. RangeInv' BY <1>1, <1>2, <1>3, <2>3, <2>4, <2>6, <2>7, <2>9, PushRange DEF Pushing
 <2>15. PendingInv'
  <3>1. \A s \in Thread : Pending(s)' => dist'[V(s)'] = depth'
   <4> TAKE s \in Thread
   <4> HAVE Pending(s)'
   <4>1. CASE s = t BY <1>1, <2>1, <2>7, <2>11, <4>1
   <4>2. CASE s # t
    <5>1. Pending(s) /\ V(s)' = V(s) /\ V(s) \in Vertex BY <2>12, <2>13, <4>2
    <5>2. dist[V(s)] = depth BY <1>0, <5>1 DEF PendingInv
    <5> QED BY <1>1, <2>4, <2>10, <5>1, <5>2
   <4> QED BY <4>1, <4>2
  <3>2. \A s \in Thread : Pending(s)' => ~New(V(s))'
   <4> TAKE s \in Thread
   <4> HAVE Pending(s)'
   <4>1. CASE s = t
    <5>1. ~New(V(t)) BY <2>8 DEF v
    <5>2. New(V(t))' <=> New(V(t)) BY <2>6, <2>9, NewAt
    <5> QED BY <4>1, <5>1, <5>2
   <4>2. CASE s # t
    <5>1. Pending(s) /\ V(s)' = V(s) BY <2>12, <4>2
    <5>2. ~New(V(s)) BY <1>0, <5>1 DEF PendingInv
    <5>3. New(V(s))' <=> New(V(s)) BY <2>9, <5>1, NewAt
    <5> QED BY <5>2, <5>3
   <4> QED BY <4>1, <4>2
  <3>3. \A s, r \in Thread : Pending(s)' /\ Pending(r)' /\ V(s)' = V(r)' => s = r
   <4> TAKE s, r \in Thread
   <4> HAVE Pending(s)' /\ Pending(r)' /\ V(s)' = V(r)'
   <4>1. CASE s # t /\ r # t BY <1>0, <2>12, <4>1 DEF PendingInv
   <4>2. CASE s = t /\ r # t BY <2>11, <2>12, <2>13, <4>2
   <4>3. CASE s # t /\ r = t BY <2>11, <2>12, <2>13, <4>3
   <4> QED BY <4>1, <4>2, <4>3
  <3> QED BY <3>1, <3>2, <3>3 DEF PendingInv
 <2>16. CompleteInv'
  <3>1. Window' = Window BY <1>1 DEF Window
  <3>2. \A w \in Vertex : dist'[w] = depth' =>
          New(w)' \/ \E s \in Thread : Pending(s)' /\ V(s)' = w
   <4> TAKE w \in Vertex
   <4> HAVE dist'[w] = depth'
   <4>1. CASE w = v BY <2>11, <4>1
   <4>2. CASE w # v
    <5>1. dist[w] = depth BY <1>1, <2>7, <4>2
    <5>2. New(w) \/ \E s \in Thread : Pending(s) /\ V(s) = w BY <1>0, <1>1, <5>1 DEF CompleteInv
    <5>3. ~Pending(t) BY <1>1 DEF Pending
    <5>4. CASE New(w) BY <2>9, <5>4
    <5>5. CASE \E s \in Thread : Pending(s) /\ V(s) = w BY <2>12, <5>3, <5>5
    <5> QED BY <5>2, <5>4, <5>5
   <4> QED BY <4>1, <4>2
  <3>3. \A w \in Vertex : dist'[w] = depth - 1 <=> dist[w] = depth - 1 BY <2>1, <2>4, <2>7
  <3>4. \A p \in Window : queue.shared[p] \in Vertex BY <1>0, InWindow DEF IInv
  <3>5. \A w \in Vertex : dist'[w] = depth' - 1 => \E p \in Window' : queue'.shared[p] = w
    BY <1>0, <1>1, <3>1, <3>3 DEF CompleteInv
  <3>6. \A p \in Window' : dist'[queue'.shared[p]] = depth' - 1
    BY <1>0, <1>1, <3>1, <3>3, <3>4 DEF CompleteInv
  <3> QED BY <1>1, <3>2, <3>5, <3>6 DEF CompleteInv
 <2>17. EdgesInv'
  <3>1. \A p, q : ToDo(t, p, q) => ToDo(t, p, q)' BY <1>1, <2>3 DEF ToDo
  <3> QED BY <1>1, <1>2, <2>10, <3>1, EdgesOn
 <2> QED BY <2>9, <2>14, <2>15, <2>16, <2>17 DEF IInv
<1>6. CASE ~Wins(t)
 <2>1. dist' = dist /\ my'[t] = NextEdge(t) BY <1>0, <1>6 DEF CompareAndSwap
 <2>2. dist[V(t)] >= 0 BY <1>4, <1>6 DEF Wins
 <2> QED BY <1>0, <1>1, <2>1, <2>2, NextEdgeStep
<1> QED BY <1>5, <1>6

(***************************************************************************)
(* A vertex of the level that is nowhere yet gets into a buffer.           *)
(***************************************************************************)
LEMMA PushTokens ==
  ASSUME IInv, TypeOK', NEW t \in Thread, Pushing,
         queue' = queue, dist' = dist, depth' = depth, loop' = loop,
         \A s \in Thread \ {t} : my'[s] = my[s],
         my[t].pc # "copy", my'[t].pc # "copy",
         NEW v \in Vertex, dist[v] = depth, ~New(v),
         Len(my'[t].lqueue) = Len(my[t].lqueue) + 1,
         \A k \in 1 .. Len(my[t].lqueue) : my'[t].lqueue[k] = my[t].lqueue[k],
         my'[t].lqueue[Len(my[t].lqueue) + 1] = v
  PROVE  /\ Places' /\ WrittenInv' /\ BuffersInv'
         /\ \A w : New(w)' <=> New(w) \/ w = v
<1>0. TypeOK /\ Places /\ WrittenInv /\ BuffersInv BY DEF IInv
<1>1. \A s \in Thread : \A p : Reserved(s, p)' <=> Reserved(s, p)
 <2> TAKE s \in Thread
 <2>1. CASE s = t BY <2>1 DEF Reserved
 <2>2. CASE s # t BY <2>2 DEF Reserved
 <2> QED BY <2>1, <2>2
<1>2. \A p : Written(p)' <=> Written(p) BY <1>1 DEF Written
<1>3. Len(my[t].lqueue) \in Nat BY <1>0, MyTypes
<1> DEFINE n == Len(my[t].lqueue)
<1>4. \A w : Buffered(t, w)' <=> Buffered(t, w) \/ w = v
 <2>1. Len(my'[t].lqueue) = n + 1 /\ n \in Nat /\ my'[t].lqueue[n + 1] = v BY <1>3
 <2>2. \A k \in 1 .. n + 1 : k \in 1 .. n \/ k = n + 1 BY <1>3
 <2>3. \A k \in 1 .. n : k \in 1 .. n + 1 BY <1>3
 <2>4. n + 1 \in 1 .. n + 1 BY <1>3
 <2> QED BY <2>1, <2>2, <2>3, <2>4 DEF Buffered
<1>5. \A s \in Thread \ {t} : \A w : Buffered(s, w)' <=> Buffered(s, w) BY DEF Buffered
<1>6. \A w : New(w)' <=> New(w) \/ w = v
 <2> TAKE w
 <2>1. (\E s \in Thread : Buffered(s, w)') <=> (\E s \in Thread : Buffered(s, w)) \/ w = v
   BY <1>4, <1>5
 <2> QED BY <1>2, <2>1 DEF New
<1>7. \A s \in Thread : \A k \in 1 .. Len(my[s].lqueue) : my[s].lqueue[k] # v BY DEF New, Buffered
<1>8. \A p \in 0 .. queue.in - 1 : Written(p) => queue.shared[p] # v
 <2> TAKE p \in 0 .. queue.in - 1
 <2> HAVE Written(p)
 <2>1. queue.in \in Nat /\ queue.out_end \in Nat BY <1>0, QueueTypes
 <2>2. CASE p >= queue.out_end BY <2>1, <2>2 DEF New
 <2>3. CASE ~(p >= queue.out_end)
  <3>1. Newest = queue.out_end BY DEF Newest, Pushing
  <3>2. dist[queue.shared[p]] # depth BY <1>0, <2>3, <3>1 DEF WrittenInv
  <3> QED BY <3>2
 <2> QED BY <2>2, <2>3
<1>9. Places'
 <2>1. \A s \in Thread : my'[s].pc = "copy" =>
         queue.out_end <= my'[s].at /\ my'[s].at + Len(my'[s].lqueue) <= queue.in
   BY <1>0 DEF Places
 <2> QED BY <1>0, <1>1, <2>1 DEF Places, Pushing
<1>10. WrittenInv'
 <2>1. Newest' = Newest BY DEF Newest
 <2> QED BY <1>0, <1>2, <2>1 DEF WrittenInv
<1>11. BuffersInv'
 <2>1. \A s \in Thread : \A k \in 1 .. Len(my'[s].lqueue) :
         \/ k \in 1 .. Len(my[s].lqueue) /\ my'[s].lqueue[k] = my[s].lqueue[k]
         \/ s = t /\ k = n + 1 /\ my'[s].lqueue[k] = v
  <3> TAKE s \in Thread
  <3> TAKE k \in 1 .. Len(my'[s].lqueue)
  <3>1. CASE s = t
   <4>1. k \in 1 .. n \/ k = n + 1 BY <1>3, <3>1
   <4> QED BY <3>1, <4>1
  <3>2. CASE s # t BY <3>2
  <3> QED BY <3>1, <3>2
 <2> HIDE DEF n
 <2>2. \A s \in Thread : \A k \in 1 .. Len(my'[s].lqueue) : dist'[my'[s].lqueue[k]] = depth'
   BY <1>0, <2>1, SMTT(30) DEF BuffersInv
 <2>3. \A s, r \in Thread : \A k \in 1 .. Len(my'[s].lqueue), l \in 1 .. Len(my'[r].lqueue) :
         my'[s].lqueue[k] = my'[r].lqueue[l] => s = r /\ k = l
  <3> TAKE s, r \in Thread
  <3> TAKE k \in 1 .. Len(my'[s].lqueue), l \in 1 .. Len(my'[r].lqueue)
  <3> HAVE my'[s].lqueue[k] = my'[r].lqueue[l]
  <3>1. CASE my'[s].lqueue[k] = v
   <4>1. s = t /\ k = n + 1 BY <1>7, <2>1, <3>1
   <4>2. r = t /\ l = n + 1 BY <1>7, <2>1, <3>1
   <4> QED BY <4>1, <4>2
  <3>2. CASE my'[s].lqueue[k] # v
   <4>1. k \in 1 .. Len(my[s].lqueue) /\ my'[s].lqueue[k] = my[s].lqueue[k] BY <2>1, <3>2
   <4>2. l \in 1 .. Len(my[r].lqueue) /\ my'[r].lqueue[l] = my[r].lqueue[l] BY <2>1, <3>2
   <4>3. my[s].lqueue[k] = my[r].lqueue[l] BY <4>1, <4>2
   <4> QED BY <1>0, <4>1, <4>2, <4>3, SMTT(30) DEF BuffersInv
  <3> QED BY <3>1, <3>2
 <2>4. \A s \in Thread : \A k \in 1 .. Len(my'[s].lqueue) : \A p \in 0 .. queue'.in - 1 :
         Written(p)' => queue'.shared[p] # my'[s].lqueue[k]
  <3> TAKE s \in Thread
  <3> TAKE k \in 1 .. Len(my'[s].lqueue)
  <3> TAKE p \in 0 .. queue'.in - 1
  <3> HAVE Written(p)'
  <3>1. p \in 0 .. queue.in - 1 /\ Written(p) BY <1>2
  <3>2. CASE my'[s].lqueue[k] = v BY <1>8, <3>1, <3>2
  <3>3. CASE my'[s].lqueue[k] # v BY <1>0, <2>1, <3>1, <3>3 DEF BuffersInv
  <3> QED BY <3>2, <3>3
 <2> QED BY <2>2, <2>3, <2>4 DEF BuffersInv
<1> QED BY <1>6, <1>9, <1>10, <1>11

LEMMA PushVertexStep ==
  ASSUME IInv, NEW t \in Thread, PushVertex(t)
  PROVE  IInv'
<1>0. /\ TypeOK /\ RangeInv /\ PendingInv /\ CompleteInv /\ DistInv /\ FrontInv /\ Places
      /\ Step(t) /\ my \in [Thread -> Local] /\ my[t] \in Local
  BY MyTypes DEF IInv, Step, TypeOK
<1>1. /\ loop = "td" /\ my[t].pc = "push"
      /\ UNCHANGED <<queue, dist, front, depth, loop>>
  BY DEF PushVertex, At, counts
<1>2. \A s \in Thread \ {t} : my'[s] = my[s] BY <1>0, StepFrame
<1>3. Pending(t) /\ Pushing BY <1>1 DEF Pending, Pushing
<1>4. /\ V(t) \in Vertex /\ my[t].i < my[t].end /\ my[t].j \in 1 .. Degree(U(t))
      /\ my[t].i \in Nat /\ my[t].end \in Nat
  BY <1>0, <1>1, <1>3, EdgeOf, MyTypes
<1>5. dist[V(t)] = depth /\ ~New(V(t)) BY <1>0, <1>3 DEF PendingInv
<1>6. depth \in Nat BY <1>0 DEF TypeOK
<1> DEFINE next == [NextEdge(t) EXCEPT !.count = @ - my[t].val]
           v == V(t)
<1>7. NextEdge(t) \in Local /\ NextEdge(t).lqueue = my[t].lqueue
  BY <1>0, FromEdgeIs, MyTypes DEF NextEdge
<1>8. /\ next \in Local /\ next.lqueue = my[t].lqueue /\ next.pc = NextEdge(t).pc
      /\ next.i = NextEdge(t).i /\ next.j = NextEdge(t).j /\ next.end = NextEdge(t).end
 <2>1. NextEdge(t).count - my[t].val \in Int BY <1>0, <1>7, FieldTypes
 <2>2. next \in Local BY <1>7, <2>1, Updates
 <2> QED BY <1>7, <2>2 DEF Local
<1>9. my'[t] = IF Len(my[t].lqueue) = LocalSize THEN [my[t] EXCEPT !.pc = "flush"]
               ELSE [next EXCEPT !.lqueue = Append(my[t].lqueue, v)]
  BY <1>0, <1>8 DEF PushVertex, Push
<1>10. v \in Vertex /\ dist[v] = depth /\ ~New(v) /\ v = V(t) BY <1>4, <1>5
<1> HIDE DEF next, v
<1>11. CASE Len(my[t].lqueue) = LocalSize
 <2>1. my'[t] = [my[t] EXCEPT !.pc = "flush"] BY <1>9, <1>11
 <2>2. /\ my'[t].pc = "flush" /\ my'[t].i = my[t].i /\ my'[t].j = my[t].j
       /\ my'[t].end = my[t].end /\ my'[t].lqueue = my[t].lqueue
   BY <1>0, <2>1 DEF Local
 <2>3. /\ TypeOK' /\ DistInv' /\ Places' /\ WrittenInv' /\ BuffersInv'
       /\ GatherInv' /\ FrontInv' /\ BottomUpInv'
       /\ \A w : New(w)' <=> New(w)
   BY <1>0, <1>1, <2>2, TdKept
 <2>4. Pending(t)' BY <1>1, <1>4, <2>2 DEF Pending
 <2>5. Degree(U(t))' = Degree(U(t)) BY <1>1, <1>3, <2>2, SameEdge
 <2>6. RangeInv' BY <1>1, <1>2, <1>3, <1>4, <2>2, <2>3, <2>5, PushRange
 <2>7. PendingInv' /\ CompleteInv' BY <1>1, <1>2, <1>3, <2>2, <2>3, <2>4, FoundKept
 <2>8. EdgesInv'
  <3>1. \A p, q : ToDo(t, p, q) => ToDo(t, p, q)' BY <2>2 DEF ToDo
  <3> QED BY <1>1, <1>2, <3>1, EdgesOn
 <2> QED BY <2>3, <2>6, <2>7, <2>8 DEF IInv
<1>12. CASE Len(my[t].lqueue) # LocalSize
 <2>0. TypeOK' BY <1>0, StepType
 <2>1. /\ my'[t].pc = next.pc /\ my'[t].i = next.i /\ my'[t].j = next.j
       /\ my'[t].end = next.end
       /\ Len(my'[t].lqueue) = Len(my[t].lqueue) + 1
       /\ \A k \in 1 .. Len(my[t].lqueue) : my'[t].lqueue[k] = my[t].lqueue[k]
       /\ my'[t].lqueue[Len(my[t].lqueue) + 1] = v
   BY <1>0, <1>8, <1>9, <1>10, <1>12, PushIs
 <2>2. /\ my'[t].pc \in {"edge", "vertex"}
       /\ my'[t].end = my[t].end /\ my[t].i <= my'[t].i /\ my'[t].i <= my[t].end
       /\ my'[t].pc = "edge" => my'[t].i < my'[t].end /\ my'[t].j \in 1 .. Degree(U(t))'
       /\ my'[t].pc = "vertex" => my'[t].j = 1
       /\ \A p \in Window : \A q \in 1 .. Degree(queue.shared[p]) :
            ToDo(t, p, q) => ToDo(t, p, q)' \/ (p = my[t].i /\ q = my[t].j)
   BY <1>1, <1>8, <2>1, NextEdgeRange
 <2>3. /\ Places' /\ WrittenInv' /\ BuffersInv'
       /\ \A w : New(w)' <=> New(w) \/ w = v
   BY <1>1, <1>2, <1>3, <1>10, <2>0, <2>1, <2>2, PushTokens
 <2>4. ~Pending(t)' BY <2>2 DEF Pending
 <2>5. RangeInv' BY <1>1, <1>2, <1>3, <2>0, <2>2, <2>4, PushRange
 <2>6. DistInv' BY <1>0, <1>1, StepFrame, DistSame
 <2>7. FrontInv' BY <1>0, <1>1, FrontKept
 <2>8. \A s \in Thread : Pending(s)' <=> Pending(s) /\ s # t
  <3> TAKE s \in Thread
  <3>1. CASE s = t BY <2>4, <3>1
  <3>2. CASE s # t BY <1>1, <1>2, <3>2 DEF Pending
  <3> QED BY <3>1, <3>2
 <2>9. \A s \in Thread \ {t} : Pending(s) => V(s)' = V(s) /\ V(s) # v
   BY <1>0, <1>1, <1>2, <1>3, <1>10, SameEdge DEF PendingInv
 <2>10. PendingInv'
  <3>1. \A s \in Thread : Pending(s)' => dist'[V(s)'] = depth' /\ ~New(V(s))'
   <4> TAKE s \in Thread
   <4> HAVE Pending(s)'
   <4>1. s # t /\ Pending(s) /\ V(s)' = V(s) /\ V(s) # v BY <2>8, <2>9
   <4>2. dist[V(s)] = depth /\ ~New(V(s)) BY <1>0, <4>1 DEF PendingInv
   <4>3. PICK w : w = V(s) OBVIOUS
   <4>4. ~New(w)' BY <2>3, <4>1, <4>2, <4>3
   <4>5. ~New(V(s))' BY <4>1, <4>3, <4>4 DEF New, Buffered
   <4> QED BY <1>1, <4>1, <4>2, <4>5
  <3>2. \A s, r \in Thread : Pending(s)' /\ Pending(r)' /\ V(s)' = V(r)' => s = r
    BY <1>0, <2>8, <2>9 DEF PendingInv
  <3> QED BY <3>1, <3>2 DEF PendingInv
 <2>11. CompleteInv'
  <3>1. \A w \in Vertex : dist'[w] = depth' =>
          New(w)' \/ \E s \in Thread : Pending(s)' /\ V(s)' = w
   <4> TAKE w \in Vertex
   <4> HAVE dist'[w] = depth'
   <4>1. New(w) \/ \E s \in Thread : Pending(s) /\ V(s) = w BY <1>0, <1>1 DEF CompleteInv
   <4>2. CASE New(w) \/ w = v BY <2>3, <4>2
   <4>3. CASE w # v /\ \E s \in Thread : Pending(s) /\ V(s) = w BY <1>10, <2>8, <2>9, <4>3
   <4> QED BY <4>1, <4>2, <4>3
  <3>2. Window' = Window BY <1>1 DEF Window
  <3>3. \A w \in Vertex : dist'[w] = depth' - 1 => \E p \in Window' : queue'.shared[p] = w
    BY <1>0, <1>1, <3>2 DEF CompleteInv
  <3>4. \A p \in Window' : dist'[queue'.shared[p]] = depth' - 1 BY <1>0, <1>1, <3>2 DEF CompleteInv
  <3> QED BY <1>1, <3>1, <3>3, <3>4 DEF CompleteInv
 <2>12. EdgesInv'
  <3>1. dist'[adj[queue.shared[my[t].i]][my[t].j]] >= 0 BY <1>1, <1>5, <1>6 DEF V, U
  <3> QED BY <1>1, <1>2, <2>2, <3>1, EdgesOn
 <2>13. GatherInv' /\ BottomUpInv' BY <1>1 DEF GatherInv, BottomUpInv
 <2> QED BY <2>0, <2>3, <2>5, <2>6, <2>7, <2>10, <2>11, <2>12, <2>13 DEF IInv
<1> QED BY <1>11, <1>12

-----------------------------------------------------------------------------
(***************************************************************************)
(* flush(): one step of a thread, in TDStep() or in BitmapToQueue().       *)
(***************************************************************************)
LEMMA FlushKept ==
  ASSUME IInv, TypeOK', Places', WrittenInv', BuffersInv', NEW t \in Thread, Step(t), Pushing,
         my[t].pc \in {"flush", "copy"}, front' = front, dist' = dist,
         \A p \in Window : queue'.shared[p] = queue.shared[p],
         \A v : New(v)' <=> New(v),
         \/ /\ my'[t].pc \in {"copy", "push"}
            /\ my'[t].i = my[t].i /\ my'[t].j = my[t].j /\ my'[t].end = my[t].end
            /\ my'[t].pc = "push" => my[t].i # my[t].end
         \/ my'[t].pc = "joined" /\ my'[t].lqueue = <<>> /\ my[t].i = my[t].end
  PROVE  IInv'
<1>0. /\ TypeOK /\ DistInv /\ FrontInv /\ GatherInv /\ RangeInv /\ Places
      /\ loop \in {"td", "to_queue"}
  BY DEF IInv, Pushing
<1>1. /\ depth' = depth /\ awake_count' = awake_count /\ loop' = loop
      /\ queue'.out_start = queue.out_start /\ queue'.out_end = queue.out_end
      /\ \A s \in Thread \ {t} : my'[s] = my[s]
  BY <1>0, StepFrame
<1>2. /\ my[t].i \in Nat /\ my[t].end \in Nat /\ my[t].i <= my[t].end
      /\ my[t].end = First + PartStart(t + 1, Length)
  BY <1>0, MyTypes DEF RangeInv
<1>3. Pending(t)' <=> Pending(t) BY <1>1 DEF Pending
<1>4. Pending(t) => my'[t].i = my[t].i /\ my'[t].j = my[t].j /\ my'[t].end = my[t].end
  BY DEF Pending
<1>5. DistInv' /\ FrontInv' BY <1>0, <1>1, DistSame, FrontKept
<1>6. RangeInv'
 <2>1. Pending(t) => my[t].i < my[t].end /\ my[t].j \in 1 .. Degree(U(t))
   BY <1>0 DEF RangeInv, Pending
 <2>2. Pending(t) => Degree(U(t))' = Degree(U(t)) BY <1>1, <1>4, SameEdge DEF Pending
 <2>3. loop = "td" /\ (my'[t].pc \in {"edge", "swap"} \/ Pending(t)') =>
         my'[t].i < my'[t].end /\ my'[t].j \in 1 .. Degree(U(t))'
   BY <1>3, <1>4, <2>1, <2>2
 <2> QED BY <1>1, <1>2, <2>3, PushRange
<1>7. PendingInv' /\ CompleteInv'
 <2>1. CASE loop = "td" BY <1>1, <1>3, <1>4, <2>1, FoundKept
 <2>2. CASE loop = "to_queue" BY <1>1, <2>2 DEF PendingInv, Pending, CompleteInv
 <2> QED BY <1>0, <2>1, <2>2
<1>8. EdgesInv'
 <2>1. CASE loop = "td"
  <3>1. \A p \in Window : \A q \in 1 .. Degree(queue.shared[p]) :
          ToDo(t, p, q) => ToDo(t, p, q)'
   <4>1. \A p \in Window : p \in Int BY <1>0, WindowIs
   <4>2. CASE my'[t].pc = "joined" BY <1>2, <4>1, <4>2 DEF ToDo
   <4>3. CASE my'[t].pc # "joined" BY <4>3 DEF ToDo
   <4> QED BY <4>2, <4>3
  <3> QED BY <1>1, <2>1, <3>1, EdgesOn
 <2>2. CASE loop = "to_queue" BY <1>1, <2>2 DEF EdgesInv
 <2> QED BY <1>0, <2>1, <2>2
<1>9. GatherInv'
 <2> SUFFICES ASSUME loop = "to_queue" PROVE GatherInv' BY <1>1 DEF GatherInv
 <2>1. \A s \in Thread, v \in Int : Passed(s, v)' <=> Passed(s, v)
  <3> TAKE s \in Thread, v \in Int
  <3>1. CASE s # t BY <1>1, <3>1 DEF Passed
  <3>2. CASE s = t /\ my'[t].pc # "joined" BY <3>2 DEF Passed
  <3>3. CASE s = t /\ my'[t].pc = "joined"
   <4>1. First = 0 /\ Length = N BY DEF First, Length
   <4>2. my[t].i = PartStart(t + 1, N) /\ PartStart(t + 1, N) \in Nat
    <5>1. PartStart(t + 1, N) \in Nat BY <1>0, <4>1, PartsTyped
    <5> QED BY <1>2, <3>3, <4>1, <5>1
   <4> QED BY <3>3, <4>2 DEF Passed
  <3> QED BY <3>1, <3>2, <3>3
 <2>2. Vertex \subseteq Int /\ front \subseteq Int BY <1>0, Basics DEF TypeOK
 <2>3. \A v \in Vertex : New(v)' => \E s \in Thread : Passed(s, v)'
   BY <1>0, <2>1, <2>2 DEF GatherInv
 <2>4. \A v \in front' : \A s \in Thread : Passed(s, v)' => New(v)'
   BY <1>0, <2>1, <2>2 DEF GatherInv
 <2> QED BY <2>3, <2>4 DEF GatherInv
<1>10. BottomUpInv' BY <1>0, <1>1 DEF BottomUpInv
<1> QED BY <1>5, <1>6, <1>7, <1>8, <1>9, <1>10 DEF IInv

LEMMA FlushStep ==
  ASSUME IInv, NEW t \in Thread, Flush(t)
  PROVE  IInv'
<1>0. /\ TypeOK /\ Places /\ WrittenInv /\ BuffersInv /\ Step(t) /\ TypeOK'
      /\ my \in [Thread -> Local] /\ my[t] \in Local
  BY StepType, MyTypes DEF IInv, Step, TypeOK
<1>1. my[t].pc = "flush" /\ UNCHANGED <<dist, front, depth, loop>> BY DEF Flush, counts
<1>2. Pushing BY <1>0, <1>1, LoopLabels DEF Pushing, TypeOK
<1>3. \A s \in Thread \ {t} : my'[s] = my[s] BY <1>0, StepFrame
<1> DEFINE n == Len(my[t].lqueue)
<1>4. /\ my'[t].pc = "copy" /\ my'[t].at = queue.in /\ my'[t].i = my[t].i
      /\ my'[t].j = my[t].j /\ my'[t].end = my[t].end /\ my'[t].lqueue = my[t].lqueue
 <2>1. my'[t] = [my[t] EXCEPT !.at = queue.in, !.pc = "copy"] BY <1>0 DEF Flush
 <2> QED BY <1>0, <2>1 DEF Local
<1>5. /\ queue'.shared = queue.shared /\ queue'.in = queue.in + n
      /\ queue'.out_start = queue.out_start /\ queue'.out_end = queue.out_end
 <2>1. queue' = [queue EXCEPT !.in = queue.in + n] BY DEF Flush
 <2> QED BY <1>0, <2>1, QueueTypes
<1>6. n \in Nat /\ queue.in \in Nat /\ queue.out_start \in Nat /\ queue.out_end \in Nat
  BY <1>0, MyTypes, QueueTypes
<1>7. \A p \in Int : Reserved(t, p)' <=> queue.in <= p /\ p < queue'.in
 <2>1. \A p \in Int : p \in queue.in .. queue.in + n - 1 <=> queue.in <= p /\ p < queue.in + n
   BY <1>6
 <2> HIDE DEF n
 <2> QED BY <1>4, <1>5, <2>1 DEF Reserved, n
<1>8. \A s \in Thread \ {t} : \A p : Reserved(s, p)' <=> Reserved(s, p) BY <1>3 DEF Reserved
<1>9. \A p : ~Reserved(t, p) BY <1>1 DEF Reserved
<1>10. \A s \in Thread : \A p \in Int : Reserved(s, p) => queue.out_end <= p /\ p < queue.in
 <2> TAKE s \in Thread
 <2> TAKE p \in Int
 <2> HAVE Reserved(s, p)
 <2>1. my[s].at \in Nat /\ Len(my[s].lqueue) \in Nat BY <1>0, MyTypes
 <2>2. my[s].pc = "copy" /\ my[s].at <= p /\ p <= my[s].at + Len(my[s].lqueue) - 1
   BY <2>1 DEF Reserved
 <2>3. queue.out_end <= my[s].at /\ my[s].at + Len(my[s].lqueue) <= queue.in
   BY <1>0, <2>2 DEF Places
 <2> QED BY <1>6, <2>1, <2>2, <2>3
<1>11. \A p \in Int : Written(p)' <=> Written(p)
 <2> TAKE p \in Int
 <2>1. CASE p \in 0 .. queue.in - 1
  <3>1. p \in 0 .. queue'.in - 1 /\ ~Reserved(t, p)' BY <1>5, <1>6, <1>7, <2>1
  <3>2. (\A s \in Thread : ~Reserved(s, p)') <=> (\A s \in Thread : ~Reserved(s, p))
    BY <1>8, <1>9, <3>1
  <3> QED BY <2>1, <3>1, <3>2 DEF Written
 <2>2. CASE ~(p \in 0 .. queue.in - 1)
  <3>1. ~Written(p) BY <2>2 DEF Written
  <3>2. p \in 0 .. queue'.in - 1 => Reserved(t, p)' BY <1>5, <1>6, <1>7, <2>2
  <3> QED BY <3>1, <3>2 DEF Written
 <2> QED BY <2>1, <2>2
<1>12. \A v : New(v)' <=> New(v)
 <2> TAKE v
 <2>1. \A p : p \in queue.out_end .. queue.in - 1 /\ Written(p)
              <=> p \in queue'.out_end .. queue'.in - 1 /\ Written(p)'
  <3> TAKE p
  <3>1. CASE p \in Int BY <1>5, <1>6, <1>11, <3>1 DEF Written
  <3>2. CASE p \notin Int BY <1>5, <1>6, <3>2
  <3> QED BY <3>1, <3>2
 <2>2. \A s \in Thread : Buffered(s, v)' <=> Buffered(s, v) BY <1>3, <1>4 DEF Buffered
 <2>3. (\E p \in queue.out_end .. queue.in - 1 : Written(p) /\ queue.shared[p] = v)
       <=> (\E p \in queue'.out_end .. queue'.in - 1 : Written(p)' /\ queue'.shared[p] = v)
   BY <1>5, <2>1
 <2> QED BY <2>2, <2>3 DEF New
<1>13. Places'
 <2>1. \A s \in Thread : my'[s].pc = "copy" =>
         queue.out_end <= my'[s].at /\ my'[s].at + Len(my'[s].lqueue) <= queue'.in
  <3> TAKE s \in Thread
  <3> HAVE my'[s].pc = "copy"
  <3>1. CASE s = t BY <1>0, <1>4, <1>5, <1>6, <3>1 DEF Places
  <3>2. CASE s # t
   <4>1. my'[s] = my[s] /\ my[s].at \in Nat /\ Len(my[s].lqueue) \in Nat
     BY <1>0, <1>3, <3>2, MyTypes
   <4>2. queue.out_end <= my[s].at /\ my[s].at + Len(my[s].lqueue) <= queue.in
     BY <1>0, <4>1 DEF Places
   <4>3. queue.in <= queue'.in /\ queue'.in \in Nat BY <1>5, <1>6
   <4>4. my[s].at + Len(my[s].lqueue) \in Nat BY <4>1
   <4>5. my[s].at + Len(my[s].lqueue) <= queue'.in BY <1>6, <4>2, <4>3, <4>4
   <4> QED BY <4>1, <4>2, <4>5
  <3> QED BY <3>1, <3>2
 <2>2. \A s, r \in Thread : \A p \in 0 .. queue'.in - 1 : Reserved(s, p)' /\ Reserved(r, p)' => s = r
  <3> TAKE s, r \in Thread
  <3> TAKE p \in 0 .. queue'.in - 1
  <3> HAVE Reserved(s, p)' /\ Reserved(r, p)'
  <3>0. p \in Int BY <1>5, <1>6
  <3>1. CASE s = t /\ r # t
   <4>1. Reserved(r, p) BY <1>8, <3>1
   <4>2. p < queue.in /\ queue.in <= p BY <1>7, <1>10, <3>0, <3>1, <4>1
   <4> QED BY <1>6, <3>0, <4>2
  <3>2. CASE s # t /\ r = t
   <4>1. Reserved(s, p) BY <1>8, <3>2
   <4>2. p < queue.in /\ queue.in <= p BY <1>7, <1>10, <3>0, <3>2, <4>1
   <4> QED BY <1>6, <3>0, <4>2
  <3>3. CASE s # t /\ r # t
   <4>1. Reserved(s, p) /\ Reserved(r, p) BY <1>8, <3>3
   <4>2. p \in 0 .. queue.in - 1 BY <1>6, <1>10, <3>0, <4>1, <1>5
   <4> QED BY <1>0, <4>1, <4>2 DEF Places
  <3> QED BY <3>1, <3>2, <3>3
 <2>3. queue.out_start <= queue.out_end /\ queue.out_end <= queue.in BY <1>0 DEF Places
 <2>4. queue'.out_start <= queue'.out_end /\ queue'.out_end <= queue'.in BY <1>5, <1>6, <2>3
 <2>5. Pushing' BY <1>1, <1>2 DEF Pushing
 <2> QED BY <1>5, <2>1, <2>2, <2>4, <2>5 DEF Places
<1>14. \A p \in 0 .. queue'.in - 1 : Written(p)' => p \in 0 .. queue.in - 1 /\ Written(p)
 <2> TAKE p \in 0 .. queue'.in - 1
 <2>1. p \in Int BY <1>5, <1>6
 <2> QED BY <1>11, <2>1 DEF Written
<1>15. WrittenInv'
 <2>1. Newest' = Newest /\ depth' = depth BY <1>1, <1>5 DEF Newest
 <2> QED BY <1>0, <1>1, <1>5, <1>14, <2>1 DEF WrittenInv
<1>16. BuffersInv'
 <2>1. \A s \in Thread : my'[s].lqueue = my[s].lqueue BY <1>3, <1>4
 <2>2. \A s \in Thread : \A k \in 1 .. Len(my'[s].lqueue) : dist'[my'[s].lqueue[k]] = depth'
   BY <1>0, <1>1, <2>1 DEF BuffersInv
 <2>3. \A s, r \in Thread : \A k \in 1 .. Len(my'[s].lqueue), l \in 1 .. Len(my'[r].lqueue) :
         my'[s].lqueue[k] = my'[r].lqueue[l] => s = r /\ k = l
   BY <1>0, <2>1 DEF BuffersInv
 <2>4. \A s \in Thread : \A k \in 1 .. Len(my'[s].lqueue) : \A p \in 0 .. queue'.in - 1 :
         Written(p)' => queue'.shared[p] # my'[s].lqueue[k]
   BY <1>0, <1>5, <1>14, <2>1 DEF BuffersInv
 <2> QED BY <2>2, <2>3, <2>4 DEF BuffersInv
<1> QED BY <1>0, <1>1, <1>2, <1>4, <1>5, <1>12, <1>13, <1>15, <1>16, FlushKept

LEMMA CopyStep ==
  ASSUME IInv, NEW t \in Thread, Copy(t)
  PROVE  IInv'
<1>0. /\ TypeOK /\ Places /\ WrittenInv /\ BuffersInv /\ Step(t) /\ TypeOK'
      /\ my \in [Thread -> Local] /\ my[t] \in Local
  BY StepType, MyTypes DEF IInv, Step, TypeOK
<1>1. my[t].pc = "copy" /\ UNCHANGED <<dist, front, depth, loop>> BY DEF Copy, counts
<1>2. Pushing BY <1>0, <1>1, LoopLabels DEF Pushing, TypeOK
<1>3. \A s \in Thread \ {t} : my'[s] = my[s] BY <1>0, StepFrame
<1> DEFINE a == my[t].at
           n == Len(my[t].lqueue)
<1>4. /\ my'[t].lqueue = <<>>
      /\ \/ /\ my[t].i = my[t].end /\ my'[t].pc = "joined"
         \/ /\ my[t].i # my[t].end /\ my'[t].pc = "push" /\ my'[t].i = my[t].i
            /\ my'[t].j = my[t].j /\ my'[t].end = my[t].end
 <2>1. my'[t] = IF my[t].i = my[t].end THEN [Idle EXCEPT !.count = my[t].count]
                ELSE [my[t] EXCEPT !.lqueue = <<>>, !.at = 0, !.pc = "push"]
   BY <1>0 DEF Copy
 <2>2. CASE my[t].i = my[t].end BY <2>1, <2>2 DEF Idle
 <2>3. CASE my[t].i # my[t].end BY <1>0, <2>1, <2>3 DEF Local
 <2> QED BY <2>2, <2>3
<1>5. a \in Nat /\ n \in Nat /\ queue.in \in Nat /\ queue.out_start \in Nat /\ queue.out_end \in Nat
  BY <1>0, MyTypes, QueueTypes
<1>6. queue.out_end <= a /\ a + n <= queue.in BY <1>0, <1>1 DEF Places
<1>7. \A p : Reserved(t, p) <=> p \in a .. a + n - 1 BY <1>1 DEF Reserved
<1>8. /\ queue'.in = queue.in
      /\ queue'.out_start = queue.out_start /\ queue'.out_end = queue.out_end
      /\ \A p \in Vertex : queue'.shared[p] =
           IF p \in a .. a + n - 1 THEN my[t].lqueue[p - a + 1] ELSE queue.shared[p]
 <2> DEFINE new == [p \in Vertex |-> IF p \in a .. a + n - 1 THEN my[t].lqueue[p - a + 1]
                                     ELSE queue.shared[p]]
 <2>1. queue' = [queue EXCEPT !.shared = new] BY DEF Copy
 <2>2. \A p \in Vertex : new[p] =
          IF p \in a .. a + n - 1 THEN my[t].lqueue[p - a + 1] ELSE queue.shared[p]
   OBVIOUS
 <2> HIDE DEF new, a, n
 <2>3. /\ queue'.in = queue.in /\ queue'.shared = new
       /\ queue'.out_start = queue.out_start /\ queue'.out_end = queue.out_end
   BY <1>0, <2>1, QueueTypes
 <2> QED BY <2>2, <2>3
<1> HIDE DEF a, n
<1>9. \A p \in 0 .. queue.in - 1 : p \in Vertex /\ p \in Int
 <2>1. queue.in <= N BY <1>0, Fits
 <2> QED BY <1>5, <2>1, Basics
<1>10. \A p \in 0 .. queue.in - 1 :
         queue'.shared[p] = IF Reserved(t, p) THEN my[t].lqueue[p - a + 1] ELSE queue.shared[p]
  BY <1>7, <1>8, <1>9
<1>11. \A s \in Thread \ {t} : \A p : Reserved(s, p)' <=> Reserved(s, p) BY <1>3 DEF Reserved
<1>12. \A p : ~Reserved(t, p)' BY <1>4 DEF Reserved
<1>13. \A p \in 0 .. queue.in - 1 : Written(p)' <=> Written(p) \/ Reserved(t, p)
 <2> TAKE p \in 0 .. queue.in - 1
 <2>1. CASE Reserved(t, p)
  <3>1. \A s \in Thread \ {t} : ~Reserved(s, p) BY <1>0, <2>1 DEF Places
  <3> QED BY <1>8, <1>11, <1>12, <2>1, <3>1 DEF Written
 <2>2. CASE ~Reserved(t, p)
  <3>1. (\A s \in Thread : ~Reserved(s, p)') <=> (\A s \in Thread : ~Reserved(s, p))
    BY <1>11, <1>12, <2>2
  <3> QED BY <1>8, <2>2, <3>1 DEF Written
 <2> QED BY <2>1, <2>2
<1>14. \A p \in 0 .. queue.in - 1 : Written(p) => ~Reserved(t, p) /\ queue'.shared[p] = queue.shared[p]
  BY <1>10 DEF Written
<1>15. \A p \in 0 .. queue.in - 1 : Reserved(t, p) =>
         /\ p - a + 1 \in 1 .. Len(my[t].lqueue)
         /\ queue'.shared[p] = my[t].lqueue[p - a + 1]
         /\ p >= queue.out_end
 <2> TAKE p \in 0 .. queue.in - 1
 <2> HAVE Reserved(t, p)
 <2>1. p \in a .. a + n - 1 /\ p \in Int BY <1>7, <1>9
 <2>2. p - a + 1 \in 1 .. n /\ p >= queue.out_end BY <1>5, <1>6, <2>1
 <2> QED BY <1>10, <2>2 DEF n
<1>16. \A k \in 1 .. Len(my[t].lqueue) :
         /\ a + k - 1 \in 0 .. queue.in - 1 /\ Reserved(t, a + k - 1)
         /\ a + k - 1 \in queue.out_end .. queue.in - 1
         /\ queue'.shared[a + k - 1] = my[t].lqueue[k]
 <2> TAKE k \in 1 .. Len(my[t].lqueue)
 <2>1. k \in 1 .. n BY DEF n
 <2>2. /\ a + k - 1 \in a .. a + n - 1 /\ a + k - 1 \in 0 .. queue.in - 1
       /\ a + k - 1 \in queue.out_end .. queue.in - 1 /\ (a + k - 1) - a + 1 = k
   BY <1>5, <1>6, <2>1
 <2> QED BY <1>7, <1>15, <2>2
<1>17. \A p \in Window : queue'.shared[p] = queue.shared[p] BY <1>0, <1>14, WindowIs
<1>18. \A v : New(v)' <=> New(v)
 <2> TAKE v
 <2>1. \A s \in Thread \ {t} : Buffered(s, v)' <=> Buffered(s, v) BY <1>3 DEF Buffered
 <2>2. ~Buffered(t, v)' BY <1>4 DEF Buffered
 <2>3. \A p \in queue.out_end .. queue.in - 1 : p \in 0 .. queue.in - 1 BY <1>5
 <2>4. ASSUME New(v) PROVE New(v)'
  <3>1. CASE \E p \in queue.out_end .. queue.in - 1 : Written(p) /\ queue.shared[p] = v
   <4>1. PICK p \in queue.out_end .. queue.in - 1 : Written(p) /\ queue.shared[p] = v BY <3>1
   <4>2. Written(p)' /\ queue'.shared[p] = v /\ p \in queue'.out_end .. queue'.in - 1
     BY <1>8, <1>13, <1>14, <2>3, <4>1
   <4> QED BY <4>2 DEF New
  <3>2. CASE \E s \in Thread \ {t} : Buffered(s, v) BY <2>1, <3>2 DEF New
  <3>3. CASE Buffered(t, v)
   <4>1. PICK k \in 1 .. Len(my[t].lqueue) : my[t].lqueue[k] = v BY <3>3 DEF Buffered
   <4>2. PICK p : p = a + k - 1 OBVIOUS
   <4>3. /\ p \in 0 .. queue.in - 1 /\ Reserved(t, p) /\ p \in queue.out_end .. queue.in - 1
         /\ queue'.shared[p] = v
     BY <1>16, <4>1, <4>2
   <4>4. Written(p)' /\ p \in queue'.out_end .. queue'.in - 1 BY <1>8, <1>13, <4>3
   <4> QED BY <4>3, <4>4 DEF New
  <3> QED BY <2>4, <3>1, <3>2, <3>3 DEF New
 <2>5. ASSUME New(v)' PROVE New(v)
  <3>1. CASE \E p \in queue'.out_end .. queue'.in - 1 : Written(p)' /\ queue'.shared[p] = v
   <4>1. PICK p \in queue.out_end .. queue.in - 1 : Written(p)' /\ queue'.shared[p] = v
     BY <1>8, <3>1
   <4>2. CASE Written(p) BY <1>14, <2>3, <4>1, <4>2 DEF New
   <4>3. CASE Reserved(t, p)
    <5>1. Buffered(t, v) BY <1>15, <2>3, <4>1, <4>3 DEF Buffered
    <5> QED BY <5>1 DEF New
   <4> QED BY <1>13, <2>3, <4>1, <4>2, <4>3
  <3>2. CASE \E s \in Thread \ {t} : Buffered(s, v)' BY <2>1, <3>2 DEF New
  <3> QED BY <2>2, <2>5, <3>1, <3>2 DEF New
 <2> QED BY <2>4, <2>5
<1>19. Places'
 <2>1. \A s \in Thread : my'[s].pc = "copy" =>
         queue.out_end <= my'[s].at /\ my'[s].at + Len(my'[s].lqueue) <= queue.in
   BY <1>0, <1>3, <1>4 DEF Places
 <2>2. \A s, r \in Thread : \A p \in 0 .. queue.in - 1 : Reserved(s, p)' /\ Reserved(r, p)' => s = r
   BY <1>0, <1>11, <1>12 DEF Places
 <2>3. queue.out_start <= queue.out_end /\ queue.out_end <= queue.in BY <1>0 DEF Places
 <2>4. Pushing' BY <1>1, <1>2 DEF Pushing
 <2> QED BY <1>8, <2>1, <2>2, <2>3, <2>4 DEF Places
<1>20. \A k \in 1 .. Len(my[t].lqueue) : my[t].lqueue[k] \in Vertex /\ dist[my[t].lqueue[k]] = depth
  BY <1>0, MyTypes DEF BuffersInv
<1>21. depth \in Nat /\ Newest = queue.out_end /\ Newest' = queue.out_end
  BY <1>0, <1>1, <1>2, <1>8 DEF Newest, Pushing, TypeOK
<1>22. WrittenInv'
 <2>1. \A p \in 0 .. queue.in - 1 : Written(p)' =>
         /\ queue'.shared[p] \in Vertex /\ dist[queue'.shared[p]] >= 0
         /\ dist[queue'.shared[p]] = depth <=> p >= queue.out_end
  <3> TAKE p \in 0 .. queue.in - 1
  <3> HAVE Written(p)'
  <3>1. CASE Written(p) BY <1>0, <1>14, <1>21, <3>1 DEF WrittenInv
  <3>2. CASE Reserved(t, p) BY <1>15, <1>20, <1>21, <3>2
  <3> QED BY <1>13, <3>1, <3>2
 <2>2. \A p, q \in 0 .. queue.in - 1 :
         Written(p)' /\ Written(q)' /\ queue'.shared[p] = queue'.shared[q] => p = q
  <3> TAKE p, q \in 0 .. queue.in - 1
  <3> HAVE Written(p)' /\ Written(q)' /\ queue'.shared[p] = queue'.shared[q]
  <3>1. CASE Written(p) /\ Written(q) BY <1>0, <1>14, <3>1 DEF WrittenInv
  <3>2. CASE Reserved(t, p) /\ Reserved(t, q)
   <4>1. p - a + 1 = q - a + 1 BY <1>0, <1>15, <3>2 DEF BuffersInv
   <4> QED BY <1>5, <1>9, <4>1
  <3>3. CASE Written(p) /\ Reserved(t, q) BY <1>0, <1>14, <1>15, <3>3 DEF BuffersInv
  <3>4. CASE Reserved(t, p) /\ Written(q) BY <1>0, <1>14, <1>15, <3>4 DEF BuffersInv
  <3> QED BY <1>13, <3>1, <3>2, <3>3, <3>4
 <2> QED BY <1>1, <1>8, <1>21, <2>1, <2>2 DEF WrittenInv
<1>23. BuffersInv'
 <2>1. \A k \in 1 .. Len(my'[t].lqueue) : FALSE BY <1>4
 <2>2. \A s \in Thread : \A k \in 1 .. Len(my'[s].lqueue) : s # t /\ my'[s] = my[s] BY <1>3, <2>1
 <2>3. \A s \in Thread : \A k \in 1 .. Len(my'[s].lqueue) : dist'[my'[s].lqueue[k]] = depth'
   BY <1>0, <1>1, <2>2 DEF BuffersInv
 <2>4. \A s, r \in Thread : \A k \in 1 .. Len(my'[s].lqueue), l \in 1 .. Len(my'[r].lqueue) :
         my'[s].lqueue[k] = my'[r].lqueue[l] => s = r /\ k = l
  <3> TAKE s, r \in Thread
  <3> TAKE k \in 1 .. Len(my'[s].lqueue), l \in 1 .. Len(my'[r].lqueue)
  <3>1. my'[s] = my[s] /\ my'[r] = my[r] BY <2>2
  <3> QED BY <1>0, <3>1 DEF BuffersInv
 <2>5. \A s \in Thread : \A k \in 1 .. Len(my'[s].lqueue) : \A p \in 0 .. queue'.in - 1 :
         Written(p)' => queue'.shared[p] # my'[s].lqueue[k]
  <3> TAKE s \in Thread
  <3> TAKE k \in 1 .. Len(my'[s].lqueue)
  <3> TAKE p \in 0 .. queue'.in - 1
  <3> HAVE Written(p)'
  <3>1. p \in 0 .. queue.in - 1 /\ s # t /\ my'[s] = my[s] /\ k \in 1 .. Len(my[s].lqueue)
    BY <1>8, <2>2
  <3>2. CASE Written(p) BY <1>0, <1>14, <3>1, <3>2 DEF BuffersInv
  <3>3. CASE Reserved(t, p)
   <4>1. queue'.shared[p] = my[t].lqueue[p - a + 1] /\ p - a + 1 \in 1 .. Len(my[t].lqueue)
     BY <1>15, <3>1, <3>3
   <4> QED BY <1>0, <3>1, <4>1 DEF BuffersInv
  <3> QED BY <1>13, <3>1, <3>2, <3>3
 <2> QED BY <2>3, <2>4, <2>5 DEF BuffersInv
<1> QED BY <1>0, <1>1, <1>2, <1>4, <1>17, <1>18, <1>19, <1>22, <1>23, FlushKept

-----------------------------------------------------------------------------
(***************************************************************************)
(* BitmapToQueue(): one step of a thread.                                  *)
(***************************************************************************)
LEMMA PartOf ==
  ASSUME IInv, NEW t \in Thread, loop = "to_queue", my[t].pc # "joined"
  PROVE  /\ PartStart(t, N) <= my[t].i /\ my[t].i <= my[t].end /\ my[t].end = PartStart(t + 1, N)
         /\ my[t].i \in Nat /\ my[t].end \in Nat /\ PartStart(t, N) \in Nat
<1>1. TypeOK /\ RangeInv /\ Places /\ First = 0 /\ Length = N BY DEF IInv, First, Length
<1>2. PartStart(t, N) \in Nat /\ PartStart(t + 1, N) \in Nat BY <1>1, PartsTyped
<1>3. my[t].i \in Nat /\ my[t].end \in Nat BY <1>1, MyTypes
<1>4. /\ 0 + PartStart(t, N) <= my[t].i /\ my[t].i <= my[t].end
      /\ my[t].end = 0 + PartStart(t + 1, N)
  BY <1>1 DEF RangeInv
<1> QED BY <1>2, <1>3, <1>4

LEMMA GatherKept ==
  ASSUME IInv, TypeOK', Places', WrittenInv', BuffersInv', NEW t \in Thread, Step(t),
         loop = "to_queue", my[t].pc = "push", queue' = queue, front' = front, dist' = dist,
         my'[t].pc \in {"push", "flush"}, my'[t].end = my[t].end,
         \/ /\ my'[t].i = my[t].i
            /\ \A v : New(v)' <=> New(v)
         \/ /\ my[t].i # my[t].end /\ my'[t].i = my[t].i + 1
            /\ \A v : New(v)' <=> New(v) \/ (v = my[t].i /\ my[t].i \in front)
  PROVE  IInv'
<1>0. /\ TypeOK /\ DistInv /\ FrontInv /\ GatherInv /\ RangeInv /\ Places BY DEF IInv
<1>1. /\ depth' = depth /\ awake_count' = awake_count /\ loop' = loop
      /\ queue'.out_start = queue.out_start /\ queue'.out_end = queue.out_end
      /\ \A s \in Thread \ {t} : my'[s] = my[s]
  BY <1>0, StepFrame
<1>2. /\ PartStart(t, N) <= my[t].i /\ my[t].i <= my[t].end /\ my[t].end = PartStart(t + 1, N)
      /\ my[t].i \in Nat /\ my[t].end \in Nat /\ PartStart(t, N) \in Nat
  BY PartOf
<1>3. my[t].i <= my'[t].i /\ my'[t].i <= my[t].end BY <1>2
<1>4. DistInv' /\ FrontInv' BY <1>0, <1>1, DistSame, FrontKept
<1>5. RangeInv' BY <1>1, <1>3, PushRange DEF Pushing
<1>6. PendingInv' /\ CompleteInv' /\ EdgesInv' /\ BottomUpInv'
  BY <1>1 DEF PendingInv, Pending, CompleteInv, EdgesInv, BottomUpInv
<1>7. GatherInv'
 <2>1. \A s \in Thread \ {t} : \A v : Passed(s, v)' <=> Passed(s, v) BY <1>1 DEF Passed
 <2>2. \A v \in Vertex : v \in Int BY Basics
 <2>3. \A v \in Int : Passed(t, v) => Passed(t, v)' BY <1>2, <1>3 DEF Passed
 <2>4. \A v \in Int : Passed(t, v)' => Passed(t, v) \/ (v = my[t].i /\ my'[t].i = my[t].i + 1)
   BY <1>2 DEF Passed
 <2>5. \A v \in Vertex : New(v)' => \E s \in Thread : Passed(s, v)'
  <3> TAKE v \in Vertex
  <3> HAVE New(v)'
  <3>1. CASE New(v)
   <4>1. PICK s \in Thread : Passed(s, v) BY <1>0, <3>1 DEF GatherInv
   <4>2. CASE s = t BY <2>2, <2>3, <4>1, <4>2
   <4>3. CASE s # t BY <2>1, <4>1, <4>3
   <4> QED BY <4>2, <4>3
  <3>2. CASE ~New(v)
   <4>1. v = my[t].i /\ my'[t].i = my[t].i + 1 /\ my[t].i # my[t].end BY <3>2
   <4>2. my'[t].i = my[t].i + 1 /\ v <= my[t].i /\ v \in PartStart(t, N) .. PartStart(t + 1, N) - 1
     BY <1>2, <4>1
   <4>3. v < my'[t].i BY <1>2, <2>2, <4>2
   <4>4. Passed(t, v)' BY <4>2, <4>3 DEF Passed
   <4> QED BY <4>4
  <3> QED BY <3>1, <3>2
 <2>6. \A v \in front' : \A s \in Thread : Passed(s, v)' => New(v)'
  <3> TAKE v \in front'
  <3>0. v \in front /\ v \in Vertex /\ v \in Int BY <1>0, <2>2 DEF TypeOK
  <3> TAKE s \in Thread
  <3> HAVE Passed(s, v)'
  <3>1. CASE Passed(s, v)
   <4>1. New(v) BY <1>0, <3>0, <3>1 DEF GatherInv
   <4> QED BY <4>1
  <3>2. CASE ~Passed(s, v)
   <4>1. s = t BY <2>1, <3>2
   <4>2. v = my[t].i /\ my'[t].i = my[t].i + 1 BY <2>4, <3>0, <3>2, <4>1
   <4>3. my'[t].i # my[t].i BY <1>2, <4>2
   <4> QED BY <3>0, <4>2, <4>3
  <3> QED BY <3>1, <3>2
 <2> QED BY <2>5, <2>6 DEF GatherInv
<1> QED BY <1>4, <1>5, <1>6, <1>7 DEF IInv

LEMMA GatherStep ==
  ASSUME IInv, NEW t \in Thread, Gather(t)
  PROVE  IInv'
<1>0. /\ TypeOK /\ Places /\ WrittenInv /\ BuffersInv /\ DistInv /\ FrontInv /\ GatherInv
      /\ Step(t) /\ TypeOK' /\ my \in [Thread -> Local] /\ my[t] \in Local
  BY StepType, MyTypes DEF IInv, Step, TypeOK
<1>1. /\ loop = "to_queue" /\ my[t].pc = "push"
      /\ UNCHANGED <<queue, dist, front, depth, loop>>
  BY DEF Gather, At, counts
<1>2. \A s \in Thread \ {t} : my'[s] = my[s] BY <1>0, StepFrame
<1>3. /\ PartStart(t, N) <= my[t].i /\ my[t].i <= my[t].end /\ my[t].end = PartStart(t + 1, N)
      /\ my[t].i \in Nat /\ my[t].end \in Nat
  BY <1>1, PartOf
<1> DEFINE next == [my[t] EXCEPT !.i = @ + 1]
<1>4. /\ next.lqueue = my[t].lqueue /\ next.pc = "push" /\ next.i = my[t].i + 1
      /\ next.end = my[t].end /\ next \in Local
 <2>1. my[t].i + 1 \in Nat BY <1>3
 <2> QED BY ZenonT(40), <1>0, <1>1, <2>1, Updates DEF Local
<1> HIDE DEF next
\* a step that pushes nothing
<1>5. ASSUME my'[t].lqueue = my[t].lqueue, my'[t].pc \in {"push", "flush"},
             my'[t].end = my[t].end,
             \/ my'[t].i = my[t].i
             \/ my[t].i # my[t].end /\ my'[t].i = my[t].i + 1 /\ my[t].i \notin front
      PROVE  IInv'
 <2>1. Places' /\ WrittenInv' /\ BuffersInv' BY <1>0, <1>1, <1>2, <1>5, TokensKept
 <2>2. \A v : New(v)' <=> New(v) BY <1>0, <1>1, <1>2, <1>5, PlacesKept
 <2> QED BY <1>0, <1>1, <1>5, <2>1, <2>2, GatherKept
<1>6. ASSUME my'[t] = [my[t] EXCEPT !.pc = "flush"] PROVE IInv'
 <2>1. /\ my'[t].lqueue = my[t].lqueue /\ my'[t].pc = "flush" /\ my'[t].end = my[t].end
       /\ my'[t].i = my[t].i
   BY <1>0, <1>6 DEF Local
 <2> QED BY <1>5, <2>1
<1>7. CASE my[t].i = my[t].end BY <1>0, <1>6, <1>7 DEF Gather, Goto
<1>8. CASE my[t].i # my[t].end /\ my[t].i \notin front
 <2>1. my'[t] = next BY <1>0, <1>8 DEF Gather, next
 <2> QED BY <1>4, <1>5, <1>8, <2>1
<1>9. CASE my[t].i # my[t].end /\ my[t].i \in front
 <2> DEFINE v == my[t].i
 <2>1. my'[t] = IF Len(my[t].lqueue) = LocalSize THEN [my[t] EXCEPT !.pc = "flush"]
                ELSE [next EXCEPT !.lqueue = Append(my[t].lqueue, v)]
   BY <1>0, <1>9 DEF Gather, Push, next
 <2>2. v \in Vertex /\ dist[v] = depth
  <3>1. v \in Vertex /\ Delta[v] = depth BY <1>1, <1>9 DEF FrontInv, IInv, Level
  <3>2. Ready = depth /\ depth \in Nat BY <1>0, <1>1 DEF Ready, Building, TypeOK
  <3> QED BY <1>0, <3>1, <3>2 DEF DistInv
 <2>3. ~New(v)
  <3> SUFFICES ASSUME New(v) PROVE FALSE OBVIOUS
  <3>1. PICK s \in Thread : Passed(s, v) BY <1>0, <1>1, <2>2 DEF GatherInv
  <3>2. N \in Nat /\ v \in Int BY <2>2, Basics
  <3>3. s \in 0 .. NumT /\ s + 1 \in 0 .. NumT BY Basics
  <3>4. PartStart(s, N) \in Nat /\ PartStart(s + 1, N) \in Nat BY <3>2, <3>3, PartBounds
  <3>5. PartStart(s, N) <= v /\ v < PartStart(s + 1, N) BY <3>1, <3>2, <3>4 DEF Passed
  <3>6. PartStart(t, N) <= v /\ v < PartStart(t + 1, N) BY <1>3, <1>9
  <3>7. s = t BY <3>2, <3>5, <3>6, PartsApart
  <3> QED BY <1>1, <1>3, <3>1, <3>7 DEF Passed
 <2>4. CASE Len(my[t].lqueue) = LocalSize BY <1>6, <2>1, <2>4
 <2>5. CASE Len(my[t].lqueue) # LocalSize
  <3> HIDE DEF v
  <3>1. /\ my'[t].pc = next.pc /\ my'[t].i = next.i /\ my'[t].end = next.end
        /\ Len(my'[t].lqueue) = Len(my[t].lqueue) + 1
        /\ \A k \in 1 .. Len(my[t].lqueue) : my'[t].lqueue[k] = my[t].lqueue[k]
        /\ my'[t].lqueue[Len(my[t].lqueue) + 1] = v
    BY <1>0, <1>4, <2>1, <2>2, <2>5, PushIs
  <3>2. /\ Places' /\ WrittenInv' /\ BuffersInv'
        /\ \A w : New(w)' <=> New(w) \/ w = v
    BY <1>0, <1>1, <1>2, <1>4, <2>2, <2>3, <3>1, PushTokens DEF Pushing
  <3>3. \A w : New(w)' <=> New(w) \/ (w = my[t].i /\ my[t].i \in front) BY <1>9, <3>2 DEF v
  <3> QED BY <1>0, <1>1, <1>4, <1>9, <3>1, <3>2, <3>3, GatherKept
 <2> QED BY <2>4, <2>5
<1> QED BY <1>7, <1>8, <1>9

LEMMA StepInv ==
  ASSUME IInv, NEW t \in Thread, Step(t)
  PROVE  IInv'
  BY TakeVertexStep, ReadDistStep, CompareAndSwapStep, PushVertexStep, FlushStep, CopyStep,
     ReadWordStep, SwapWordStep, TakeChunkStep, TestVertexStep, SetBitStep, GatherStep DEF Step

-----------------------------------------------------------------------------
(***************************************************************************)
(* Between the loops: every thread has joined, or has a part of its own.   *)
(***************************************************************************)
LEMMA TeamIs ==
  ASSUME NEW label \in Labels, NEW first \in Nat, NEW n \in Nat, NEW t \in Thread
  PROVE  LET me == Team(label, first, n)[t]
         IN /\ me \in Local /\ me.pc = label /\ me.i = first + PartStart(t, n)
            /\ me.end = first + PartStart(t + 1, n) /\ me.j = 1 /\ me.lqueue = <<>>
            /\ me.count = 0 /\ me.i <= me.end
<1>1. t \in 0 .. NumT /\ t + 1 \in 0 .. NumT /\ t <= t + 1 BY Basics
<1>2. PartStart(t, n) \in 0 .. n /\ PartStart(t + 1, n) \in 0 .. n
      /\ PartStart(t, n) <= PartStart(t + 1, n)
  BY <1>1, PartBounds
<1> DEFINE a == first + PartStart(t, n)
           b == first + PartStart(t + 1, n)
<1>3. a \in Nat /\ b \in Nat /\ a <= b BY <1>2
<1>4. Team(label, first, n)[t] = [Idle EXCEPT !.pc = label, !.i = a, !.end = b] BY DEF Team
<1> HIDE DEF a, b
<1> DEFINE me == [Idle EXCEPT !.pc = label, !.i = a, !.end = b]
<1>5. /\ me.pc = label /\ me.i = a /\ me.end = b /\ me.j = 1 /\ me.lqueue = <<>> /\ me.count = 0
  BY DEF Idle
<1>6. me \in Local BY <1>3, IdleIs DEF Local
<1> QED BY <1>3, <1>4, <1>5, <1>6 DEF a, b

LEMMA TeamNext ==
  ASSUME NEW label \in Labels, NEW first \in Nat, NEW n \in Nat, my' = Team(label, first, n)
  PROVE  /\ my' \in [Thread -> Local]
         /\ \A t \in Thread :
              /\ my'[t] \in Local /\ my'[t].pc = label /\ my'[t].lqueue = <<>>
              /\ my'[t].j = 1 /\ my'[t].count = 0
              /\ my'[t].i = first + PartStart(t, n)
              /\ my'[t].end = first + PartStart(t + 1, n)
              /\ my'[t].i <= my'[t].end
<1>1. \A t \in Thread :
            /\ my'[t] \in Local /\ my'[t].pc = label /\ my'[t].lqueue = <<>>
            /\ my'[t].j = 1 /\ my'[t].count = 0
            /\ my'[t].i = first + PartStart(t, n)
            /\ my'[t].end = first + PartStart(t + 1, n)
            /\ my'[t].i <= my'[t].end
 <2> TAKE t \in Thread
 <2>1. my'[t] = Team(label, first, n)[t] OBVIOUS
 <2> QED BY <2>1, TeamIs
<1>2. DOMAIN my' = Thread /\ my' = [t \in Thread |-> my'[t]] BY DEF Team
<1>3. my' \in [Thread -> Local] BY <1>1, <1>2
<1> QED BY <1>1, <1>3

LEMMA Settled ==
  ASSUME IInv, Joined
  PROVE  /\ \A t \in Thread : my[t].lqueue = <<>> /\ Len(my[t].lqueue) = 0 /\ ~Pending(t)
         /\ \A p : Written(p) <=> p \in 0 .. queue.in - 1
         /\ \A v : New(v) <=> \E p \in queue.out_end .. queue.in - 1 : queue.shared[p] = v
<1>1. \A t \in Thread : my[t].lqueue = <<>> /\ Len(my[t].lqueue) = 0 /\ ~Pending(t)
  BY DEF IInv, RangeInv, Joined, Pending
<1>2. \A t \in Thread : \A p : ~Reserved(t, p) BY DEF Reserved, Joined
<1>3. \A p : Written(p) <=> p \in 0 .. queue.in - 1 BY <1>2 DEF Written
<1>4. \A t \in Thread : \A v : ~Buffered(t, v) BY <1>1 DEF Buffered
<1>5. queue.out_end \in Nat /\ queue.in \in Nat BY QueueTypes DEF IInv
<1>6. \A p \in queue.out_end .. queue.in - 1 : Written(p) BY <1>3, <1>5
<1> QED BY <1>1, <1>3, <1>4, <1>6 DEF New

LEMMA TeamTokens ==
  ASSUME IInv, Joined, TypeOK',
         \A t \in Thread : my'[t].lqueue = <<>> /\ my'[t].pc # "copy",
         queue'.shared = queue.shared, queue'.in = queue.in,
         queue'.out_start <= queue'.out_end, queue'.out_end <= queue'.in,
         ~Pushing' => queue'.out_end = queue'.in,
         \A v \in Vertex : dist[v] >= 0 => dist'[v] >= 0,
         \A p \in 0 .. queue.in - 1 : dist'[queue.shared[p]] = depth' <=> p >= Newest'
  PROVE  /\ Places' /\ WrittenInv' /\ BuffersInv'
         /\ \A v : New(v)' <=> \E p \in queue'.out_end .. queue'.in - 1 : queue'.shared[p] = v
<1>0. Places /\ WrittenInv /\ TypeOK BY DEF IInv
<1>1. \A t \in Thread : \A p : ~Reserved(t, p)' BY DEF Reserved
<1>2. \A p : Written(p)' <=> p \in 0 .. queue.in - 1 BY <1>1 DEF Written
<1>3. \A p \in 0 .. queue.in - 1 : Written(p) BY Settled
<1>4. \A t \in Thread : \A k \in 1 .. Len(my'[t].lqueue) : FALSE OBVIOUS
<1>5. \A t \in Thread : \A v : ~Buffered(t, v)' BY <1>4 DEF Buffered
<1>6. \A v : New(v)' <=> \E p \in queue'.out_end .. queue'.in - 1 : queue'.shared[p] = v
 <2>1. queue'.out_end \in Nat /\ queue'.in \in Nat BY DEF TypeOK
 <2>2. \A p \in queue'.out_end .. queue'.in - 1 : Written(p)' BY <1>2, <2>1
 <2> QED BY <1>5, <2>2 DEF New
<1>7. Places' BY <1>1 DEF Places
<1>8. WrittenInv'
 <2>1. \A p \in 0 .. queue.in - 1 :
         queue.shared[p] \in Vertex /\ dist'[queue.shared[p]] >= 0
   BY <1>0, <1>3 DEF WrittenInv
 <2>2. \A p, q \in 0 .. queue.in - 1 : queue.shared[p] = queue.shared[q] => p = q
   BY <1>0, <1>3 DEF WrittenInv
 <2> QED BY <2>1, <2>2 DEF WrittenInv
<1>9. BuffersInv' BY <1>4 DEF BuffersInv
<1> QED BY <1>6, <1>7, <1>8, <1>9

(***************************************************************************)
(* The entries of the queue, and no vertex beyond the level.               *)
(***************************************************************************)
LEMMA Entries ==
  ASSUME IInv, Joined
  PROVE  /\ queue.in \in Nat /\ queue.out_start \in Nat /\ queue.out_end \in Nat /\ depth \in Nat
         /\ queue.out_start <= queue.out_end /\ queue.out_end <= queue.in
         /\ \A p \in 0 .. queue.in - 1 :
              /\ p \in Int /\ queue.shared[p] \in Vertex /\ dist[queue.shared[p]] \in 0 .. depth
              /\ dist[queue.shared[p]] = depth <=> p >= Newest
         /\ \A p \in Window : p \in 0 .. queue.in - 1
<1>0. TypeOK /\ Places /\ WrittenInv /\ DistInv BY DEF IInv
<1>1. /\ queue.in \in Nat /\ queue.out_start \in Nat /\ queue.out_end \in Nat /\ depth \in Nat
      /\ queue.out_start <= queue.out_end /\ queue.out_end <= queue.in
  BY <1>0, QueueTypes DEF Places, TypeOK
<1>2. \A p \in 0 .. queue.in - 1 :
        /\ p \in Int /\ queue.shared[p] \in Vertex /\ dist[queue.shared[p]] \in 0 .. depth
        /\ dist[queue.shared[p]] = depth <=> p >= Newest
 <2> TAKE p \in 0 .. queue.in - 1
 <2>1. Written(p) /\ p \in Int BY <1>1, Settled
 <2>2. queue.shared[p] \in Vertex /\ dist[queue.shared[p]] >= 0
       /\ (dist[queue.shared[p]] = depth <=> p >= Newest)
   BY <1>0, <2>1 DEF WrittenInv
 <2>3. dist[queue.shared[p]] <= depth /\ dist[queue.shared[p]] \in Int
   BY <1>0, <2>2 DEF DistInv, TypeOK
 <2> QED BY <1>1, <2>1, <2>2, <2>3
<1>3. \A p \in Window : p \in 0 .. queue.in - 1 BY <1>0, WindowIs
<1> QED BY <1>1, <1>2, <1>3

LEMMA InitDistances ==
  ASSUME Init
  PROVE  \A v \in Vertex : dist[v] \in Int /\ (dist[v] >= 0 <=> v = Root) /\ (v = Root => dist[v] = 0)
<1>1. \A v \in Vertex : Degree(v) \in Nat
 <2> TAKE v \in Vertex
 <2>1. adj[v] \in Seq(Vertex) BY GraphAssumption
 <2> QED BY <2>1 DEF Degree
<1> TAKE v \in Vertex
<1>2. InitDist \in [Vertex -> Int] /\ InitDist[v] < 0
 <2> DEFINE f(w) == IF Degree(w) # 0 THEN -Degree(w) ELSE -1
 <2>1. \A w \in Vertex : f(w) \in Int /\ f(w) < 0 BY <1>1
 <2>2. InitDist = [w \in Vertex |-> f(w)] BY DEF InitDist
 <2> HIDE DEF f
 <2> QED BY <2>1, <2>2
<1>3. dist = [InitDist EXCEPT ![Root] = 0] BY DEF Init
<1> QED BY <1>2, <1>3

LEMMA InitInv == Init => IInv
<1> SUFFICES ASSUME Init PROVE IInv OBVIOUS
<1>0. /\ Root \in Vertex /\ 0 \in Vertex /\ N \in Nat /\ N >= 1 /\ Vertex = 0 .. N - 1
      /\ 0 \in Thread
  BY Basics
<1>2. \A v \in Vertex : dist[v] \in Int /\ (dist[v] >= 0 <=> v = Root) /\ (v = Root => dist[v] = 0)
  BY InitDistances
<1>3. dist \in [Vertex -> Int] BY <1>2 DEF Init, InitDist
<1>4. /\ depth = 0 /\ loop = "test" /\ chunk = 0 /\ front = {} /\ curr = {} /\ awake_count = 0
      /\ my = [t \in Thread |-> Idle]
      /\ queue = [shared |-> [p \in Vertex |-> IF p = 0 THEN Root ELSE Unset],
                  in |-> 1, out_start |-> 0, out_end |-> 1]
  BY DEF Init
<1>5. /\ queue.in = 1 /\ queue.out_start = 0 /\ queue.out_end = 1
      /\ queue.shared = [p \in Vertex |-> IF p = 0 THEN Root ELSE Unset]
      /\ queue.shared[0] = Root
  BY <1>0, <1>4
<1>6. \A t \in Thread : my[t] = Idle /\ my[t].pc = "joined" /\ my[t].lqueue = <<>> BY <1>4, IdleIs
<1>7. ~Building /\ ~Pushing /\ Ready = 0 BY <1>4 DEF Building, Pushing, Ready
<1>8. TypeOK
 <2>1. queue \in [shared : [Vertex -> Vertex \cup {Unset}],
                  in : Nat, out_start : Nat, out_end : Nat]
   BY <1>0, <1>4
 <2>2. my \in [Thread -> Local] /\ \A t \in Thread : my[t].pc \in LabelsOf(loop)
   BY <1>4, <1>6, IdleIs DEF LabelsOf
 <2>3. beta \in Nat \ {0} BY DirAssumption DEF Init
 <2> QED BY <1>0, <1>3, <1>4, <2>1, <2>2, <2>3 DEF TypeOK
<1>9. DistInv
 <2>1. \A v \in Vertex : Delta[v] = 0 <=> v = Root BY DistanceAssumption
 <2>2. \A v \in Vertex : dist[v] >= 0 => dist[v] = Delta[v] /\ dist[v] <= depth BY <1>2, <1>4, <2>1
 <2>3. \A v \in Vertex : Delta[v] \in 0 .. Ready => dist[v] = Delta[v] BY <1>2, <1>7, <2>1
 <2> QED BY <1>4, <1>7, <2>2, <2>3 DEF DistInv
<1>10. RangeInv BY <1>4, <1>6 DEF RangeInv, Pending
<1>11. \A t \in Thread : \A p : ~Reserved(t, p) BY <1>6 DEF Reserved
<1>12. \A p : Written(p) <=> p = 0
 <2>1. \A p : p \in 0 .. queue.in - 1 <=> p = 0
  <3>1. queue.in - 1 = 0 /\ 0 .. 0 = {0} BY <1>5
  <3> QED BY <3>1
 <2> QED BY <1>11, <2>1 DEF Written
<1>13. Places BY <1>5, <1>6, <1>11 DEF Places
<1>14. WrittenInv
 <2>1. Newest = 0 BY <1>4, <1>5 DEF Newest
 <2> QED BY <1>0, <1>2, <1>4, <1>5, <1>12, <2>1 DEF WrittenInv
<1>15. BuffersInv
 <2>1. \A t \in Thread : \A k \in 1 .. Len(my[t].lqueue) : FALSE BY <1>6
 <2> QED BY <2>1 DEF BuffersInv
<1>16. PendingInv /\ GatherInv /\ EdgesInv /\ BottomUpInv
  BY <1>4 DEF PendingInv, Pending, GatherInv, EdgesInv, BottomUpInv
<1>17. CompleteInv
 <2>1. 0 \in Window BY <1>5 DEF Window
 <2>2. \A v \in Vertex : dist[v] = depth => queue.shared[0] = v BY <1>2, <1>4, <1>5
 <2> QED BY <1>4, <2>1, <2>2 DEF CompleteInv
<1>18. FrontInv BY <1>4 DEF FrontInv
<1> QED BY <1>8, <1>9, <1>10, <1>13, <1>14, <1>15, <1>16, <1>17, <1>18 DEF IInv

(***************************************************************************)
(* The window is not empty when the level is not.                          *)
(***************************************************************************)
LEMMA LevelFound ==
  ASSUME IInv, Joined, loop \in {"test", "to_bitmap"}
  PROVE  /\ QueueSize > 0 => Level(depth) # {}
         /\ QueueSize = 0 => Level(depth) = {}
         /\ \A v \in Level(depth) : dist[v] = depth /\ \E p \in Window : queue.shared[p] = v
         /\ \A p \in Window : queue.shared[p] \in Level(depth) /\ dist[queue.shared[p]] = depth
         /\ QueueSize \in Nat
<1>0. TypeOK /\ Places /\ DistInv /\ CompleteInv /\ QueueSize \in Nat BY WindowIs DEF IInv
<1>1. /\ queue.in \in Nat /\ queue.out_start \in Nat /\ queue.out_end \in Nat /\ depth \in Nat
      /\ queue.out_start <= queue.out_end /\ queue.out_end <= queue.in
      /\ \A p \in 0 .. queue.in - 1 :
            /\ p \in Int /\ queue.shared[p] \in Vertex /\ dist[queue.shared[p]] \in 0 .. depth
            /\ dist[queue.shared[p]] = depth <=> p >= Newest
      /\ \A p \in Window : p \in 0 .. queue.in - 1
  BY Entries
<1>2. Ready = depth /\ Newest = queue.out_start BY DEF Ready, Building, Newest
<1>3. \A v \in Level(depth) : dist[v] = depth /\ \E p \in Window : queue.shared[p] = v
 <2> TAKE v \in Level(depth)
 <2>1. v \in Vertex /\ Delta[v] = depth BY DEF Level
 <2>2. dist[v] = depth BY <1>0, <1>1, <1>2, <2>1 DEF DistInv
 <2> QED BY <1>0, <2>1, <2>2 DEF CompleteInv
<1>4. \A p \in Window : queue.shared[p] \in Level(depth) /\ dist[queue.shared[p]] = depth
 <2> TAKE p \in Window
 <2>1. p >= queue.out_start /\ p \in 0 .. queue.in - 1 BY <1>0, <1>1, WindowIs
 <2>2. queue.shared[p] \in Vertex /\ dist[queue.shared[p]] = depth BY <1>1, <1>2, <2>1
 <2>3. Delta[queue.shared[p]] = depth BY <1>0, <1>1, <2>2 DEF DistInv
 <2> QED BY <2>2, <2>3 DEF Level
<1>5. QueueSize > 0 => queue.out_start \in Window BY <1>1 DEF QueueSize, Window
<1>6. QueueSize = 0 => Window = {} BY <1>1 DEF QueueSize, Window
<1> QED BY <1>0, <1>3, <1>4, <1>5, <1>6

LEMMA TestQueueInv ==
  ASSUME IInv, TestQueue
  PROVE  IInv'
<1>0. /\ TypeOK /\ Places /\ DistInv /\ CompleteInv /\ RangeInv /\ FrontInv /\ WrittenInv
      /\ my \in [Thread -> Local] /\ dist \in [Vertex -> Int]
  BY DEF IInv, TypeOK
<1>1. loop = "test" /\ UNCHANGED <<beta, dist, queue, front, curr, awake_count, chunk>>
  BY DEF TestQueue, params
<1>2. Joined BY <1>0, <1>1, LoopLabels DEF Joined
<1>3. /\ queue.in \in Nat /\ queue.out_start \in Nat /\ queue.out_end \in Nat /\ depth \in Nat
      /\ queue.out_start <= queue.out_end /\ queue.out_end <= queue.in
      /\ \A p \in 0 .. queue.in - 1 :
            /\ p \in Int /\ queue.shared[p] \in Vertex /\ dist[queue.shared[p]] \in 0 .. depth
            /\ dist[queue.shared[p]] = depth <=> p >= Newest
      /\ \A p \in Window : p \in 0 .. queue.in - 1
  BY <1>2, Entries
<1>4. /\ QueueSize > 0 => Level(depth) # {}
      /\ QueueSize = 0 => Level(depth) = {}
      /\ \A v \in Level(depth) : dist[v] = depth /\ \E p \in Window : queue.shared[p] = v
      /\ \A p \in Window : queue.shared[p] \in Level(depth) /\ dist[queue.shared[p]] = depth
      /\ QueueSize \in Nat
  BY <1>1, <1>2, LevelFound
<1>5. Ready = depth /\ Newest = queue.out_start /\ ~Building /\ ~Pushing
  BY <1>1 DEF Ready, Building, Newest, Pushing
<1>6. queue.out_end = queue.in BY <1>0, <1>5 DEF Places
<1>7. \A t \in Thread : my[t].lqueue = <<>> BY <1>2, Settled
<1>8. \A d : Level(d)' = Level(d) BY DEF Level
<1>9. CASE QueueSize = 0
 <2>1. loop' = "clear" /\ depth' = depth /\ my' = my BY <1>9 DEF TestQueue
 <2>2. ~Building' /\ ~Pushing' /\ Ready' = depth /\ Newest' = queue.out_end
   BY <1>1, <2>1 DEF Ready, Building, Newest, Pushing
 <2>3. TypeOK' BY <1>0, <1>1, <1>2, <2>1 DEF TypeOK, LabelsOf, Joined
 <2>4. queue.out_start = queue.out_end BY <1>3, <1>9 DEF QueueSize
 <2>5. /\ Places' /\ WrittenInv' /\ BuffersInv'
   BY <1>1, <1>2, <1>3, <1>5, <1>6, <1>7, <2>1, <2>2, <2>3, <2>4, TeamTokens DEF Joined
 <2>6. DistInv'
  <3>1. Level(depth)' = {} BY <1>4, <1>9, <2>1 DEF Level
  <3> QED BY <1>0, <1>1, <1>5, <2>1, <2>2, <3>1 DEF DistInv
 <2>7. RangeInv' BY <1>2, <1>7, <2>1 DEF RangeInv, Pending, Joined
 <2>8. PendingInv' /\ GatherInv' /\ EdgesInv' /\ BottomUpInv' /\ CompleteInv'
   BY <2>1 DEF PendingInv, Pending, GatherInv, EdgesInv, BottomUpInv, CompleteInv
 <2>9. FrontInv' BY <1>0, <1>1, <1>5, <2>1, <2>2 DEF FrontInv
 <2> QED BY <2>3, <2>5, <2>6, <2>7, <2>8, <2>9 DEF IInv
<1>10. CASE QueueSize # 0 /\ scout_count > Quotient(edges_to_check, alpha)
 <2>1. /\ loop' = "to_bitmap" /\ depth' = depth
       /\ my' = Team("read", queue.out_start, QueueSize)
   BY <1>10 DEF TestQueue
 <2>2. /\ ~Building' /\ ~Pushing' /\ Ready' = depth /\ Newest' = queue.out_start
       /\ First' = queue.out_start /\ Length' = QueueSize
   BY <1>1, <2>1 DEF Ready, Building, Newest, Pushing, First, Length, QueueSize
 <2>3. \A t \in Thread :
         /\ my'[t] \in Local /\ my'[t].pc = "read" /\ my'[t].lqueue = <<>>
         /\ my'[t].i = queue.out_start + PartStart(t, QueueSize)
         /\ my'[t].end = queue.out_start + PartStart(t + 1, QueueSize)
         /\ my'[t].i <= my'[t].end /\ my' \in [Thread -> Local]
  <3> DEFINE first == queue.out_start
             n == QueueSize
  <3>1. first \in Nat /\ n \in Nat /\ "read" \in Labels /\ my' = Team("read", first, n)
    BY <1>3, <1>4, <2>1 DEF Labels
  <3> HIDE DEF first, n
  <3> QED BY <3>1, TeamNext DEF first, n
 <2>4. TypeOK'
  <3>1. my' \in [Thread -> Local] BY <2>3, Basics
  <3> QED BY <1>0, <1>1, <2>1, <2>3, <3>1 DEF TypeOK, LabelsOf
 <2>5. /\ Places' /\ WrittenInv' /\ BuffersInv'
   BY <1>1, <1>2, <1>3, <1>5, <1>6, <2>1, <2>2, <2>3, <2>4, TeamTokens
 <2>6. DistInv'
  <3>1. QueueSize' > 0 BY <1>1, <1>4, <1>10 DEF QueueSize
  <3> QED BY <1>0, <1>1, <1>5, <2>1, <2>2, <3>1 DEF DistInv
 <2>7. RangeInv'
  <3>1. \A t \in Thread :
          /\ First' + PartStart(t, Length') <= my'[t].i /\ my'[t].i <= my'[t].end
          /\ my'[t].end = First' + PartStart(t + 1, Length')
   <4> TAKE t \in Thread
   <4>1. my'[t].i \in Nat BY <2>3, FieldTypes
   <4>2. First' + PartStart(t, Length') = my'[t].i BY <2>2, <2>3
   <4> QED BY <2>2, <2>3, <4>1, <4>2
  <3>2. \A t \in Thread : PartStart(t, Length)' = PartStart(t, Length')
                          /\ PartStart(t + 1, Length)' = PartStart(t + 1, Length')
    BY DEF PartStart
  <3> QED BY <2>1, <2>2, <2>3, <3>1, <3>2 DEF RangeInv, Pending
 <2>8. PendingInv' /\ GatherInv' /\ EdgesInv' /\ BottomUpInv'
   BY <2>1 DEF PendingInv, Pending, GatherInv, EdgesInv, BottomUpInv
 <2>9. CompleteInv'
  <3>1. Window' = Window BY <1>1 DEF Window
  <3> QED BY <1>0, <1>1, <2>1, <3>1 DEF CompleteInv
 <2>10. FrontInv'
  <3>1. \A p \in Window' : \E t \in Thread : Left(t, p)'
   <4> TAKE p \in Window'
   <4>1. p \in Int /\ queue.out_start <= p /\ p < queue.out_end BY <1>0, <1>1, WindowIs DEF Window
   <4>2. p - queue.out_start \in 0 .. QueueSize - 1 BY <1>3, <4>1 DEF QueueSize
   <4>3. PICK t \in Thread : /\ PartStart(t, QueueSize) <= p - queue.out_start
                             /\ p - queue.out_start < PartStart(t + 1, QueueSize)
     BY <1>4, <4>2, PartsCover
   <4>4. PartStart(t, QueueSize) \in Nat /\ PartStart(t + 1, QueueSize) \in Nat
    <5>1. t \in 0 .. NumT /\ t + 1 \in 0 .. NumT BY Basics
    <5> QED BY <1>4, <5>1, PartBounds
   <4>5. my'[t].i <= p /\ p < my'[t].end BY <1>3, <2>3, <4>1, <4>3, <4>4
   <4>6. Left(t, p)' BY <2>3, <4>5 DEF Left
   <4> QED BY <4>6
  <3> QED BY <1>0, <1>1, <1>5, <2>1, <2>2, <3>1 DEF FrontInv
 <2> QED BY <2>4, <2>5, <2>6, <2>7, <2>8, <2>9, <2>10 DEF IInv
<1>11. CASE QueueSize # 0 /\ ~(scout_count > Quotient(edges_to_check, alpha))
 <2>1. /\ loop' = "td" /\ depth' = depth + 1
       /\ my' = Team("vertex", queue.out_start, QueueSize)
   BY <1>11 DEF TestQueue
 <2>2. /\ Building' /\ Pushing' /\ Ready' = depth /\ Newest' = queue.out_end
       /\ First' = queue.out_start /\ Length' = QueueSize
   BY <1>1, <1>3, <2>1 DEF Ready, Building, Newest, Pushing, First, Length, QueueSize
 <2>3. \A t \in Thread :
         /\ my'[t] \in Local /\ my'[t].pc = "vertex" /\ my'[t].lqueue = <<>> /\ my'[t].j = 1
         /\ my'[t].i = queue.out_start + PartStart(t, QueueSize)
         /\ my'[t].end = queue.out_start + PartStart(t + 1, QueueSize)
         /\ my'[t].i <= my'[t].end /\ my' \in [Thread -> Local]
  <3> DEFINE first == queue.out_start
             n == QueueSize
  <3>1. first \in Nat /\ n \in Nat /\ "vertex" \in Labels /\ my' = Team("vertex", first, n)
    BY <1>3, <1>4, <2>1 DEF Labels
  <3> HIDE DEF first, n
  <3> QED BY <3>1, TeamNext DEF first, n
 <2>4. TypeOK'
  <3>1. my' \in [Thread -> Local] BY <2>3, Basics
  <3>2. depth' \in Nat BY <1>3, <2>1
  <3> QED BY <1>0, <1>1, <2>1, <2>3, <3>1, <3>2 DEF TypeOK, LabelsOf
 <2>5. \A v \in Vertex : dist[v] # depth + 1
  <3> TAKE v \in Vertex
  <3>1. dist[v] \in Int /\ (dist[v] >= 0 => dist[v] <= depth) BY <1>0 DEF DistInv
  <3> QED BY <1>3, <3>1
 <2>6. Places' /\ WrittenInv' /\ BuffersInv'
  <3>1. \A p \in 0 .. queue.in - 1 : dist'[queue.shared[p]] = depth' <=> p >= Newest'
    BY <1>1, <1>3, <1>6, <2>1, <2>2, <2>5
  <3> QED BY <1>1, <1>2, <1>3, <1>6, <2>1, <2>2, <2>3, <2>4, <3>1, TeamTokens
 <2>7. DistInv'
  <3>1. \A v \in Vertex : dist'[v] >= 0 => dist'[v] = Delta[v] /\ dist'[v] <= depth'
    BY <1>0, <1>1, <1>3, <2>1 DEF DistInv
  <3>2. depth' - 1 = depth /\ depth' >= 1 BY <1>3, <2>1
  <3>3. Level(depth - 1)' # {} BY <1>4, <1>11, <3>2 DEF Level
  <3>4. \A v \in Vertex : Delta[v] \in 0 .. Ready' => dist'[v] = Delta[v]
    BY <1>0, <1>1, <1>5, <2>2 DEF DistInv
  <3> QED BY <2>1, <3>1, <3>2, <3>3, <3>4 DEF DistInv
 <2>8. RangeInv'
  <3>1. \A t \in Thread :
          /\ First' + PartStart(t, Length') <= my'[t].i /\ my'[t].i <= my'[t].end
          /\ my'[t].end = First' + PartStart(t + 1, Length')
   <4> TAKE t \in Thread
   <4>1. my'[t].i \in Nat BY <2>3, FieldTypes
   <4>2. First' + PartStart(t, Length') = my'[t].i BY <2>2, <2>3
   <4> QED BY <2>2, <2>3, <4>1, <4>2
  <3>2. \A t \in Thread : PartStart(t, Length)' = PartStart(t, Length')
                          /\ PartStart(t + 1, Length)' = PartStart(t + 1, Length')
    BY DEF PartStart
  <3> QED BY <2>1, <2>2, <2>3, <3>1, <3>2 DEF RangeInv, Pending
 <2>9. PendingInv' /\ GatherInv' /\ BottomUpInv'
   BY <2>1, <2>3 DEF PendingInv, Pending, GatherInv, BottomUpInv
 <2>10. Window' = Window BY <1>1 DEF Window
 <2>11. CompleteInv'
  <3>1. depth' - 1 = depth /\ depth' = depth + 1 BY <1>3, <2>1
  <3>2. \A v \in Vertex : dist'[v] # depth' BY <1>1, <2>1, <2>5
  <3>3. \A v \in Vertex : dist'[v] = depth' - 1 => \E p \in Window' : queue'.shared[p] = v
    BY <1>0, <1>1, <2>10, <3>1 DEF CompleteInv
  <3>4. \A p \in Window' : dist'[queue'.shared[p]] = depth' - 1 BY <1>1, <1>4, <2>10, <3>1
  <3> QED BY <2>1, <3>2, <3>3, <3>4 DEF CompleteInv
 <2>12. EdgesInv'
  <3>1. \A p \in Window' : \A q \in 1 .. Degree(queue.shared[p]) : \E t \in Thread : ToDo(t, p, q)'
   <4> TAKE p \in Window'
   <4> TAKE q \in 1 .. Degree(queue.shared[p])
   <4>1. p \in Int /\ queue.out_start <= p /\ p < queue.out_end BY <1>0, <2>10, WindowIs
   <4>2. p - queue.out_start \in 0 .. QueueSize - 1 BY <1>3, <4>1 DEF QueueSize
   <4>3. PICK t \in Thread : /\ PartStart(t, QueueSize) <= p - queue.out_start
                             /\ p - queue.out_start < PartStart(t + 1, QueueSize)
     BY <1>4, <4>2, PartsCover
   <4>4. PartStart(t, QueueSize) \in Nat /\ PartStart(t + 1, QueueSize) \in Nat
    <5>1. t \in 0 .. NumT /\ t + 1 \in 0 .. NumT BY Basics
    <5> QED BY <1>4, <5>1, PartBounds
   <4>5. my'[t].i <= p /\ p < my'[t].end BY <1>3, <2>3, <4>1, <4>3, <4>4
   <4>6. ToDo(t, p, q)' BY <2>3, <4>5 DEF ToDo
   <4> QED BY <4>6
  <3> QED BY <1>1, <2>1, <3>1 DEF EdgesInv, Degree
 <2>13. FrontInv' BY <1>0, <1>1, <1>5, <2>1, <2>2 DEF FrontInv
 <2> QED BY <2>4, <2>6, <2>7, <2>8, <2>9, <2>11, <2>12, <2>13 DEF IInv
<1> QED BY <1>9, <1>10, <1>11

(***************************************************************************)
(* slide_window().                                                         *)
(***************************************************************************)
LEMMA SlideIs ==
  ASSUME TypeOK
  PROVE  /\ Slide.shared = queue.shared /\ Slide.in = queue.in
         /\ Slide.out_start = queue.out_end /\ Slide.out_end = queue.in
         /\ Slide \in [shared : [Vertex -> Vertex \cup {Unset}],
                       in : Nat, out_start : Nat, out_end : Nat]
<1>1. queue \in [shared : [Vertex -> Vertex \cup {Unset}],
                 in : Nat, out_start : Nat, out_end : Nat]
  BY DEF TypeOK
<1> QED BY <1>1 DEF Slide

LEMMA AfterTopDownInv ==
  ASSUME IInv, AfterTopDown
  PROVE  IInv'
<1>0. /\ TypeOK /\ Places /\ DistInv /\ CompleteInv /\ RangeInv /\ FrontInv /\ WrittenInv
      /\ EdgesInv /\ dist \in [Vertex -> Int]
  BY DEF IInv, TypeOK
<1>1. /\ loop = "td" /\ Joined /\ loop' = "test" /\ queue' = Slide
      /\ my' = [t \in Thread |-> Idle]
      /\ UNCHANGED <<beta, dist, front, curr, depth, awake_count, chunk>>
  BY DEF AfterTopDown, params
<1>2. /\ queue'.shared = queue.shared /\ queue'.in = queue.in
      /\ queue'.out_start = queue.out_end /\ queue'.out_end = queue.in
      /\ queue' \in [shared : [Vertex -> Vertex \cup {Unset}],
                     in : Nat, out_start : Nat, out_end : Nat]
  BY <1>0, <1>1, SlideIs
<1>3. /\ queue.in \in Nat /\ queue.out_start \in Nat /\ queue.out_end \in Nat /\ depth \in Nat
      /\ queue.out_start <= queue.out_end /\ queue.out_end <= queue.in
      /\ \A p \in 0 .. queue.in - 1 :
            /\ p \in Int /\ queue.shared[p] \in Vertex /\ dist[queue.shared[p]] \in 0 .. depth
            /\ dist[queue.shared[p]] = depth <=> p >= Newest
  BY <1>1, Entries
<1>4. Building /\ Ready = depth - 1 /\ Newest = queue.out_end /\ depth >= 1
  BY <1>0, <1>1 DEF Ready, Building, Newest, DistInv
<1>5. ~Building' /\ ~Pushing' /\ Ready' = depth /\ Newest' = queue.out_end
  BY <1>1, <1>2 DEF Ready, Building, Newest, Pushing
<1>6. \A t \in Thread : my'[t] \in Local /\ my'[t].pc = "joined" /\ my'[t].lqueue = <<>>
  BY <1>1, IdleIs
<1>7. TypeOK'
 <2>1. my' \in [Thread -> Local] BY <1>1, IdleIs
 <2> QED BY <1>0, <1>1, <1>2, <1>6, <2>1 DEF TypeOK, LabelsOf
<1>8. Places' /\ WrittenInv' /\ BuffersInv'
 <2>1. \A p \in 0 .. queue.in - 1 : dist'[queue.shared[p]] = depth' <=> p >= Newest'
   BY <1>1, <1>3, <1>4, <1>5
 <2> QED BY <1>1, <1>2, <1>3, <1>5, <1>6, <1>7, <2>1, TeamTokens
<1>9. \A v \in Vertex : Delta[v] = depth => dist[v] = depth
 <2> SUFFICES ASSUME NEW v \in Vertex, Delta[v] = depth PROVE dist[v] = depth OBVIOUS
 <2>1. PICK u \in Vertex : Delta[u] = depth - 1 /\ v \in Neighbors(u)
   BY <1>3, <1>4, DistanceAssumption
 <2>2. dist[u] = depth - 1 BY <1>0, <1>3, <1>4, <2>1 DEF DistInv
 <2>3. PICK p \in Window : queue.shared[p] = u BY <1>0, <1>1, <2>2 DEF CompleteInv
 <2>4. PICK q \in 1 .. Len(adj[u]) : v = adj[u][q] BY <2>1, GraphTypes
 <2>5. dist[v] >= 0
  <3>1. \A t \in Thread : ~ToDo(t, p, q) BY <1>1 DEF ToDo, Joined
  <3>2. q \in 1 .. Degree(queue.shared[p]) /\ v = adj[queue.shared[p]][q] BY <2>3, <2>4 DEF Degree
  <3> QED BY <1>0, <1>1, <3>1, <3>2 DEF EdgesInv
 <2> QED BY <1>0, <2>5 DEF DistInv
<1>10. DistInv'
 <2>1. \A v \in Vertex : dist'[v] >= 0 => dist'[v] = Delta[v] /\ dist'[v] <= depth'
   BY <1>0, <1>1 DEF DistInv
 <2>2. \A v \in Vertex : Delta[v] \in 0 .. Ready' => dist'[v] = Delta[v]
  <3> TAKE v \in Vertex
  <3>1. Delta[v] \in 0 .. Ready => dist[v] = Delta[v] BY <1>0 DEF DistInv
  <3>2. Delta[v] = depth => dist[v] = depth BY <1>9
  <3> QED BY <1>1, <1>3, <1>4, <1>5, <3>1, <3>2
 <2> QED BY <1>1, <1>5, <2>1, <2>2 DEF DistInv
<1>11. RangeInv' BY <1>1, <1>6 DEF RangeInv, Pending
<1>12. PendingInv' /\ GatherInv' /\ EdgesInv' /\ BottomUpInv'
  BY <1>1 DEF PendingInv, Pending, GatherInv, EdgesInv, BottomUpInv
<1>13. CompleteInv'
 <2>1. \A v \in Vertex : dist[v] = depth => \E p \in queue.out_end .. queue.in - 1 : queue.shared[p] = v
   BY <1>0, <1>1, Settled DEF CompleteInv
 <2>2. Window' = queue.out_end .. queue.in - 1 BY <1>2 DEF Window
 <2> QED BY <1>1, <1>2, <2>1, <2>2 DEF CompleteInv
<1>14. FrontInv'
 <2>1. \A v \in front' : dist'[v] \in 0 .. Ready' BY <1>0, <1>1, <1>3, <1>4, <1>5 DEF FrontInv
 <2> QED BY <1>1, <2>1 DEF FrontInv
<1> QED BY <1>7, <1>8, <1>10, <1>11, <1>12, <1>13, <1>14 DEF IInv

LEMMA AfterToQueueInv ==
  ASSUME IInv, AfterToQueue
  PROVE  IInv'
<1>0. /\ TypeOK /\ Places /\ DistInv /\ GatherInv /\ RangeInv /\ FrontInv /\ WrittenInv
      /\ dist \in [Vertex -> Int]
  BY DEF IInv, TypeOK
<1>1. /\ loop = "to_queue" /\ Joined /\ loop' = "test" /\ queue' = Slide
      /\ my' = [t \in Thread |-> Idle]
      /\ UNCHANGED <<beta, dist, front, curr, depth, awake_count, chunk>>
  BY DEF AfterToQueue, params
<1>2. /\ queue'.shared = queue.shared /\ queue'.in = queue.in
      /\ queue'.out_start = queue.out_end /\ queue'.out_end = queue.in
      /\ queue' \in [shared : [Vertex -> Vertex \cup {Unset}],
                     in : Nat, out_start : Nat, out_end : Nat]
  BY <1>0, <1>1, SlideIs
<1>3. /\ queue.in \in Nat /\ queue.out_start \in Nat /\ queue.out_end \in Nat /\ depth \in Nat
      /\ queue.out_start <= queue.out_end /\ queue.out_end <= queue.in
      /\ \A p \in 0 .. queue.in - 1 :
            /\ p \in Int /\ queue.shared[p] \in Vertex /\ dist[queue.shared[p]] \in 0 .. depth
            /\ dist[queue.shared[p]] = depth <=> p >= Newest
  BY <1>1, Entries
<1>4. ~Building /\ Ready = depth /\ Newest = queue.out_end BY <1>1 DEF Ready, Building, Newest
<1>5. ~Building' /\ ~Pushing' /\ Ready' = depth /\ Newest' = queue.out_end
  BY <1>1, <1>2 DEF Ready, Building, Newest, Pushing
<1>6. \A t \in Thread : my'[t] \in Local /\ my'[t].pc = "joined" /\ my'[t].lqueue = <<>>
  BY <1>1, IdleIs
<1>7. TypeOK'
 <2>1. my' \in [Thread -> Local] BY <1>1, IdleIs
 <2> QED BY <1>0, <1>1, <1>2, <1>6, <2>1 DEF TypeOK, LabelsOf
<1>8. Places' /\ WrittenInv' /\ BuffersInv'
 <2>1. \A p \in 0 .. queue.in - 1 : dist'[queue.shared[p]] = depth' <=> p >= Newest'
   BY <1>1, <1>3, <1>4, <1>5
 <2> QED BY <1>1, <1>2, <1>3, <1>5, <1>6, <1>7, <2>1, TeamTokens
<1>9. DistInv' BY <1>0, <1>1, <1>4, <1>5 DEF DistInv
<1>10. RangeInv' BY <1>1, <1>6 DEF RangeInv, Pending
<1>11. PendingInv' /\ GatherInv' /\ EdgesInv' /\ BottomUpInv'
  BY <1>1 DEF PendingInv, Pending, GatherInv, EdgesInv, BottomUpInv
<1>12. CompleteInv'
 <2>1. \A v \in Vertex : dist[v] = depth => \E p \in queue.out_end .. queue.in - 1 : queue.shared[p] = v
  <3> SUFFICES ASSUME NEW v \in Vertex, dist[v] = depth
               PROVE  \E p \in queue.out_end .. queue.in - 1 : queue.shared[p] = v
    OBVIOUS
  <3>1. v \in front BY <1>0, <1>1, <1>3 DEF DistInv, FrontInv, Level
  <3>2. v \in 0 .. N - 1 /\ N \in Nat BY Basics
  <3>3. PICK t \in Thread : PartStart(t, N) <= v /\ v < PartStart(t + 1, N) BY <3>2, PartsCover
  <3>4. PartStart(t, N) \in Nat /\ PartStart(t + 1, N) \in Nat
   <4>1. t \in 0 .. NumT /\ t + 1 \in 0 .. NumT BY Basics
   <4> QED BY <3>2, <4>1, PartBounds
  <3>5. Passed(t, v) BY <1>1, <3>2, <3>3, <3>4 DEF Passed, Joined
  <3>6. New(v) BY <1>0, <1>1, <3>1, <3>5 DEF GatherInv
  <3> QED BY <1>1, <3>6, Settled
 <2>2. Window' = queue.out_end .. queue.in - 1 BY <1>2 DEF Window
 <2> QED BY <1>1, <1>2, <2>1, <2>2 DEF CompleteInv
<1>13. FrontInv' BY <1>0, <1>1, <1>4, <1>5 DEF FrontInv
<1> QED BY <1>7, <1>8, <1>9, <1>10, <1>11, <1>12, <1>13 DEF IInv

(***************************************************************************)
(* A bottom-up step begins: front is the bitmap of a level that is not     *)
(* empty, and no distance is beyond it.                                    *)
(***************************************************************************)
LEMMA BottomUpBegins ==
  ASSUME IInv, Joined, ~Pushing, BottomUpStep, dist' = dist, beta' = beta, curr' = {},
         queue' = queue \/ queue' = Slide,
         awake_count' \in Int, awake_count' > 0,
         front' \subseteq Vertex, \A v \in front' : dist[v] \in 0 .. depth,
         Level(depth) \subseteq front', Level(depth) # {},
         \A v \in Vertex : Delta[v] \in 0 .. depth => dist[v] = Delta[v]
  PROVE  IInv'
<1>0. /\ TypeOK /\ Places /\ DistInv /\ dist \in [Vertex -> Int] BY DEF IInv, TypeOK
<1>1. /\ loop' = "bu" /\ depth' = depth + 1 /\ chunk' = 0
      /\ my' = [t \in Thread |-> [Idle EXCEPT !.pc = "chunk"]]
  BY DEF BottomUpStep
<1>2. /\ queue.in \in Nat /\ queue.out_start \in Nat /\ queue.out_end \in Nat /\ depth \in Nat
      /\ \A p \in 0 .. queue.in - 1 :
            /\ p \in Int /\ queue.shared[p] \in Vertex /\ dist[queue.shared[p]] \in 0 .. depth
      /\ queue.out_end = queue.in
  BY <1>0, Entries DEF Places
<1>3. /\ queue'.shared = queue.shared /\ queue'.in = queue.in
      /\ queue'.out_start <= queue'.out_end /\ queue'.out_end = queue'.in
      /\ queue' \in [shared : [Vertex -> Vertex \cup {Unset}],
                     in : Nat, out_start : Nat, out_end : Nat]
  BY <1>0, <1>2, SlideIs DEF Places, TypeOK
<1>4. Building' /\ ~Pushing' /\ Ready' = depth /\ Newest' = queue.in
  BY <1>1, <1>2, <1>3 DEF Ready, Building, Newest, Pushing
<1>5. \A t \in Thread :
        /\ my'[t] \in Local /\ my'[t].pc = "chunk" /\ my'[t].lqueue = <<>> /\ my'[t].count = 0
 <2>1. [Idle EXCEPT !.pc = "chunk"] \in Local BY IdleIs, Updates DEF Labels
 <2> QED BY <1>1, <2>1 DEF Idle
<1>6. TypeOK'
 <2>1. my' \in [Thread -> Local] BY <1>1, <1>5
 <2>2. depth' \in Nat /\ chunk' \in 0 .. N
  <3>1. depth' \in Nat BY <1>1, <1>2
  <3>2. 0 \in 0 .. N BY Basics
  <3> QED BY <1>1, <3>1, <3>2
 <2>3. dist' \in [Vertex -> Int] /\ beta' \in Nat \ {0} /\ curr' \subseteq Vertex BY <1>0 DEF TypeOK
 <2>4. \A t \in Thread : my'[t].pc \in LabelsOf(loop)' BY <1>1, <1>5 DEF LabelsOf
 <2> QED BY <1>1, <1>3, <2>1, <2>2, <2>3, <2>4 DEF TypeOK
<1>7. \A v \in Vertex : dist[v] # depth + 1
 <2> TAKE v \in Vertex
 <2>1. dist[v] \in Int /\ (dist[v] >= 0 => dist[v] <= depth) BY <1>0 DEF DistInv
 <2> QED BY <1>2, <2>1
<1>8. Places' /\ WrittenInv' /\ BuffersInv'
 <2>1. \A p \in 0 .. queue.in - 1 : dist'[queue.shared[p]] = depth' <=> p >= Newest'
  <3> TAKE p \in 0 .. queue.in - 1
  <3>1. dist'[queue.shared[p]] # depth' BY <1>1, <1>2, <1>7
  <3>2. ~(p >= Newest') BY <1>2, <1>4
  <3> QED BY <3>1, <3>2
 <2> QED BY <1>2, <1>3, <1>4, <1>5, <1>6, <2>1, TeamTokens
<1>9. DistInv'
 <2>1. \A v \in Vertex : dist'[v] >= 0 => dist'[v] = Delta[v] /\ dist'[v] <= depth'
  <3> TAKE v \in Vertex
  <3>1. dist[v] \in Int /\ (dist[v] >= 0 => dist[v] = Delta[v] /\ dist[v] <= depth)
    BY <1>0 DEF DistInv
  <3> QED BY <1>1, <1>2, <3>1
 <2>2. depth' - 1 = depth /\ depth' >= 1 BY <1>1, <1>2
 <2>3. Level(depth - 1)' # {} BY <2>2 DEF Level
 <2> QED BY <1>1, <1>4, <2>1, <2>2, <2>3 DEF DistInv
<1>10. RangeInv' BY <1>1, <1>5 DEF RangeInv, Pending
<1>11. PendingInv' /\ GatherInv' /\ EdgesInv' /\ CompleteInv'
  BY <1>1 DEF PendingInv, Pending, GatherInv, EdgesInv, CompleteInv
<1>12. FrontInv'
 <2>1. depth' - 1 = depth BY <1>1, <1>2
 <2>2. Level(depth - 1)' \subseteq front' BY <2>1 DEF Level
 <2> QED BY <1>1, <1>4, <2>2 DEF FrontInv
<1>13. BottomUpInv'
 <2>1. \A t \in Thread : ~Scanning(t)' BY <1>5 DEF Scanning
 <2>2. ChunksApart'
  <3>1. 0 % Word = 0 BY Basics
  <3> QED BY <1>1, <2>1, <3>1 DEF ChunksApart
 <2>3. BitsSet' BY <1>1, <1>5, <1>7 DEF BitsSet
 <2>4. LevelScanned'
  <3>1. \A v \in Level(depth)' : v >= chunk' BY <1>1, Basics DEF Level
  <3> QED BY <1>5, <3>1 DEF LevelScanned
 <2> QED BY <2>2, <2>3, <2>4, BottomUpNext
<1> QED BY <1>6, <1>8, <1>9, <1>10, <1>11, <1>12, <1>13 DEF IInv

LEMMA AfterToBitmapInv ==
  ASSUME IInv, AfterToBitmap
  PROVE  IInv'
<1>0. TypeOK /\ DistInv /\ FrontInv BY DEF IInv
<1>1. /\ loop = "to_bitmap" /\ Joined /\ queue' = Slide /\ awake_count' = QueueSize
      /\ curr' = {} /\ BottomUpStep /\ UNCHANGED <<beta, dist, front>>
  BY DEF AfterToBitmap, params
<1>2. ~Pushing /\ Ready = depth BY <1>1 DEF Pushing, Ready, Building
<1>3. /\ Level(depth) # {} /\ QueueSize \in Nat /\ QueueSize > 0
      /\ \A v \in Level(depth) : \E p \in Window : queue.shared[p] = v
  BY <1>0, <1>1, LevelFound DEF DistInv
<1>4. Level(depth) \subseteq front
 <2>1. \A t \in Thread : \A p \in Window : ~Left(t, p) BY <1>1 DEF Left, Joined
 <2> QED BY <1>0, <1>1, <1>3, <2>1 DEF FrontInv
<1>5. front \subseteq Vertex /\ \A v \in front : dist[v] \in 0 .. depth
  BY <1>0, <1>2 DEF TypeOK, FrontInv
<1>6. \A v \in Vertex : Delta[v] \in 0 .. depth => dist[v] = Delta[v] BY <1>0, <1>2 DEF DistInv
<1> QED BY <1>1, <1>2, <1>3, <1>4, <1>5, <1>6, BottomUpBegins

(***************************************************************************)
(* What a bottom-up step has found.                                        *)
(***************************************************************************)
LEMMA BottomUpFound ==
  ASSUME IInv, loop = "bu", Joined
  PROVE  /\ curr = Level(depth) /\ \A v \in curr : dist[v] = depth
         /\ \A v \in Vertex : Delta[v] \in 0 .. depth => dist[v] = Delta[v]
         /\ Total \in Int /\ (Total # 0 => Level(depth) # {})
<1>0. /\ TypeOK /\ DistInv /\ dist \in [Vertex -> Int] /\ depth \in Nat
      /\ curr \subseteq Vertex
  BY DEF IInv, TypeOK
<1>1. BitsSet /\ LevelScanned BY BottomUpParts DEF IInv
<1>2. \A t \in Thread : my[t].pc = "joined" BY DEF Joined
<1>3. chunk = N BY <1>1, <1>2, Basics DEF LevelScanned
<1>4. \A v \in Level(depth) : dist[v] = depth
 <2> TAKE v \in Level(depth)
 <2>1. \A t \in Thread : ~Scanning(t) BY <1>2 DEF Scanning
 <2>2. v \in Nat /\ v < N /\ N \in Nat BY Basics DEF Level
 <2> QED BY <1>1, <1>3, <2>1, <2>2 DEF LevelScanned
<1>5. \A v \in Vertex : v \in curr <=> dist[v] = depth BY <1>1, <1>2 DEF BitsSet
<1>6. \A v \in Vertex : dist[v] = depth => Delta[v] = depth BY <1>0 DEF DistInv
<1>7. curr = Level(depth) BY <1>0, <1>4, <1>5, <1>6 DEF Level
<1>8. \A v \in Vertex : Delta[v] \in 0 .. depth => dist[v] = Delta[v]
 <2> TAKE v \in Vertex
 <2>1. Delta[v] \in 0 .. depth - 1 => dist[v] = Delta[v] BY <1>0 DEF DistInv, Ready, Building
 <2>2. Delta[v] = depth => dist[v] = depth BY <1>4 DEF Level
 <2> QED BY <1>0, <2>1, <2>2
<1>9. Total \in Int /\ (Total # 0 => \E t \in Thread : my[t].count # 0) BY <1>0, TotalIs
<1>10. Total # 0 => Level(depth) # {}
 <2>1. Total # 0 => \E v \in Vertex : dist[v] = depth BY <1>1, <1>9 DEF LevelScanned
 <2> QED BY <1>6, <2>1 DEF Level
<1> QED BY <1>0, <1>5, <1>7, <1>8, <1>9, <1>10

LEMMA AfterBottomUpInv ==
  ASSUME IInv, AfterBottomUp
  PROVE  IInv'
<1>0. /\ TypeOK /\ Places /\ DistInv /\ dist \in [Vertex -> Int]
      /\ front \subseteq Vertex /\ curr \subseteq Vertex
      /\ depth \in Nat /\ awake_count \in Int /\ beta \in Nat \ {0}
  BY DEF IInv, TypeOK
<1>1. loop = "bu" /\ Joined /\ front' = curr /\ UNCHANGED <<beta, dist, queue>>
  BY DEF AfterBottomUp, params
<1>2. ~Pushing /\ Building /\ Newest = queue.out_end BY <1>1 DEF Pushing, Building, Newest
<1>3. /\ curr = Level(depth) /\ \A v \in curr : dist[v] = depth
      /\ \A v \in Vertex : Delta[v] \in 0 .. depth => dist[v] = Delta[v]
      /\ Total \in Int /\ (Total # 0 => Level(depth) # {})
  BY <1>1, BottomUpFound
<1>4. CASE GoOn(Total)
 <2>1. awake_count' = Total /\ curr' = {} /\ BottomUpStep BY <1>4 DEF AfterBottomUp
 <2>2. Total > 0
  <3>1. awake_count > 0 BY <1>0, <1>1 DEF DistInv
  <3>2. N \div beta \in Nat BY <1>0, Basics, Division
  <3>3. Total >= awake_count \/ Total > N \div beta BY <1>4 DEF GoOn
  <3> QED BY <1>0, <1>3, <3>1, <3>2, <3>3
 <2>3. Level(depth) # {} /\ Level(depth) \subseteq front' BY <1>1, <1>3, <2>2
 <2>4. front' \subseteq Vertex /\ \A v \in front' : dist[v] \in 0 .. depth BY <1>0, <1>1, <1>3
 <2> QED BY <1>1, <1>2, <1>3, <2>1, <2>2, <2>3, <2>4, BottomUpBegins
<1>5. CASE ~GoOn(Total)
 <2>1. /\ loop' = "to_queue" /\ awake_count' = 0 /\ curr' = front /\ chunk' = 0
       /\ my' = Team("push", 0, N) /\ depth' = depth
   BY <1>5 DEF AfterBottomUp
 <2>2. /\ ~Building' /\ Pushing' /\ Ready' = depth /\ Newest' = queue.out_end
       /\ First' = 0 /\ Length' = N
   BY <1>1, <2>1 DEF Ready, Building, Newest, Pushing, First, Length
 <2>3. \A t \in Thread :
         /\ my'[t] \in Local /\ my'[t].pc = "push" /\ my'[t].lqueue = <<>>
         /\ my'[t].i = 0 + PartStart(t, N) /\ my'[t].end = 0 + PartStart(t + 1, N)
         /\ my'[t].i <= my'[t].end /\ my' \in [Thread -> Local]
  <3>1. "push" \in Labels BY DEF Labels
  <3> QED BY <2>1, <3>1, Basics, TeamNext
 <2>4. TypeOK'
  <3>1. my' \in [Thread -> Local] /\ chunk' \in 0 .. N BY <2>1, <2>3, Basics
  <3> QED BY <1>0, <1>1, <2>1, <2>3, <3>1 DEF TypeOK, LabelsOf
 <2>5. /\ queue.in \in Nat /\ queue.out_start \in Nat /\ queue.out_end \in Nat
       /\ queue.out_start <= queue.out_end /\ queue.out_end = queue.in
       /\ \A p \in 0 .. queue.in - 1 : dist[queue.shared[p]] = depth <=> p >= Newest
   BY <1>0, <1>1, <1>2, Entries DEF Places
 <2>6. /\ Places' /\ WrittenInv' /\ BuffersInv'
       /\ \A v : New(v)' <=> \E p \in queue'.out_end .. queue'.in - 1 : queue'.shared[p] = v
  <3>1. \A p \in 0 .. queue.in - 1 : dist'[queue.shared[p]] = depth' <=> p >= Newest'
    BY <1>1, <1>2, <2>1, <2>2, <2>5
  <3> QED BY <1>1, <2>2, <2>3, <2>4, <2>5, <3>1, TeamTokens
 <2>7. DistInv' BY <1>0, <1>1, <1>3, <2>1, <2>2 DEF DistInv
 <2>8. \A t \in Thread : PartStart(t, N) \in Nat
  <3> TAKE t \in Thread
  <3>1. t \in 0 .. NumT /\ N \in Nat BY Basics
  <3> QED BY <3>1, PartBounds
 <2>9. RangeInv'
  <3>1. \A t \in Thread :
          /\ First' + PartStart(t, Length') <= my'[t].i /\ my'[t].i <= my'[t].end
          /\ my'[t].end = First' + PartStart(t + 1, Length')
   <4> TAKE t \in Thread
   <4>1. my'[t].i \in Nat BY <2>3, FieldTypes
   <4>2. First' + PartStart(t, Length') = my'[t].i BY <2>2, <2>3
   <4> QED BY <2>2, <2>3, <4>1, <4>2
  <3>2. \A t \in Thread : PartStart(t, Length)' = PartStart(t, Length')
                          /\ PartStart(t + 1, Length)' = PartStart(t + 1, Length')
    BY DEF PartStart
  <3> QED BY <2>1, <2>2, <2>3, <3>1, <3>2 DEF RangeInv, Pending
 <2>10. PendingInv' /\ EdgesInv' /\ CompleteInv' /\ BottomUpInv'
   BY <2>1 DEF PendingInv, Pending, EdgesInv, CompleteInv, BottomUpInv
 <2>11. FrontInv'
  <3>1. \A v \in front' : dist'[v] \in 0 .. Ready' BY <1>0, <1>1, <1>3, <2>2
  <3>2. front' = Level(depth)' BY <1>1, <1>3, <2>1 DEF Level
  <3> QED BY <2>1, <3>1, <3>2 DEF FrontInv
 <2>12. GatherInv'
  <3>1. \A v : ~New(v)'
   <4>1. queue'.out_end .. queue'.in - 1 = {} BY <1>1, <2>5
   <4> QED BY <2>6, <4>1
  <3>2. \A v \in Vertex : \A t \in Thread : ~Passed(t, v)'
   <4> TAKE v \in Vertex
   <4> TAKE t \in Thread
   <4>1. v \in Int /\ PartStart(t, N) \in Nat /\ PartStart(t, N)' = PartStart(t, N)
     BY <2>8, Basics DEF PartStart
   <4>2. my'[t].i = PartStart(t, N) BY <2>3, <2>8
   <4>3. v \in (PartStart(t, N) .. PartStart(t + 1, N) - 1)' => v >= PartStart(t, N) BY <4>1
   <4> QED BY <2>3, <4>1, <4>2, <4>3 DEF Passed
  <3>3. front' \subseteq Vertex BY <1>0, <1>1
  <3> QED BY <3>1, <3>2, <3>3 DEF GatherInv
 <2> QED BY <2>4, <2>6, <2>7, <2>9, <2>10, <2>11, <2>12 DEF IInv
<1> QED BY <1>4, <1>5

LEMMA ClearDegreesInv ==
  ASSUME IInv, ClearDegrees
  PROVE  IInv'
<1>0. /\ TypeOK /\ Places /\ DistInv /\ FrontInv /\ RangeInv /\ dist \in [Vertex -> Int]
  BY DEF IInv, TypeOK
<1>1. /\ loop = "clear" /\ loop' = "returned"
      /\ dist' = [v \in Vertex |-> IF dist[v] < -1 THEN -1 ELSE dist[v]]
      /\ UNCHANGED <<beta, queue, front, curr, depth, awake_count, chunk, my>>
  BY DEF ClearDegrees, params, counts
<1>2. Joined BY <1>0, <1>1, LoopLabels DEF Joined
<1>3. /\ queue.in \in Nat /\ queue.out_start \in Nat /\ queue.out_end \in Nat /\ depth \in Nat
      /\ queue.out_start <= queue.out_end /\ queue.out_end <= queue.in
      /\ \A p \in 0 .. queue.in - 1 :
            /\ p \in Int /\ queue.shared[p] \in Vertex /\ dist[queue.shared[p]] \in 0 .. depth
            /\ dist[queue.shared[p]] = depth <=> p >= Newest
  BY <1>2, Entries
<1>4. ~Building /\ ~Pushing /\ Ready = depth /\ Newest = queue.out_end
  BY <1>1 DEF Ready, Building, Newest, Pushing
<1>5. ~Building' /\ ~Pushing' /\ Ready' = depth /\ Newest' = queue.out_end
  BY <1>1 DEF Ready, Building, Newest, Pushing
<1>6. \A v \in Vertex : /\ dist'[v] \in Int /\ dist'[v] >= Unset
                        /\ dist[v] >= 0 => dist'[v] = dist[v]
                        /\ dist'[v] >= 0 => dist'[v] = dist[v]
  BY <1>0, <1>1 DEF Unset
<1>7. TypeOK'
 <2>1. dist' \in [Vertex -> Int] BY <1>1, <1>6
 <2> QED BY <1>0, <1>1, <1>2, <2>1 DEF TypeOK, LabelsOf, Joined
<1>8. Places' /\ WrittenInv' /\ BuffersInv'
 <2>1. \A p \in 0 .. queue.in - 1 : dist'[queue.shared[p]] = depth' <=> p >= Newest'
   BY <1>1, <1>3, <1>4, <1>5, <1>6
 <2>2. \A v \in Vertex : dist[v] >= 0 => dist'[v] >= 0 BY <1>6
 <2>3. \A t \in Thread : my'[t].lqueue = <<>> /\ my'[t].pc # "copy"
   BY <1>1, <1>2, Settled DEF Joined
 <2>4. queue.out_end = queue.in BY <1>0, <1>4 DEF Places
 <2> QED BY <1>1, <1>2, <1>3, <1>5, <1>7, <2>1, <2>2, <2>3, <2>4, TeamTokens
<1>9. DistInv'
 <2>1. \A v \in Vertex : dist'[v] >= 0 => dist'[v] = Delta[v] /\ dist'[v] <= depth'
   BY <1>0, <1>1, <1>6 DEF DistInv
 <2>2. \A v \in Vertex : Delta[v] \in 0 .. Ready' => dist'[v] = Delta[v]
   BY <1>0, <1>3, <1>4, <1>5, <1>6 DEF DistInv
 <2>3. Level(depth)' = {} BY <1>0, <1>1 DEF DistInv, Level
 <2> QED BY <1>1, <1>5, <1>6, <2>1, <2>2, <2>3 DEF DistInv
<1>10. RangeInv' BY <1>1, <1>2, <1>0, <1>4 DEF RangeInv, Pending, Joined
<1>11. PendingInv' /\ GatherInv' /\ EdgesInv' /\ BottomUpInv' /\ CompleteInv'
  BY <1>1 DEF PendingInv, Pending, GatherInv, EdgesInv, BottomUpInv, CompleteInv
<1>12. FrontInv'
 <2>1. \A v \in front' : dist'[v] \in 0 .. Ready'
  <3> TAKE v \in front'
  <3>1. v \in Vertex /\ dist[v] \in 0 .. depth BY <1>0, <1>1, <1>4 DEF FrontInv, TypeOK
  <3>2. dist'[v] = dist[v] BY <1>3, <1>6, <3>1
  <3> QED BY <1>5, <3>1, <3>2
 <2> QED BY <1>1, <2>1 DEF FrontInv
<1> QED BY <1>7, <1>8, <1>9, <1>10, <1>11, <1>12 DEF IInv

LEMMA NextInv ==
  ASSUME IInv, [Next]_vars
  PROVE  IInv'
<1>1. CASE UNCHANGED vars
 <2>1. /\ beta' = beta /\ dist' = dist /\ queue' = queue /\ front' = front /\ curr' = curr
       /\ depth' = depth /\ awake_count' = awake_count /\ loop' = loop /\ chunk' = chunk
       /\ my' = my
   BY <1>1 DEF vars
 <2>2. TypeOK' /\ DistInv'
   BY <2>1 DEF IInv, TypeOK, LabelsOf, DistInv, Ready, Building, QueueSize, Level
 <2>10. RangeInv'
   BY <2>1 DEF IInv, QueueSize, RangeInv, First, Length, PartStart, Pending, Pushing, U, V, Degree
 <2>3. \A v : New(v)' <=> New(v) BY <2>1 DEF New, Written, Reserved, Buffered
 <2>4. Places' /\ WrittenInv' /\ BuffersInv'
   BY <2>1 DEF IInv, Places, WrittenInv, BuffersInv, Pushing, Newest, Written, Reserved
 <2>5. PendingInv' BY <2>1, <2>3 DEF IInv, PendingInv, Pending, U, V
 <2>6. CompleteInv' BY <2>1, <2>3 DEF IInv, CompleteInv, Pending, U, V, Window
 <2>7. GatherInv' BY <2>1, <2>3 DEF IInv, GatherInv, Passed, PartStart
 <2>8. EdgesInv' /\ FrontInv'
   BY <2>1 DEF IInv, EdgesInv, ToDo, FrontInv, Left, Window, Ready, Building, Level, Degree
 <2>9. BottomUpInv' BY <2>1 DEF IInv, BottomUpInv, Scanning, Ahead, InWord, Level
 <2> QED BY <2>2, <2>4, <2>5, <2>6, <2>7, <2>8, <2>9, <2>10 DEF IInv
<1>2. CASE Next
  BY <1>1, <1>2, StepInv, TestQueueInv, AfterTopDownInv, AfterToBitmapInv, AfterBottomUpInv,
     AfterToQueueInv, ClearDegreesInv DEF Next, Exited
<1> QED BY <1>1, <1>2

(***************************************************************************)
(* The search keeps the invariant.                                         *)
(***************************************************************************)
THEOREM InvCorrect == Spec => []IInv
  BY InitInv, NextInv, PTL DEF Spec

-----------------------------------------------------------------------------
(***************************************************************************)
(* The window is the level, entry by entry.                                *)
(***************************************************************************)
LEMMA WindowExact ==
  ASSUME IInv, loop \in {"test", "td", "to_bitmap"}
  PROVE  /\ {queue.shared[p] : p \in Window} = Level(Ready)
         /\ Cardinality(Window) = Cardinality(Level(Ready))
<1>0. TypeOK /\ Places /\ DistInv /\ WrittenInv /\ CompleteInv /\ depth \in Nat BY DEF IInv, TypeOK
<1>1. \A p \in Window : p \in 0 .. queue.in - 1 /\ Written(p) /\ p >= queue.out_start
  BY <1>0, WindowIs
<1>2. \A p \in Window : queue.shared[p] \in Vertex /\ dist[queue.shared[p]] = Ready
 <2> TAKE p \in Window
 <2>1. CASE loop = "td" BY <1>0, <2>1, InWindow DEF CompleteInv, Ready, Building
 <2>2. CASE loop \in {"test", "to_bitmap"}
  <3>1. Newest = queue.out_start /\ Ready = depth BY <2>2 DEF Newest, Ready, Building
  <3> QED BY <1>0, <1>1, <3>1 DEF WrittenInv
 <2> QED BY <2>1, <2>2
<1>3. \A v \in Level(Ready) : \E p \in Window : queue.shared[p] = v
 <2> TAKE v \in Level(Ready)
 <2>1. v \in Vertex /\ Delta[v] = Ready BY DEF Level
 <2>2. Ready \in Nat BY <1>0 DEF Ready, DistInv
 <2>3. dist[v] = Ready BY <1>0, <2>1, <2>2 DEF DistInv
 <2> QED BY <1>0, <2>1, <2>3 DEF CompleteInv, Ready, Building
<1>4. \A p \in Window : queue.shared[p] \in Level(Ready)
 <2> TAKE p \in Window
 <2>1. dist[queue.shared[p]] >= 0 BY <1>0, InWindow
 <2> QED BY <1>0, <1>2, <2>1 DEF DistInv, Level
<1>5. \A p, q \in Window : queue.shared[p] = queue.shared[q] => p = q BY <1>0, <1>1 DEF WrittenInv
<1>6. {queue.shared[p] : p \in Window} = Level(Ready) BY <1>3, <1>4
<1> DEFINE w == Window
           l == Level(Ready)
           f == [p \in w |-> queue.shared[p]]
<1>7. f \in Bijection(w, l)
 <2>1. \A p \in w : f[p] = queue.shared[p] OBVIOUS
 <2>2. f \in [w -> l] BY <1>4
 <2>3. \A p, q \in w : f[p] = f[q] => p = q BY <1>5
 <2>4. \A v \in l : \E p \in w : f[p] = v BY <1>3
 <2> HIDE DEF w, l, f
 <2>5. DOMAIN f = w BY <2>2
 <2> QED BY <2>2, <2>3, <2>4, <2>5 DEF Bijection, Injection, Surjection, IsInjective
<1>8. IsFiniteSet(w)
 <2>1. w \subseteq 0 .. queue.in - 1 /\ queue.in \in Nat BY <1>0, <1>1, QueueTypes
 <2>2. IsFiniteSet(0 .. queue.in - 1) BY <2>1, FS_Interval
 <2> HIDE DEF w
 <2> QED BY <2>1, <2>2, FS_Subset
<1>9. Cardinality(w) = Cardinality(l)
 <2> HIDE DEF w, l, f
 <2>1. ExistsBijection(w, l) BY <1>7 DEF ExistsBijection
 <2> QED BY <1>8, <2>1, FS_Bijection
<1> QED BY <1>6, <1>9

(***************************************************************************)
(* Whatever structure holds the frontier holds all of its level, the queue *)
(* each vertex once, and no step is run on an empty level: DOBFS() loses no *)
(* vertex between the loops.                                               *)
(***************************************************************************)
THEOREM FrontierCorrect == Spec => []FrontierExact
<1>1. IInv => FrontierExact
 <2> SUFFICES ASSUME IInv PROVE FrontierExact OBVIOUS
 <2>0. DistInv /\ FrontInv /\ depth \in Nat BY DEF IInv, TypeOK
 <2>1. Ready = IF loop \in {"td", "bu"} THEN depth - 1 ELSE depth BY DEF Ready, Building
 <2>2. loop \in {"td", "bu"} => Level(Ready) # {} BY <2>0, <2>1 DEF DistInv, Building
 <2>3. ASSUME loop = "bu"
       PROVE  /\ Level(Ready) \subseteq front
              /\ \A u \in front \ Level(Ready) : \A v \in Neighbors(u) : dist[v] \in 0 .. Ready
  <3>1. Ready = depth - 1 /\ Ready \in Nat BY <2>0, <2>1, <2>3 DEF DistInv, Building
  <3>2. Level(Ready) \subseteq front BY <2>0, <2>3, <3>1 DEF FrontInv
  <3>3. ASSUME NEW u \in front \ Level(Ready), NEW v \in Neighbors(u) PROVE dist[v] \in 0 .. Ready
   <4>1. u \in Vertex /\ dist[u] \in 0 .. Ready BY <2>0, <3>3 DEF FrontInv, IInv, TypeOK
   <4>2. Delta[u] = dist[u] /\ Delta[u] # Ready BY <2>0, <3>3, <4>1 DEF DistInv, Level
   <4>3. v \in Vertex /\ Delta[v] \in 0 .. Delta[u] + 1
     BY <3>3, <4>1, <4>2, GraphTypes, DistanceAssumption DEF Unset
   <4>4. Delta[v] \in 0 .. Ready BY <3>1, <4>1, <4>2, <4>3
   <4> QED BY <2>0, <4>3, <4>4 DEF DistInv
  <3> QED BY <3>2, <3>3
 <2>4. loop \in {"test", "td", "to_bitmap"} =>
         /\ {queue.shared[p] : p \in Window} = Level(Ready)
         /\ Cardinality(Window) = Cardinality(Level(Ready))
   BY WindowExact
 <2> QED BY <2>1, <2>2, <2>3, <2>4 DEF FrontierExact
<1> QED BY <1>1, InvCorrect, PTL

(***************************************************************************)
(* The queue, which is never emptied, has room for every push, whichever   *)
(* of the steps found the vertex.                                          *)
(***************************************************************************)
THEOREM QueueCorrect == Spec => []QueueFits
<1>1. IInv => QueueFits
 <2> SUFFICES ASSUME IInv PROVE QueueFits OBVIOUS
 <2>1. queue.in <= N BY Fits DEF IInv
 <2>2. ASSUME loop = "test"
       PROVE  \A p, q \in 0 .. queue.in - 1 : queue.shared[p] = queue.shared[q] => p = q
  <3>1. ~Pushing /\ queue.in \in Nat BY <2>2, QueueTypes DEF Pushing, IInv
  <3>2. \A p \in 0 .. queue.in - 1 : Written(p) BY <3>1, Quiet DEF IInv
  <3> QED BY <3>2 DEF IInv, WrittenInv
 <2> QED BY <2>1, <2>2 DEF QueueFits
<1> QED BY <1>1, InvCorrect, PTL

-----------------------------------------------------------------------------
(***************************************************************************)
(* The refinement: the distances that have been found, and the call of the *)
(* team, which is over when no degree is left.                             *)
(***************************************************************************)
Found == [v \in Vertex |-> IF dist[v] < 0 THEN Unset ELSE dist[v]]
Over == IF loop = "returned" /\ \A v \in Vertex : dist[v] >= Unset THEN {0} ELSE {}

LEMMA CoveredIs ==
  ASSUME TypeOK, NEW x \in Vertex, \A v \in Neighbors(x) : dist[v] >= 0
  PROVE  Abstract!Covered(x)
<1> SUFFICES ASSUME NEW v \in Neighbors(x) PROVE Found[v] # Unset
  BY DEF Abstract!Covered, Abstract!Neighbors, Neighbors, Abstract!Unset, Unset, Found
<1>1. v \in Vertex /\ dist[v] >= 0 /\ dist[v] \in Int BY GraphTypes DEF TypeOK
<1> QED BY <1>1 DEF Found, Unset

\* The step that finds v is one of the level's: closer vertices have no neighbor to find.
LEMMA Discovers ==
  ASSUME IInv, Building, loop' = loop, NEW u \in Vertex, NEW v \in Neighbors(u),
         dist[u] = depth - 1, dist[v] < 0, dist' = [dist EXCEPT ![v] = depth]
  PROVE  Abstract!Discover(u, v) /\ v \in Vertex
<1>0. /\ TypeOK /\ DistInv /\ dist \in [Vertex -> Int] /\ depth \in Nat /\ depth >= 1
      /\ Ready = depth - 1
  BY DEF IInv, TypeOK, DistInv, Ready
<1>1. v \in Vertex BY GraphTypes
<1>2. Found[u] = depth - 1 /\ Found[u] # Unset /\ Found[v] = Unset BY <1>0, <1>1 DEF Found, Unset
<1>3. \A x \in Vertex : Found[x] \in 0 .. Found[u] - 1 => Abstract!Covered(x)
 <2> SUFFICES ASSUME NEW x \in Vertex, Found[x] \in 0 .. depth - 2 PROVE Abstract!Covered(x)
  <3>1. Found[u] - 1 = depth - 2 BY <1>0, <1>2
  <3> QED BY <3>1
 <2>1. dist[x] \in 0 .. depth - 2 BY <1>0 DEF Found, Unset
 <2>2. Delta[x] = dist[x] /\ Delta[x] # Unset /\ Delta[x] \in 0 .. depth - 2
   BY <1>0, <2>1 DEF DistInv, Unset
 <2>3. \A w \in Neighbors(x) : dist[w] >= 0
  <3> TAKE w \in Neighbors(x)
  <3>1. w \in Vertex /\ Delta[w] \in 0 .. Delta[x] + 1 BY <2>2, GraphTypes, DistanceAssumption
  <3>2. Delta[w] \in 0 .. depth - 1 BY <1>0, <2>2, <3>1
  <3>3. dist[w] = Delta[w] BY <1>0, <3>1, <3>2 DEF DistInv
  <3> QED BY <3>1, <3>3
 <2> QED BY <1>0, <2>3, CoveredIs
<1>4. Found' = [Found EXCEPT ![v] = Found[u] + 1]
 <2>1. \A w \in Vertex : dist'[w] = IF w = v THEN depth ELSE dist[w] BY <1>0, <1>1
 <2>2. \A w \in Vertex : Found'[w] = [Found EXCEPT ![v] = Found[u] + 1][w]
   BY <1>0, <1>1, <1>2, <2>1 DEF Found
 <2> QED BY <2>2 DEF Found
<1>5. Over' = Over BY DEF Over, Building
<1> QED
  BY <1>1, <1>2, <1>3, <1>4, <1>5 DEF Abstract!Discover, Abstract!Neighbors, Neighbors,
     Abstract!Unset, Unset, Found, Over

LEMMA StepRefines ==
  ASSUME IInv, NEW t \in Thread, Step(t)
  PROVE  \/ dist' = dist /\ loop' = loop
         \/ \E u, v \in Vertex : Abstract!Discover(u, v)
<1>0. TypeOK /\ RangeInv /\ loop' = loop BY StepFrame DEF IInv
<1>1. CASE CompareAndSwap(t)
 <2>1. loop = "td" /\ my[t].pc = "swap" /\ Building BY <1>1 DEF CompareAndSwap, At, Building
 <2>2. /\ U(t) \in Vertex /\ V(t) \in Vertex /\ V(t) \in Neighbors(U(t))
       /\ dist[U(t)] = depth - 1
   BY <2>1, EdgeOf
 <2>3. CASE Wins(t)
  <3>1. dist[V(t)] < 0 BY <1>0, <2>1, <2>3 DEF RangeInv, Wins
  <3>2. dist' = [dist EXCEPT ![V(t)] = depth] BY <1>1, <2>3 DEF CompareAndSwap
  <3>3. PICK u \in Vertex : u = U(t) BY <2>2
  <3>4. PICK v \in Vertex : v = V(t) BY <2>2
  <3>5. /\ v \in Neighbors(u) /\ dist[u] = depth - 1 /\ dist[v] < 0
        /\ dist' = [dist EXCEPT ![v] = depth]
    BY <2>2, <3>1, <3>2, <3>3, <3>4
  <3> QED BY <1>0, <2>1, <3>5, Discovers
 <2>4. CASE ~Wins(t) BY <1>0, <1>1, <2>4 DEF CompareAndSwap
 <2> QED BY <2>3, <2>4
<1>2. CASE TestVertex(t)
 <2>1. loop = "bu" /\ Building BY <1>2, TestVertexIs DEF Building
 <2>2. CASE dist' = dist BY <1>0, <2>2
 <2>3. CASE dist' # dist
  <3>1. PICK v \in Vertex : /\ dist[v] < 0 /\ dist' = [dist EXCEPT ![v] = depth]
                            /\ \E w \in Vertex : dist[w] = depth - 1 /\ v \in Neighbors(w)
    BY <1>2, <2>3, TestVertexIs
  <3>2. PICK w \in Vertex : dist[w] = depth - 1 /\ v \in Neighbors(w) BY <3>1
  <3> QED BY <1>0, <2>1, <3>1, <3>2, Discovers
 <2> QED BY <2>2, <2>3
<1>3. CASE ~CompareAndSwap(t) /\ ~TestVertex(t) BY <1>0, <1>3, StepWrites
<1> QED BY <1>1, <1>2, <1>3

\* Nothing is left to find when the search has come to an empty level.
LEMMA ClearDegreesRefines ==
  ASSUME IInv, ClearDegrees
  PROVE  Abstract!Finish(0)
<1>0. TypeOK /\ DistInv /\ dist \in [Vertex -> Int] /\ depth \in Nat BY DEF IInv, TypeOK
<1>1. /\ loop = "clear" /\ loop' = "returned"
      /\ dist' = [v \in Vertex |-> IF dist[v] < -1 THEN -1 ELSE dist[v]]
  BY DEF ClearDegrees
<1>2. \A v \in Vertex : dist'[v] >= Unset /\ (IF dist'[v] < 0 THEN Unset ELSE dist'[v]) = Found[v]
  BY <1>0, <1>1 DEF Found, Unset
<1>3. Found' = Found BY <1>2 DEF Found
<1>4. Over = {} /\ Over' = {0} BY <1>1, <1>2 DEF Over
<1>5. Level(depth) = {} /\ Ready = depth BY <1>0, <1>1 DEF DistInv, Ready, Building
<1>6. \A v \in Vertex : Delta[v] < depth BY <1>0, <1>5, NothingBeyond
<1>7. \A u \in Vertex : Found[u] # Unset => Abstract!Covered(u)
 <2> SUFFICES ASSUME NEW u \in Vertex, Found[u] # Unset PROVE Abstract!Covered(u) OBVIOUS
 <2>1. dist[u] >= 0 BY <1>0 DEF Found
 <2>2. Delta[u] = dist[u] /\ Delta[u] # Unset BY <1>0, <2>1 DEF DistInv, Unset
 <2>3. \A w \in Neighbors(u) : dist[w] >= 0
  <3> TAKE w \in Neighbors(u)
  <3>1. w \in Vertex /\ Delta[w] \in 0 .. Delta[u] + 1 BY <2>2, GraphTypes, DistanceAssumption
  <3>2. Delta[w] < depth /\ Delta[w] \in Int /\ Delta[w] >= 0 BY <1>6, <2>2, <3>1, GraphTypes
  <3>3. dist[w] = Delta[w] BY <1>0, <1>5, <3>1, <3>2 DEF DistInv
  <3> QED BY <3>2, <3>3
 <2> QED BY <1>0, <2>3, CoveredIs
<1> QED BY <1>3, <1>4, <1>7 DEF Abstract!Finish, Abstract!Unset, Unset, Found, Over

(***************************************************************************)
(* Every step of the direction-optimizing search is a step of LevelOrderBfs *)
(* or leaves the distances that have been found alone: whichever of its    *)
(* loops finds a vertex, in the order of the levels and once.              *)
(***************************************************************************)
THEOREM Refinement == Spec => ImplementsLevelOrder
<1>1. Init => Abstract!Init
 <2> SUFFICES ASSUME Init PROVE Abstract!Init OBVIOUS
 <2>1. \A v \in Vertex : (IF dist[v] < 0 THEN Unset ELSE dist[v]) = IF v = Root THEN 0 ELSE Unset
  <3> TAKE v \in Vertex
  <3>1. dist[v] \in Int /\ (dist[v] >= 0 <=> v = Root) /\ (v = Root => dist[v] = 0) BY InitDistances
  <3> QED BY <3>1
 <2>2. Found = [v \in Vertex |-> IF v = Root THEN 0 ELSE Unset] BY <2>1 DEF Found
 <2>3. Over = {} BY DEF Init, Over
 <2> QED BY <2>2, <2>3 DEF Abstract!Init, Abstract!Unset, Unset, Found, Over
<1>2. IInv /\ [Next]_vars => [Abstract!Next]_Abstract!vars
 <2> SUFFICES ASSUME IInv, [Next]_vars PROVE [Abstract!Next]_Abstract!vars OBVIOUS
 <2>1. ASSUME dist' = dist, loop' = loop \/ (loop # "returned" /\ loop' # "returned")
       PROVE  [Abstract!Next]_Abstract!vars
   BY <2>1 DEF Abstract!vars
 <2>2. ASSUME NEW t \in Thread, Step(t) PROVE [Abstract!Next]_Abstract!vars
   BY <2>1, <2>2, StepRefines DEF Abstract!Next
 <2>3. CASE TestQueue \/ AfterTopDown \/ AfterToBitmap \/ AfterBottomUp \/ AfterToQueue
  <3>1. dist' = dist /\ loop # "returned" /\ loop' # "returned"
    BY <2>3 DEF TestQueue, AfterTopDown, AfterToBitmap, AfterBottomUp, AfterToQueue, BottomUpStep
  <3> QED BY <2>1, <3>1
 <2>4. CASE ClearDegrees BY <2>4, ClearDegreesRefines DEF Abstract!Next
 <2>5. CASE UNCHANGED vars BY <2>1, <2>5 DEF vars
 <2> QED BY <2>2, <2>3, <2>4, <2>5 DEF Next, Exited
<1> QED BY <1>1, <1>2, InvCorrect, PTL DEF Spec, ImplementsLevelOrder, Abstract!Spec


-----------------------------------------------------------------------------
(***************************************************************************)
(* The other search that goes up and down the levels without buckets,      *)
(* WF_DO_BFS/wf-dir-2.cpp: WfDir2 with its inductive invariant WfDir2Inv,  *)
(* for every graph and every number of threads.  Its parameters are those  *)
(* of DirBfs and B, its dist and my are variables of the same name, and it *)
(* has five variables of its own.  Its threads never meet, so almost all   *)
(* of a step's proof is that what the others rely on stays true: Dir2Grows *)
(* says what only grows, Dir2Others that the parts of the invariant that   *)
(* speak of another thread survive that, and Dir2LocalStep that a step     *)
(* then only has to answer for its own thread.                             *)
(***************************************************************************)
CONSTANT B

VARIABLES a, vis, vis_forw, nodes, linked

Dir2 == INSTANCE WfDir2Inv

(***************************************************************************)
(* The parameters, and what the search ends with.                          *)
(***************************************************************************)
LEMMA Dir2Params ==
  /\ N \in Nat \ {0} /\ Vertex = 0 .. N - 1 /\ 0 \in Vertex /\ Root \in Vertex
  /\ NumT \in Nat \ {0} /\ Dir2!Thread = 0 .. NumT - 1 /\ NumT - 1 \in Dir2!Thread
  /\ 0 \in Dir2!Thread
  /\ MaxDelta \in Nat /\ Dir2!Depth = 0 .. MaxDelta + 1 /\ Dir2!Unset = -1
  BY DirAssumption, GraphAssumption DEF Dir2!Thread, Dir2!Depth, Dir2!Unset

LEMMA Dir2Names ==
  /\ Dir2!Unset = Unset
  /\ \A u : Dir2!Neighbors(u) = Neighbors(u)
  /\ \A d : Dir2!Level(d) = Level(d)
  /\ \A S : Dir2!Cardinality(S) = Cardinality(S)
<1>1. \A S : Dir2!Cardinality(S) = Cardinality(S) BY DEF Dir2!Cardinality, Cardinality
<1> QED BY <1>1 DEF Dir2!Unset, Unset, Dir2!Neighbors, Neighbors, Dir2!Level, Level

LEMMA Dir2GraphFacts ==
  /\ \A v \in Vertex : Delta[v] \in Int /\ Delta[v] >= -1 /\ Delta[v] <= MaxDelta
  /\ \A v \in Vertex : Delta[v] = 0 <=> v = Root
  /\ \A u \in Vertex : Dir2!Neighbors(u) \subseteq Vertex
  /\ \A u \in Vertex : \A v \in Dir2!Neighbors(u) : u \in Dir2!Neighbors(v)
  /\ \A u \in Vertex : Delta[u] # -1 => \A v \in Dir2!Neighbors(u) : Delta[v] >= 0 /\ Delta[v] <= Delta[u] + 1
  /\ \A v \in Vertex : Delta[v] > 0 =>
       \E u \in Vertex : Delta[u] = Delta[v] - 1 /\ v \in Dir2!Neighbors(u)
  /\ \A u \in Vertex : Dir2!Degree(u) \in Nat
  /\ \A u \in Vertex : \A p \in 1 .. Dir2!Degree(u) : adj[u][p] \in Dir2!Neighbors(u)
  /\ \A u \in Vertex : \A v \in Dir2!Neighbors(u) : \E p \in 1 .. Dir2!Degree(u) : v = adj[u][p]
<1>1. /\ \A v \in Vertex : Delta[v] \in Int /\ Delta[v] >= -1 /\ Delta[v] <= MaxDelta
      /\ \A u \in Vertex : Dir2!Neighbors(u) \subseteq Vertex
  BY GraphTypes, Dir2Names
<1>2. /\ \A u \in Vertex : \A p \in 1 .. Len(adj[u]) : adj[u][p] \in Dir2!Neighbors(u)
      /\ \A u \in Vertex : \A v \in Dir2!Neighbors(u) : \E p \in 1 .. Len(adj[u]) : v = adj[u][p]
  BY GraphTypes, Dir2Names
<1>3. \A u \in Vertex : Dir2!Degree(u) = Len(adj[u]) /\ Dir2!Degree(u) \in Nat
  BY GraphAssumption DEF Dir2!Degree
<1>4. \A u \in Vertex : Delta[u] # -1 => \A v \in Dir2!Neighbors(u) : Delta[v] >= 0 /\ Delta[v] <= Delta[u] + 1
 <2> TAKE u \in Vertex
 <2> HAVE Delta[u] # -1
 <2> TAKE v \in Dir2!Neighbors(u)
 <2>1. Delta[v] \in 0 .. Delta[u] + 1 BY DistanceAssumption, Dir2Names, Dir2Params
 <2> QED BY <1>1, <2>1
<1> QED BY <1>1, <1>2, <1>3, <1>4, DistanceAssumption, SymmetryAssumption, Dir2Names

LEMMA Dir2GoalFacts ==
  /\ \A v \in Vertex : Dir2!Goal[v] \in Int /\ Dir2!Goal[v] >= -1 /\ Dir2!Goal[v] <= MaxDelta
  /\ \A v \in Vertex : Dir2!Goal[v] = 0 <=> v = Root
  /\ Dir2!FirstIsBack => \A v \in Vertex : Dir2!Goal[v] \in {0, -1}
  /\ ~Dir2!FirstIsBack => Dir2!Goal = Delta
<1>1. CASE Dir2!FirstIsBack BY <1>1, Dir2Params DEF Dir2!Goal
<1>2. CASE ~Dir2!FirstIsBack BY <1>2, Dir2GraphFacts DEF Dir2!Goal
<1> QED BY <1>1, <1>2

\* The vertices at d are empty: there are none beyond.
LEMMA Dir2LastLevel ==
  ASSUME NEW d \in Nat, \A v \in Vertex : Dir2!Goal[v] # d
  PROVE  \A v \in Vertex : Dir2!Goal[v] < d
<1>1. CASE Dir2!FirstIsBack
 <2>1. Dir2!Goal[Root] = 0 /\ d # 0 BY Dir2GoalFacts, Dir2Params
 <2>2. ASSUME NEW v \in Vertex PROVE Dir2!Goal[v] < d
  <3>1. Dir2!Goal[v] = 0 \/ Dir2!Goal[v] = -1 BY <1>1, Dir2GoalFacts
  <3> QED BY <2>1, <3>1
 <2> QED BY <2>2
<1>2. CASE ~Dir2!FirstIsBack
 <2>1. Dir2!Goal = Delta /\ Dir2!Level(d) = {} BY <1>2, Dir2GoalFacts DEF Dir2!Level
 <2> QED BY <2>1, NothingBeyond, Dir2Names
<1> QED BY <1>1, <1>2

\* Every vertex is in the range of an owner.
LEMMA Dir2Ranges ==
  /\ \A w \in Dir2!Thread : Dir2!Owned(w) \subseteq Vertex
  /\ \A u \in Vertex : \E w \in Dir2!Thread : u \in Dir2!Owned(w)
<1> DEFINE q == N \div NumT
<1>1. q \in Nat /\ q * NumT <= N BY Dir2Params, Quotients
<1> HIDE DEF q
<1>2. \A w \in Dir2!Thread : Dir2!Owned(w) = q * w .. (IF w = NumT - 1 THEN N ELSE q * (w + 1)) - 1
  BY DEF Dir2!Owned, q
<1>3. ASSUME NEW w \in Dir2!Thread PROVE Dir2!Owned(w) \subseteq Vertex
 <2>1. w \in Nat /\ w + 1 \in Nat /\ w + 1 <= NumT /\ NumT \in Nat BY Dir2Params
 <2>2. (w + 1) * q <= NumT * q BY <1>1, <2>1, Mult
 <2>3. q * w \in Nat /\ q * (w + 1) \in Nat /\ q * (w + 1) = (w + 1) * q /\ NumT * q = q * NumT
   BY <1>1, <2>1
 <2>4. q * (w + 1) <= N BY <1>1, <2>2, <2>3, Dir2Params
 <2> QED BY <1>2, <2>3, <2>4, Dir2Params
<1>4. ASSUME NEW u \in Vertex PROVE \E w \in Dir2!Thread : u \in Dir2!Owned(w)
 <2>0. u \in Nat /\ u < N /\ NumT - 1 \in Nat /\ q * (NumT - 1) \in Nat BY <1>1, Dir2Params
 <2>1. CASE u >= q * (NumT - 1)
  <3>1. Dir2!Owned(NumT - 1) = q * (NumT - 1) .. N - 1 BY <1>2, Dir2Params
  <3> QED BY <2>0, <2>1, <3>1, Dir2Params
 <2>2. CASE u < q * (NumT - 1)
  <3>1. q # 0 BY <1>1, <2>0, <2>2
  <3> DEFINE w == u \div q
  <3>2. w \in Nat /\ w * q <= u /\ u < w * q + q BY <1>1, <2>0, <3>1, Quotients
  <3> HIDE DEF w
  <3>3. w < NumT - 1
   <4> SUFFICES ASSUME NumT - 1 <= w PROVE FALSE BY <2>0, <3>2
   <4>1. (NumT - 1) * q <= w * q BY <1>1, <2>0, <3>2, Mult
   <4>2. (NumT - 1) * q = q * (NumT - 1) /\ w * q \in Nat BY <1>1, <2>0, <3>2
   <4> QED BY <2>0, <2>2, <3>2, <4>1, <4>2
  <3>4. w \in Dir2!Thread /\ w # NumT - 1 BY <3>2, <3>3, Dir2Params
  <3>5. q * w = w * q /\ q * (w + 1) = w * q + q /\ w * q \in Nat BY <1>1, <3>2
  <3>6. Dir2!Owned(w) = q * w .. q * (w + 1) - 1 BY <1>2, <3>4
  <3>7. u \in Dir2!Owned(w) BY <1>1, <2>0, <3>2, <3>5, <3>6
  <3> QED BY <3>4, <3>7
 <2> QED BY <2>0, <2>1, <2>2
<1> QED BY <1>3, <1>4

-----------------------------------------------------------------------------
(***************************************************************************)
(* What the threads add up.                                                *)
(***************************************************************************)

\* f goes from b up or down by the values of c.
Dir2Sums(f, n, b, c, down) ==
  \A i \in 0 .. n :
    f[i] = IF i = 0 THEN b ELSE IF down THEN f[i - 1] - c[i - 1] ELSE f[i - 1] + c[i - 1]

LEMMA Dir2SumsExist ==
  ASSUME NEW n \in Nat, NEW b, NEW c, NEW down \in BOOLEAN
  PROVE  \E f : Dir2Sums(f, n, b, c, down)
<1> DEFINE Next_(x, i) == IF down THEN x - c[i] ELSE x + c[i]
           Upward(f, m) == \A i \in 0 .. m : f[i] = IF i = 0 THEN b ELSE Next_(f[i - 1], i - 1)
           Exists(m) == \E f : Upward(f, m)
           Bad == {m \in Nat : ~Exists(m)}
<1>1. Exists(0)
 <2>1. Upward([i \in 0 .. 0 |-> b], 0) OBVIOUS
 <2> QED BY <2>1
<1> HIDE DEF Next_
<1>2. ASSUME NEW m \in Nat, m # 0, Exists(m - 1) PROVE Exists(m)
 <2>1. PICK f : Upward(f, m - 1) BY <1>2
 <2> DEFINE g == [i \in 0 .. m |-> IF i = m THEN Next_(f[m - 1], m - 1) ELSE f[i]]
 <2>2. ASSUME NEW i \in 0 .. m PROVE g[i] = IF i = 0 THEN b ELSE Next_(g[i - 1], i - 1)
  <3>1. CASE i = m
   <4>1. g[i] = Next_(f[m - 1], m - 1) /\ g[i - 1] = f[m - 1] BY <1>2, <3>1
   <4> QED BY <1>2, <3>1, <4>1
  <3>2. CASE i # m
   <4>1. i \in 0 .. m - 1 /\ (i # 0 => i - 1 \in 0 .. m /\ i - 1 # m) BY <1>2, <3>2
   <4>2. g[i] = f[i] /\ (i # 0 => g[i - 1] = f[i - 1]) BY <3>2, <4>1
   <4> QED BY <2>1, <4>1, <4>2
  <3> QED BY <3>1, <3>2
 <2> HIDE DEF g
 <2> QED BY <2>2
<1> HIDE DEF Upward, Exists
<1>3. Bad = {}
 <2> SUFFICES ASSUME Bad # {} PROVE FALSE OBVIOUS
 <2>1. PICK m \in Bad : \A k \in Bad : m <= k BY Least
 <2>2. m \in Nat /\ ~Exists(m) /\ m # 0 BY <1>1, <2>1
 <2>3. m - 1 \in Nat /\ ~(m <= m - 1) BY <2>2
 <2>4. Exists(m - 1) BY <2>1, <2>3
 <2> QED BY <1>2, <2>2, <2>4
<1>4. PICK f : Upward(f, n) BY <1>3 DEF Exists
<1> QED BY <1>4 DEF Upward, Next_, Dir2Sums

LEMMA Dir2RunningFacts ==
  ASSUME NEW c
  PROVE  /\ Dir2!Running(c)[0] = 0
         /\ \A i \in 0 .. NumT - 1 : Dir2!Running(c)[i + 1] = Dir2!Running(c)[i] + c[i]
<1> DEFINE Eq(f) == f = [i \in 0 .. NumT |-> IF i = 0 THEN 0 ELSE f[i - 1] + c[i - 1]]
<1>1. \E f : Eq(f)
 <2>1. NumT \in Nat BY Dir2Params
 <2>2. PICK f : Dir2Sums(f, NumT, 0, c, FALSE) BY <2>1, Dir2SumsExist
 <2>3. \A i \in 0 .. NumT : f[i] = IF i = 0 THEN 0 ELSE f[i - 1] + c[i - 1] BY <2>2 DEF Dir2Sums
 <2> DEFINE g == [i \in 0 .. NumT |-> f[i]]
 <2>4. ASSUME NEW i \in 0 .. NumT PROVE g[i] = IF i = 0 THEN 0 ELSE g[i - 1] + c[i - 1]
  <3>1. g[i] = f[i] /\ (i # 0 => g[i - 1] = f[i - 1]) BY Dir2Params
  <3> QED BY <2>3, <3>1
 <2>5. g = [i \in 0 .. NumT |-> g[i]] OBVIOUS
 <2> HIDE DEF g
 <2>6. Eq(g) BY <2>4, <2>5
 <2> QED BY <2>6
<1>2. Dir2!Running(c) = CHOOSE f : Eq(f) BY DEF Dir2!Running
<1>3. Eq(Dir2!Running(c))
 <2> HIDE DEF Eq
 <2> QED BY <1>1, <1>2
<1> DEFINE r == Dir2!Running(c)
<1>4. r = [i \in 0 .. NumT |-> IF i = 0 THEN 0 ELSE r[i - 1] + c[i - 1]] BY <1>3
<1> HIDE DEF r
<1>5. \A i \in 0 .. NumT : r[i] = IF i = 0 THEN 0 ELSE r[i - 1] + c[i - 1] BY <1>4
<1>6. r[0] = 0 BY <1>5, Dir2Params
<1>7. ASSUME NEW i \in 0 .. NumT - 1 PROVE r[i + 1] = r[i] + c[i]
 <2>1. i + 1 \in 0 .. NumT /\ i + 1 # 0 /\ (i + 1) - 1 = i BY Dir2Params
 <2> QED BY <1>5, <2>1
<1> QED BY <1>6, <1>7 DEF r

LEMMA Dir2RemainingFacts ==
  ASSUME NEW g
  PROVE  /\ Dir2!Remaining(g)[0] = Dir2!Twice_M
         /\ \A d \in Dir2!Depth : Dir2!Remaining(g)[d + 1] = Dir2!Remaining(g)[d] - Dir2!EdgesAt(g, d)
<1> DEFINE c == [d \in Dir2!Depth |-> Dir2!EdgesAt(g, d)]
           Eq(f) == f = [d \in 0 .. MaxDelta + 2 |-> IF d = 0 THEN Dir2!Twice_M ELSE f[d - 1] - Dir2!EdgesAt(g, d - 1)]
<1>1. \E f : Eq(f)
 <2> HIDE DEF c
 <2>a. MaxDelta + 2 \in Nat BY Dir2Params
 <2>b. PICK f : Dir2Sums(f, MaxDelta + 2, Dir2!Twice_M, c, TRUE) BY <2>a, Dir2SumsExist
 <2>1. \A d \in 0 .. MaxDelta + 2 : f[d] = IF d = 0 THEN Dir2!Twice_M ELSE f[d - 1] - c[d - 1]
   BY <2>b DEF Dir2Sums
 <2>2. \A d \in 0 .. MaxDelta + 2 : d # 0 => c[d - 1] = Dir2!EdgesAt(g, d - 1) BY Dir2Params DEF c
 <2> DEFINE h == [d \in 0 .. MaxDelta + 2 |-> f[d]]
 <2>4. ASSUME NEW d \in 0 .. MaxDelta + 2
       PROVE  h[d] = IF d = 0 THEN Dir2!Twice_M ELSE h[d - 1] - Dir2!EdgesAt(g, d - 1)
  <3>1. h[d] = f[d] /\ (d # 0 => h[d - 1] = f[d - 1]) BY Dir2Params
  <3> QED BY <2>1, <2>2, <3>1
 <2>5. h = [d \in 0 .. MaxDelta + 2 |-> h[d]] OBVIOUS
 <2> HIDE DEF h
 <2>6. Eq(h) BY <2>4, <2>5
 <2> QED BY <2>6
<1>2. Dir2!Remaining(g) = CHOOSE f : Eq(f) BY DEF Dir2!Remaining
<1>3. Eq(Dir2!Remaining(g))
 <2> HIDE DEF Eq
 <2> QED BY <1>1, <1>2
<1> DEFINE r == Dir2!Remaining(g)
<1>4. r = [d \in 0 .. MaxDelta + 2 |-> IF d = 0 THEN Dir2!Twice_M ELSE r[d - 1] - Dir2!EdgesAt(g, d - 1)]
  BY <1>3
<1> HIDE DEF r
<1>5. \A d \in 0 .. MaxDelta + 2 : r[d] = IF d = 0 THEN Dir2!Twice_M ELSE r[d - 1] - Dir2!EdgesAt(g, d - 1)
  BY <1>4
<1>6. r[0] = Dir2!Twice_M BY <1>5, Dir2Params
<1>7. ASSUME NEW d \in Dir2!Depth PROVE r[d + 1] = r[d] - Dir2!EdgesAt(g, d)
 <2>1. d + 1 \in 0 .. MaxDelta + 2 /\ d + 1 # 0 /\ (d + 1) - 1 = d BY Dir2Params
 <2> QED BY <1>5, <2>1
<1> QED BY <1>6, <1>7 DEF r

\* The counts of the head add up to what FirstIsBack says.
LEMMA Dir2HeadSums == Dir2!BackAt(0) = Dir2!FirstIsBack
<1> DEFINE e == Dir2!Edges(Dir2!Goal, 0)
           n == Dir2!Nodes(Dir2!Goal, 0)
           Sum_(x, i) == IF i = 0 THEN 0 ELSE x - (i - 1)
           Bad == {i \in 0 .. NumT : Dir2!Running(e)[i] # Sum_(Dir2!Degree(0), i) \/ Dir2!Running(n)[i] # Sum_(1, i)}
<1>0. Dir2!Degree(0) \in Nat BY Dir2GraphFacts, Dir2Params
<1>1. \A w \in Dir2!Thread : e[w] = (IF w = 0 THEN Dir2!Degree(0) ELSE -1) /\ n[w] = (IF w = 0 THEN 1 ELSE -1)
  BY DEF Dir2!Edges, Dir2!Nodes, Dir2!HeadNode
<1> HIDE DEF e, n
<1>2. /\ Dir2!Running(e)[0] = 0
      /\ \A i \in 0 .. NumT - 1 : Dir2!Running(e)[i + 1] = Dir2!Running(e)[i] + e[i]
      /\ Dir2!Running(n)[0] = 0
      /\ \A i \in 0 .. NumT - 1 : Dir2!Running(n)[i + 1] = Dir2!Running(n)[i] + n[i]
  BY Dir2RunningFacts
<1>3. Bad = {}
 <2> SUFFICES ASSUME Bad # {} PROVE FALSE OBVIOUS
 <2>1. Bad \in SUBSET Nat BY Dir2Params
 <2>2. PICK m \in Bad : \A k \in Bad : m <= k BY <2>1, Least
 <2>3. m # 0 /\ m - 1 \in 0 .. NumT - 1 /\ m - 1 \in Dir2!Thread /\ (m - 1) + 1 = m
   BY <1>2, <2>2, Dir2Params
 <2>4. m - 1 \notin Bad /\ m - 1 \in 0 .. NumT BY <2>2, <2>3, Dir2Params
 <2> DEFINE k == m - 1
 <2>5. Dir2!Running(e)[k] = Sum_(Dir2!Degree(0), k) /\ Dir2!Running(n)[k] = Sum_(1, k) BY <2>4
 <2>6. /\ Dir2!Running(e)[m] = Dir2!Running(e)[k] + e[k]
       /\ Dir2!Running(n)[m] = Dir2!Running(n)[k] + n[k]
   BY <1>2, <2>3
 <2>7. k \in Nat /\ k + 1 = m /\ k \in Dir2!Thread BY <2>3, Dir2Params
 <2>8. e[k] = (IF k = 0 THEN Dir2!Degree(0) ELSE -1) /\ n[k] = (IF k = 0 THEN 1 ELSE -1)
   BY <1>1, <2>7
 <2> HIDE DEF k
 <2>9. Dir2!Running(e)[m] = Sum_(Dir2!Degree(0), m) /\ Dir2!Running(n)[m] = Sum_(1, m)
   BY <1>0, <2>5, <2>6, <2>7, <2>8
 <2> QED BY <2>2, <2>9
<1>4. /\ Dir2!Running(e)[NumT] = Dir2!Degree(0) - (NumT - 1)
      /\ Dir2!Running(n)[NumT] = 1 - (NumT - 1)
 <2>1. NumT \in 0 .. NumT /\ NumT # 0 BY Dir2Params
 <2> QED BY <1>3, <2>1
<1>5. Dir2!Remaining(Dir2!Goal)[0 + 1] = Dir2!Twice_M - Dir2!EdgesAt(Dir2!Goal, 0)
 <2>1. /\ Dir2!Remaining(Dir2!Goal)[0] = Dir2!Twice_M
       /\ Dir2!Remaining(Dir2!Goal)[0 + 1] = Dir2!Remaining(Dir2!Goal)[0] - Dir2!EdgesAt(Dir2!Goal, 0)
   BY Dir2RemainingFacts, Dir2Params
 <2> QED BY <2>1
<1>6. /\ Dir2!EdgesAt(Dir2!Goal, 0) = Dir2!Degree(0) - (NumT - 1)
      /\ Dir2!NodesAt(Dir2!Goal, 0) = 1 - (NumT - 1)
  BY <1>4 DEF Dir2!EdgesAt, Dir2!NodesAt, e, n
<1> QED BY <1>5, <1>6 DEF Dir2!BackAt, Dir2!FirstIsBack

\* A level is empty when all of its counts are 0.
LEMMA Dir2CountsTell ==
  ASSUME NEW d \in Dir2!Depth, \A w \in Dir2!Thread : Dir2!Nodes(Dir2!Goal, d)[w] = 0
  PROVE  d # 0 /\ \A v \in Vertex : Dir2!Goal[v] # d
<1>1. d # 0 BY Dir2Params DEF Dir2!Nodes, Dir2!HeadNode
<1>2. \A w \in Dir2!Thread : Dir2!Cardinality(Dir2!InRange(Dir2!Goal, d, w)) = 0
  BY <1>1 DEF Dir2!Nodes
<1>3. ASSUME NEW w \in Dir2!Thread PROVE Dir2!InRange(Dir2!Goal, d, w) = {}
 <2>1. IsFiniteSet(0 .. N - 1) BY Dir2Params, FS_Interval
 <2>2. Dir2!InRange(Dir2!Goal, d, w) \subseteq 0 .. N - 1 BY Dir2Ranges, Dir2Params DEF Dir2!InRange
 <2>3. IsFiniteSet(Dir2!InRange(Dir2!Goal, d, w)) BY <2>1, <2>2, FS_Subset
 <2> QED BY <1>2, <2>3, FS_EmptySet, Dir2Names
<1> QED BY <1>1, <1>3, Dir2Ranges DEF Dir2!InRange

LEMMA Dir2CountsShow ==
  ASSUME NEW d \in Dir2!Depth, NEW w \in Dir2!Thread, Dir2!Nodes(Dir2!Goal, d)[w] # 0
  PROVE  d = 0 \/ \E v \in Vertex : Dir2!Goal[v] = d
<1> SUFFICES ASSUME d # 0 PROVE \E v \in Vertex : Dir2!Goal[v] = d OBVIOUS
<1>1. Dir2!Cardinality(Dir2!InRange(Dir2!Goal, d, w)) # 0 BY DEF Dir2!Nodes
<1>2. Dir2!InRange(Dir2!Goal, d, w) # {} BY <1>1, FS_EmptySet, Dir2Names
<1> QED BY <1>2, Dir2Ranges DEF Dir2!InRange

-----------------------------------------------------------------------------
(***************************************************************************)
(* The rounds of a thread, and a step towards the next.                    *)
(***************************************************************************)
LEMMA Dir2RingNext ==
  ASSUME NEW w \in Dir2!Thread
  PROVE  (w + 1) % NumT = (IF w + 1 < NumT THEN w + 1 ELSE 0) /\ (w + 1) % NumT \in Dir2!Thread
  BY Dir2Params DEF Dir2!Thread

LEMMA Dir2TurnNext ==
  ASSUME NEW t \in Dir2!Thread, NEW k \in Dir2!Thread
  PROVE  /\ Dir2!Turn(t, k) \in Dir2!Thread
         /\ k + 1 < NumT => Dir2!Turn(t, k + 1) = (Dir2!Turn(t, k) + 1) % NumT
         /\ k + 1 = NumT => (Dir2!Turn(t, k) + 1) % NumT = t
         /\ Dir2!Turn(t, 0) = t
<1>1. t \in Nat /\ t < NumT /\ k \in Nat /\ k < NumT /\ NumT \in Nat \ {0} BY Dir2Params
<1>2. Dir2!Turn(t, k) \in Dir2!Thread BY <1>1 DEF Dir2!Turn, Dir2!Thread
<1>3. (Dir2!Turn(t, k) + 1) % NumT = IF Dir2!Turn(t, k) + 1 < NumT THEN Dir2!Turn(t, k) + 1 ELSE 0
  BY <1>2, Dir2RingNext
<1>4. k + 1 < NumT => Dir2!Turn(t, k + 1) = IF Dir2!Turn(t, k) + 1 < NumT THEN Dir2!Turn(t, k) + 1 ELSE 0
  BY <1>1 DEF Dir2!Turn
<1>5. k + 1 = NumT => t = IF Dir2!Turn(t, k) + 1 < NumT THEN Dir2!Turn(t, k) + 1 ELSE 0
  BY <1>1 DEF Dir2!Turn
<1>6. Dir2!Turn(t, 0) = t BY <1>1 DEF Dir2!Turn
<1> QED BY <1>2, <1>3, <1>4, <1>5, <1>6

\* In NumT rounds a thread comes by every owner.
LEMMA Dir2AllTurns ==
  ASSUME NEW t \in Dir2!Thread, NEW w \in Dir2!Thread
  PROVE  \E k \in Dir2!Thread : w = Dir2!Turn(t, k)
<1>1. t \in Nat /\ t < NumT /\ w \in Nat /\ w < NumT /\ NumT \in Nat BY Dir2Params
<1>2. CASE w >= t
 <2>1. w - t \in Dir2!Thread /\ w = Dir2!Turn(t, w - t) BY <1>1, <1>2 DEF Dir2!Turn, Dir2!Thread
 <2> QED BY <2>1
<1>3. CASE w < t
 <2>1. w - t + NumT \in Dir2!Thread /\ w = Dir2!Turn(t, w - t + NumT)
   BY <1>1, <1>3 DEF Dir2!Turn, Dir2!Thread
 <2> QED BY <2>1
<1> QED BY <1>1, <1>2, <1>3

-----------------------------------------------------------------------------
(***************************************************************************)
(* What memory shows stays true: distances are set once, nodes are linked  *)
(* for good, and counts that are there are only written again.             *)
(***************************************************************************)
Dir2Grows ==
  /\ a' = a
  /\ \A v \in Vertex : dist'[v] \in {Dir2!Unset, Dir2!Goal[v]} /\ (dist[v] # Dir2!Unset => dist'[v] = dist[v])
  /\ \A d \in Dir2!Depth : linked[d] => linked'[d]
  /\ \A d \in Dir2!Depth : \A w \in Dir2!Thread : Dir2!Counted(d, w) => Dir2!Counted(d, w)'

LEMMA Dir2Rigid ==
  ASSUME a' = a
  PROVE  /\ Dir2!Goal' = Dir2!Goal /\ Dir2!FirstIsBack' = Dir2!FirstIsBack
         /\ \A d : Dir2!BackAt(d)' = Dir2!BackAt(d)
<1>1. \A x, y, z : Dir2!Back(x, y, z)' = Dir2!Back(x, y, z) BY DEF Dir2!Back
<1>2. Dir2!FirstIsBack' = Dir2!FirstIsBack BY <1>1 DEF Dir2!FirstIsBack
<1>3. Dir2!Goal' = Dir2!Goal BY <1>2 DEF Dir2!Goal
<1>4. ASSUME NEW d PROVE Dir2!BackAt(d)' = Dir2!BackAt(d) BY <1>1, <1>3 DEF Dir2!BackAt
<1> QED BY <1>2, <1>3, <1>4

LEMMA Dir2Monotone ==
  ASSUME Dir2!DistSound, Dir2Grows
  PROVE  /\ Dir2!DistSound'
         /\ \A d \in Int : Dir2!Complete(d) => Dir2!Complete(d)'
         /\ \A d \in Int : \A u \in Vertex :
              /\ Dir2!HandledForward(d, u) => Dir2!HandledForward(d, u)'
              /\ Dir2!HandledBack(d, u) => Dir2!HandledBack(d, u)'
              /\ Dir2!Handled(d, u) => Dir2!Handled(d, u)'
         /\ \A d \in Int : \A w \in Dir2!Thread : Dir2!HandledRange(d, w) => Dir2!HandledRange(d, w)'
<1>1. Dir2!Goal' = Dir2!Goal /\ \A d : Dir2!BackAt(d)' = Dir2!BackAt(d) BY Dir2Rigid DEF Dir2Grows
<1>2. Dir2!DistSound' BY <1>1 DEF Dir2!DistSound, Dir2Grows
<1>3. \A v \in Vertex : dist[v] # Dir2!Unset => dist'[v] # Dir2!Unset /\ dist'[v] = dist[v]
  BY DEF Dir2Grows
<1>4. ASSUME NEW d \in Int, Dir2!Complete(d) PROVE Dir2!Complete(d)'
 <2> SUFFICES ASSUME NEW v \in Vertex, Dir2!Goal[v] \in 0 .. d PROVE dist'[v] = Dir2!Goal[v]
   BY <1>1 DEF Dir2!Complete
 <2>1. dist[v] = Dir2!Goal[v] /\ Dir2!Goal[v] # Dir2!Unset BY <1>4, Dir2Params DEF Dir2!Complete
 <2> QED BY <1>3, <2>1
<1>5. ASSUME NEW d \in Int, NEW u \in Vertex
      PROVE  /\ Dir2!HandledForward(d, u) => Dir2!HandledForward(d, u)'
             /\ Dir2!HandledBack(d, u) => Dir2!HandledBack(d, u)'
  BY <1>1, <1>3, Dir2GraphFacts DEF Dir2!HandledForward, Dir2!HandledBack
<1>6. ASSUME NEW d \in Int, NEW u \in Vertex, Dir2!Handled(d, u) PROVE Dir2!Handled(d, u)'
  BY <1>1, <1>5, <1>6 DEF Dir2!Handled
<1>7. ASSUME NEW d \in Int, NEW w \in Dir2!Thread, Dir2!HandledRange(d, w)
      PROVE  Dir2!HandledRange(d, w)'
  BY <1>6, <1>7, Dir2Ranges DEF Dir2!HandledRange
<1> QED BY <1>2, <1>4, <1>5, <1>6, <1>7

-----------------------------------------------------------------------------
LEMMA Dir2ThreadFields ==
  ASSUME NEW t \in Dir2!Thread, Dir2!Shape
  PROVE  /\ my[t] \in Dir2!ThreadShape
         /\ my[t].pc \in Dir2!Labels /\ my[t].depth \in Dir2!Depth /\ my[t].depth \in Nat
         /\ my[t].work_on \in Dir2!Thread /\ my[t].turn \in Dir2!Thread /\ my[t].turn \in Nat
         /\ my[t].next_is_null \in BOOLEAN /\ my[t].imp \in BOOLEAN /\ my[t].back \in BOOLEAN
         /\ my[t].todo \subseteq Vertex /\ my[t].u \in Vertex /\ my[t].j \in Nat
         /\ my[t].word \subseteq Dir2!Thread
<1>1. my[t] \in Dir2!ThreadShape BY DEF Dir2!Shape
<1> QED BY <1>1, Dir2Params DEF Dir2!ThreadShape

(***************************************************************************)
(* A thread stays where it is in a step of another.                        *)
(***************************************************************************)
LEMMA Dir2Others ==
  ASSUME Dir2!IInv, Dir2Grows, NEW s \in Dir2!Thread, my'[s] = my[s]
  PROVE  /\ Dir2!Rounds(s)' /\ Dir2!Summing(s)' /\ Dir2!Counts(s)' /\ Dir2!Directed(s)'
         /\ Dir2!Walks(s)' /\ Dir2!View(s)'
<1> DEFINE d == my[s].depth
<1>1. /\ Dir2!Goal' = Dir2!Goal /\ Dir2!FirstIsBack' = Dir2!FirstIsBack
      /\ \A x : Dir2!BackAt(x)' = Dir2!BackAt(x)
  BY Dir2Rigid DEF Dir2Grows
<1>2. /\ Dir2!Rounds(s) /\ Dir2!Summing(s) /\ Dir2!Counts(s) /\ Dir2!Directed(s) /\ Dir2!Walks(s)
      /\ Dir2!View(s)
      /\ Dir2!DistSound /\ Dir2!Shape
  BY DEF Dir2!IInv
<1>3. /\ d \in Dir2!Depth /\ d \in Nat /\ d + 1 \in Nat /\ my[s].turn \in Dir2!Thread
      /\ my[s].work_on \in Dir2!Thread
      /\ my[s].todo \subseteq Vertex /\ my[s].u \in Vertex /\ my[s].word \subseteq Dir2!Thread
  BY <1>2, Dir2ThreadFields
<1>4. Dir2!Passed(s)' = Dir2!Passed(s) /\ Dir2!Passed(s) \subseteq Dir2!Thread
 <2>1. Dir2!Passed(s)' = Dir2!Passed(s) BY DEF Dir2!Passed
 <2>2. \A k \in 0 .. my[s].turn - 1 : k \in Dir2!Thread BY <1>3, Dir2Params
 <2> QED BY <2>1, <2>2, Dir2TurnNext DEF Dir2!Passed
<1>5. \A w \in Dir2!Thread : Dir2!Counted(d, w) => Dir2!Counted(d, w)' BY <1>3 DEF Dir2Grows
<1>6. /\ Dir2!Complete(d) => Dir2!Complete(d)'
      /\ Dir2!Complete(d + 1) => Dir2!Complete(d + 1)'
      /\ \A u \in Vertex : Dir2!Handled(d, u) => Dir2!Handled(d, u)'
      /\ \A w \in Dir2!Thread : Dir2!HandledRange(d, w) => Dir2!HandledRange(d, w)'
  BY <1>2, <1>3, Dir2Monotone
<1>7. \A v \in Vertex : dist[v] # Dir2!Unset => dist'[v] # Dir2!Unset BY DEF Dir2Grows
<1>8. Dir2!Rounds(s)' BY <1>2 DEF Dir2!Rounds
<1>9. Dir2!Summing(s)' BY <1>1, <1>2, <1>5 DEF Dir2!Summing
<1>10. Dir2!Counts(s)'
 <2>1. (d > 0 /\ \A w \in Dir2!Passed(s) : Dir2!Counted(d, w)) => \A w \in Dir2!Passed(s)' : Dir2!Counted(d, w)'
   BY <1>4, <1>5
 <2>2. Dir2!Counted(d, my[s].work_on) => Dir2!Counted(d, my[s].work_on)' BY <1>3, <1>5
 <2>3. (\A w \in my[s].word : Dir2!Counted(d, w)) => \A w \in my[s].word : Dir2!Counted(d, w)'
   BY <1>3, <1>5
 <2> QED BY <1>1, <1>2, <2>1, <2>2, <2>3 DEF Dir2!Counts
<1>11. Dir2!Directed(s)' BY <1>1, <1>2 DEF Dir2!Directed
<1>12. Dir2!Walks(s)'
 <2>1. /\ Dir2!Scanning \subseteq Dir2!InLevel /\ "write_done" \in Dir2!Scanning
       /\ "link" \in Dir2!InLevel
   BY DEF Dir2!Scanning, Dir2!InLevel
 <2>2. my[s].pc \in Dir2!InLevel \cup {"next"} => (linked[d + 1] => linked'[d + 1])
  <3>1. my[s].pc \in Dir2!InLevel \cup {"next"} => d <= MaxDelta BY <1>2 DEF Dir2!Directed
  <3>2. d <= MaxDelta => d + 1 \in Dir2!Depth BY <1>3, Dir2Params
  <3>3. \A x \in Dir2!Depth : linked[x] => linked'[x] BY DEF Dir2Grows
  <3> QED BY <3>1, <3>2, <3>3
 <2>3. \A x \in Dir2!Passed(s) : Dir2!HandledRange(d, x) => Dir2!HandledRange(d, x)' BY <1>4, <1>6
 <2>4. \A x \in Dir2!Owned(my[s].work_on) \ my[s].todo : Dir2!Handled(d, x) => Dir2!Handled(d, x)'
   BY <1>3, <1>6, Dir2Ranges
 <2>5. my[s].pc = "write_done" => 
       \A x \in my[s].word : (linked[d + 1] /\ Dir2!HandledRange(d, x)) => (linked'[d + 1] /\ Dir2!HandledRange(d, x)')
   BY <1>3, <1>6, <2>1, <2>2
 <2>a. my[s].pc \in {"sum"} \cup Dir2!Counting => my[s].next_is_null BY <1>2 DEF Dir2!Walks
 <2>6. Dir2!Complete(d)' /\ (my[s].pc = "next" => linked'[d + 1] /\ Dir2!Complete(d + 1)')
   BY <1>2, <1>6, <2>2 DEF Dir2!Walks
 <2>7. my[s].pc \in Dir2!InLevel => (\A x \in Dir2!Passed(s)' : Dir2!HandledRange(d, x)') /\ (~my[s].next_is_null => linked'[d + 1])
   BY <1>2, <1>4, <2>2, <2>3 DEF Dir2!Walks
 <2>8. my[s].pc \in Dir2!Scanning =>
         /\ linked'[d + 1]
         /\ my[s].todo \subseteq Dir2!Owned(my[s].work_on)
         /\ \A x \in Dir2!Owned(my[s].work_on) \ my[s].todo : Dir2!Handled(d, x)' \/ (x = my[s].u /\ my[s].pc \in Dir2!AtVertex)
   BY <1>2, <2>1, <2>2, <2>4 DEF Dir2!Walks
 <2>9. /\ my[s].pc = "link" => my[s].todo = Dir2!Owned(my[s].work_on)
       /\ my[s].pc = "write_done" =>
            my[s].todo = {} /\ \A x \in my[s].word : linked'[d + 1] /\ Dir2!HandledRange(d, x)'
   BY <1>2, <2>5 DEF Dir2!Walks
 <2> QED BY <2>a, <2>6, <2>7, <2>8, <2>9 DEF Dir2!Walks
<1>13. Dir2!View(s)'
 <2>1. Dir2!V(s)' = Dir2!V(s) BY DEF Dir2!V
 <2>2. my[s].pc \in {"neighbor", "found"} => my[s].pc \in Dir2!AtNeighbor BY DEF Dir2!AtNeighbor
 <2>3. my[s].pc \in {"neighbor", "found"} =>
         \A k \in 1 .. my[s].j - 1 : dist[adj[my[s].u][k]] # Dir2!Unset => dist'[adj[my[s].u][k]] # Dir2!Unset
  <3> SUFFICES ASSUME my[s].pc \in {"neighbor", "found"}, NEW k \in 1 .. my[s].j - 1
               PROVE  adj[my[s].u][k] \in Vertex
    BY <1>7
  <3>1. my[s].j \in 1 .. Dir2!Degree(my[s].u) /\ Dir2!Degree(my[s].u) \in Nat
    BY <1>2, <1>3, <2>2, Dir2GraphFacts DEF Dir2!View
  <3>2. k \in 1 .. Dir2!Degree(my[s].u) BY <3>1
  <3> QED BY <1>3, <3>2, Dir2GraphFacts
 <2>4. Dir2!Handled(d, my[s].u) => Dir2!Handled(d, my[s].u)' BY <1>3, <1>6
 <2> QED BY <1>1, <1>2, <2>1, <2>3, <2>4 DEF Dir2!View
<1> QED BY <1>8, <1>9, <1>10, <1>11, <1>12, <1>13

-----------------------------------------------------------------------------
(***************************************************************************)
(* What a step changes of its thread: the other threads stay where they    *)
(* are, and some fields stay as they are.                                  *)
(***************************************************************************)
Dir2Moves(t) ==
  /\ my' \in [Dir2!Thread -> Dir2!ThreadShape]
  /\ \A s \in Dir2!Thread \ {t} : my'[s] = my[s]

Dir2SamePlace(t) ==
  my'[t].depth = my[t].depth /\ my'[t].work_on = my[t].work_on /\ my'[t].turn = my[t].turn
Dir2SamePlan(t) ==
  my'[t].next_is_null = my[t].next_is_null /\ my'[t].mu = my[t].mu /\ my'[t].back = my[t].back
Dir2SameSums(t) ==
  my'[t].mf = my[t].mf /\ my'[t].nf = my[t].nf /\ my'[t].imp = my[t].imp
Dir2SameView(t) ==
  my'[t].u = my[t].u /\ my'[t].j = my[t].j

LEMMA Dir2LabelSet ==
  Dir2!Labels = {"done", "link", "vertex", "level", "neighbor", "found", "unset", "parent",
            "found_self", "mark", "write_done", "calcs", "count", "write_counts",
            "read_calcs", "write_calcs", "sum", "next", "returned"}
  BY DEF Dir2!Labels, Dir2!InLevel, Dir2!Counting

LEMMA Dir2Update ==
  ASSUME my \in [Dir2!Thread -> Dir2!ThreadShape], NEW t \in Dir2!Thread,
         NEW r \in Dir2!ThreadShape,
         my' = [my EXCEPT ![t] = r]
  PROVE  Dir2Moves(t) /\ my'[t] = r
<1>1. my' \in [Dir2!Thread -> Dir2!ThreadShape] BY Zenon
<1>2. my'[t] = r /\ \A s \in Dir2!Thread \ {t} : my'[s] = my[s] OBVIOUS
<1> QED BY <1>1, <1>2 DEF Dir2Moves

LEMMA Dir2GotoMoves ==
  ASSUME my \in [Dir2!Thread -> Dir2!ThreadShape], NEW t \in Dir2!Thread, NEW l \in Dir2!Labels,
         Dir2!Goto(t, l)
  PROVE  /\ Dir2Moves(t)
         /\ my'[t].pc = l
         /\ Dir2SamePlace(t) /\ Dir2SamePlan(t) /\ Dir2SameSums(t)
         /\ Dir2SameView(t) /\ my'[t].todo = my[t].todo /\ my'[t].word = my[t].word
<1> DEFINE r == [my[t] EXCEPT !.pc = l]
<1>0. my[t] \in Dir2!ThreadShape OBVIOUS
<1>1. my' = [my EXCEPT ![t] = r] BY Zenon DEF Dir2!Goto
<1>2. l \in Dir2!Labels OBVIOUS
<1>3. r \in Dir2!ThreadShape BY <1>0, <1>2, Zenon DEF Dir2!ThreadShape
<1>4. Dir2Moves(t) /\ my'[t] = r BY <1>1, <1>3, Dir2Update, Zenon
<1> QED BY <1>0, <1>4 DEF Dir2!ThreadShape, Dir2SamePlace, Dir2SamePlan, Dir2SameSums, Dir2SameView

LEMMA Dir2SkipMoves ==
  ASSUME my \in [Dir2!Thread -> Dir2!ThreadShape], NEW t \in Dir2!Thread,
         Dir2!Skip(t)
  PROVE  /\ Dir2Moves(t)
         /\ my'[t].pc = "vertex"
         /\ my'[t].u = 0
         /\ my'[t].j = 0
         /\ Dir2SamePlace(t) /\ Dir2SamePlan(t) /\ Dir2SameSums(t)
         /\ my'[t].todo = my[t].todo /\ my'[t].word = my[t].word
<1> DEFINE r == [my[t] EXCEPT !.pc = "vertex", !.u = 0, !.j = 0]
<1>0. my[t] \in Dir2!ThreadShape OBVIOUS
<1>1. my' = [my EXCEPT ![t] = r] BY Zenon DEF Dir2!Skip
<1>2. "vertex" \in Dir2!Labels /\ 0 \in Vertex /\ 0 \in Nat BY Dir2LabelSet, Dir2Params
<1>3. r \in Dir2!ThreadShape BY <1>0, <1>2, Zenon DEF Dir2!ThreadShape
<1>4. Dir2Moves(t) /\ my'[t] = r BY <1>1, <1>3, Dir2Update, Zenon
<1> QED BY <1>0, <1>4 DEF Dir2!ThreadShape, Dir2SamePlace, Dir2SamePlan, Dir2SameSums

LEMMA Dir2FromMoves ==
  ASSUME my \in [Dir2!Thread -> Dir2!ThreadShape], NEW t \in Dir2!Thread, NEW k \in Nat,
         NEW l \in Dir2!Labels,
         Dir2!FromNeighbor(t, k, l)
  PROVE  /\ Dir2Moves(t)
         /\ my'[t].pc = (IF k <= Dir2!Degree(my[t].u) THEN l ELSE "mark")
         /\ my'[t].j = k
         /\ Dir2SamePlace(t) /\ Dir2SamePlan(t) /\ Dir2SameSums(t)
         /\ my'[t].u = my[t].u /\ my'[t].todo = my[t].todo /\ my'[t].word = my[t].word
<1> DEFINE x == IF k <= Dir2!Degree(my[t].u) THEN l ELSE "mark"
<1> DEFINE r == [my[t] EXCEPT !.pc = x, !.j = k]
<1>0. my[t] \in Dir2!ThreadShape OBVIOUS
<1>1. my' = [my EXCEPT ![t] = r] BY Zenon DEF Dir2!FromNeighbor
<1>2. x \in Dir2!Labels BY Dir2LabelSet
<1> HIDE DEF x
<1>3. r \in Dir2!ThreadShape BY <1>0, <1>2, Zenon DEF Dir2!ThreadShape
<1>4. Dir2Moves(t) /\ my'[t] = r BY <1>1, <1>3, Dir2Update, Zenon
<1> QED BY <1>0, <1>4 DEF Dir2!ThreadShape, Dir2SamePlace, Dir2SamePlan, Dir2SameSums, x

LEMMA Dir2NextOwnerMoves ==
  ASSUME my \in [Dir2!Thread -> Dir2!ThreadShape], NEW t \in Dir2!Thread, NEW b \in Dir2!Labels,
         NEW c \in Dir2!Labels,
         Dir2!NextOwner(t, b, c)
  PROVE  /\ Dir2Moves(t)
         /\ my'[t].pc = (IF my[t].turn = NumT - 1 THEN c ELSE b)
         /\ my'[t].todo = {}
         /\ my'[t].u = 0
         /\ my'[t].j = 0
         /\ my'[t].word = {}
         /\ my'[t].work_on = ((my[t].work_on + 1) % NumT)
         /\ my'[t].turn = (IF my[t].turn = NumT - 1 THEN 0 ELSE my[t].turn + 1)
         /\ Dir2SamePlan(t) /\ Dir2SameSums(t) /\ my'[t].depth = my[t].depth
<1> DEFINE x == IF my[t].turn = NumT - 1 THEN c ELSE b
           y == (my[t].work_on + 1) % NumT
           z == IF my[t].turn = NumT - 1 THEN 0 ELSE my[t].turn + 1
<1> DEFINE r == [my[t] EXCEPT !.pc = x, !.todo = {}, !.u = 0, !.j = 0, !.word = {}, !.work_on = y, !.turn = z]
<1>0. my[t] \in Dir2!ThreadShape OBVIOUS
<1>1. my' = [my EXCEPT ![t] = r] BY Zenon DEF Dir2!NextOwner, Dir2!AtRest
<1>2. x \in Dir2!Labels /\ y \in Dir2!Thread /\ z \in Dir2!Thread /\ 0 \in Vertex /\ 0 \in Nat
 <2>1. my[t].work_on \in Dir2!Thread /\ my[t].turn \in Dir2!Thread BY <1>0 DEF Dir2!ThreadShape
 <2>2. z \in Dir2!Thread BY <2>1, Dir2Params
 <2> QED BY <2>1, <2>2, Dir2RingNext, Dir2Params
<1> HIDE DEF x, y, z
<1>3. r \in Dir2!ThreadShape BY <1>0, <1>2, Zenon DEF Dir2!ThreadShape
<1>4. Dir2Moves(t) /\ my'[t] = r BY <1>1, <1>3, Dir2Update, Zenon
<1> QED BY <1>0, <1>4 DEF Dir2!ThreadShape, Dir2SamePlan, Dir2SameSums, x, y, z

LEMMA Dir2TakeRangeMoves ==
  ASSUME my \in [Dir2!Thread -> Dir2!ThreadShape], NEW t \in Dir2!Thread,
         my' = [my EXCEPT ![t].pc = IF my[t].next_is_null THEN "link" ELSE "vertex",
                          ![t].todo = Dir2!Owned(my[t].work_on)]
  PROVE  /\ Dir2Moves(t)
         /\ my'[t].pc = (IF my[t].next_is_null THEN "link" ELSE "vertex")
         /\ my'[t].todo = Dir2!Owned(my[t].work_on)
         /\ Dir2SamePlace(t) /\ Dir2SamePlan(t) /\ Dir2SameSums(t)
         /\ Dir2SameView(t) /\ my'[t].word = my[t].word
<1> DEFINE x == IF my[t].next_is_null THEN "link" ELSE "vertex"
           y == Dir2!Owned(my[t].work_on)
<1> DEFINE r == [my[t] EXCEPT !.pc = x, !.todo = y]
<1>0. my[t] \in Dir2!ThreadShape OBVIOUS
<1>1. my' = [my EXCEPT ![t] = r] BY Zenon
<1>2. x \in Dir2!Labels /\ y \in SUBSET Vertex
  BY <1>0, Dir2LabelSet, Dir2Ranges DEF Dir2!ThreadShape
<1> HIDE DEF x, y
<1>3. r \in Dir2!ThreadShape BY <1>0, <1>2, Zenon DEF Dir2!ThreadShape
<1>4. Dir2Moves(t) /\ my'[t] = r BY <1>1, <1>3, Dir2Update, Zenon
<1> QED
  BY <1>0, <1>4 DEF Dir2!ThreadShape, Dir2SamePlace, Dir2SamePlan, Dir2SameSums, Dir2SameView, x, y

LEMMA Dir2LinkMoves ==
  ASSUME my \in [Dir2!Thread -> Dir2!ThreadShape], NEW t \in Dir2!Thread,
         my' = [my EXCEPT ![t].pc = "vertex", ![t].next_is_null = FALSE]
  PROVE  /\ Dir2Moves(t)
         /\ my'[t].pc = "vertex"
         /\ my'[t].next_is_null = FALSE
         /\ Dir2SamePlace(t) /\ Dir2SameSums(t) /\ Dir2SameView(t)
         /\ my'[t].mu = my[t].mu /\ my'[t].back = my[t].back /\ my'[t].todo = my[t].todo
         /\ my'[t].word = my[t].word
<1> DEFINE r == [my[t] EXCEPT !.pc = "vertex", !.next_is_null = FALSE]
<1>0. my[t] \in Dir2!ThreadShape OBVIOUS
<1>1. my' = [my EXCEPT ![t] = r] BY Zenon
<1>2. "vertex" \in Dir2!Labels BY Dir2LabelSet
<1>3. r \in Dir2!ThreadShape BY <1>0, <1>2, Zenon DEF Dir2!ThreadShape
<1>4. Dir2Moves(t) /\ my'[t] = r BY <1>1, <1>3, Dir2Update, Zenon
<1> QED BY <1>0, <1>4 DEF Dir2!ThreadShape, Dir2SamePlace, Dir2SameSums, Dir2SameView

\* t takes v, with the mark it has read.
Dir2Takes(t, v, marked) ==
  my' = [my EXCEPT ![t].todo = @ \ {v}, ![t].u = IF marked THEN 0 ELSE v,
                   ![t].pc = IF marked THEN "vertex"
                             ELSE IF my[t].back THEN "unset" ELSE "level"]

LEMMA Dir2TakeMoves ==
  ASSUME my \in [Dir2!Thread -> Dir2!ThreadShape], NEW t \in Dir2!Thread, NEW v \in Vertex,
         NEW marked \in BOOLEAN,
         Dir2Takes(t, v, marked)
  PROVE  /\ Dir2Moves(t)
         /\ my'[t].todo = (my[t].todo \ {v})
         /\ my'[t].u = (IF marked THEN 0 ELSE v)
         /\ my'[t].pc = (IF marked THEN "vertex" ELSE IF my[t].back THEN "unset" ELSE "level")
         /\ Dir2SamePlace(t) /\ Dir2SamePlan(t) /\ Dir2SameSums(t)
         /\ my'[t].j = my[t].j /\ my'[t].word = my[t].word
<1> DEFINE x == my[t].todo \ {v}
           y == IF marked THEN 0 ELSE v
           z == IF marked THEN "vertex" ELSE IF my[t].back THEN "unset" ELSE "level"
<1> DEFINE r == [my[t] EXCEPT !.todo = x, !.u = y, !.pc = z]
<1>0. my[t] \in Dir2!ThreadShape OBVIOUS
<1>1. my' = [my EXCEPT ![t] = r] BY Zenon DEF Dir2Takes
<1>2. x \in SUBSET Vertex /\ y \in Vertex /\ z \in Dir2!Labels
  BY <1>0, Dir2LabelSet, Dir2Params DEF Dir2!ThreadShape
<1> HIDE DEF x, y, z
<1>3. r \in Dir2!ThreadShape BY <1>0, <1>2, Zenon DEF Dir2!ThreadShape
<1>4. Dir2Moves(t) /\ my'[t] = r BY <1>1, <1>3, Dir2Update, Zenon
<1> QED BY <1>0, <1>4 DEF Dir2!ThreadShape, Dir2SamePlace, Dir2SamePlan, Dir2SameSums, x, y, z

LEMMA Dir2ReadMoves ==
  ASSUME my \in [Dir2!Thread -> Dir2!ThreadShape], NEW t \in Dir2!Thread,
         NEW w \in SUBSET Dir2!Thread, NEW l \in Dir2!Labels,
         my' = [my EXCEPT ![t].word = w, ![t].pc = l]
  PROVE  /\ Dir2Moves(t)
         /\ my'[t].word = w
         /\ my'[t].pc = l
         /\ Dir2SamePlace(t) /\ Dir2SamePlan(t) /\ Dir2SameSums(t)
         /\ Dir2SameView(t) /\ my'[t].todo = my[t].todo
<1> DEFINE r == [my[t] EXCEPT !.word = w, !.pc = l]
<1>0. my[t] \in Dir2!ThreadShape OBVIOUS
<1>1. my' = [my EXCEPT ![t] = r] BY Zenon
<1>2. w \in SUBSET Dir2!Thread /\ l \in Dir2!Labels OBVIOUS
<1>3. r \in Dir2!ThreadShape BY <1>0, <1>2, Zenon DEF Dir2!ThreadShape
<1>4. Dir2Moves(t) /\ my'[t] = r BY <1>1, <1>3, Dir2Update, Zenon
<1> QED BY <1>0, <1>4 DEF Dir2!ThreadShape, Dir2SamePlace, Dir2SamePlan, Dir2SameSums, Dir2SameView

LEMMA Dir2AdvanceMoves ==
  ASSUME my \in [Dir2!Thread -> Dir2!ThreadShape], NEW t \in Dir2!Thread,
         my[t].depth + 1 \in Dir2!Depth,
         my' = [my EXCEPT ![t].depth = @ + 1, ![t].pc = "calcs", ![t].back = FALSE,
                          ![t].next_is_null = TRUE]
  PROVE  /\ Dir2Moves(t)
         /\ my'[t].depth = (my[t].depth + 1)
         /\ my'[t].pc = "calcs"
         /\ my'[t].back = FALSE
         /\ my'[t].next_is_null = TRUE
         /\ Dir2SameSums(t) /\ Dir2SameView(t) /\ my'[t].work_on = my[t].work_on
         /\ my'[t].turn = my[t].turn /\ my'[t].mu = my[t].mu /\ my'[t].todo = my[t].todo
         /\ my'[t].word = my[t].word
<1> DEFINE x == my[t].depth + 1
<1> DEFINE r == [my[t] EXCEPT !.depth = x, !.pc = "calcs", !.back = FALSE, !.next_is_null = TRUE]
<1>0. my[t] \in Dir2!ThreadShape OBVIOUS
<1>1. my' = [my EXCEPT ![t] = r] BY Zenon
<1>2. x \in Dir2!Depth /\ "calcs" \in Dir2!Labels BY Dir2LabelSet
<1> HIDE DEF x
<1>3. r \in Dir2!ThreadShape BY <1>0, <1>2, Zenon DEF Dir2!ThreadShape
<1>4. Dir2Moves(t) /\ my'[t] = r BY <1>1, <1>3, Dir2Update, Zenon
<1> QED BY <1>0, <1>4 DEF Dir2!ThreadShape, Dir2SameSums, Dir2SameView, x

LEMMA Dir2RangeMoves ==
  ASSUME my \in [Dir2!Thread -> Dir2!ThreadShape], NEW t \in Dir2!Thread, NEW s \in SUBSET Vertex,
         NEW l \in Dir2!Labels,
         my' = [my EXCEPT ![t].todo = s, ![t].pc = l]
  PROVE  /\ Dir2Moves(t)
         /\ my'[t].todo = s
         /\ my'[t].pc = l
         /\ Dir2SamePlace(t) /\ Dir2SamePlan(t) /\ Dir2SameSums(t)
         /\ Dir2SameView(t) /\ my'[t].word = my[t].word
<1> DEFINE r == [my[t] EXCEPT !.todo = s, !.pc = l]
<1>0. my[t] \in Dir2!ThreadShape OBVIOUS
<1>1. my' = [my EXCEPT ![t] = r] BY Zenon
<1>2. s \in SUBSET Vertex /\ l \in Dir2!Labels OBVIOUS
<1>3. r \in Dir2!ThreadShape BY <1>0, <1>2, Zenon DEF Dir2!ThreadShape
<1>4. Dir2Moves(t) /\ my'[t] = r BY <1>1, <1>3, Dir2Update, Zenon
<1> QED BY <1>0, <1>4 DEF Dir2!ThreadShape, Dir2SamePlace, Dir2SamePlan, Dir2SameSums, Dir2SameView

LEMMA Dir2CountsMoves ==
  ASSUME my \in [Dir2!Thread -> Dir2!ThreadShape], NEW t \in Dir2!Thread, NEW s \in SUBSET Vertex,
         NEW l \in Dir2!Labels,
         my' = [my EXCEPT ![t].pc = l, ![t].todo = s]
  PROVE  /\ Dir2Moves(t)
         /\ my'[t].todo = s
         /\ my'[t].pc = l
         /\ Dir2SamePlace(t) /\ Dir2SamePlan(t) /\ Dir2SameSums(t)
         /\ Dir2SameView(t) /\ my'[t].word = my[t].word
<1> DEFINE r == [my[t] EXCEPT !.todo = s, !.pc = l]
<1>0. my[t] \in Dir2!ThreadShape OBVIOUS
<1>1. my' = [my EXCEPT ![t] = r] BY Zenon
<1>2. s \in SUBSET Vertex /\ l \in Dir2!Labels OBVIOUS
<1>3. r \in Dir2!ThreadShape BY <1>0, <1>2, Zenon DEF Dir2!ThreadShape
<1>4. Dir2Moves(t) /\ my'[t] = r BY <1>1, <1>3, Dir2Update, Zenon
<1> QED BY <1>0, <1>4 DEF Dir2!ThreadShape, Dir2SamePlace, Dir2SamePlan, Dir2SameSums, Dir2SameView

\* t adds a count, and turns to the level in a direction.
Dir2Adds(t, i, m, n, p) ==
  my' = [my EXCEPT ![t] = [@ EXCEPT !.turn = i, !.mf = m, !.nf = n, !.imp = p]]
Dir2Directs(t, m, b, l) ==
  my' = [my EXCEPT ![t] = [@ EXCEPT !.turn = 0, !.mf = 0, !.nf = 0, !.imp = FALSE, !.mu = m,
                                    !.back = b, !.work_on = t, !.pc = l]]

LEMMA Dir2SumMoves ==
  ASSUME my \in [Dir2!Thread -> Dir2!ThreadShape], NEW t \in Dir2!Thread, NEW i \in Dir2!Thread,
         NEW m \in Dir2!EdgeSums, NEW n \in Dir2!NodeSums, NEW p \in BOOLEAN,
         Dir2Adds(t, i, m, n, p)
  PROVE  /\ Dir2Moves(t)
         /\ my'[t].turn = i
         /\ my'[t].mf = m
         /\ my'[t].nf = n
         /\ my'[t].imp = p
         /\ Dir2SamePlan(t) /\ Dir2SameView(t) /\ my'[t].depth = my[t].depth
         /\ my'[t].work_on = my[t].work_on /\ my'[t].pc = my[t].pc /\ my'[t].todo = my[t].todo
         /\ my'[t].word = my[t].word
<1> DEFINE r == [my[t] EXCEPT !.turn = i, !.mf = m, !.nf = n, !.imp = p]
<1>0. my[t] \in Dir2!ThreadShape OBVIOUS
<1>1. my' = [my EXCEPT ![t] = r] BY Zenon DEF Dir2Adds
<1>2. i \in Dir2!Thread /\ p \in BOOLEAN OBVIOUS
<1>3. r \in Dir2!ThreadShape BY <1>0, <1>2, Zenon DEF Dir2!ThreadShape
<1>4. Dir2Moves(t) /\ my'[t] = r BY <1>1, <1>3, Dir2Update, Zenon
<1> QED BY <1>0, <1>4 DEF Dir2!ThreadShape, Dir2SamePlan, Dir2SameView

LEMMA Dir2ZeroSums == 0 \in Dir2!EdgeSums /\ 0 \in Dir2!NodeSums
<1>1. /\ Dir2!Running(Dir2!Edges(Dir2!Goal, 0))[0] = 0
      /\ Dir2!Running(Dir2!Nodes(Dir2!Goal, 0))[0] = 0
      /\ 0 \in 0 .. NumT /\ 0 \in Dir2!Depth
  BY Dir2RunningFacts, Dir2Params
<1> QED BY <1>1 DEF Dir2!EdgeSums, Dir2!NodeSums

LEMMA Dir2DirectMoves ==
  ASSUME my \in [Dir2!Thread -> Dir2!ThreadShape], NEW t \in Dir2!Thread, NEW m \in Dir2!Remainders,
         NEW b \in BOOLEAN, NEW l \in Dir2!Labels,
         Dir2Directs(t, m, b, l)
  PROVE  /\ Dir2Moves(t)
         /\ my'[t].turn = 0
         /\ my'[t].mf = 0
         /\ my'[t].nf = 0
         /\ ~my'[t].imp
         /\ my'[t].mu = m
         /\ my'[t].back = b
         /\ my'[t].work_on = t
         /\ my'[t].pc = l
         /\ Dir2SameView(t) /\ my'[t].depth = my[t].depth
         /\ my'[t].next_is_null = my[t].next_is_null
         /\ my'[t].todo = my[t].todo /\ my'[t].word = my[t].word
<1> DEFINE r == [my[t] EXCEPT !.turn = 0, !.mf = 0, !.nf = 0, !.imp = FALSE, !.mu = m, !.back = b, !.work_on = t, !.pc = l]
<1>0. my[t] \in Dir2!ThreadShape OBVIOUS
<1>1. my' = [my EXCEPT ![t] = r] BY Zenon DEF Dir2Directs
<1>2. 0 \in Dir2!Thread /\ 0 \in Dir2!EdgeSums /\ 0 \in Dir2!NodeSums BY Dir2Params, Dir2ZeroSums
<1>3. r \in Dir2!ThreadShape BY <1>0, <1>2, Zenon DEF Dir2!ThreadShape
<1>4. Dir2Moves(t) /\ my'[t] = r BY <1>1, <1>3, Dir2Update, Zenon
<1> QED BY <1>0, <1>4 DEF Dir2!ThreadShape, Dir2SameView

-----------------------------------------------------------------------------
(***************************************************************************)
(* A step keeps the invariant when memory grows, what it writes is sound,  *)
(* and its thread is sound afterwards.                                     *)
(***************************************************************************)
Dir2Sound(t) == Dir2!Rounds(t) /\ Dir2!Summing(t) /\ Dir2!Counts(t) /\ Dir2!Directed(t) /\ Dir2!Walks(t) /\ Dir2!View(t)

LEMMA Dir2Parts ==
  ASSUME Dir2!IInv, NEW t \in Dir2!Thread
  PROVE  /\ Dir2!Shape /\ Dir2!DistSound /\ Dir2!MarksSound /\ Dir2!DoneSound /\ Dir2!CountsSound
         /\ Dir2!Rounds(t) /\ Dir2!Summing(t) /\ Dir2!Counts(t) /\ Dir2!Directed(t) /\ Dir2!Walks(t)
         /\ Dir2!View(t)
  BY DEF Dir2!IInv

LEMMA Dir2ShapesRigid ==
  ASSUME a' = a
  PROVE  Dir2!ThreadShape' = Dir2!ThreadShape /\ Dir2!NodeShape' = Dir2!NodeShape
<1>1. Dir2!Goal' = Dir2!Goal BY Dir2Rigid
<1>2. /\ Dir2!EdgeSums' = Dir2!EdgeSums /\ Dir2!NodeSums' = Dir2!NodeSums
      /\ Dir2!Remainders' = Dir2!Remainders
  BY <1>1 DEF Dir2!EdgeSums, Dir2!NodeSums, Dir2!Remainders
<1>3. Dir2!EdgeCounts' = Dir2!EdgeCounts /\ Dir2!NodeCounts' = Dir2!NodeCounts
  BY <1>1 DEF Dir2!EdgeCounts, Dir2!NodeCounts
<1> QED BY <1>2, <1>3 DEF Dir2!ThreadShape, Dir2!NodeShape

LEMMA Dir2Assemble ==
  ASSUME Dir2!IInv, NEW t \in Dir2!Thread, Dir2Grows, Dir2Moves(t), Dir2!MarksSound',
         Dir2!DoneSound', Dir2!CountsSound', Dir2Sound(t)',
         dist' \in [Vertex -> Dir2!Unset .. MaxDelta],
         vis' \in [Vertex -> {-1} \cup Dir2!Depth], vis_forw' \in [Vertex -> Dir2!Depth],
         nodes' \in [Dir2!Depth -> Dir2!NodeShape], linked' \in [Dir2!Depth -> BOOLEAN]
  PROVE  Dir2!IInv'
<1>1. a' = a /\ a \in Alphas BY DEF Dir2Grows, Dir2!IInv, Dir2!Shape
<1>2. Dir2!ThreadShape' = Dir2!ThreadShape /\ Dir2!NodeShape' = Dir2!NodeShape
  BY <1>1, Dir2ShapesRigid
<1>3. Dir2!Shape' BY <1>1, <1>2 DEF Dir2!Shape, Dir2Moves
<1>4. Dir2!DistSound' BY Dir2Monotone DEF Dir2!IInv
<1>5. ASSUME NEW s \in Dir2!Thread
      PROVE  /\ Dir2!Rounds(s)' /\ Dir2!Summing(s)' /\ Dir2!Counts(s)' /\ Dir2!Directed(s)'
             /\ Dir2!Walks(s)' /\ Dir2!View(s)'
 <2>1. CASE s = t BY <2>1 DEF Dir2Sound
 <2>2. CASE s # t
  <3>1. my'[s] = my[s] BY <2>2 DEF Dir2Moves
  <3> QED BY <3>1, Dir2Others
 <2> QED BY <2>1, <2>2
<1> QED BY <1>3, <1>4, <1>5 DEF Dir2!IInv

LEMMA Dir2MarksKept ==
  ASSUME Dir2!IInv, Dir2Grows, UNCHANGED <<vis, vis_forw>>
  PROVE  Dir2!MarksSound'
<1>1. Dir2!DistSound /\ Dir2!MarksSound /\ Dir2!Shape BY DEF Dir2!IInv
<1>2. \A u \in Vertex : vis[u] \in Int /\ vis_forw[u] \in Int BY <1>1, Dir2Params DEF Dir2!Shape
<1> SUFFICES ASSUME NEW u \in Vertex
             PROVE  /\ vis[u] >= 0 => Dir2!Complete(vis[u])' /\ Dir2!HandledForward(vis[u], u)'
                    /\ vis_forw[u] > 0 => Dir2!Complete(vis_forw[u])' /\ Dir2!HandledBack(vis_forw[u], u)'
  BY DEF Dir2!MarksSound
<1> QED BY <1>1, <1>2, Dir2Monotone DEF Dir2!MarksSound

LEMMA Dir2DoneKept ==
  ASSUME Dir2!IInv, Dir2Grows, NEW d \in Dir2!Depth, nodes'[d].done = nodes[d].done
  PROVE  \A w \in nodes'[d].done : d <= MaxDelta /\ linked'[d + 1] /\ Dir2!Complete(d)' /\ Dir2!HandledRange(d, w)'
<1>1. Dir2!DistSound /\ Dir2!DoneSound /\ Dir2!Shape BY DEF Dir2!IInv
<1>2. nodes[d].done \subseteq Dir2!Thread /\ d \in Int
  BY <1>1, Dir2Params DEF Dir2!Shape, Dir2!NodeShape
<1> SUFFICES ASSUME NEW w \in nodes[d].done
             PROVE  /\ d <= MaxDelta /\ linked'[d + 1] /\ Dir2!Complete(d)'
                    /\ Dir2!HandledRange(d, w)'
  OBVIOUS
<1>3. d <= MaxDelta /\ linked[d + 1] /\ Dir2!Complete(d) /\ Dir2!HandledRange(d, w)
  BY <1>1 DEF Dir2!DoneSound
<1>4. Dir2!Complete(d)' /\ Dir2!HandledRange(d, w)' BY <1>1, <1>2, <1>3, Dir2Monotone
<1>5. d + 1 \in Dir2!Depth BY <1>3, Dir2Params
<1>6. linked'[d + 1] BY <1>3, <1>5 DEF Dir2Grows
<1> QED BY <1>3, <1>4, <1>6

\* A step that leaves the nodes alone.
LEMMA Dir2NodesKept ==
  ASSUME Dir2!IInv, Dir2Grows, nodes' = nodes
  PROVE  Dir2!DoneSound' /\ Dir2!CountsSound'
<1>1. Dir2!DoneSound' BY Dir2DoneKept DEF Dir2!DoneSound
<1>2. /\ nodes[0] \in Dir2!NodeShape /\ Dir2!CountsSound
      /\ \A d \in Dir2!Depth : nodes[d].done_calcs \subseteq Dir2!Thread
  BY Dir2Params DEF Dir2!IInv, Dir2!Shape, Dir2!NodeShape
<1>3. \A d \in Dir2!Depth : \A w \in Dir2!Thread : Dir2!Counted(d, w) => Dir2!Counted(d, w)'
  BY DEF Dir2Grows
<1>4. \A w \in Dir2!Thread : Dir2!Counted(0, w)' BY <1>2, <1>3, Dir2Params DEF Dir2!CountsSound
<1>5. \A d \in Dir2!Depth : \A w \in nodes'[d].done_calcs : Dir2!Counted(d, w)'
  BY <1>2, <1>3 DEF Dir2!CountsSound
<1> QED BY <1>1, <1>4, <1>5 DEF Dir2!CountsSound

(***************************************************************************)
(* A step that only changes its thread.                                    *)
(***************************************************************************)
LEMMA Dir2Stays ==
  ASSUME Dir2!IInv, UNCHANGED <<a, dist, nodes, linked>>
  PROVE  Dir2Grows
<1>1. Dir2!Goal' = Dir2!Goal /\ Dir2!DistSound BY Dir2Rigid DEF Dir2!IInv
<1>2. \A d \in Dir2!Depth : \A w \in Dir2!Thread : Dir2!Counted(d, w) => Dir2!Counted(d, w)'
  BY <1>1 DEF Dir2!Counted
<1> QED BY <1>1, <1>2 DEF Dir2Grows, Dir2!DistSound

LEMMA Dir2LocalStep ==
  ASSUME Dir2!IInv, NEW t \in Dir2!Thread, Dir2Moves(t), Dir2Sound(t)',
         UNCHANGED <<a, dist, vis, vis_forw, nodes, linked>>
  PROVE  Dir2!IInv'
<1>1. Dir2Grows BY Dir2Stays
<1>2. Dir2!MarksSound' /\ Dir2!DoneSound' /\ Dir2!CountsSound' BY <1>1, Dir2MarksKept, Dir2NodesKept
<1>3. Dir2!Shape BY DEF Dir2!IInv
<1> QED BY <1>1, <1>2, <1>3, Dir2Assemble DEF Dir2!Shape

\* A step that sets a distance: it is the right one.
LEMMA Dir2SetDist ==
  ASSUME Dir2!IInv, NEW v \in Vertex, dist' = [dist EXCEPT ![v] = Dir2!Goal[v]],
         UNCHANGED <<a, nodes, linked>>
  PROVE  /\ Dir2Grows /\ dist' \in [Vertex -> Dir2!Unset .. MaxDelta] /\ dist'[v] = Dir2!Goal[v]
<1>1. Dir2!Goal' = Dir2!Goal /\ Dir2!DistSound /\ dist \in [Vertex -> Dir2!Unset .. MaxDelta]
  BY Dir2Rigid DEF Dir2!IInv, Dir2!Shape
<1>2. \A d \in Dir2!Depth : \A w \in Dir2!Thread : Dir2!Counted(d, w) => Dir2!Counted(d, w)'
  BY <1>1 DEF Dir2!Counted
<1>3. Dir2!Goal[v] \in Dir2!Unset .. MaxDelta BY Dir2GoalFacts, Dir2Params
<1> HIDE DEF Dir2!Goal
<1>4. dist' \in [Vertex -> Dir2!Unset .. MaxDelta] /\ dist'[v] = Dir2!Goal[v] BY <1>1, <1>3
<1>5. \A x \in Vertex : dist'[x] \in {Dir2!Unset, Dir2!Goal[x]} /\ (dist[x] # Dir2!Unset => dist'[x] = dist[x])
  BY <1>1 DEF Dir2!DistSound
<1> QED BY <1>2, <1>4, <1>5 DEF Dir2Grows

LEMMA Dir2DistStep ==
  ASSUME Dir2!IInv, NEW t \in Dir2!Thread, NEW v \in Vertex,
         dist' = [dist EXCEPT ![v] = Dir2!Goal[v]],
         UNCHANGED <<a, vis, vis_forw, nodes, linked>>, Dir2Moves(t), Dir2Sound(t)'
  PROVE  Dir2!IInv'
<1>1. Dir2Grows /\ dist' \in [Vertex -> Dir2!Unset .. MaxDelta] BY Dir2SetDist
<1>2. Dir2!MarksSound' /\ Dir2!DoneSound' /\ Dir2!CountsSound' BY <1>1, Dir2MarksKept, Dir2NodesKept
<1>3. Dir2!Shape BY DEF Dir2!IInv
<1> QED BY <1>1, <1>2, <1>3, Dir2Assemble DEF Dir2!Shape

-----------------------------------------------------------------------------
(***************************************************************************)
(* A step within a level.                                                  *)
(***************************************************************************)
LEMMA Dir2PassedOwners ==
  ASSUME Dir2!Shape, NEW t \in Dir2!Thread
  PROVE  Dir2!Passed(t) \subseteq Dir2!Thread
<1>1. my[t].turn \in Dir2!Thread BY Dir2ThreadFields
<1>2. \A k \in 0 .. my[t].turn - 1 : k \in Dir2!Thread BY <1>1, Dir2Params
<1> QED BY <1>2, Dir2TurnNext DEF Dir2!Passed

LEMMA Dir2InLevelFacts ==
  ASSUME Dir2!IInv, NEW t \in Dir2!Thread, my[t].pc \in Dir2!InLevel \cup {"next"}
  PROVE  /\ my[t].depth \in Nat /\ my[t].depth <= MaxDelta /\ my[t].depth + 1 \in Dir2!Depth
         /\ my[t].back = Dir2!BackAt(my[t].depth)
         /\ my[t].depth > 0 => ~Dir2!FirstIsBack
         /\ ~my[t].back => ~Dir2!FirstIsBack
<1>1. Dir2!Directed(t) /\ my[t].depth \in Nat BY Dir2Parts, Dir2ThreadFields
<1>2. /\ my[t].depth <= MaxDelta /\ my[t].back = Dir2!BackAt(my[t].depth)
      /\ my[t].depth > 0 => ~Dir2!FirstIsBack
  BY <1>1 DEF Dir2!Directed
<1>3. my[t].depth = 0 => my[t].back = Dir2!FirstIsBack BY <1>2, Dir2HeadSums
<1> QED BY <1>1, <1>2, <1>3, Dir2Params

LEMMA Dir2InnerRest ==
  ASSUME Dir2!IInv, Dir2Grows, NEW t \in Dir2!Thread, my'[t].depth = my[t].depth, Dir2SameSums(t),
         my[t].pc \in Dir2!InLevel, my'[t].pc \in Dir2!InLevel \cup {"next"},
         my'[t].back = my[t].back, my'[t].mu = my[t].mu,
         my'[t].pc \in Dir2!Forward => ~my[t].back,
         my'[t].pc \in Dir2!Backward => my[t].back /\ my[t].depth > 0
  PROVE  Dir2!Summing(t)' /\ Dir2!Counts(t)' /\ Dir2!Directed(t)'
<1> DEFINE d == my[t].depth
<1>0. Dir2!Summing(t) /\ Dir2!Counts(t) /\ Dir2!Directed(t) BY Dir2Parts
<1>1. /\ Dir2!Goal' = Dir2!Goal /\ Dir2!FirstIsBack' = Dir2!FirstIsBack
      /\ \A x : Dir2!BackAt(x)' = Dir2!BackAt(x)
  BY Dir2Rigid DEF Dir2Grows
<1>2. my'[t].depth = d /\ my'[t].mf = my[t].mf /\ my'[t].nf = my[t].nf /\ my'[t].imp = my[t].imp
  BY DEF Dir2SameSums
<1>3. /\ my[t].pc \notin {"sum", "next", "returned"} /\ my[t].pc \notin Dir2!Counting
      /\ my'[t].pc \notin {"sum", "returned"} /\ my'[t].pc \notin Dir2!Counting
  BY DEF Dir2!InLevel, Dir2!Counting
<1>5. Dir2!Summing(t)'
 <2>1. /\ my[t].mf = Dir2!Running(Dir2!Edges(Dir2!Goal, d))[0]
       /\ my[t].nf = Dir2!Running(Dir2!Nodes(Dir2!Goal, d))[0]
       /\ (my[t].imp <=> \E k \in 0 .. 0 - 1 : Dir2!Nodes(Dir2!Goal, d)[k] # 0)
   BY <1>0, <1>3 DEF Dir2!Summing
 <2> QED BY <1>1, <1>2, <1>3, <2>1 DEF Dir2!Summing
<1>6. Dir2!Counts(t)' BY <1>3 DEF Dir2!Counts, Dir2!Counting
<1>7. Dir2!Directed(t)'
 <2>1. /\ d <= MaxDelta /\ (d > 0 => ~Dir2!FirstIsBack)
       /\ my[t].back = Dir2!BackAt(d) /\ my[t].mu = Dir2!Remaining(Dir2!Goal)[d + 1]
   BY <1>0 DEF Dir2!Directed
 <2> QED BY <1>1, <1>2, <1>3, <2>1 DEF Dir2!Directed
<1> QED BY <1>5, <1>6, <1>7

LEMMA Dir2InnerStep ==
  ASSUME Dir2!IInv, Dir2Grows, NEW t \in Dir2!Thread, Dir2SamePlace(t), Dir2SameSums(t),
         my[t].pc \in Dir2!InLevel, my'[t].pc \in Dir2!InLevel,
         my'[t].back = my[t].back, my'[t].mu = my[t].mu,
         my'[t].pc \in Dir2!Forward => ~my[t].back,
         my'[t].pc \in Dir2!Backward => my[t].back /\ my[t].depth > 0
  PROVE  Dir2!Rounds(t)' /\ Dir2!Summing(t)' /\ Dir2!Counts(t)' /\ Dir2!Directed(t)'
<1>1. Dir2!Rounds(t) BY Dir2Parts
<1>2. my'[t].depth = my[t].depth /\ my'[t].work_on = my[t].work_on /\ my'[t].turn = my[t].turn
  BY DEF Dir2SamePlace
<1>3. my[t].pc \notin {"sum", "next", "returned"} /\ my'[t].pc \notin {"sum", "next", "returned"}
  BY DEF Dir2!InLevel
<1>4. Dir2!Rounds(t)' BY <1>1, <1>2, <1>3 DEF Dir2!Rounds
<1> QED BY <1>2, <1>4, Dir2InnerRest

\* It keeps to its vertex, unless that is handled.
LEMMA Dir2InnerWalk ==
  ASSUME Dir2!IInv, Dir2Grows, NEW t \in Dir2!Thread, Dir2SamePlace(t), my'[t].todo = my[t].todo,
         my'[t].next_is_null = my[t].next_is_null,
         my[t].pc \in Dir2!AtVertex, my'[t].pc \in Dir2!AtVertex \cup {"vertex"},
         (my'[t].u = my[t].u /\ my'[t].pc \in Dir2!AtVertex) \/ Dir2!Handled(my[t].depth, my[t].u)
  PROVE  Dir2!Walks(t)'
<1> DEFINE w == my[t].work_on
<1>a. PICK d \in Int : d = my[t].depth BY Dir2Parts, Dir2ThreadFields
<1>0. Dir2!Walks(t) /\ Dir2!DistSound /\ Dir2!Shape BY Dir2Parts
<1>b. my'[t].pc \notin {"sum"} \cup Dir2!Counting BY DEF Dir2!AtVertex, Dir2!Counting
<1>1. /\ Dir2!AtVertex \subseteq Dir2!Scanning /\ "vertex" \in Dir2!Scanning
      /\ Dir2!Scanning \subseteq Dir2!InLevel
      /\ "write_done" \notin Dir2!AtVertex /\ "next" \notin Dir2!InLevel
      /\ "link" \notin Dir2!Scanning
  BY DEF Dir2!AtVertex, Dir2!Scanning, Dir2!InLevel
<1>2. my'[t].depth = d /\ my'[t].work_on = w /\ my'[t].turn = my[t].turn BY <1>a DEF Dir2SamePlace
<1>3. d \in Int /\ d + 1 \in Dir2!Depth /\ w \in Dir2!Thread /\ my[t].u \in Vertex
  BY <1>0, <1>1, <1>a, Dir2InLevelFacts, Dir2ThreadFields
<1>4. Dir2!Complete(d)' /\ (linked[d + 1] => linked'[d + 1])
 <2>1. Dir2!Complete(d) BY <1>0, <1>a DEF Dir2!Walks
 <2>2. Dir2!Complete(d)' BY <1>0, <1>3, <2>1, Dir2Monotone
 <2> QED BY <1>3, <2>2 DEF Dir2Grows
<1>5. linked[d + 1] BY <1>0, <1>1, <1>a DEF Dir2!Walks
<1>6. Dir2!Passed(t)' = Dir2!Passed(t) /\ Dir2!Passed(t) \subseteq Dir2!Thread
  BY <1>0, <1>2, Dir2PassedOwners DEF Dir2!Passed
<1>7. \A x \in Dir2!Passed(t) : Dir2!HandledRange(d, x)'
 <2>1. \A x \in Dir2!Passed(t) : Dir2!HandledRange(d, x) BY <1>0, <1>1, <1>a DEF Dir2!Walks
 <2> QED BY <1>0, <1>3, <1>6, <2>1, Dir2Monotone
<1>8. my[t].todo \subseteq Dir2!Owned(w) BY <1>0, <1>1, <1>a DEF Dir2!Walks
<1>9. ASSUME NEW x \in Dir2!Owned(w) \ my[t].todo
      PROVE  Dir2!Handled(d, x)' \/ (x = my'[t].u /\ my'[t].pc \in Dir2!AtVertex)
 <2>1. x \in Vertex BY <1>3, Dir2Ranges
 <2>2. Dir2!Handled(d, x) \/ (x = my[t].u) BY <1>0, <1>1, <1>a DEF Dir2!Walks
 <2>3. Dir2!Handled(d, x) => Dir2!Handled(d, x)' BY <1>0, <1>3, <2>1, Dir2Monotone
 <2> QED BY <1>a, <2>2, <2>3
<1>10. /\ my'[t].pc \in Dir2!Scanning /\ my'[t].pc # "write_done" /\ my'[t].pc # "next"
       /\ my'[t].pc # "link"
  BY <1>1
<1> QED BY <1>b, <1>2, <1>4, <1>5, <1>6, <1>7, <1>8, <1>9, <1>10 DEF Dir2!Walks

\* A step from a vertex to the next vertex or on in the list.
LEMMA Dir2InnerSound ==
  ASSUME Dir2!IInv, Dir2Grows, NEW t \in Dir2!Thread, Dir2SamePlace(t), Dir2SameSums(t),
         Dir2SamePlan(t),
         my'[t].todo = my[t].todo,
         my[t].pc \in Dir2!AtVertex, my'[t].pc \in Dir2!AtVertex \cup {"vertex"},
         my'[t].pc \in Dir2!Forward => ~my[t].back,
         my'[t].pc \in Dir2!Backward => my[t].back /\ my[t].depth > 0,
         (my'[t].u = my[t].u /\ my'[t].pc \in Dir2!AtVertex) \/ Dir2!Handled(my[t].depth, my[t].u),
         Dir2!View(t)'
  PROVE  Dir2Sound(t)'
<1>1. my[t].pc \in Dir2!InLevel /\ my'[t].pc \in Dir2!InLevel BY DEF Dir2!AtVertex, Dir2!InLevel
<1>2. my'[t].back = my[t].back /\ my'[t].mu = my[t].mu /\ my'[t].next_is_null = my[t].next_is_null
  BY DEF Dir2SamePlan
<1>3. Dir2!Rounds(t)' /\ Dir2!Summing(t)' /\ Dir2!Counts(t)' /\ Dir2!Directed(t)'
  BY <1>1, <1>2, Dir2InnerStep
<1>4. Dir2!Walks(t)' BY <1>2, Dir2InnerWalk
<1> QED BY <1>3, <1>4 DEF Dir2Sound

-----------------------------------------------------------------------------
(***************************************************************************)
(* On in the list of a vertex, of which the first j - 1 have been seen.    *)
(***************************************************************************)
LEMMA Dir2AtV ==
  ASSUME Dir2!IInv, NEW t \in Dir2!Thread, my[t].pc \in Dir2!AtNeighbor
  PROVE  /\ my[t].u \in Vertex /\ my[t].j \in 1 .. Dir2!Degree(my[t].u)
         /\ Dir2!Degree(my[t].u) \in Nat
         /\ Dir2!V(t) \in Dir2!Neighbors(my[t].u) /\ Dir2!V(t) \in Vertex
         /\ Dir2!V(t) = adj[my[t].u][my[t].j]
         /\ my[t].pc \in Dir2!AtVertex
<1>1. my[t].u \in Vertex /\ my[t].j \in 1 .. Dir2!Degree(my[t].u) /\ Dir2!Degree(my[t].u) \in Nat
  BY Dir2Parts, Dir2ThreadFields, Dir2GraphFacts DEF Dir2!View
<1>2. Dir2!V(t) \in Dir2!Neighbors(my[t].u) /\ Dir2!V(t) = adj[my[t].u][my[t].j]
  BY <1>1, Dir2GraphFacts DEF Dir2!V
<1>3. my[t].pc \in Dir2!AtVertex BY DEF Dir2!AtNeighbor, Dir2!AtVertex
<1> QED BY <1>1, <1>2, <1>3, Dir2GraphFacts

LEMMA Dir2OnForward ==
  ASSUME Dir2!IInv, Dir2Grows, NEW t \in Dir2!Thread, my[t].pc \in Dir2!Forward,
         NEW j \in 1 .. Dir2!Degree(my[t].u) + 1, Dir2!FromNeighbor(t, j, "neighbor"),
         Dir2!Goal[my[t].u] = my[t].depth,
         \A k \in 1 .. j - 1 : dist'[adj[my[t].u][k]] # Dir2!Unset
  PROVE  Dir2Moves(t) /\ Dir2Sound(t)'
<1>a. PICK d \in Int, u \in Vertex : d = my[t].depth /\ u = my[t].u BY Dir2Parts, Dir2ThreadFields
<1>0. /\ Dir2!Shape /\ my \in [Dir2!Thread -> Dir2!ThreadShape] /\ Dir2!Degree(u) \in Nat
      /\ j \in Nat
      /\ my[t].pc \in Dir2!AtVertex /\ my[t].pc \in Dir2!InLevel
  BY <1>a, Dir2Parts, Dir2GraphFacts DEF Dir2!Shape, Dir2!Forward, Dir2!AtVertex, Dir2!InLevel
<1>1. Dir2!Goal' = Dir2!Goal /\ \A x : Dir2!BackAt(x)' = Dir2!BackAt(x) BY Dir2Rigid DEF Dir2Grows
<1>2. /\ Dir2Moves(t)
      /\ my'[t].pc = (IF j <= Dir2!Degree(u) THEN "neighbor" ELSE "mark") /\ my'[t].j = j
      /\ Dir2SamePlace(t) /\ Dir2SamePlan(t) /\ Dir2SameSums(t) /\ my'[t].u = u
      /\ my'[t].todo = my[t].todo
 <2>1. "neighbor" \in Dir2!Labels BY Dir2LabelSet
 <2> QED BY <1>0, <1>a, <2>1, Dir2FromMoves
<1>3. ~my[t].back /\ ~Dir2!BackAt(d) BY <1>a, <1>0, Dir2Parts, Dir2InLevelFacts DEF Dir2!Directed
<1>4. my'[t].depth = d BY <1>2, <1>a DEF Dir2SamePlace
<1>5. j > Dir2!Degree(u) => Dir2!HandledForward(d, u)'
 <2> SUFFICES ASSUME j > Dir2!Degree(u), NEW v \in Dir2!Neighbors(u) PROVE dist'[v] # Dir2!Unset
   BY <1>1 DEF Dir2!HandledForward
 <2>1. PICK p \in 1 .. Dir2!Degree(u) : v = adj[u][p] BY Dir2GraphFacts
 <2>2. p \in 1 .. j - 1 BY <1>0, <2>1
 <2> QED BY <1>a, <2>1, <2>2
<1>6. Dir2!View(t)'
 <2>1. CASE j <= Dir2!Degree(u)
  <3>1. my'[t].pc = "neighbor" BY <1>2, <2>1
  <3>2. j \in 1 .. Dir2!Degree(u) /\ Dir2!Goal[u] = d BY <1>0, <1>a, <2>1
  <3> QED BY <1>a, <1>1, <1>2, <1>4, <3>1, <3>2 DEF Dir2!View
 <2>2. CASE j > Dir2!Degree(u)
  <3>1. my'[t].pc = "mark" BY <1>0, <1>2, <2>2
  <3>2. Dir2!Handled(d, u)' BY <1>1, <1>3, <1>5, <2>2 DEF Dir2!Handled
  <3>3. my'[t].pc \notin Dir2!AtNeighbor BY <3>1 DEF Dir2!AtNeighbor
  <3> QED BY <1>2, <1>4, <3>1, <3>2, <3>3 DEF Dir2!View
 <2> QED BY <1>0, <2>1, <2>2
<1>7. my'[t].pc \in Dir2!AtVertex /\ my'[t].pc \notin Dir2!Backward
  BY <1>2 DEF Dir2!AtVertex, Dir2!Backward
<1> QED BY <1>a, <1>0, <1>2, <1>3, <1>6, <1>7, Dir2InnerSound

LEMMA Dir2OnBackward ==
  ASSUME Dir2!IInv, Dir2Grows, NEW t \in Dir2!Thread, my[t].pc \in Dir2!Backward,
         NEW j \in 1 .. Dir2!Degree(my[t].u) + 1, Dir2!FromNeighbor(t, j, "parent"),
         Dir2!Goal[my[t].u] \notin 0 .. my[t].depth,
         \A k \in 1 .. j - 1 : Dir2!Goal[adj[my[t].u][k]] # my[t].depth
  PROVE  Dir2Moves(t) /\ Dir2Sound(t)'
<1>a. PICK d \in Nat, u \in Vertex : d = my[t].depth /\ u = my[t].u BY Dir2Parts, Dir2ThreadFields
<1>0. /\ Dir2!Shape /\ my \in [Dir2!Thread -> Dir2!ThreadShape] /\ Dir2!Degree(u) \in Nat
      /\ j \in Nat
      /\ my[t].pc \in Dir2!AtVertex /\ my[t].pc \in Dir2!InLevel
  BY <1>a, Dir2Parts, Dir2GraphFacts DEF Dir2!Shape, Dir2!Backward, Dir2!AtVertex, Dir2!InLevel
<1>1. Dir2!Goal' = Dir2!Goal /\ \A x : Dir2!BackAt(x)' = Dir2!BackAt(x) BY Dir2Rigid DEF Dir2Grows
<1>2. /\ Dir2Moves(t)
      /\ my'[t].pc = (IF j <= Dir2!Degree(u) THEN "parent" ELSE "mark") /\ my'[t].j = j
      /\ Dir2SamePlace(t) /\ Dir2SamePlan(t) /\ Dir2SameSums(t) /\ my'[t].u = u
      /\ my'[t].todo = my[t].todo
 <2>1. "parent" \in Dir2!Labels BY Dir2LabelSet
 <2> QED BY <1>0, <1>a, <2>1, Dir2FromMoves
<1>3. my[t].back /\ Dir2!BackAt(d) /\ d > 0 /\ Dir2!Goal = Delta
 <2>1. my[t].back /\ d > 0 BY <1>a, Dir2Parts DEF Dir2!Directed
 <2> QED BY <1>a, <1>0, <2>1, Dir2InLevelFacts, Dir2GoalFacts
<1>4. my'[t].depth = d BY <1>2, <1>a DEF Dir2SamePlace
<1>5. j > Dir2!Degree(u) => Dir2!HandledBack(d, u)'
 <2> SUFFICES ASSUME j > Dir2!Degree(u), Dir2!Goal[u] = d + 1 PROVE FALSE
   BY <1>1 DEF Dir2!HandledBack
 <2>1. PICK v \in Vertex : Delta[v] = Delta[u] - 1 /\ u \in Dir2!Neighbors(v)
   BY <1>3, Dir2GraphFacts
 <2>2. v \in Dir2!Neighbors(u) /\ Dir2!Goal[v] = d BY <1>3, <2>1, Dir2GraphFacts
 <2>3. PICK p \in 1 .. Dir2!Degree(u) : v = adj[u][p] BY <2>2, Dir2GraphFacts
 <2>4. p \in 1 .. j - 1 BY <1>0, <2>3
 <2> QED BY <1>a, <2>2, <2>3, <2>4
<1>6. Dir2!View(t)'
 <2>1. CASE j <= Dir2!Degree(u)
  <3>1. my'[t].pc = "parent" BY <1>2, <2>1
  <3>2. j \in 1 .. Dir2!Degree(u) /\ Dir2!Goal[u] \notin 0 .. d BY <1>0, <1>a, <2>1
  <3> QED BY <1>a, <1>1, <1>2, <1>4, <3>1, <3>2 DEF Dir2!View
 <2>2. CASE j > Dir2!Degree(u)
  <3>1. my'[t].pc = "mark" BY <1>0, <1>2, <2>2
  <3>2. Dir2!Handled(d, u)' BY <1>1, <1>3, <1>5, <2>2 DEF Dir2!Handled
  <3>3. my'[t].pc \notin Dir2!AtNeighbor BY <3>1 DEF Dir2!AtNeighbor
  <3> QED BY <1>2, <1>4, <3>1, <3>2, <3>3 DEF Dir2!View
 <2> QED BY <1>0, <2>1, <2>2
<1>7. my'[t].pc \in Dir2!AtVertex /\ my'[t].pc \notin Dir2!Forward
  BY <1>2 DEF Dir2!AtVertex, Dir2!Forward
<1> QED BY <1>a, <1>0, <1>2, <1>3, <1>6, <1>7, Dir2InnerSound

\* A vertex is left, as it is handled.
LEMMA Dir2SkipSound ==
  ASSUME Dir2!IInv, Dir2Grows, NEW t \in Dir2!Thread, my[t].pc \in Dir2!AtVertex, Dir2!Skip(t),
         Dir2!Handled(my[t].depth, my[t].u)
  PROVE  Dir2Moves(t) /\ Dir2Sound(t)'
<1>1. my \in [Dir2!Thread -> Dir2!ThreadShape] BY DEF Dir2!IInv, Dir2!Shape
<1>2. /\ Dir2Moves(t) /\ my'[t].pc = "vertex" /\ Dir2SamePlace(t) /\ Dir2SamePlan(t)
      /\ Dir2SameSums(t)
      /\ my'[t].todo = my[t].todo
  BY <1>1, Dir2SkipMoves
<1>3. Dir2!View(t)' BY <1>2 DEF Dir2!View, Dir2!AtNeighbor
<1>4. my'[t].pc \notin Dir2!Forward /\ my'[t].pc \notin Dir2!Backward
  BY <1>2 DEF Dir2!Forward, Dir2!Backward
<1> QED BY <1>2, <1>3, <1>4, Dir2InnerSound

-----------------------------------------------------------------------------
(***************************************************************************)
(* At a vertex.                                                            *)
(***************************************************************************)
LEMMA Dir2GotoInner ==
  ASSUME Dir2!IInv, NEW t \in Dir2!Thread, NEW l \in Dir2!AtVertex, Dir2!Goto(t, l),
         my[t].pc \in Dir2!AtVertex,
         l \in Dir2!Forward => ~my[t].back,
         l \in Dir2!Backward => my[t].back /\ my[t].depth > 0
  PROVE  /\ Dir2Moves(t) /\ Dir2SamePlace(t) /\ Dir2SamePlan(t) /\ Dir2SameSums(t)
         /\ Dir2SameView(t)
         /\ my'[t].pc = l /\ my'[t].todo = my[t].todo /\ Dir2!V(t)' = Dir2!V(t)
         /\ Dir2Grows /\ Dir2!View(t)' => Dir2Sound(t)'
<1>1. my \in [Dir2!Thread -> Dir2!ThreadShape] /\ l \in Dir2!Labels
  BY Dir2LabelSet DEF Dir2!IInv, Dir2!Shape, Dir2!AtVertex
<1>2. /\ Dir2Moves(t) /\ my'[t].pc = l /\ Dir2SamePlace(t) /\ Dir2SamePlan(t) /\ Dir2SameSums(t)
      /\ Dir2SameView(t)
      /\ my'[t].todo = my[t].todo
  BY <1>1, Dir2GotoMoves
<1>3. my'[t].u = my[t].u /\ my'[t].j = my[t].j BY <1>2 DEF Dir2SameView
<1>4. Dir2Grows /\ Dir2!View(t)' => Dir2Sound(t)' BY <1>2, <1>3, Dir2InnerSound
<1> QED BY <1>2, <1>3, <1>4 DEF Dir2!V

LEMMA Dir2TestLevelStep ==
  ASSUME Dir2!IInv, NEW t \in Dir2!Thread, Dir2!TestLevel(t)
  PROVE  Dir2!IInv'
<1>a. PICK d \in Nat, u \in Vertex : d = my[t].depth /\ u = my[t].u BY Dir2Parts, Dir2ThreadFields
<1>0. /\ my[t].pc = "level" /\ UNCHANGED <<a, dist, vis, vis_forw, nodes, linked>>
      /\ Dir2!Degree(u) \in Nat
  BY Dir2GraphFacts DEF Dir2!TestLevel, Dir2!At
<1>1. Dir2Grows /\ Dir2!DistSound /\ Dir2!Walks(t) /\ Dir2!Directed(t) BY <1>0, Dir2Stays, Dir2Parts
<1>2. my[t].pc \in Dir2!AtVertex /\ my[t].pc \in Dir2!Forward /\ my[t].pc \in Dir2!InLevel
  BY <1>0 DEF Dir2!AtVertex, Dir2!Forward, Dir2!InLevel
<1>3. CASE dist[u] # d
 <2>1. Dir2!Skip(t) BY <1>a, <1>3 DEF Dir2!TestLevel
 <2>2. ~Dir2!BackAt(d) BY <1>1, <1>2, <1>a, Dir2InLevelFacts DEF Dir2!Directed
 <2>3. Dir2!Goal[u] # d BY <1>1, <1>3, <1>a DEF Dir2!Walks, Dir2!Complete
 <2>4. Dir2!Handled(d, u) BY <2>2, <2>3 DEF Dir2!Handled, Dir2!HandledForward
 <2> QED BY <1>0, <1>1, <1>2, <1>a, <2>1, <2>4, Dir2SkipSound, Dir2LocalStep
<1>4. CASE dist[u] = d
 <2>1. Dir2!FromNeighbor(t, 1, "neighbor") BY <1>a, <1>4 DEF Dir2!TestLevel
 <2>2. Dir2!Goal[u] = d BY <1>1, <1>4, Dir2Params DEF Dir2!DistSound
 <2>3. 1 \in 1 .. Dir2!Degree(u) + 1 /\ 1 .. 1 - 1 = {} BY <1>0
 <2>4. Dir2Moves(t) /\ Dir2Sound(t)' BY <1>1, <1>2, <1>a, <2>1, <2>2, <2>3, Dir2OnForward
 <2> QED BY <1>0, <2>4, Dir2LocalStep
<1> QED BY <1>3, <1>4

LEMMA Dir2TestNeighborStep ==
  ASSUME Dir2!IInv, NEW t \in Dir2!Thread, Dir2!TestNeighbor(t)
  PROVE  Dir2!IInv'
<1>a. PICK d \in Nat, u \in Vertex, j \in Nat : d = my[t].depth /\ u = my[t].u /\ j = my[t].j
  BY Dir2Parts, Dir2ThreadFields
<1>0. my[t].pc = "neighbor" /\ UNCHANGED <<a, dist, vis, vis_forw, nodes, linked>>
  BY DEF Dir2!TestNeighbor, Dir2!At
<1>1. Dir2Grows /\ Dir2!DistSound /\ Dir2!Walks(t) /\ Dir2!Directed(t) /\ Dir2!View(t)
  BY <1>0, Dir2Stays, Dir2Parts
<1>2. /\ my[t].pc \in Dir2!AtVertex /\ my[t].pc \in Dir2!Forward /\ my[t].pc \in Dir2!InLevel
      /\ my[t].pc \in Dir2!AtNeighbor
  BY <1>0 DEF Dir2!AtVertex, Dir2!Forward, Dir2!InLevel, Dir2!AtNeighbor
<1>3. /\ j \in 1 .. Dir2!Degree(u) /\ Dir2!Degree(u) \in Nat /\ Dir2!V(t) \in Dir2!Neighbors(u)
      /\ Dir2!V(t) \in Vertex
      /\ Dir2!V(t) = adj[u][j]
  BY <1>2, <1>a, Dir2AtV
<1>4. Dir2!Goal[u] = d /\ \A k \in 1 .. j - 1 : dist[adj[u][k]] # Dir2!Unset
  BY <1>0, <1>1, <1>a DEF Dir2!View
<1>5. CASE dist[Dir2!V(t)] = Dir2!Unset
 <2>1. Dir2!Goto(t, "found") BY <1>5 DEF Dir2!TestNeighbor
 <2>2. "found" \in Dir2!AtVertex /\ "found" \notin Dir2!Backward /\ ~my[t].back
   BY <1>1, <1>2 DEF Dir2!Directed, Dir2!AtVertex, Dir2!Backward
 <2>3. /\ Dir2Moves(t) /\ Dir2SamePlace(t) /\ Dir2SameView(t) /\ my'[t].pc = "found"
       /\ Dir2!V(t)' = Dir2!V(t)
       /\ Dir2Grows /\ Dir2!View(t)' => Dir2Sound(t)'
   BY <1>2, <2>1, <2>2, Dir2GotoInner
 <2>4. Dir2!Goal = Delta BY <1>2, <2>2, Dir2InLevelFacts, Dir2GoalFacts
 <2>5. Dir2!Goal[Dir2!V(t)] \in 0 .. d + 1 BY <1>3, <1>4, <2>4, Dir2GraphFacts
 <2>6. Dir2!Goal[Dir2!V(t)] \notin 0 .. d
  <3> PICK v \in Vertex : v = Dir2!V(t) BY <1>3
  <3>1. Dir2!Complete(d) BY <1>1, <1>a DEF Dir2!Walks
  <3>2. Dir2!Goal[v] \in 0 .. d => Dir2!Goal[v] = -1 BY <1>5, <3>1, Dir2Params DEF Dir2!Complete
  <3>3. d \in Nat BY <1>a
  <3> QED BY <3>2, <3>3
 <2>7. Dir2!Goal[Dir2!V(t)] = d + 1 BY <2>5, <2>6
 <2>8. Dir2!View(t)'
  <3>1. Dir2!Goal' = Dir2!Goal /\ dist' = dist BY <1>0, Dir2Rigid
  <3>2. my'[t].depth = d /\ my'[t].u = u /\ my'[t].j = j
    BY <1>a, <2>3 DEF Dir2SamePlace, Dir2SameView
  <3> QED BY <1>3, <1>4, <2>3, <2>7, <3>1, <3>2 DEF Dir2!View
 <2> QED BY <1>0, <1>1, <2>3, <2>8, Dir2LocalStep
<1>6. CASE dist[Dir2!V(t)] # Dir2!Unset
 <2>1. Dir2!FromNeighbor(t, j + 1, "neighbor") BY <1>6, <1>a DEF Dir2!TestNeighbor
 <2>2. j + 1 \in 1 .. Dir2!Degree(u) + 1 BY <1>3
 <2>3. \A k \in 1 .. (j + 1) - 1 : dist'[adj[u][k]] # Dir2!Unset BY <1>0, <1>3, <1>4, <1>6
 <2>4. Dir2Moves(t) /\ Dir2Sound(t)' BY <1>1, <1>2, <1>4, <1>a, <2>1, <2>2, <2>3, Dir2OnForward
 <2> QED BY <1>0, <2>4, Dir2LocalStep
<1> QED BY <1>5, <1>6

LEMMA Dir2FoundStep ==
  ASSUME Dir2!IInv, NEW t \in Dir2!Thread, Dir2!Found(t)
  PROVE  Dir2!IInv'
<1>a. PICK d \in Nat, u \in Vertex, j \in Nat : d = my[t].depth /\ u = my[t].u /\ j = my[t].j
  BY Dir2Parts, Dir2ThreadFields
<1>0. my[t].pc = "found" /\ UNCHANGED <<a, vis, vis_forw, nodes, linked>> BY DEF Dir2!Found, Dir2!At
<1>1. Dir2!DistSound /\ Dir2!Walks(t) /\ Dir2!Directed(t) /\ Dir2!View(t) BY Dir2Parts
<1>2. /\ my[t].pc \in Dir2!AtVertex /\ my[t].pc \in Dir2!Forward /\ my[t].pc \in Dir2!InLevel
      /\ my[t].pc \in Dir2!AtNeighbor
  BY <1>0 DEF Dir2!AtVertex, Dir2!Forward, Dir2!InLevel, Dir2!AtNeighbor
<1>3. /\ j \in 1 .. Dir2!Degree(u) /\ Dir2!Degree(u) \in Nat /\ Dir2!V(t) \in Vertex
      /\ Dir2!V(t) = adj[u][j]
  BY <1>2, <1>a, Dir2AtV
<1>4. /\ Dir2!Goal[u] = d /\ Dir2!Goal[Dir2!V(t)] = d + 1
      /\ \A k \in 1 .. j - 1 : dist[adj[u][k]] # Dir2!Unset
  BY <1>0, <1>1, <1>a DEF Dir2!View
<1>5. dist[u] = d BY <1>1, <1>4, <1>a DEF Dir2!Walks, Dir2!Complete
<1> PICK v \in Vertex : v = Dir2!V(t) BY <1>3
<1>6. dist' = [dist EXCEPT ![v] = Dir2!Goal[v]] BY <1>4, <1>5, <1>a DEF Dir2!Found
<1>7. Dir2Grows /\ dist'[v] = Dir2!Goal[v] BY <1>0, <1>6, Dir2SetDist
<1>8. Dir2!FromNeighbor(t, j + 1, "neighbor") BY <1>a DEF Dir2!Found
<1>9. j + 1 \in 1 .. Dir2!Degree(u) + 1 BY <1>3
<1>10. \A k \in 1 .. (j + 1) - 1 : dist'[adj[u][k]] # Dir2!Unset
 <2> SUFFICES ASSUME NEW k \in 1 .. j PROVE dist'[adj[u][k]] # Dir2!Unset BY <1>3
 <2>1. CASE k = j BY <1>3, <1>4, <1>7, <2>1, Dir2Params
 <2>2. CASE k # j
  <3>1. k \in 1 .. j - 1 /\ k \in 1 .. Dir2!Degree(u) BY <1>3, <2>2
  <3>2. adj[u][k] \in Vertex BY <3>1, Dir2GraphFacts
  <3> QED BY <1>4, <1>7, <3>1, <3>2 DEF Dir2Grows
 <2> QED BY <2>1, <2>2
<1>11. Dir2Moves(t) /\ Dir2Sound(t)' BY <1>2, <1>4, <1>7, <1>8, <1>9, <1>10, <1>a, Dir2OnForward
<1> QED BY <1>0, <1>6, <1>11, Dir2DistStep

LEMMA Dir2TestUnsetStep ==
  ASSUME Dir2!IInv, NEW t \in Dir2!Thread, Dir2!TestUnset(t)
  PROVE  Dir2!IInv'
<1>a. PICK d \in Nat, u \in Vertex : d = my[t].depth /\ u = my[t].u BY Dir2Parts, Dir2ThreadFields
<1>0. /\ my[t].pc = "unset" /\ UNCHANGED <<a, dist, vis, vis_forw, nodes, linked>>
      /\ Dir2!Degree(u) \in Nat
  BY Dir2GraphFacts DEF Dir2!TestUnset, Dir2!At
<1>1. Dir2Grows /\ Dir2!DistSound /\ Dir2!Walks(t) /\ Dir2!Directed(t) BY <1>0, Dir2Stays, Dir2Parts
<1>2. my[t].pc \in Dir2!AtVertex /\ my[t].pc \in Dir2!Backward /\ my[t].pc \in Dir2!InLevel
  BY <1>0 DEF Dir2!AtVertex, Dir2!Backward, Dir2!InLevel
<1>3. CASE dist[u] # Dir2!Unset
 <2>1. Dir2!Skip(t) BY <1>a, <1>3 DEF Dir2!TestUnset
 <2>2. Dir2!BackAt(d) BY <1>1, <1>2, <1>a, Dir2InLevelFacts DEF Dir2!Directed
 <2>3. Dir2!Handled(d, u) BY <1>3, <2>2 DEF Dir2!Handled, Dir2!HandledBack
 <2> QED BY <1>0, <1>1, <1>2, <1>a, <2>1, <2>3, Dir2SkipSound, Dir2LocalStep
<1>4. CASE dist[u] = Dir2!Unset
 <2>1. Dir2!FromNeighbor(t, 1, "parent") BY <1>a, <1>4 DEF Dir2!TestUnset
 <2>2. Dir2!Goal[u] \notin 0 .. d BY <1>1, <1>4, <1>a, Dir2Params DEF Dir2!Walks, Dir2!Complete
 <2>3. 1 \in 1 .. Dir2!Degree(u) + 1 /\ 1 .. 1 - 1 = {} BY <1>0
 <2>4. Dir2Moves(t) /\ Dir2Sound(t)' BY <1>1, <1>2, <1>a, <2>1, <2>2, <2>3, Dir2OnBackward
 <2> QED BY <1>0, <2>4, Dir2LocalStep
<1> QED BY <1>3, <1>4

LEMMA Dir2TestParentStep ==
  ASSUME Dir2!IInv, NEW t \in Dir2!Thread, Dir2!TestParent(t)
  PROVE  Dir2!IInv'
<1>a. PICK d \in Nat, u \in Vertex, j \in Nat : d = my[t].depth /\ u = my[t].u /\ j = my[t].j
  BY Dir2Parts, Dir2ThreadFields
<1>0. my[t].pc = "parent" /\ UNCHANGED <<a, dist, vis, vis_forw, nodes, linked>>
  BY DEF Dir2!TestParent, Dir2!At
<1>1. Dir2Grows /\ Dir2!DistSound /\ Dir2!Walks(t) /\ Dir2!Directed(t) /\ Dir2!View(t)
  BY <1>0, Dir2Stays, Dir2Parts
<1>2. /\ my[t].pc \in Dir2!AtVertex /\ my[t].pc \in Dir2!Backward /\ my[t].pc \in Dir2!InLevel
      /\ my[t].pc \in Dir2!AtNeighbor
  BY <1>0 DEF Dir2!AtVertex, Dir2!Backward, Dir2!InLevel, Dir2!AtNeighbor
<1>3. /\ j \in 1 .. Dir2!Degree(u) /\ Dir2!Degree(u) \in Nat /\ Dir2!V(t) \in Dir2!Neighbors(u)
      /\ Dir2!V(t) \in Vertex
      /\ Dir2!V(t) = adj[u][j]
  BY <1>2, <1>a, Dir2AtV
<1>4. Dir2!Goal[u] \notin 0 .. d /\ \A k \in 1 .. j - 1 : Dir2!Goal[adj[u][k]] # d
  BY <1>0, <1>1, <1>a DEF Dir2!View
<1>b. my[t].back /\ d > 0 BY <1>1, <1>2, <1>a DEF Dir2!Directed
<1>5. CASE dist[Dir2!V(t)] = d
 <2>1. Dir2!Goto(t, "found_self") BY <1>5, <1>a DEF Dir2!TestParent
 <2>2. "found_self" \in Dir2!AtVertex /\ "found_self" \notin Dir2!Forward
   BY DEF Dir2!AtVertex, Dir2!Forward
 <2>3. /\ Dir2Moves(t) /\ Dir2SamePlace(t) /\ Dir2SameView(t) /\ my'[t].pc = "found_self"
       /\ Dir2Grows /\ Dir2!View(t)' => Dir2Sound(t)'
   BY <1>2, <1>a, <1>b, <2>1, <2>2, Dir2GotoInner
 <2>4. Dir2!Goal = Delta BY <1>2, <1>a, <1>b, Dir2InLevelFacts, Dir2GoalFacts
 <2>5. Dir2!Goal[Dir2!V(t)] = d BY <1>1, <1>3, <1>5, Dir2Params DEF Dir2!DistSound
 <2>6. u \in Dir2!Neighbors(Dir2!V(t)) BY <1>3, Dir2GraphFacts
 <2>7. Dir2!Goal[u] \in 0 .. d + 1 BY <1>3, <2>4, <2>5, <2>6, Dir2GraphFacts
 <2>8. Dir2!Goal[u] = d + 1 BY <1>4, <2>7
 <2>9. Dir2!View(t)'
  <3>1. Dir2!Goal' = Dir2!Goal BY <1>0, Dir2Rigid
  <3>2. my'[t].depth = d /\ my'[t].u = u BY <1>a, <2>3 DEF Dir2SamePlace, Dir2SameView
  <3>3. my'[t].pc \notin Dir2!AtNeighbor BY <2>3 DEF Dir2!AtNeighbor
  <3> QED BY <2>3, <2>8, <3>1, <3>2, <3>3 DEF Dir2!View
 <2> QED BY <1>0, <1>1, <2>3, <2>9, Dir2LocalStep
<1>6. CASE dist[Dir2!V(t)] # d
 <2>1. Dir2!FromNeighbor(t, j + 1, "parent") BY <1>6, <1>a DEF Dir2!TestParent
 <2>2. j + 1 \in 1 .. Dir2!Degree(u) + 1 BY <1>3
 <2>3. Dir2!Goal[Dir2!V(t)] # d BY <1>1, <1>3, <1>6, <1>a DEF Dir2!Walks, Dir2!Complete
 <2>4. \A k \in 1 .. (j + 1) - 1 : Dir2!Goal[adj[u][k]] # d BY <1>3, <1>4, <2>3
 <2>5. Dir2Moves(t) /\ Dir2Sound(t)' BY <1>1, <1>2, <1>4, <1>a, <2>1, <2>2, <2>4, Dir2OnBackward
 <2> QED BY <1>0, <2>5, Dir2LocalStep
<1> QED BY <1>5, <1>6

LEMMA Dir2FoundSelfStep ==
  ASSUME Dir2!IInv, NEW t \in Dir2!Thread, Dir2!FoundSelf(t)
  PROVE  Dir2!IInv'
<1>a. PICK d \in Nat, u \in Vertex : d = my[t].depth /\ u = my[t].u BY Dir2Parts, Dir2ThreadFields
<1>0. /\ my[t].pc = "found_self" /\ UNCHANGED <<a, vis, vis_forw, nodes, linked>>
      /\ Dir2!Goto(t, "mark")
  BY DEF Dir2!FoundSelf, Dir2!At
<1>1. Dir2!Directed(t) /\ Dir2!View(t) BY Dir2Parts
<1>2. my[t].pc \in Dir2!AtVertex /\ my[t].pc \in Dir2!Backward /\ my[t].pc \in Dir2!InLevel
  BY <1>0 DEF Dir2!AtVertex, Dir2!Backward, Dir2!InLevel
<1>3. Dir2!Goal[u] = d + 1 BY <1>0, <1>1, <1>a DEF Dir2!View
<1>4. dist' = [dist EXCEPT ![u] = Dir2!Goal[u]] BY <1>3, <1>a DEF Dir2!FoundSelf
<1>5. Dir2Grows /\ dist'[u] = Dir2!Goal[u] BY <1>0, <1>4, Dir2SetDist
<1>6. Dir2!BackAt(d) BY <1>1, <1>2, <1>a, Dir2InLevelFacts DEF Dir2!Directed
<1>7. "mark" \in Dir2!AtVertex /\ "mark" \notin Dir2!Forward /\ "mark" \notin Dir2!Backward
  BY DEF Dir2!AtVertex, Dir2!Forward, Dir2!Backward
<1>8. /\ Dir2Moves(t) /\ Dir2SamePlace(t) /\ Dir2SameView(t) /\ my'[t].pc = "mark"
      /\ Dir2Grows /\ Dir2!View(t)' => Dir2Sound(t)'
  BY <1>0, <1>2, <1>7, Dir2GotoInner
<1>9. Dir2!View(t)'
 <2>1. Dir2!Goal' = Dir2!Goal /\ \A x : Dir2!BackAt(x)' = Dir2!BackAt(x) BY <1>0, Dir2Rigid
 <2>2. Dir2!Handled(d, u)' BY <1>3, <1>5, <1>6, <2>1, Dir2Params DEF Dir2!Handled, Dir2!HandledBack
 <2>3. my'[t].depth = d /\ my'[t].u = u /\ my'[t].pc \notin Dir2!AtNeighbor
   BY <1>a, <1>8 DEF Dir2SamePlace, Dir2SameView, Dir2!AtNeighbor
 <2> QED BY <1>8, <2>2, <2>3 DEF Dir2!View
<1> QED BY <1>0, <1>4, <1>5, <1>8, <1>9, Dir2DistStep

LEMMA Dir2MarkStep ==
  ASSUME Dir2!IInv, NEW t \in Dir2!Thread, Dir2!Mark(t)
  PROVE  Dir2!IInv'
<1>a. PICK d \in Dir2!Depth, u \in Vertex : d = my[t].depth /\ u = my[t].u
  BY Dir2Parts, Dir2ThreadFields
<1>0. my[t].pc = "mark" /\ UNCHANGED <<a, dist, nodes, linked>> /\ Dir2!Skip(t)
  BY DEF Dir2!Mark, Dir2!At
<1>1. /\ Dir2Grows /\ Dir2!DistSound /\ Dir2!MarksSound /\ Dir2!Walks(t) /\ Dir2!Directed(t)
      /\ Dir2!View(t) /\ Dir2!Shape
  BY <1>0, Dir2Stays, Dir2Parts
<1>2. my[t].pc \in Dir2!AtVertex /\ my[t].pc \in Dir2!InLevel /\ d \in Nat
  BY <1>0, Dir2Params DEF Dir2!AtVertex, Dir2!InLevel
<1>3. Dir2!Handled(d, u) /\ Dir2!Complete(d) /\ my[t].back = Dir2!BackAt(d)
  BY <1>0, <1>1, <1>2, <1>a, Dir2InLevelFacts DEF Dir2!View, Dir2!Walks
<1>4. Dir2Moves(t) /\ Dir2Sound(t)' BY <1>0, <1>1, <1>2, <1>3, <1>a, Dir2SkipSound
<1>5. Dir2!Complete(d)' /\ Dir2!Handled(d, u)' BY <1>1, <1>2, <1>3, Dir2Monotone
<1>6. Dir2!BackAt(d)' = Dir2!BackAt(d) BY <1>0, Dir2Rigid
<1>7. /\ vis' \in [Vertex -> {-1} \cup Dir2!Depth] /\ vis_forw' \in [Vertex -> Dir2!Depth]
      /\ \A x \in Vertex : vis'[x] \in Int /\ vis_forw'[x] \in Int
 <2>1. vis' \in [Vertex -> {-1} \cup Dir2!Depth] /\ vis_forw' \in [Vertex -> Dir2!Depth]
   BY <1>1, <1>a DEF Dir2!Mark, Dir2!Shape
 <2> QED BY <2>1, Dir2Params
<1>b. ASSUME NEW x \in Vertex, NEW e \in Int
      PROVE  /\ vis'[x] = e /\ e >= 0 => Dir2!Complete(e)' /\ Dir2!HandledForward(e, x)'
             /\ vis_forw'[x] = e /\ e > 0 => Dir2!Complete(e)' /\ Dir2!HandledBack(e, x)'
 <2>1. /\ vis[x] = e /\ e >= 0 => Dir2!Complete(e)' /\ Dir2!HandledForward(e, x)'
       /\ vis_forw[x] = e /\ e > 0 => Dir2!Complete(e)' /\ Dir2!HandledBack(e, x)'
   BY <1>1, Dir2Monotone DEF Dir2!MarksSound
 <2>2. /\ vis'[x] = vis[x] \/ (vis'[x] = d /\ x = u /\ ~Dir2!BackAt(d))
       /\ vis_forw'[x] = vis_forw[x] \/ (vis_forw'[x] = d /\ x = u /\ Dir2!BackAt(d))
   BY <1>1, <1>3, <1>a DEF Dir2!Mark, Dir2!Shape
 <2>3. IF Dir2!BackAt(d) THEN Dir2!HandledBack(d, u)' ELSE Dir2!HandledForward(d, u)'
   BY <1>5, <1>6 DEF Dir2!Handled
 <2> QED BY <1>5, <2>1, <2>2, <2>3
<1>8. Dir2!MarksSound' BY <1>7, <1>b DEF Dir2!MarksSound
<1>9. Dir2!DoneSound' /\ Dir2!CountsSound' BY <1>0, <1>1, Dir2NodesKept
<1> QED BY <1>0, <1>1, <1>4, <1>7, <1>8, <1>9, Dir2Assemble DEF Dir2!Shape

-----------------------------------------------------------------------------
(***************************************************************************)
(* A range: it is taken, gone through, and done.                           *)
(***************************************************************************)

\* A marked vertex is handled, also when it was marked in a later level.
LEMMA Dir2MarkTells ==
  ASSUME Dir2!IInv, NEW t \in Dir2!Thread, my[t].pc \in Dir2!InLevel, NEW v \in Vertex,
         IF my[t].back THEN Dir2!Scanned(v, my[t].depth) ELSE vis[v] >= my[t].depth
  PROVE  Dir2!Handled(my[t].depth, v)
<1>a. PICK d \in Nat : d = my[t].depth BY Dir2Parts, Dir2ThreadFields
<1>1. /\ my[t].back = Dir2!BackAt(d) /\ my[t].back \in BOOLEAN /\ (d > 0 => ~Dir2!FirstIsBack)
      /\ (~my[t].back => ~Dir2!FirstIsBack) /\ d + 1 \in Dir2!Depth
  BY <1>a, Dir2Parts, Dir2InLevelFacts, Dir2ThreadFields
<1>2. Dir2!MarksSound /\ vis[v] \in Int /\ vis_forw[v] \in Int
  BY Dir2Parts, Dir2Params DEF Dir2!Shape
<1>3. CASE my[t].back
 <2>1. vis_forw[v] >= d BY <1>3, <1>a DEF Dir2!Scanned
 <2> SUFFICES ASSUME Dir2!Goal[v] = d + 1 PROVE dist[v] # Dir2!Unset
   BY <1>1, <1>3, <1>a DEF Dir2!Handled, Dir2!HandledBack
 <2>2. CASE d = 0
  <3>1. Dir2!FirstIsBack BY <1>1, <1>3, <2>2, Dir2HeadSums
  <3> QED BY <2>2, <3>1, Dir2GoalFacts
 <2>3. CASE d # 0
  <3> PICK e \in Nat : e = vis_forw[v] BY <1>2, <2>1
  <3>1. Dir2!Complete(e) /\ Dir2!HandledBack(e, v) /\ e >= d BY <1>2, <2>1, <2>3 DEF Dir2!MarksSound
  <3>2. CASE e = d BY <3>1, <3>2 DEF Dir2!HandledBack
  <3>3. CASE e # d
   <4>1. Dir2!Goal[v] \in 0 .. e BY <3>1, <3>3
   <4> QED BY <3>1, <4>1, Dir2Params DEF Dir2!Complete
  <3> QED BY <3>2, <3>3
 <2> QED BY <2>2, <2>3
<1>4. CASE ~my[t].back
 <2> PICK e \in Nat : e = vis[v] BY <1>2, <1>4, <1>a
 <2>1. Dir2!Complete(e) /\ Dir2!HandledForward(e, v) /\ e >= d
   BY <1>2, <1>4, <1>a DEF Dir2!MarksSound
 <2>2. Dir2!Goal = Delta BY <1>1, <1>4, Dir2GoalFacts
 <2> SUFFICES ASSUME Dir2!Goal[v] = d, NEW x \in Dir2!Neighbors(v) PROVE dist[x] # Dir2!Unset
   BY <1>1, <1>4, <1>a DEF Dir2!Handled, Dir2!HandledForward
 <2>3. CASE e = d BY <2>1, <2>3 DEF Dir2!HandledForward
 <2>4. CASE e # d
  <3>1. x \in Vertex /\ Dir2!Goal[x] \in 0 .. d + 1 BY <2>2, Dir2GraphFacts
  <3>2. Dir2!Goal[x] \in 0 .. e BY <2>1, <2>4, <3>1
  <3> QED BY <2>1, <3>1, <3>2, Dir2Params DEF Dir2!Complete
 <2> QED BY <2>3, <2>4
<1> QED BY <1>1, <1>3, <1>4

\* A thread is in its range: what it has not to do any more is handled.
LEMMA Dir2RangeWalk ==
  ASSUME Dir2!IInv, Dir2Grows, NEW t \in Dir2!Thread, Dir2SamePlace(t), my[t].pc \in Dir2!InLevel,
         my'[t].pc \in {"link", "vertex", "unset", "level", "write_done"},
         my'[t].next_is_null \in BOOLEAN,
         my'[t].pc = "link" => my'[t].todo = Dir2!Owned(my[t].work_on),
         ~my'[t].next_is_null => linked'[my[t].depth + 1],
         my'[t].pc # "link" => linked'[my[t].depth + 1],
         my'[t].todo \subseteq Dir2!Owned(my[t].work_on),
         \A x \in Dir2!Owned(my[t].work_on) \ my'[t].todo :
           Dir2!Handled(my[t].depth, x) \/ (x = my'[t].u /\ my'[t].pc \in Dir2!AtVertex),
         my'[t].pc = "write_done" =>
           /\ my'[t].todo = {}
           /\ \A x \in my'[t].word : x \in Dir2!Thread /\ Dir2!HandledRange(my[t].depth, x)
  PROVE  Dir2!Walks(t)'
<1>a. PICK d \in Int, w \in Dir2!Thread : d = my[t].depth /\ w = my[t].work_on
  BY Dir2Parts, Dir2ThreadFields
<1>0. Dir2!Walks(t) /\ Dir2!DistSound /\ Dir2!Shape BY Dir2Parts
<1>1. my'[t].depth = d /\ my'[t].work_on = w /\ my'[t].turn = my[t].turn BY <1>a DEF Dir2SamePlace
<1>2. Dir2!Complete(d)'
 <2>1. Dir2!Complete(d) BY <1>0, <1>a DEF Dir2!Walks
 <2> QED BY <1>0, <2>1, Dir2Monotone
<1>3. Dir2!Passed(t)' = Dir2!Passed(t) /\ Dir2!Passed(t) \subseteq Dir2!Thread
  BY <1>0, <1>1, Dir2PassedOwners DEF Dir2!Passed
<1>4. \A x \in Dir2!Passed(t) : Dir2!HandledRange(d, x)'
 <2>1. \A x \in Dir2!Passed(t) : Dir2!HandledRange(d, x) BY <1>0, <1>a DEF Dir2!Walks
 <2> QED BY <1>0, <1>3, <2>1, Dir2Monotone
<1>5. ASSUME NEW x \in Dir2!Owned(w) \ my'[t].todo
      PROVE  Dir2!Handled(d, x)' \/ (x = my'[t].u /\ my'[t].pc \in Dir2!AtVertex)
 <2>1. x \in Vertex BY Dir2Ranges
 <2>2. Dir2!Handled(d, x) => Dir2!Handled(d, x)' BY <1>0, <2>1, Dir2Monotone
 <2> QED BY <1>a, <2>2
<1>6. my'[t].pc = "write_done" => \A x \in my'[t].word : Dir2!HandledRange(d, x)'
  BY <1>0, <1>a, Dir2Monotone
<1>7. my'[t].pc # "next" /\ my'[t].pc \notin {"sum"} \cup Dir2!Counting /\ (my'[t].pc \in Dir2!Scanning => my'[t].pc # "link")
  BY DEF Dir2!Scanning, Dir2!Counting
<1> QED BY <1>a, <1>1, <1>2, <1>3, <1>4, <1>5, <1>6, <1>7 DEF Dir2!Walks

LEMMA Dir2RangeSound ==
  ASSUME Dir2!IInv, Dir2Grows, NEW t \in Dir2!Thread, Dir2SamePlace(t), Dir2SameSums(t),
         my[t].pc \in Dir2!InLevel,
         my'[t].pc \in {"link", "vertex", "unset", "level", "write_done"},
         my'[t].back = my[t].back, my'[t].mu = my[t].mu, Dir2!Walks(t)',
         my'[t].pc = "level" => ~my[t].back,
         my'[t].pc = "unset" => my[t].back /\ my[t].depth > 0
  PROVE  Dir2Sound(t)'
<1>1. my'[t].pc \in Dir2!InLevel BY DEF Dir2!InLevel
<1>2. /\ my'[t].pc \in Dir2!Forward => my'[t].pc = "level"
      /\ my'[t].pc \in Dir2!Backward => my'[t].pc = "unset"
  BY DEF Dir2!Forward, Dir2!Backward
<1>3. Dir2!Rounds(t)' /\ Dir2!Summing(t)' /\ Dir2!Counts(t)' /\ Dir2!Directed(t)'
  BY <1>1, <1>2, Dir2InnerStep
<1>4. Dir2!View(t)' BY DEF Dir2!View, Dir2!AtNeighbor
<1> QED BY <1>3, <1>4 DEF Dir2Sound

LEMMA Dir2TakeVertexStep ==
  ASSUME Dir2!IInv, NEW t \in Dir2!Thread, Dir2!TakeVertex(t)
  PROVE  Dir2!IInv'
<1>a. PICK d \in Nat, w \in Dir2!Thread : d = my[t].depth /\ w = my[t].work_on
  BY Dir2Parts, Dir2ThreadFields
<1>0. my[t].pc = "vertex" /\ UNCHANGED <<a, dist, vis, vis_forw, nodes, linked>>
  BY DEF Dir2!TakeVertex, Dir2!At
<1>1. Dir2Grows /\ Dir2!Walks(t) /\ Dir2!Shape /\ my \in [Dir2!Thread -> Dir2!ThreadShape]
  BY <1>0, Dir2Stays, Dir2Parts DEF Dir2!Shape
<1>2. my[t].pc \in Dir2!InLevel /\ my[t].pc \in Dir2!Scanning /\ my[t].pc \notin Dir2!AtVertex
  BY <1>0 DEF Dir2!InLevel, Dir2!Scanning, Dir2!AtVertex
<1>3. PICK v \in my[t].todo :
        my' = [my EXCEPT ![t].todo = @ \ {v},
                         ![t].u = IF (IF my[t].back THEN Dir2!Scanned(v, my[t].depth) ELSE vis[v] >= my[t].depth) THEN 0 ELSE v,
                         ![t].pc = IF (IF my[t].back THEN Dir2!Scanned(v, my[t].depth) ELSE vis[v] >= my[t].depth) THEN "vertex"
                                   ELSE IF my[t].back THEN "unset" ELSE "level"]
  BY DEF Dir2!TakeVertex
<1> DEFINE m == IF my[t].back THEN Dir2!Scanned(v, my[t].depth) ELSE vis[v] >= my[t].depth
<1>4. v \in Vertex /\ m \in BOOLEAN
 <2>1. v \in Vertex BY <1>1, Dir2ThreadFields
 <2>2. Dir2!Scanned(v, my[t].depth) \in BOOLEAN /\ (vis[v] >= my[t].depth) \in BOOLEAN
   BY DEF Dir2!Scanned
 <2> QED BY <2>1, <2>2, Zenon
<1>5. m => Dir2!Handled(d, v) BY <1>2, <1>4, <1>a, Dir2MarkTells
<1>6. my[t].back /\ ~m => d > 0
 <2>1. vis_forw[v] \in Nat BY <1>1, <1>4, Dir2Params DEF Dir2!Shape
 <2> QED BY <1>a, <2>1 DEF Dir2!Scanned
<1> HIDE DEF m
<1>b. PICK k \in BOOLEAN : k = m BY <1>4
<1>7. Dir2Takes(t, v, k) BY <1>3, <1>b DEF m, Dir2Takes
<1>8. /\ Dir2Moves(t) /\ my'[t].todo = my[t].todo \ {v} /\ my'[t].u = (IF k THEN 0 ELSE v)
      /\ my'[t].pc = (IF k THEN "vertex" ELSE IF my[t].back THEN "unset" ELSE "level")
      /\ Dir2SamePlace(t) /\ Dir2SamePlan(t) /\ Dir2SameSums(t)
  BY <1>1, <1>4, <1>7, Dir2TakeMoves
<1>9. /\ my[t].todo \subseteq Dir2!Owned(w) /\ linked[d + 1]
      /\ \A x \in Dir2!Owned(w) \ my[t].todo : Dir2!Handled(d, x)
  BY <1>1, <1>2, <1>a DEF Dir2!Walks
<1>10. my'[t].next_is_null = my[t].next_is_null /\ my[t].next_is_null \in BOOLEAN
       /\ my'[t].back = my[t].back /\ my'[t].mu = my[t].mu
  BY <1>1, <1>8, Dir2ThreadFields DEF Dir2SamePlan
<1>11. my'[t].pc \in {"vertex", "unset", "level"} /\ (~k => my'[t].pc \in Dir2!AtVertex)
  BY <1>8 DEF Dir2!AtVertex
<1>12. \A x \in Dir2!Owned(w) \ my'[t].todo : Dir2!Handled(d, x) \/ (x = my'[t].u /\ my'[t].pc \in Dir2!AtVertex)
  BY <1>5, <1>8, <1>9, <1>11, <1>b
<1>13. my'[t].todo \subseteq Dir2!Owned(w) /\ linked'[d + 1] BY <1>0, <1>8, <1>9
<1>14. Dir2!Walks(t)' BY <1>1, <1>2, <1>8, <1>10, <1>11, <1>12, <1>13, <1>a, Dir2RangeWalk
<1>15. /\ my'[t].pc = "level" => ~my[t].back
       /\ my'[t].pc = "unset" => my[t].back /\ my[t].depth > 0
  BY <1>6, <1>8, <1>a, <1>b
<1>16. Dir2Sound(t)' BY <1>1, <1>2, <1>8, <1>10, <1>11, <1>14, <1>15, Dir2RangeSound
<1> QED BY <1>0, <1>8, <1>16, Dir2LocalStep

LEMMA Dir2LinkNextStep ==
  ASSUME Dir2!IInv, NEW t \in Dir2!Thread, Dir2!LinkNext(t)
  PROVE  Dir2!IInv'
<1>a. PICK d \in Nat, w \in Dir2!Thread : d = my[t].depth /\ w = my[t].work_on
  BY Dir2Parts, Dir2ThreadFields
<1>0. my[t].pc = "link" /\ UNCHANGED <<a, dist, vis, vis_forw, nodes>>
      /\ linked' = [linked EXCEPT ![d + 1] = TRUE]
      /\ my' = [my EXCEPT ![t].pc = "vertex", ![t].next_is_null = FALSE]
  BY <1>a DEF Dir2!LinkNext, Dir2!At
<1>1. Dir2!Walks(t) /\ Dir2!Shape /\ my \in [Dir2!Thread -> Dir2!ThreadShape] /\ Dir2!DistSound
  BY Dir2Parts DEF Dir2!Shape
<1>2. my[t].pc \in Dir2!InLevel /\ d + 1 \in Dir2!Depth
  BY <1>0, <1>a, Dir2InLevelFacts DEF Dir2!InLevel
<1>3. /\ linked' \in [Dir2!Depth -> BOOLEAN] /\ linked'[d + 1]
      /\ \A x \in Dir2!Depth : linked[x] => linked'[x]
  BY <1>0, <1>1, <1>2 DEF Dir2!Shape
<1>4. Dir2!Goal' = Dir2!Goal BY <1>0, Dir2Rigid
<1>5. Dir2Grows BY <1>0, <1>1, <1>3, <1>4 DEF Dir2Grows, Dir2!DistSound, Dir2!Counted
<1>6. /\ Dir2Moves(t) /\ my'[t].pc = "vertex" /\ my'[t].next_is_null = FALSE
      /\ Dir2SamePlace(t) /\ Dir2SameSums(t) /\ my'[t].todo = my[t].todo
      /\ my'[t].back = my[t].back /\ my'[t].mu = my[t].mu
  BY <1>0, <1>1, Dir2LinkMoves
<1>7. my[t].todo = Dir2!Owned(w) BY <1>0, <1>1, <1>a DEF Dir2!Walks
<1>8. Dir2!Walks(t)' BY <1>2, <1>3, <1>5, <1>6, <1>7, <1>a, Dir2RangeWalk
<1>9. Dir2Sound(t)' BY <1>2, <1>5, <1>6, <1>8, Dir2RangeSound
<1>10. Dir2!MarksSound' /\ Dir2!DoneSound' /\ Dir2!CountsSound'
  BY <1>0, <1>5, Dir2MarksKept, Dir2NodesKept
<1> QED BY <1>0, <1>1, <1>3, <1>5, <1>6, <1>9, <1>10, Dir2Assemble DEF Dir2!Shape

LEMMA Dir2ReadDoneStep ==
  ASSUME Dir2!IInv, NEW t \in Dir2!Thread, Dir2!ReadDone(t)
  PROVE  Dir2!IInv'
<1>a. PICK d \in Nat, w \in Dir2!Thread : d = my[t].depth /\ w = my[t].work_on
  BY Dir2Parts, Dir2ThreadFields
<1> DEFINE bits == nodes[d].done
<1>0. /\ my[t].pc = "vertex" /\ UNCHANGED <<a, dist, vis, vis_forw, nodes, linked>>
      /\ my[t].todo = {}
      /\ my' = [my EXCEPT ![t].word = bits, ![t].pc = "write_done"]
  BY <1>a DEF Dir2!ReadDone, Dir2!At, Dir2!Curr
<1>1. /\ Dir2Grows /\ Dir2!Walks(t) /\ Dir2!Shape /\ my \in [Dir2!Thread -> Dir2!ThreadShape]
      /\ Dir2!DoneSound
  BY <1>0, Dir2Stays, Dir2Parts DEF Dir2!Shape
<1>2. /\ my[t].pc \in Dir2!InLevel /\ my[t].pc \in Dir2!Scanning /\ my[t].pc \notin Dir2!AtVertex
      /\ d \in Dir2!Depth /\ "write_done" \in Dir2!Labels
  BY <1>0, <1>1, <1>a, Dir2ThreadFields, Dir2LabelSet DEF Dir2!InLevel, Dir2!Scanning, Dir2!AtVertex
<1>3. bits \in SUBSET Dir2!Thread /\ \A x \in bits : Dir2!HandledRange(d, x)
  BY <1>1, <1>2 DEF Dir2!Shape, Dir2!NodeShape, Dir2!DoneSound
<1> HIDE DEF bits
<1>4. /\ Dir2Moves(t) /\ my'[t].word = bits /\ my'[t].pc = "write_done"
      /\ Dir2SamePlace(t) /\ Dir2SameSums(t) /\ Dir2SamePlan(t) /\ my'[t].todo = {}
  BY <1>0, <1>1, <1>2, <1>3, Dir2ReadMoves
<1>5. linked[d + 1] /\ \A x \in Dir2!Owned(w) : Dir2!Handled(d, x)
  BY <1>0, <1>1, <1>2, <1>a DEF Dir2!Walks
<1>6. my'[t].next_is_null = my[t].next_is_null /\ my[t].next_is_null \in BOOLEAN
      /\ my'[t].back = my[t].back /\ my'[t].mu = my[t].mu
  BY <1>1, <1>4, Dir2ThreadFields DEF Dir2SamePlan
<1>7. Dir2!Walks(t)' BY <1>0, <1>1, <1>2, <1>3, <1>4, <1>5, <1>6, <1>a, Dir2RangeWalk
<1>8. Dir2Sound(t)' BY <1>1, <1>2, <1>4, <1>6, <1>7, Dir2RangeSound
<1> QED BY <1>0, <1>4, <1>8, Dir2LocalStep

-----------------------------------------------------------------------------
(***************************************************************************)
(* The end of a range, and of a level.                                     *)
(***************************************************************************)

\* When every range is handled, the next level is there.
LEMMA Dir2LevelOver ==
  ASSUME Dir2!DistSound, NEW d \in Nat, Dir2!Complete(d),
         \A w \in Dir2!Thread : Dir2!HandledRange(d, w)
  PROVE  Dir2!Complete(d + 1)
<1> SUFFICES ASSUME NEW v \in Vertex, Dir2!Goal[v] = d + 1 PROVE dist[v] # Dir2!Unset
 <2>1. \A v \in Vertex : Dir2!Goal[v] \in 0 .. d + 1 => Dir2!Goal[v] \in 0 .. d \/ Dir2!Goal[v] = d + 1
   OBVIOUS
 <2> QED BY <2>1 DEF Dir2!Complete, Dir2!DistSound
<1>1. \A u \in Vertex : Dir2!Handled(d, u) BY Dir2Ranges DEF Dir2!HandledRange
<1>2. CASE Dir2!BackAt(d) BY <1>1, <1>2 DEF Dir2!Handled, Dir2!HandledBack
<1>3. CASE ~Dir2!BackAt(d)
 <2>1. Dir2!Goal[v] \notin {0, -1} OBVIOUS
 <2>2. Dir2!Goal = Delta BY <2>1, Dir2GoalFacts
 <2>3. Delta[v] > 0 /\ Delta[v] = d + 1 BY <2>2
 <2>4. PICK u \in Vertex : Delta[u] = Delta[v] - 1 /\ v \in Dir2!Neighbors(u)
   BY <2>3, Dir2GraphFacts
 <2>5. Dir2!Goal[u] = d BY <2>2, <2>3, <2>4
 <2> QED BY <1>1, <1>3, <2>4, <2>5 DEF Dir2!Handled, Dir2!HandledForward
<1> QED BY <1>2, <1>3

\* The owners passed after one more.
LEMMA Dir2PassedNext ==
  ASSUME Dir2!Shape, NEW t \in Dir2!Thread, my[t].work_on = Dir2!Turn(t, my[t].turn),
         NEW x \in Dir2!Thread, x \in {Dir2!Turn(t, k) : k \in 0 .. my[t].turn}
  PROVE  x \in Dir2!Passed(t) \/ x = my[t].work_on
<1>1. my[t].turn \in Nat BY Dir2ThreadFields
<1>2. PICK k \in 0 .. my[t].turn : x = Dir2!Turn(t, k) OBVIOUS
<1>3. CASE k = my[t].turn BY <1>2, <1>3
<1>4. CASE k # my[t].turn
 <2>1. k \in 0 .. my[t].turn - 1 BY <1>1, <1>4
 <2> QED BY <1>2, <2>1 DEF Dir2!Passed
<1> QED BY <1>3, <1>4

LEMMA Dir2RoundOver ==
  ASSUME Dir2!IInv, NEW t \in Dir2!Thread, my[t].pc \notin {"sum", "next", "returned"},
         NEW x \in Dir2!Thread
  PROVE  /\ my[t].work_on = Dir2!Turn(t, my[t].turn) /\ my[t].turn \in Dir2!Thread
         /\ my[t].turn \in Nat
         /\ x \in {Dir2!Turn(t, k) : k \in 0 .. my[t].turn} => x \in Dir2!Passed(t) \/ x = my[t].work_on
         /\ my[t].turn = NumT - 1 =>
              x \in Dir2!Passed(t) \/ x = my[t].work_on
         /\ my[t].turn = NumT - 1 => (my[t].work_on + 1) % NumT = t
         /\ my[t].turn # NumT - 1 =>
              /\ my[t].turn + 1 \in Dir2!Thread
              /\ (my[t].work_on + 1) % NumT = Dir2!Turn(t, my[t].turn + 1)
<1>1. /\ my[t].work_on = Dir2!Turn(t, my[t].turn) /\ my[t].turn \in Dir2!Thread
      /\ my[t].turn \in Nat /\ Dir2!Shape
  BY Dir2Parts, Dir2ThreadFields DEF Dir2!Rounds
<1>2. x \in {Dir2!Turn(t, k) : k \in 0 .. my[t].turn} => x \in Dir2!Passed(t) \/ x = my[t].work_on
  BY <1>1, Dir2PassedNext
<1>3. my[t].turn = NumT - 1 => x \in {Dir2!Turn(t, k) : k \in 0 .. my[t].turn}
  BY Dir2AllTurns, Dir2Params
<1>4. my[t].turn = NumT - 1 => (my[t].work_on + 1) % NumT = t
 <2>1. my[t].turn = NumT - 1 => my[t].turn + 1 = NumT BY Dir2Params
 <2> QED BY <1>1, <2>1, Dir2TurnNext
<1>5. my[t].turn # NumT - 1 =>
        /\ my[t].turn + 1 \in Dir2!Thread
        /\ (my[t].work_on + 1) % NumT = Dir2!Turn(t, my[t].turn + 1)
 <2>1. my[t].turn # NumT - 1 => my[t].turn + 1 < NumT /\ my[t].turn + 1 \in Dir2!Thread
   BY SMTT(30), <1>1, Dir2Params
 <2> QED BY <1>1, <2>1, Dir2TurnNext
<1> QED BY <1>1, <1>2, <1>3, <1>4, <1>5

LEMMA Dir2LevelTurn ==
  ASSUME Dir2!IInv, Dir2Grows, NEW t \in Dir2!Thread, my[t].pc \in Dir2!InLevel,
         Dir2!NextOwner(t, "done", "next"),
         linked[my[t].depth + 1], Dir2!HandledRange(my[t].depth, my[t].work_on)
  PROVE  Dir2Moves(t) /\ Dir2Sound(t)'
<1>a. PICK d \in Nat, w \in Dir2!Thread, k \in Nat :
        d = my[t].depth /\ w = my[t].work_on /\ k = my[t].turn
  BY Dir2Parts, Dir2ThreadFields
<1>0. /\ Dir2!Shape /\ my \in [Dir2!Thread -> Dir2!ThreadShape] /\ Dir2!DistSound /\ Dir2!Walks(t)
      /\ d + 1 \in Dir2!Depth
      /\ my[t].next_is_null \in BOOLEAN
  BY <1>a, Dir2Parts, Dir2InLevelFacts, Dir2ThreadFields DEF Dir2!Shape
<1>1. /\ my[t].pc \notin {"sum", "next", "returned"} /\ "done" \in Dir2!Labels
      /\ "next" \in Dir2!Labels
      /\ "done" \in Dir2!InLevel /\ "next" \notin Dir2!InLevel /\ "done" \notin Dir2!Scanning
      /\ "next" \notin Dir2!Scanning
      /\ "done" \notin {"sum"} \cup Dir2!Counting /\ "next" \notin {"sum"} \cup Dir2!Counting
  BY Dir2LabelSet DEF Dir2!InLevel, Dir2!Scanning, Dir2!Counting
<1>2. /\ w = Dir2!Turn(t, k) /\ k \in Dir2!Thread
      /\ \A x \in Dir2!Thread :
           /\ x \in {Dir2!Turn(t, i) : i \in 0 .. k} => x \in Dir2!Passed(t) \/ x = w
           /\ k = NumT - 1 => x \in Dir2!Passed(t) \/ x = w
      /\ k = NumT - 1 => (w + 1) % NumT = t
      /\ k # NumT - 1 => k + 1 \in Dir2!Thread /\ (w + 1) % NumT = Dir2!Turn(t, k + 1)
  BY <1>1, <1>a, Dir2RoundOver
<1>3. /\ Dir2Moves(t) /\ my'[t].pc = (IF k = NumT - 1 THEN "next" ELSE "done")
      /\ my'[t].work_on = (w + 1) % NumT
      /\ my'[t].turn = (IF k = NumT - 1 THEN 0 ELSE k + 1)
      /\ my'[t].depth = d /\ Dir2SamePlan(t) /\ Dir2SameSums(t)
  BY <1>0, <1>1, <1>a, Dir2NextOwnerMoves
<1>4. /\ my'[t].back = my[t].back /\ my'[t].mu = my[t].mu
      /\ my'[t].next_is_null = my[t].next_is_null
  BY <1>3 DEF Dir2SamePlan
<1>5. /\ my'[t].pc \in Dir2!InLevel \cup {"next"} /\ my'[t].pc \notin Dir2!Forward
      /\ my'[t].pc \notin Dir2!Backward
  BY <1>1, <1>3 DEF Dir2!Forward, Dir2!Backward
<1>6. Dir2!Summing(t)' /\ Dir2!Counts(t)' /\ Dir2!Directed(t)'
  BY <1>3, <1>4, <1>5, <1>a, Dir2InnerRest
<1>7. Dir2!Rounds(t)' BY <1>2, <1>3 DEF Dir2!Rounds
<1>8. Dir2!View(t)' BY <1>3 DEF Dir2!View, Dir2!AtNeighbor
<1>9. /\ Dir2!Complete(d) /\ linked'[d + 1] /\ Dir2!HandledRange(d, w)
      /\ \A x \in Dir2!Passed(t) : Dir2!HandledRange(d, x)
  BY <1>0, <1>a DEF Dir2!Walks, Dir2Grows
<1>10. Dir2!Complete(d)' BY <1>0, <1>9, Dir2Monotone
<1>11. CASE k = NumT - 1
 <2>1. \A x \in Dir2!Thread : Dir2!HandledRange(d, x) BY <1>2, <1>9, <1>11
 <2>2. Dir2!Complete(d + 1) BY <1>0, <1>9, <2>1, Dir2LevelOver
 <2>3. Dir2!Complete(d + 1)' BY <1>0, <2>2, Dir2Monotone
 <2>4. my'[t].pc = "next" BY <1>3, <1>11
 <2>5. Dir2!Walks(t)' BY <1>1, <1>3, <1>9, <1>10, <2>3, <2>4 DEF Dir2!Walks
 <2> QED BY <1>3, <1>6, <1>7, <1>8, <2>5 DEF Dir2Sound
<1>12. CASE k # NumT - 1
 <2>1. my'[t].pc = "done" /\ my'[t].turn = k + 1 BY <1>3, <1>12
 <2>2. Dir2!Passed(t)' = {Dir2!Turn(t, i) : i \in 0 .. k}
  <3>1. (k + 1) - 1 = k OBVIOUS
  <3> QED BY <2>1, <3>1 DEF Dir2!Passed
 <2>3. Dir2!Passed(t)' \subseteq Dir2!Thread
  <3>1. \A i \in 0 .. k : i \in Dir2!Thread BY <1>2, Dir2Params
  <3> QED BY <2>2, <3>1, Dir2TurnNext
 <2>4. \A x \in Dir2!Passed(t)' : Dir2!HandledRange(d, x) BY <1>2, <1>9, <2>2, <2>3
 <2>5. \A x \in Dir2!Passed(t)' : Dir2!HandledRange(d, x)' BY <1>0, <2>3, <2>4, Dir2Monotone
 <2>6. Dir2!Walks(t)' BY <1>1, <1>3, <1>9, <1>10, <2>1, <2>5 DEF Dir2!Walks
 <2> QED BY <1>3, <1>6, <1>7, <1>8, <2>6 DEF Dir2Sound
<1> QED BY <1>11, <1>12

LEMMA Dir2TestDoneStep ==
  ASSUME Dir2!IInv, NEW t \in Dir2!Thread, Dir2!TestDone(t)
  PROVE  Dir2!IInv'
<1>a. PICK d \in Dir2!Depth, w \in Dir2!Thread : d = my[t].depth /\ w = my[t].work_on
  BY Dir2Parts, Dir2ThreadFields
<1>0. my[t].pc = "done" /\ UNCHANGED <<a, dist, vis, vis_forw, nodes, linked>>
  BY DEF Dir2!TestDone, Dir2!At
<1>1. /\ Dir2Grows /\ Dir2!Walks(t) /\ Dir2!Shape /\ my \in [Dir2!Thread -> Dir2!ThreadShape]
      /\ Dir2!DoneSound /\ d \in Nat
      /\ my[t].pc \in Dir2!InLevel /\ my[t].next_is_null \in BOOLEAN
  BY <1>0, <1>a, Dir2Stays, Dir2Parts, Dir2ThreadFields, Dir2Params DEF Dir2!Shape, Dir2!InLevel
<1>2. CASE w \in nodes[d].done
 <2>1. Dir2!NextOwner(t, "done", "next") BY <1>2, <1>a DEF Dir2!TestDone, Dir2!Curr
 <2>2. linked[d + 1] /\ Dir2!HandledRange(d, w) BY <1>1, <1>2 DEF Dir2!DoneSound
 <2>3. Dir2Moves(t) /\ Dir2Sound(t)' BY <1>1, <1>a, <2>1, <2>2, Dir2LevelTurn
 <2> QED BY <1>0, <2>3, Dir2LocalStep
<1>3. CASE w \notin nodes[d].done
 <2>1. my' = [my EXCEPT ![t].pc = IF my[t].next_is_null THEN "link" ELSE "vertex",
                        ![t].todo = Dir2!Owned(my[t].work_on)]
   BY <1>3, <1>a DEF Dir2!TestDone, Dir2!Curr
 <2>2. /\ Dir2Moves(t) /\ my'[t].pc = (IF my[t].next_is_null THEN "link" ELSE "vertex")
       /\ my'[t].todo = Dir2!Owned(w) /\ Dir2SamePlace(t) /\ Dir2SamePlan(t) /\ Dir2SameSums(t)
   BY <1>1, <1>a, <2>1, Dir2TakeRangeMoves
 <2>3. /\ my'[t].next_is_null = my[t].next_is_null
       /\ my'[t].back = my[t].back /\ my'[t].mu = my[t].mu
   BY <2>2 DEF Dir2SamePlan
 <2>4. ~my[t].next_is_null => linked'[d + 1] BY <1>0, <1>1, <1>a DEF Dir2!Walks
 <2>5. Dir2!Walks(t)' BY <1>1, <1>a, <2>2, <2>3, <2>4, Dir2RangeWalk
 <2>6. Dir2Sound(t)' BY <1>1, <2>2, <2>3, <2>5, Dir2RangeSound
 <2> QED BY <1>0, <2>2, <2>6, Dir2LocalStep
<1> QED BY <1>2, <1>3

LEMMA Dir2WriteDoneStep ==
  ASSUME Dir2!IInv, NEW t \in Dir2!Thread, Dir2!WriteDone(t)
  PROVE  Dir2!IInv'
<1>a. PICK d \in Dir2!Depth, w \in Dir2!Thread, bits \in SUBSET Dir2!Thread :
        d = my[t].depth /\ w = my[t].work_on /\ bits = my[t].word
  BY Dir2Parts, Dir2ThreadFields
<1>0. /\ my[t].pc = "write_done" /\ UNCHANGED <<a, dist, vis, vis_forw, linked>>
      /\ nodes' = [nodes EXCEPT ![d].done = bits \cup {w}] /\ Dir2!NextOwner(t, "done", "next")
  BY <1>a DEF Dir2!WriteDone, Dir2!At
<1>1. /\ Dir2!Walks(t) /\ Dir2!Shape /\ Dir2!DoneSound /\ Dir2!DistSound /\ Dir2!CountsSound
      /\ d \in Nat
      /\ my[t].pc \in Dir2!InLevel /\ my[t].pc \in Dir2!Scanning /\ my[t].pc \notin Dir2!AtVertex
  BY <1>0, <1>a, Dir2Parts, Dir2Params DEF Dir2!InLevel, Dir2!Scanning, Dir2!AtVertex
<1>2. d <= MaxDelta BY <1>1, <1>a, Dir2InLevelFacts
<1>3. /\ linked[d + 1] /\ Dir2!Complete(d) /\ \A x \in bits : Dir2!HandledRange(d, x)
      /\ Dir2!HandledRange(d, w)
  BY <1>0, <1>1, <1>a DEF Dir2!Walks, Dir2!HandledRange
<1>4. nodes \in [Dir2!Depth -> Dir2!NodeShape] BY <1>1 DEF Dir2!Shape
<1>5. /\ nodes' \in [Dir2!Depth -> Dir2!NodeShape] /\ nodes'[d].done = bits \cup {w}
      /\ \A e \in Dir2!Depth : e # d => nodes'[e] = nodes[e]
      /\ \A e \in Dir2!Depth : /\ nodes'[e].done_calcs = nodes[e].done_calcs
                          /\ nodes'[e].nodes = nodes[e].nodes /\ nodes'[e].edges = nodes[e].edges
 <2> DEFINE r == [nodes[d] EXCEPT !.done = bits \cup {w}]
 <2>1. nodes[d] \in Dir2!NodeShape BY <1>4
 <2>2. /\ r \in Dir2!NodeShape /\ r.done = bits \cup {w} /\ r.done_calcs = nodes[d].done_calcs
       /\ r.nodes = nodes[d].nodes /\ r.edges = nodes[d].edges
   BY <2>1 DEF Dir2!NodeShape
 <2>3. nodes' = [nodes EXCEPT ![d] = r] BY <1>0
 <2> HIDE DEF r
 <2> QED BY <1>4, <2>2, <2>3
<1>6. Dir2!Goal' = Dir2!Goal BY <1>0, Dir2Rigid
<1>7. \A e \in Dir2!Depth : \A x \in Dir2!Thread : Dir2!Counted(e, x)' <=> Dir2!Counted(e, x)
  BY <1>5, <1>6 DEF Dir2!Counted
<1>8. Dir2Grows BY <1>0, <1>1, <1>6, <1>7 DEF Dir2Grows, Dir2!DistSound
<1>9. Dir2!CountsSound'
 <2>1. \A e \in Dir2!Depth : nodes[e].done_calcs \subseteq Dir2!Thread BY <1>4 DEF Dir2!NodeShape
 <2> QED BY <1>1, <1>5, <1>7, <2>1, Dir2Params DEF Dir2!CountsSound
<1>10. Dir2!DoneSound'
 <2> SUFFICES ASSUME NEW e \in Dir2!Depth, NEW x \in nodes'[e].done
              PROVE  /\ e <= MaxDelta /\ linked'[e + 1] /\ Dir2!Complete(e)'
                     /\ Dir2!HandledRange(e, x)'
   BY DEF Dir2!DoneSound
 <2>1. CASE e # d BY <1>5, <1>8, <2>1, Dir2DoneKept
 <2>2. CASE e = d
  <3>1. x \in bits \cup {w} /\ x \in Dir2!Thread BY <1>5, <2>2
  <3>2. Dir2!HandledRange(d, x) /\ Dir2!Complete(d) BY <1>3, <3>1
  <3>3. Dir2!HandledRange(d, x)' /\ Dir2!Complete(d)' BY <1>1, <1>8, <3>1, <3>2, Dir2Monotone
  <3> QED BY <1>0, <1>2, <1>3, <2>2, <3>3
 <2> QED BY <2>1, <2>2
<1>11. Dir2Moves(t) /\ Dir2Sound(t)' BY <1>0, <1>1, <1>3, <1>8, <1>a, Dir2LevelTurn
<1>12. Dir2!MarksSound' BY <1>0, <1>8, Dir2MarksKept
<1> QED BY <1>0, <1>1, <1>5, <1>8, <1>9, <1>10, <1>11, <1>12, Dir2Assemble DEF Dir2!Shape

LEMMA Dir2AdvanceStep ==
  ASSUME Dir2!IInv, NEW t \in Dir2!Thread, Dir2!Advance(t)
  PROVE  Dir2!IInv'
<1>a. PICK d \in Nat : d = my[t].depth BY Dir2Parts, Dir2ThreadFields
<1>0. /\ my[t].pc = "next" /\ UNCHANGED <<a, dist, vis, vis_forw, nodes, linked>>
      /\ my' = [my EXCEPT ![t].depth = @ + 1, ![t].pc = "calcs", ![t].back = FALSE,
                          ![t].next_is_null = TRUE]
  BY DEF Dir2!Advance, Dir2!At
<1>1. /\ Dir2Grows /\ Dir2!Walks(t) /\ Dir2!Shape /\ my \in [Dir2!Thread -> Dir2!ThreadShape]
      /\ Dir2!DistSound
      /\ Dir2!Rounds(t) /\ Dir2!Summing(t) /\ Dir2!Directed(t) /\ d + 1 \in Dir2!Depth
  BY <1>0, <1>a, Dir2Stays, Dir2Parts, Dir2InLevelFacts DEF Dir2!Shape
<1>2. /\ Dir2Moves(t) /\ my'[t].depth = d + 1 /\ my'[t].pc = "calcs" /\ Dir2SameSums(t)
      /\ my'[t].work_on = my[t].work_on /\ my'[t].turn = my[t].turn /\ my'[t].mu = my[t].mu
      /\ my'[t].next_is_null = TRUE
  BY ZenonT(40), <1>0, <1>1, <1>a, Dir2AdvanceMoves
<1>3. my[t].work_on = t /\ my[t].turn = 0 BY <1>0, <1>1 DEF Dir2!Rounds
<1>4. Dir2!Goal' = Dir2!Goal BY <1>0, Dir2Rigid
<1>5. Dir2!Rounds(t)' BY <1>2, <1>3, Dir2TurnNext, Dir2Params DEF Dir2!Rounds
<1>6. Dir2!Summing(t)'
 <2>1. /\ my[t].mf = Dir2!Running(Dir2!Edges(Dir2!Goal, d))[0]
       /\ my[t].nf = Dir2!Running(Dir2!Nodes(Dir2!Goal, d))[0]
       /\ (my[t].imp <=> \E k \in 0 .. 0 - 1 : Dir2!Nodes(Dir2!Goal, d)[k] # 0)
       /\ 0 .. 0 - 1 = {}
   BY <1>0, <1>1, <1>a DEF Dir2!Summing
 <2>2. my'[t].mf = 0 /\ my'[t].nf = 0 /\ (my'[t].imp <=> FALSE)
   BY <1>2, <2>1, Dir2RunningFacts DEF Dir2SameSums
 <2>3. /\ Dir2!Running(Dir2!Edges(Dir2!Goal, d + 1))[0] = 0
       /\ Dir2!Running(Dir2!Nodes(Dir2!Goal, d + 1))[0] = 0
   BY Dir2RunningFacts
 <2>4. my'[t].mu = Dir2!Remaining(Dir2!Goal)[d + 1] BY <1>0, <1>1, <1>2, <1>a DEF Dir2!Directed
 <2> QED BY <1>2, <1>4, <2>1, <2>2, <2>3, <2>4 DEF Dir2!Summing
<1>7. Dir2!Counts(t)'
 <2>1. Dir2!Passed(t)' = {} BY <1>2, <1>3 DEF Dir2!Passed
 <2> QED BY <1>2, <2>1, <1>a DEF Dir2!Counts
<1>8. Dir2!Directed(t)' BY <1>2 DEF Dir2!Directed, Dir2!InLevel, Dir2!Forward, Dir2!Backward
<1>9. Dir2!Walks(t)'
 <2>1. Dir2!Complete(d + 1) BY <1>0, <1>1, <1>a DEF Dir2!Walks
 <2>2. Dir2!Complete(d + 1)' BY <1>1, <2>1, Dir2Monotone
 <2> QED BY <1>2, <2>2 DEF Dir2!Walks, Dir2!InLevel, Dir2!Scanning
<1>10. Dir2!View(t)' BY <1>2 DEF Dir2!View, Dir2!AtNeighbor
<1>11. Dir2Sound(t)' BY <1>5, <1>6, <1>7, <1>8, <1>9, <1>10 DEF Dir2Sound
<1> QED BY <1>0, <1>2, <1>11, Dir2LocalStep

-----------------------------------------------------------------------------
(***************************************************************************)
(* The counts of a level.                                                  *)
(***************************************************************************)
LEMMA Dir2CountingFacts ==
  ASSUME Dir2!IInv, NEW t \in Dir2!Thread, my[t].pc \in Dir2!Counting
  PROVE  /\ my[t].depth \in Nat /\ my[t].depth > 0 /\ my[t].depth \in Dir2!Depth
         /\ my[t].work_on \in Dir2!Thread
         /\ my[t].pc \notin {"sum", "next", "returned"} /\ my[t].pc \notin Dir2!InLevel
         /\ \A w \in Dir2!Passed(t) : Dir2!Counted(my[t].depth, w)
         /\ Dir2!Shape /\ my \in [Dir2!Thread -> Dir2!ThreadShape]
         /\ nodes \in [Dir2!Depth -> Dir2!NodeShape]
<1>1. Dir2!Counts(t) /\ Dir2!Shape BY Dir2Parts
<1>2. my[t].pc \notin {"sum", "next", "returned"} /\ my[t].pc \notin Dir2!InLevel
  BY DEF Dir2!Counting, Dir2!InLevel
<1> QED BY <1>1, <1>2, Dir2ThreadFields DEF Dir2!Counts, Dir2!Shape

\* What is known of a thread that counts, apart from the counts.
LEMMA Dir2CountingSound ==
  ASSUME Dir2!IInv, Dir2Grows, NEW t \in Dir2!Thread, Dir2SamePlace(t), Dir2SameSums(t),
         Dir2SamePlan(t),
         my[t].pc \in Dir2!Counting, my'[t].pc \in Dir2!Counting,
         my'[t].pc = "write_counts" => my'[t].todo = Dir2!InRange(Dir2!Goal, my[t].depth, my[t].work_on),
         \A d \in Dir2!Depth, w \in Dir2!Thread :
           d = my[t].depth /\ w = my[t].work_on /\ my'[t].pc \in {"read_calcs", "write_calcs"} =>
             Dir2!Counted(d, w)',
         my'[t].pc = "write_calcs" => \A w \in my'[t].word : w \in Dir2!Thread /\ Dir2!Counted(my[t].depth, w)
  PROVE  Dir2Sound(t)'
<1>a. PICK d \in Dir2!Depth, w \in Dir2!Thread : d = my[t].depth /\ w = my[t].work_on
  BY Dir2Parts, Dir2ThreadFields
<1>0. Dir2!Rounds(t) /\ Dir2!Summing(t) /\ Dir2!Walks(t) /\ Dir2!DistSound /\ d \in Int
  BY Dir2Parts, Dir2Params
<1>1. /\ d > 0 /\ my[t].pc \notin {"sum", "next", "returned"} /\ Dir2!Shape
      /\ \A x \in Dir2!Passed(t) : Dir2!Counted(d, x)
  BY <1>a, Dir2CountingFacts
<1>2. my'[t].pc \notin {"sum", "next", "returned"} /\ my'[t].pc \notin Dir2!InLevel
  BY DEF Dir2!Counting, Dir2!InLevel
<1>3. my'[t].depth = d /\ my'[t].work_on = w /\ my'[t].turn = my[t].turn BY <1>a DEF Dir2SamePlace
<1>4. Dir2!Goal' = Dir2!Goal /\ \A x \in Dir2!Thread : Dir2!Counted(d, x) => Dir2!Counted(d, x)'
  BY Dir2Rigid DEF Dir2Grows
<1>5. Dir2!Rounds(t)' BY <1>0, <1>1, <1>2, <1>3, <1>a DEF Dir2!Rounds
<1>b. my'[t].mu = my[t].mu /\ my'[t].next_is_null = my[t].next_is_null BY DEF Dir2SamePlan
<1>6. Dir2!Summing(t)' BY <1>b, <1>0, <1>1, <1>2, <1>3, <1>4, <1>a DEF Dir2!Summing, Dir2SameSums
<1>7. Dir2!Counts(t)'
 <2>1. Dir2!Passed(t)' = Dir2!Passed(t) /\ Dir2!Passed(t) \subseteq Dir2!Thread
   BY <1>1, <1>3, Dir2PassedOwners DEF Dir2!Passed
 <2>2. \A x \in Dir2!Passed(t) : Dir2!Counted(d, x)' BY <1>1, <1>4, <2>1
 <2>3. my'[t].pc = "write_calcs" => \A x \in my'[t].word : Dir2!Counted(d, x)' BY <1>4, <1>a
 <2>4. my'[t].pc \in {"read_calcs", "write_calcs"} => Dir2!Counted(d, w)' BY <1>a
 <2> QED BY <1>1, <1>3, <1>4, <1>a, <2>1, <2>2, <2>3, <2>4 DEF Dir2!Counts
<1>8. Dir2!Directed(t)' BY <1>2 DEF Dir2!Directed, Dir2!InLevel, Dir2!Forward, Dir2!Backward
<1>9. Dir2!Walks(t)'
 <2>1. Dir2!Complete(d)' BY <1>0, <1>a, Dir2Monotone DEF Dir2!Walks
 <2>3. my[t].next_is_null BY <1>0 DEF Dir2!Walks
 <2>4. my'[t].next_is_null = my[t].next_is_null BY DEF Dir2SamePlan
 <2>2. my'[t].pc \notin Dir2!Scanning /\ my'[t].pc # "link" /\ my'[t].pc # "write_done"
   BY <1>2 DEF Dir2!Scanning, Dir2!InLevel
 <2> QED BY <1>2, <1>3, <2>1, <2>2, <2>3, <2>4 DEF Dir2!Walks
<1>10. Dir2!View(t)' BY <1>2 DEF Dir2!View, Dir2!AtNeighbor, Dir2!InLevel
<1> QED BY <1>5, <1>6, <1>7, <1>8, <1>9, <1>10 DEF Dir2Sound

\* The next owner, after one whose counts are there.
LEMMA Dir2CountsTurn ==
  ASSUME Dir2!IInv, Dir2Grows, NEW t \in Dir2!Thread, my[t].pc \in Dir2!Counting, Dir2!NextCalc(t),
         \A d \in Dir2!Depth, w \in Dir2!Thread : d = my[t].depth /\ w = my[t].work_on => Dir2!Counted(d, w)'
  PROVE  Dir2Moves(t) /\ Dir2Sound(t)'
<1>a. PICK d \in Dir2!Depth, w \in Dir2!Thread, k \in Nat :
        d = my[t].depth /\ w = my[t].work_on /\ k = my[t].turn
  BY Dir2Parts, Dir2ThreadFields
<1>0. Dir2!Rounds(t) /\ Dir2!Summing(t) /\ Dir2!Walks(t) /\ Dir2!DistSound /\ d \in Int
  BY Dir2Parts, Dir2Params
<1>1. /\ d > 0 /\ my[t].pc \notin {"sum", "next", "returned"} /\ Dir2!Shape
      /\ my \in [Dir2!Thread -> Dir2!ThreadShape]
      /\ \A x \in Dir2!Passed(t) : Dir2!Counted(d, x)
      /\ "calcs" \in Dir2!Labels /\ "sum" \in Dir2!Labels
  BY <1>a, Dir2CountingFacts, Dir2LabelSet
<1>2. /\ w = Dir2!Turn(t, k) /\ k \in Dir2!Thread
      /\ \A x \in Dir2!Thread :
           /\ x \in {Dir2!Turn(t, i) : i \in 0 .. k} => x \in Dir2!Passed(t) \/ x = w
           /\ k = NumT - 1 => x \in Dir2!Passed(t) \/ x = w
      /\ k = NumT - 1 => (w + 1) % NumT = t
      /\ k # NumT - 1 => k + 1 \in Dir2!Thread /\ (w + 1) % NumT = Dir2!Turn(t, k + 1)
  BY <1>1, <1>a, Dir2RoundOver
<1>3. /\ Dir2Moves(t) /\ my'[t].pc = (IF k = NumT - 1 THEN "sum" ELSE "calcs")
      /\ my'[t].work_on = (w + 1) % NumT
      /\ my'[t].turn = (IF k = NumT - 1 THEN 0 ELSE k + 1)
      /\ my'[t].depth = d /\ Dir2SamePlan(t) /\ Dir2SameSums(t)
  BY <1>1, <1>a, Dir2NextOwnerMoves DEF Dir2!NextCalc
<1>4. Dir2!Goal' = Dir2!Goal /\ \A x \in Dir2!Thread : Dir2!Counted(d, x) => Dir2!Counted(d, x)'
  BY Dir2Rigid DEF Dir2Grows
<1>5. /\ Dir2!Counted(d, w)'
      /\ \A x \in Dir2!Thread : x \in Dir2!Passed(t) \/ x = w => Dir2!Counted(d, x)'
  BY <1>1, <1>4, <1>a
<1>6. Dir2!Rounds(t)' BY <1>2, <1>3 DEF Dir2!Rounds
<1>7. Dir2!Summing(t)'
 <2>1. /\ my[t].mf = Dir2!Running(Dir2!Edges(Dir2!Goal, d))[0]
       /\ my[t].nf = Dir2!Running(Dir2!Nodes(Dir2!Goal, d))[0]
       /\ (my[t].imp <=> \E i \in 0 .. 0 - 1 : Dir2!Nodes(Dir2!Goal, d)[i] # 0)
       /\ my[t].mu = Dir2!Remaining(Dir2!Goal)[d]
   BY <1>0, <1>1, <1>a DEF Dir2!Summing
 <2>2. /\ my'[t].mf = my[t].mf /\ my'[t].nf = my[t].nf /\ my'[t].imp = my[t].imp
       /\ my'[t].mu = my[t].mu
   BY <1>3 DEF Dir2SameSums, Dir2SamePlan
 <2>3. my'[t].pc = "sum" => my'[t].turn = 0 /\ \A x \in Dir2!Thread : Dir2!Counted(d, x)'
   BY <1>2, <1>3, <1>5
 <2> QED BY <1>3, <1>4, <2>1, <2>2, <2>3 DEF Dir2!Summing
<1>8. Dir2!Counts(t)'
 <2>1. CASE k = NumT - 1 BY <1>3, <2>1 DEF Dir2!Counts, Dir2!Counting
 <2>2. CASE k # NumT - 1
  <3>1. my'[t].pc = "calcs" /\ my'[t].turn = k + 1 /\ (k + 1) - 1 = k BY <1>3, <2>2
  <3>2. Dir2!Passed(t)' = {Dir2!Turn(t, i) : i \in 0 .. k} BY <3>1 DEF Dir2!Passed
  <3>3. Dir2!Passed(t)' \subseteq Dir2!Thread
   <4>1. \A i \in 0 .. k : i \in Dir2!Thread BY <1>2, Dir2Params
   <4> QED BY <3>2, <4>1, Dir2TurnNext
  <3>4. \A x \in Dir2!Passed(t)' : Dir2!Counted(d, x)' BY <1>2, <1>5, <3>2, <3>3
  <3> QED BY <1>1, <1>3, <3>1, <3>4 DEF Dir2!Counts
 <2> QED BY <2>1, <2>2
<1>9. my'[t].pc \notin Dir2!InLevel \cup {"next", "returned"} BY <1>3 DEF Dir2!InLevel
<1>10. Dir2!Directed(t)' BY <1>9 DEF Dir2!Directed, Dir2!InLevel, Dir2!Forward, Dir2!Backward
<1>11. Dir2!Walks(t)'
 <2>1. Dir2!Complete(d)' BY <1>0, <1>a, Dir2Monotone DEF Dir2!Walks
 <2>3. my[t].next_is_null BY <1>0 DEF Dir2!Walks
 <2>4. my'[t].next_is_null = my[t].next_is_null BY <1>3 DEF Dir2SamePlan
 <2>2. my'[t].pc \notin Dir2!Scanning /\ my'[t].pc # "link" /\ my'[t].pc # "write_done"
   BY <1>9 DEF Dir2!Scanning, Dir2!InLevel
 <2> QED BY <1>3, <1>9, <2>1, <2>2, <2>3, <2>4 DEF Dir2!Walks
<1>12. Dir2!View(t)' BY <1>9 DEF Dir2!View, Dir2!AtNeighbor, Dir2!InLevel
<1> QED BY <1>3, <1>6, <1>7, <1>8, <1>10, <1>11, <1>12 DEF Dir2Sound

LEMMA Dir2TestCalcsStep ==
  ASSUME Dir2!IInv, NEW t \in Dir2!Thread, Dir2!TestCalcs(t)
  PROVE  Dir2!IInv'
<1>a. PICK d \in Dir2!Depth, w \in Dir2!Thread : d = my[t].depth /\ w = my[t].work_on
  BY Dir2Parts, Dir2ThreadFields
<1>0. my[t].pc = "calcs" /\ UNCHANGED <<a, dist, vis, vis_forw, nodes, linked>>
  BY DEF Dir2!TestCalcs, Dir2!At
<1>1. /\ Dir2Grows /\ Dir2!CountsSound /\ my[t].pc \in Dir2!Counting
      /\ my \in [Dir2!Thread -> Dir2!ThreadShape]
  BY <1>0, Dir2Stays, Dir2Parts DEF Dir2!Counting, Dir2!Shape
<1>2. CASE w \in nodes[d].done_calcs
 <2>1. Dir2!NextCalc(t) BY <1>2, <1>a DEF Dir2!TestCalcs, Dir2!Curr
 <2>2. Dir2!Counted(d, w)' BY <1>1, <1>2 DEF Dir2!CountsSound, Dir2Grows
 <2>3. Dir2Moves(t) /\ Dir2Sound(t)' BY <1>1, <1>a, <2>1, <2>2, Dir2CountsTurn
 <2> QED BY <1>0, <2>3, Dir2LocalStep
<1>3. CASE w \notin nodes[d].done_calcs
 <2>1. Dir2!Goto(t, "count") /\ "count" \in Dir2!Labels
   BY <1>3, <1>a, Dir2LabelSet DEF Dir2!TestCalcs, Dir2!Curr
 <2>2. /\ Dir2Moves(t) /\ my'[t].pc = "count" /\ Dir2SamePlace(t) /\ Dir2SamePlan(t)
       /\ Dir2SameSums(t)
   BY <1>1, <2>1, Dir2GotoMoves
 <2>3. my'[t].pc \in Dir2!Counting BY <2>2 DEF Dir2!Counting
 <2>4. Dir2Sound(t)' BY <1>1, <2>2, <2>3, Dir2CountingSound
 <2> QED BY <1>0, <2>2, <2>4, Dir2LocalStep
<1> QED BY <1>2, <1>3

LEMMA Dir2CountRangeStep ==
  ASSUME Dir2!IInv, NEW t \in Dir2!Thread, Dir2!CountRange(t)
  PROVE  Dir2!IInv'
<1>a. PICK d \in Dir2!Depth, w \in Dir2!Thread : d = my[t].depth /\ w = my[t].work_on
  BY Dir2Parts, Dir2ThreadFields
<1>0. my[t].pc = "count" /\ UNCHANGED <<a, dist, vis, vis_forw, nodes, linked>>
  BY DEF Dir2!CountRange, Dir2!At
<1>1. /\ Dir2Grows /\ my[t].pc \in Dir2!Counting /\ my \in [Dir2!Thread -> Dir2!ThreadShape]
      /\ Dir2!Walks(t)
      /\ Dir2!DistSound /\ d \in Nat
  BY <1>0, Dir2Stays, Dir2Parts, Dir2Params DEF Dir2!Counting, Dir2!Shape
<1>2. {u \in Dir2!Owned(w) : dist[u] = d} = Dir2!InRange(Dir2!Goal, d, w)
 <2>1. \A u \in Dir2!Owned(w) : dist[u] = d <=> Dir2!Goal[u] = d
  <3> TAKE u \in Dir2!Owned(w)
  <3>1. u \in Vertex /\ Dir2!Complete(d) BY <1>1, <1>a, Dir2Ranges DEF Dir2!Walks
  <3> QED BY <1>1, <3>1, Dir2Params DEF Dir2!Complete, Dir2!DistSound
 <2> QED BY <2>1 DEF Dir2!InRange
<1>3. PICK r \in SUBSET Vertex : r = Dir2!InRange(Dir2!Goal, d, w) BY Dir2Ranges DEF Dir2!InRange
<1>4. my' = [my EXCEPT ![t].todo = r, ![t].pc = "write_counts"]
  BY <1>2, <1>3, <1>a DEF Dir2!CountRange
<1>5. /\ Dir2Moves(t) /\ my'[t].todo = r /\ my'[t].pc = "write_counts"
      /\ Dir2SamePlace(t) /\ Dir2SamePlan(t) /\ Dir2SameSums(t)
  BY <1>1, <1>4, Dir2LabelSet, Dir2RangeMoves
<1>6. my'[t].pc \in Dir2!Counting BY <1>5 DEF Dir2!Counting
<1>7. Dir2Sound(t)' BY <1>1, <1>3, <1>5, <1>6, <1>a, Dir2CountingSound
<1> QED BY <1>0, <1>5, <1>7, Dir2LocalStep

LEMMA Dir2WriteCountsStep ==
  ASSUME Dir2!IInv, NEW t \in Dir2!Thread, Dir2!WriteCounts(t)
  PROVE  Dir2!IInv'
<1>a. PICK d \in Dir2!Depth, w \in Dir2!Thread : d = my[t].depth /\ w = my[t].work_on
  BY Dir2Parts, Dir2ThreadFields
<1> DEFINE n == Dir2!Nodes(Dir2!Goal, d)[w]
           e == Dir2!Edges(Dir2!Goal, d)[w]
<1>0. my[t].pc = "write_counts" /\ UNCHANGED <<a, dist, vis, vis_forw, linked>>
  BY DEF Dir2!WriteCounts, Dir2!At
<1>1. /\ my[t].pc \in Dir2!Counting /\ Dir2!Counts(t) /\ Dir2!CountsSound /\ Dir2!DoneSound
      /\ Dir2!DistSound /\ Dir2!Shape
  BY <1>0, Dir2Parts DEF Dir2!Counting
<1>2. /\ d > 0 /\ my \in [Dir2!Thread -> Dir2!ThreadShape]
      /\ nodes \in [Dir2!Depth -> Dir2!NodeShape]
  BY <1>1, <1>a, Dir2CountingFacts
<1>3. my[t].todo = Dir2!InRange(Dir2!Goal, d, w) BY <1>0, <1>1, <1>a DEF Dir2!Counts
<1>4. n = Dir2!Cardinality(my[t].todo) /\ e = Dir2!MapThenSumSet(Dir2!Degree, my[t].todo)
  BY <1>2, <1>3 DEF Dir2!Nodes, Dir2!Edges
<1>5. n \in Dir2!NodeCounts /\ e \in Dir2!EdgeCounts BY DEF Dir2!NodeCounts, Dir2!EdgeCounts
<1>6. PICK nn \in Dir2!NodeCounts, ee \in Dir2!EdgeCounts : nn = n /\ ee = e BY <1>5
<1>7. nodes' = [nodes EXCEPT ![d].nodes[w] = nn, ![d].edges[w] = ee]
  BY <1>4, <1>6, <1>a DEF Dir2!WriteCounts
<1> HIDE DEF n, e
<1>8. /\ nodes' \in [Dir2!Depth -> Dir2!NodeShape] /\ nodes'[d].nodes[w] = nn
      /\ nodes'[d].edges[w] = ee
      /\ \A x \in Dir2!Depth : /\ nodes'[x].done = nodes[x].done
                          /\ nodes'[x].done_calcs = nodes[x].done_calcs
      /\ \A x \in Dir2!Depth, y \in Dir2!Thread : x # d \/ y # w =>
           nodes'[x].nodes[y] = nodes[x].nodes[y] /\ nodes'[x].edges[y] = nodes[x].edges[y]
 <2> DEFINE f == [nodes[d].nodes EXCEPT ![w] = nn]
            g == [nodes[d].edges EXCEPT ![w] = ee]
            r == [nodes[d] EXCEPT !.nodes = f, !.edges = g]
 <2>1. nodes[d] \in Dir2!NodeShape BY <1>2
 <2>2. /\ nodes[d].nodes \in [Dir2!Thread -> Dir2!NodeCounts]
       /\ nodes[d].edges \in [Dir2!Thread -> Dir2!EdgeCounts]
   BY <2>1 DEF Dir2!NodeShape
 <2>3. /\ f \in [Dir2!Thread -> Dir2!NodeCounts] /\ f[w] = nn
       /\ \A y \in Dir2!Thread : y # w => f[y] = nodes[d].nodes[y]
       /\ g \in [Dir2!Thread -> Dir2!EdgeCounts] /\ g[w] = ee
       /\ \A y \in Dir2!Thread : y # w => g[y] = nodes[d].edges[y]
   BY <2>2
 <2>4. nodes' = [nodes EXCEPT ![d] = r] BY <1>7, <2>1 DEF Dir2!NodeShape
 <2> HIDE DEF f, g
 <2>5. /\ r \in Dir2!NodeShape /\ r.nodes = f /\ r.edges = g /\ r.done = nodes[d].done
       /\ r.done_calcs = nodes[d].done_calcs
   BY <2>1, <2>3 DEF Dir2!NodeShape
 <2> HIDE DEF r
 <2>6. /\ nodes' \in [Dir2!Depth -> Dir2!NodeShape] /\ nodes'[d] = r
       /\ \A x \in Dir2!Depth : x # d => nodes'[x] = nodes[x]
   BY <1>2, <2>4, <2>5
 <2> QED BY <2>3, <2>5, <2>6
<1>9. Dir2!Goal' = Dir2!Goal BY <1>0, Dir2Rigid
<1>10. /\ Dir2!Counted(d, w)'
       /\ \A x \in Dir2!Depth, y \in Dir2!Thread : Dir2!Counted(x, y) => Dir2!Counted(x, y)'
 <2>1. Dir2!Counted(d, w)' BY <1>6, <1>8, <1>9 DEF Dir2!Counted, n, e
 <2>2. ASSUME NEW x \in Dir2!Depth, NEW y \in Dir2!Thread, Dir2!Counted(x, y)
       PROVE  Dir2!Counted(x, y)'
  <3>1. CASE x = d /\ y = w BY <2>1, <3>1
  <3>2. CASE x # d \/ y # w BY <1>8, <1>9, <2>2, <3>2 DEF Dir2!Counted
  <3> QED BY <3>1, <3>2
 <2> QED BY <2>1, <2>2
<1>11. Dir2Grows BY <1>0, <1>1, <1>9, <1>10 DEF Dir2Grows, Dir2!DistSound
<1>12. Dir2!CountsSound'
 <2>1. \A x \in Dir2!Depth : nodes[x].done_calcs \subseteq Dir2!Thread BY <1>2 DEF Dir2!NodeShape
 <2> QED BY <1>1, <1>8, <1>10, <2>1, Dir2Params DEF Dir2!CountsSound
<1>13. Dir2!DoneSound' BY <1>8, <1>11, Dir2DoneKept DEF Dir2!DoneSound
<1>14. Dir2!MarksSound' BY <1>0, <1>11, Dir2MarksKept
<1>15. /\ Dir2Moves(t) /\ my'[t].pc = "read_calcs" /\ Dir2SamePlace(t) /\ Dir2SamePlan(t)
       /\ Dir2SameSums(t)
 <2>1. my' = [my EXCEPT ![t].pc = "read_calcs", ![t].todo = {}] BY DEF Dir2!WriteCounts
 <2> QED BY <1>2, <2>1, Dir2LabelSet, Dir2CountsMoves
<1>16. my'[t].pc \in Dir2!Counting BY <1>15 DEF Dir2!Counting
<1>17. Dir2Sound(t)' BY <1>1, <1>10, <1>11, <1>15, <1>16, <1>a, Dir2CountingSound
<1> QED BY <1>0, <1>1, <1>8, <1>11, <1>12, <1>13, <1>14, <1>15, <1>17, Dir2Assemble DEF Dir2!Shape

LEMMA Dir2ReadCalcsStep ==
  ASSUME Dir2!IInv, NEW t \in Dir2!Thread, Dir2!ReadCalcs(t)
  PROVE  Dir2!IInv'
<1>a. PICK d \in Dir2!Depth, w \in Dir2!Thread : d = my[t].depth /\ w = my[t].work_on
  BY Dir2Parts, Dir2ThreadFields
<1>0. my[t].pc = "read_calcs" /\ UNCHANGED <<a, dist, vis, vis_forw, nodes, linked>>
  BY DEF Dir2!ReadCalcs, Dir2!At
<1>1. /\ Dir2Grows /\ Dir2!CountsSound /\ Dir2!Counts(t) /\ my[t].pc \in Dir2!Counting
      /\ my \in [Dir2!Thread -> Dir2!ThreadShape] /\ nodes \in [Dir2!Depth -> Dir2!NodeShape]
  BY <1>0, Dir2Stays, Dir2Parts DEF Dir2!Counting, Dir2!Shape
<1>2. PICK bits \in SUBSET Dir2!Thread : bits = nodes[d].done_calcs BY <1>1 DEF Dir2!NodeShape
<1>3. my' = [my EXCEPT ![t].word = bits, ![t].pc = "write_calcs"]
  BY <1>2, <1>a DEF Dir2!ReadCalcs, Dir2!Curr
<1>4. /\ Dir2Moves(t) /\ my'[t].word = bits /\ my'[t].pc = "write_calcs"
      /\ Dir2SamePlace(t) /\ Dir2SamePlan(t) /\ Dir2SameSums(t)
  BY <1>1, <1>3, Dir2LabelSet, Dir2ReadMoves
<1>5. my'[t].pc \in Dir2!Counting BY <1>4 DEF Dir2!Counting
<1>6. Dir2!Counted(d, w) /\ \A x \in bits : x \in Dir2!Thread /\ Dir2!Counted(d, x)
  BY <1>0, <1>1, <1>2, <1>a DEF Dir2!Counts, Dir2!CountsSound
<1>7. Dir2!Counted(d, w)' BY <1>1, <1>6 DEF Dir2Grows
<1>8. Dir2Sound(t)' BY <1>1, <1>4, <1>5, <1>6, <1>7, <1>a, Dir2CountingSound
<1> QED BY <1>0, <1>4, <1>8, Dir2LocalStep

LEMMA Dir2WriteCalcsStep ==
  ASSUME Dir2!IInv, NEW t \in Dir2!Thread, Dir2!WriteCalcs(t)
  PROVE  Dir2!IInv'
<1>a. PICK d \in Dir2!Depth, w \in Dir2!Thread, bits \in SUBSET Dir2!Thread :
        d = my[t].depth /\ w = my[t].work_on /\ bits = my[t].word
  BY Dir2Parts, Dir2ThreadFields
<1>0. /\ my[t].pc = "write_calcs" /\ UNCHANGED <<a, dist, vis, vis_forw, linked>>
      /\ nodes' = [nodes EXCEPT ![d].done_calcs = bits \cup {w}] /\ Dir2!NextCalc(t)
  BY <1>a DEF Dir2!WriteCalcs, Dir2!At
<1>1. /\ my[t].pc \in Dir2!Counting /\ Dir2!Counts(t) /\ Dir2!CountsSound /\ Dir2!DistSound
      /\ Dir2!Shape
  BY <1>0, Dir2Parts DEF Dir2!Counting
<1>2. nodes \in [Dir2!Depth -> Dir2!NodeShape] /\ d > 0 BY <1>1, <1>a, Dir2CountingFacts
<1>3. Dir2!Counted(d, w) /\ \A x \in bits : Dir2!Counted(d, x) BY <1>0, <1>1, <1>a DEF Dir2!Counts
<1>4. /\ nodes' \in [Dir2!Depth -> Dir2!NodeShape] /\ nodes'[d].done_calcs = bits \cup {w}
      /\ \A e \in Dir2!Depth : e # d => nodes'[e] = nodes[e]
      /\ \A e \in Dir2!Depth : /\ nodes'[e].done = nodes[e].done
                          /\ nodes'[e].nodes = nodes[e].nodes /\ nodes'[e].edges = nodes[e].edges
 <2> DEFINE r == [nodes[d] EXCEPT !.done_calcs = bits \cup {w}]
 <2>1. nodes[d] \in Dir2!NodeShape BY <1>2
 <2>2. /\ r \in Dir2!NodeShape /\ r.done_calcs = bits \cup {w} /\ r.done = nodes[d].done
       /\ r.nodes = nodes[d].nodes /\ r.edges = nodes[d].edges
   BY <2>1 DEF Dir2!NodeShape
 <2>3. nodes' = [nodes EXCEPT ![d] = r] BY <1>0
 <2> HIDE DEF r
 <2> QED BY <1>2, <2>2, <2>3
<1>5. Dir2!Goal' = Dir2!Goal BY <1>0, Dir2Rigid
<1>6. \A e \in Dir2!Depth : \A x \in Dir2!Thread : Dir2!Counted(e, x)' <=> Dir2!Counted(e, x)
  BY <1>4, <1>5 DEF Dir2!Counted
<1>7. Dir2Grows BY <1>0, <1>1, <1>5, <1>6 DEF Dir2Grows, Dir2!DistSound
<1>8. Dir2!CountsSound'
 <2>1. \A e \in Dir2!Depth : nodes[e].done_calcs \subseteq Dir2!Thread BY <1>2 DEF Dir2!NodeShape
 <2>2. ASSUME NEW e \in Dir2!Depth, NEW x \in nodes'[e].done_calcs PROVE Dir2!Counted(e, x)'
  <3>1. x \in Dir2!Thread /\ Dir2!Counted(e, x) BY <1>1, <1>3, <1>4, <2>1 DEF Dir2!CountsSound
  <3> QED BY <1>6, <3>1
 <2>3. \A x \in Dir2!Thread : Dir2!Counted(0, x)' BY <1>1, <1>6, Dir2Params DEF Dir2!CountsSound
 <2> QED BY <2>2, <2>3 DEF Dir2!CountsSound
<1>9. Dir2!DoneSound' BY <1>4, <1>7, Dir2DoneKept DEF Dir2!DoneSound
<1>10. Dir2!MarksSound' BY <1>0, <1>7, Dir2MarksKept
<1>11. Dir2Moves(t) /\ Dir2Sound(t)' BY <1>0, <1>1, <1>3, <1>6, <1>7, <1>a, Dir2CountsTurn
<1> QED BY <1>0, <1>1, <1>4, <1>7, <1>8, <1>9, <1>10, <1>11, Dir2Assemble DEF Dir2!Shape

-----------------------------------------------------------------------------
(***************************************************************************)
(* The sums, and the direction of the level.                               *)
(***************************************************************************)
LEMMA Dir2SumFacts ==
  ASSUME Dir2!IInv, NEW t \in Dir2!Thread, Dir2!At(t, "sum")
  PROVE  /\ Dir2!Shape /\ my \in [Dir2!Thread -> Dir2!ThreadShape] /\ Dir2!Complete(my[t].depth)
         /\ my[t].next_is_null /\ my[t].work_on = t
         /\ my[t].mf + Dir2!Curr(t).edges[my[t].turn] = Dir2!Running(Dir2!Edges(Dir2!Goal, my[t].depth))[my[t].turn + 1]
         /\ my[t].nf + Dir2!Curr(t).nodes[my[t].turn] = Dir2!Running(Dir2!Nodes(Dir2!Goal, my[t].depth))[my[t].turn + 1]
         /\ Dir2!Curr(t).nodes[my[t].turn] = Dir2!Nodes(Dir2!Goal, my[t].depth)[my[t].turn]
         /\ my[t].imp <=> \E k \in 0 .. my[t].turn - 1 : Dir2!Nodes(Dir2!Goal, my[t].depth)[k] # 0
         /\ my[t].mu = Dir2!Remaining(Dir2!Goal)[my[t].depth]
         /\ \A w \in Dir2!Thread : Dir2!Counted(my[t].depth, w)
<1>a. PICK d \in Dir2!Depth, i \in Dir2!Thread : d = my[t].depth /\ i = my[t].turn
  BY Dir2Parts, Dir2ThreadFields
<1> DEFINE e == Dir2!Edges(Dir2!Goal, d)
           n == Dir2!Nodes(Dir2!Goal, d)
<1>0. /\ my[t].pc = "sum" /\ Dir2!Shape /\ my \in [Dir2!Thread -> Dir2!ThreadShape]
      /\ Dir2!Walks(t) /\ Dir2!Summing(t)
      /\ Dir2!Rounds(t)
  BY Dir2Parts DEF Dir2!At, Dir2!Shape
<1>1. /\ my[t].mf = Dir2!Running(e)[i] /\ my[t].nf = Dir2!Running(n)[i]
      /\ my[t].imp <=> \E k \in 0 .. i - 1 : n[k] # 0
      /\ my[t].mu = Dir2!Remaining(Dir2!Goal)[d]
      /\ \A w \in Dir2!Thread : Dir2!Counted(d, w)
  BY <1>0, <1>a DEF Dir2!Summing
<1>2. Dir2!Curr(t).edges[i] = e[i] /\ Dir2!Curr(t).nodes[i] = n[i]
  BY <1>1, <1>a DEF Dir2!Counted, Dir2!Curr
<1>3. /\ Dir2!Running(e)[i + 1] = Dir2!Running(e)[i] + e[i]
      /\ Dir2!Running(n)[i + 1] = Dir2!Running(n)[i] + n[i]
  BY Dir2RunningFacts, Dir2Params
<1> HIDE DEF e, n
<1>4. Dir2!Complete(d) /\ my[t].next_is_null /\ my[t].work_on = t
  BY <1>0, <1>a DEF Dir2!Walks, Dir2!Rounds
<1>5. /\ my[t].mf + Dir2!Curr(t).edges[i] = Dir2!Running(e)[i + 1]
      /\ my[t].nf + Dir2!Curr(t).nodes[i] = Dir2!Running(n)[i + 1]
  BY <1>1, <1>2, <1>3
<1> QED BY <1>0, <1>1, <1>2, <1>4, <1>5, <1>a DEF e, n

\* Whether one of the counts so far is not 0.
LEMMA Dir2Important ==
  ASSUME NEW i \in Nat, NEW f, NEW b \in BOOLEAN, b <=> \E k \in 0 .. i - 1 : f[k] # 0
  PROVE  (b \/ f[i] # 0) <=> \E k \in 0 .. i : f[k] # 0
<1>1. \A k : k \in 0 .. i <=> k \in 0 .. i - 1 \/ k = i OBVIOUS
<1> QED BY <1>1

LEMMA Dir2SumStep ==
  ASSUME Dir2!IInv, NEW t \in Dir2!Thread, Dir2!Sum(t)
  PROVE  Dir2!IInv'
<1>a. PICK d \in Dir2!Depth, i \in Dir2!Thread : d = my[t].depth /\ i = my[t].turn
  BY Dir2Parts, Dir2ThreadFields
<1> DEFINE e == Dir2!Edges(Dir2!Goal, d)
           n == Dir2!Nodes(Dir2!Goal, d)
<1>0. Dir2!At(t, "sum") /\ my[t].pc = "sum" /\ UNCHANGED <<a, dist, vis, vis_forw, nodes, linked>>
  BY DEF Dir2!Sum, Dir2!At
<1>1. /\ Dir2!Shape /\ my \in [Dir2!Thread -> Dir2!ThreadShape] /\ Dir2!Complete(d)
      /\ my[t].next_is_null /\ my[t].work_on = t
      /\ my[t].mf + Dir2!Curr(t).edges[i] = Dir2!Running(e)[i + 1]
      /\ my[t].nf + Dir2!Curr(t).nodes[i] = Dir2!Running(n)[i + 1]
      /\ Dir2!Curr(t).nodes[i] = n[i]
      /\ my[t].imp <=> \E k \in 0 .. i - 1 : n[k] # 0
      /\ my[t].mu = Dir2!Remaining(Dir2!Goal)[d]
      /\ \A w \in Dir2!Thread : Dir2!Counted(d, w)
  BY <1>0, <1>a, Dir2SumFacts
<1>2. /\ Dir2Grows /\ Dir2!DistSound /\ my[t].imp \in BOOLEAN /\ d \in Nat /\ i \in Nat
      /\ i + 1 \in 0 .. NumT
  BY <1>0, Dir2Stays, Dir2Parts, Dir2ThreadFields, Dir2Params
<1>b. PICK m \in Dir2!EdgeSums, s \in Dir2!NodeSums : m = Dir2!Running(e)[i + 1] /\ s = Dir2!Running(n)[i + 1]
  BY <1>2 DEF Dir2!EdgeSums, Dir2!NodeSums
<1>c. PICK p \in BOOLEAN : p <=> \E k \in 0 .. i : n[k] # 0 OBVIOUS
<1>3. (my[t].imp \/ Dir2!Curr(t).nodes[i] # 0) = p
 <2> HIDE DEF n
 <2> QED BY <1>1, <1>2, <1>c, Dir2Important
<1>4. Dir2!Goal' = Dir2!Goal BY <1>0, Dir2Rigid
<1>5. Dir2!Complete(d)' /\ \A w \in Dir2!Thread : Dir2!Counted(d, w)'
  BY <1>1, <1>2, Dir2Monotone DEF Dir2Grows
<1> HIDE DEF e, n
<1>6. CASE i < NumT - 1
 <2>1. i + 1 \in Dir2!Thread BY <1>2, <1>6, Dir2Params
 <2> PICK x \in Dir2!Thread : x = i + 1 BY <2>1
 <2>2. Dir2Adds(t, x, m, s, p) BY <1>1, <1>3, <1>6, <1>a, <1>b DEF Dir2!Sum, Dir2Adds
 <2>3. /\ Dir2Moves(t) /\ my'[t].turn = x /\ my'[t].mf = m /\ my'[t].nf = s /\ my'[t].imp = p
       /\ my'[t].pc = my[t].pc /\ my'[t].depth = d /\ my'[t].work_on = t /\ Dir2SamePlan(t)
   BY <1>1, <1>a, <2>2, Dir2SumMoves
 <2>4. my'[t].pc = "sum" /\ my'[t].mu = my[t].mu /\ my'[t].next_is_null = my[t].next_is_null
   BY <1>0, <2>3 DEF Dir2SamePlan
 <2>5. Dir2!Rounds(t)' BY <2>3, <2>4 DEF Dir2!Rounds
 <2>6. Dir2!Summing(t)'
  <3>1. x - 1 = i BY <1>2
  <3>2. my'[t].imp <=> \E k \in 0 .. x - 1 : n[k] # 0 BY <1>c, <2>3, <3>1 DEF n
  <3> QED BY <1>1, <1>4, <1>5, <1>b, <2>3, <2>4, <3>2 DEF Dir2!Summing, e, n
 <2>7. Dir2!Counts(t)' /\ Dir2!Directed(t)' /\ Dir2!View(t)'
   BY <2>4 DEF Dir2!Counts, Dir2!Counting, Dir2!Directed, Dir2!InLevel, Dir2!Forward, Dir2!Backward,
      Dir2!View, Dir2!AtNeighbor
 <2>8. Dir2!Walks(t)' BY <1>1, <1>5, <2>3, <2>4 DEF Dir2!Walks, Dir2!InLevel, Dir2!Scanning
 <2> QED BY <1>0, <2>3, <2>5, <2>6, <2>7, <2>8, Dir2LocalStep DEF Dir2Sound
<1>7. CASE ~(i < NumT - 1)
 <2>1. i + 1 = NumT /\ i = NumT - 1 BY <1>2, <1>7, Dir2Params
 <2>2. m = Dir2!EdgesAt(Dir2!Goal, d) /\ s = Dir2!NodesAt(Dir2!Goal, d)
   BY <1>b, <2>1 DEF Dir2!EdgesAt, Dir2!NodesAt, e, n
 <2> PICK mu \in Dir2!Remainders : mu = Dir2!Remaining(Dir2!Goal)[d + 1]
  <3>1. d + 1 \in 0 .. MaxDelta + 2 BY Dir2Params
  <3> QED BY <3>1 DEF Dir2!Remainders
 <2>3. my[t].mu - m = mu BY <1>1, <2>2, Dir2RemainingFacts
 <2>4. Dir2!Back(m, s, mu) = Dir2!BackAt(d) BY <2>2 DEF Dir2!BackAt
 <2> PICK bk \in BOOLEAN : bk = Dir2!BackAt(d) BY DEF Dir2!BackAt, Dir2!Back
 <2> PICK l \in Dir2!Labels : l = IF p THEN "done" ELSE "returned" BY Dir2LabelSet
 <2>5. Dir2Directs(t, mu, bk, l)
  <3> DEFINE mf == my[t].mf + Dir2!Curr(t).edges[i]
             nf == my[t].nf + Dir2!Curr(t).nodes[i]
  <3>1. my' = [my EXCEPT ![t] =
                 [@ EXCEPT !.turn = 0, !.mf = 0, !.nf = 0, !.imp = FALSE, !.mu = my[t].mu - mf,
                           !.back = Dir2!Back(mf, nf, my[t].mu - mf), !.work_on = t,
                           !.pc = IF my[t].imp \/ Dir2!Curr(t).nodes[i] # 0 THEN "done" ELSE "returned"]]
    BY <1>7, <1>a DEF Dir2!Sum
  <3>2. mf = m /\ nf = s BY <1>1, <1>b
  <3>3. my[t].mu - mf = mu /\ Dir2!Back(mf, nf, my[t].mu - mf) = bk BY <2>3, <2>4, <3>2
  <3>4. (IF my[t].imp \/ Dir2!Curr(t).nodes[i] # 0 THEN "done" ELSE "returned") = l BY <1>3
  <3> HIDE DEF mf, nf
  <3> QED BY <3>1, <3>3, <3>4 DEF Dir2Directs
 <2>7. /\ Dir2Moves(t) /\ my'[t].turn = 0 /\ my'[t].mf = 0 /\ my'[t].nf = 0 /\ ~my'[t].imp
       /\ my'[t].mu = mu /\ my'[t].back = bk /\ my'[t].work_on = t /\ my'[t].pc = l
       /\ my'[t].depth = d /\ my'[t].next_is_null = my[t].next_is_null
  <3>1. my \in [Dir2!Thread -> Dir2!ThreadShape] BY <1>1
  <3>2. /\ Dir2Moves(t) /\ my'[t].turn = 0 /\ my'[t].mf = 0 /\ my'[t].nf = 0 /\ ~my'[t].imp
        /\ my'[t].mu = mu /\ my'[t].back = bk /\ my'[t].work_on = t /\ my'[t].pc = l
    BY <2>5, <3>1, Dir2DirectMoves
  <3>3. my'[t].depth = my[t].depth /\ my'[t].next_is_null = my[t].next_is_null
    BY <2>5, <3>1, Dir2DirectMoves
  <3> QED BY <1>a, <3>2, <3>3
 <2>8. l \notin {"sum"} \cup Dir2!Counting /\ l \in {"done", "returned"} BY DEF Dir2!Counting
 <2>9. Dir2!Rounds(t)' BY <2>7, <2>8, Dir2TurnNext, Dir2Params DEF Dir2!Rounds
 <2>10. Dir2!Summing(t)'
  <3>1. Dir2!Running(e)[0] = 0 /\ Dir2!Running(n)[0] = 0 /\ 0 .. 0 - 1 = {} BY Dir2RunningFacts
  <3> QED BY <1>4, <2>7, <2>8, <3>1 DEF Dir2!Summing, e, n
 <2>11. Dir2!Counts(t)' /\ Dir2!View(t)' BY <2>7, <2>8 DEF Dir2!Counts, Dir2!View, Dir2!AtNeighbor
 <2>12. Dir2!Walks(t)'
  <3>1. Dir2!Passed(t)' = {} BY <2>7 DEF Dir2!Passed
  <3> QED BY <1>1, <1>5, <2>7, <2>8, <3>1 DEF Dir2!Walks, Dir2!Scanning
 <2>13. Dir2!Directed(t)'
  <3>0. Dir2!FirstIsBack' = Dir2!FirstIsBack /\ Dir2!BackAt(d)' = Dir2!BackAt(d) BY <1>0, Dir2Rigid
  <3>1. CASE p
   <4>1. PICK k \in 0 .. i : n[k] # 0 BY <1>c, <3>1
   <4>2. k \in Dir2!Thread BY <2>1, <4>1, Dir2Params
   <4>3. d = 0 \/ \E v \in Vertex : Dir2!Goal[v] = d BY <4>1, <4>2, Dir2CountsShow DEF n
   <4>4. d <= MaxDelta BY <1>2, <4>3, Dir2GoalFacts, Dir2Params
   <4>5. d > 0 => ~Dir2!FirstIsBack BY <4>3, Dir2GoalFacts
   <4>6. my'[t].pc = "done" BY <2>7, <3>1
   <4> QED BY <1>4, <2>7, <3>0, <4>4, <4>5, <4>6 DEF Dir2!Directed, Dir2!Forward, Dir2!Backward
  <3>2. CASE ~p
   <4>1. \A w \in Dir2!Thread : n[w] = 0 BY <1>c, <2>1, <3>2, Dir2Params
   <4>2. \A v \in Vertex : Dir2!Goal[v] # d BY <4>1, Dir2CountsTell DEF n
   <4>3. my'[t].pc = "returned" BY <2>7, <3>2
   <4> QED BY <1>4, <2>7, <4>2, <4>3 DEF Dir2!Directed, Dir2!InLevel, Dir2!Forward, Dir2!Backward
  <3> QED BY <3>1, <3>2
 <2> QED BY <1>0, <2>7, <2>9, <2>10, <2>11, <2>12, <2>13, Dir2LocalStep DEF Dir2Sound
<1> QED BY <1>6, <1>7

-----------------------------------------------------------------------------
(***************************************************************************)
(* The invariant.                                                          *)
(***************************************************************************)
LEMMA Dir2Start == Dir2!Init => Dir2!IInv
<1> SUFFICES ASSUME Dir2!Init PROVE Dir2!IInv OBVIOUS
<1>1. \A w \in Dir2!Thread : /\ Dir2!HeadNode.nodes[w] = Dir2!Nodes(Dir2!Goal, 0)[w] /\ Dir2!HeadNode.edges[w] = Dir2!Edges(Dir2!Goal, 0)[w]
  BY DEF Dir2!Nodes, Dir2!Edges
<1>2. /\ 0 \in Dir2!EdgeSums /\ 0 \in Dir2!NodeSums
      /\ Dir2!Running(Dir2!Edges(Dir2!Goal, 0))[0] = 0
      /\ Dir2!Running(Dir2!Nodes(Dir2!Goal, 0))[0] = 0
  BY Dir2RunningFacts, Dir2ZeroSums
<1>3. Dir2!Twice_M = Dir2!Remaining(Dir2!Goal)[0] /\ Dir2!Twice_M \in Dir2!Remainders
 <2>1. Dir2!Twice_M = Dir2!Remaining(Dir2!Goal)[0] /\ 0 \in 0 .. MaxDelta + 2
   BY Dir2RemainingFacts, Dir2Params
 <2> QED BY <2>1 DEF Dir2!Remainders
<1>4. Dir2!HeadNode \in Dir2!NodeShape /\ Dir2!NewNode \in Dir2!NodeShape
 <2>1. /\ Dir2!HeadNode.nodes \in [Dir2!Thread -> Dir2!NodeCounts]
       /\ Dir2!HeadNode.edges \in [Dir2!Thread -> Dir2!EdgeCounts]
  <3>1. \A w \in Dir2!Thread : Dir2!HeadNode.nodes[w] \in Dir2!NodeCounts /\ Dir2!HeadNode.edges[w] \in Dir2!EdgeCounts
    BY <1>1, Dir2Params DEF Dir2!NodeCounts, Dir2!EdgeCounts
  <3>2. /\ Dir2!HeadNode.nodes = [t \in Dir2!Thread |-> IF t = 0 THEN 1 ELSE -1]
        /\ Dir2!HeadNode.edges = [t \in Dir2!Thread |-> IF t = 0 THEN Dir2!Degree(0) ELSE -1]
    BY DEF Dir2!HeadNode
  <3>3. /\ Dir2!HeadNode.nodes = [t \in Dir2!Thread |-> Dir2!HeadNode.nodes[t]]
        /\ Dir2!HeadNode.edges = [t \in Dir2!Thread |-> Dir2!HeadNode.edges[t]]
    BY <3>2
  <3> QED BY <3>1, <3>3
 <2>2. Dir2!HeadNode = [done |-> {}, done_calcs |-> {}, nodes |-> Dir2!HeadNode.nodes, edges |-> Dir2!HeadNode.edges]
   BY DEF Dir2!HeadNode
 <2>3. Dir2!HeadNode \in Dir2!NodeShape
  <3> DEFINE hn == Dir2!HeadNode.nodes
             he == Dir2!HeadNode.edges
  <3> HIDE DEF hn, he
  <3>1. [done |-> {}, done_calcs |-> {}, nodes |-> hn, edges |-> he] \in Dir2!NodeShape
    BY <2>1 DEF Dir2!NodeShape, hn, he
  <3> QED BY <2>2, <3>1 DEF hn, he
 <2>4. 0 \in Dir2!NodeCounts /\ 0 \in Dir2!EdgeCounts BY DEF Dir2!NodeCounts, Dir2!EdgeCounts
 <2>5. Dir2!NewNode \in Dir2!NodeShape BY <2>4 DEF Dir2!NewNode, Dir2!NodeShape
 <2> QED BY <2>3, <2>5
<1>5. ASSUME NEW t \in Dir2!Thread
      PROVE  /\ my[t] \in Dir2!ThreadShape /\ my[t].pc = "sum" /\ my[t].depth = 0
             /\ my[t].work_on = t
             /\ my[t].turn = 0 /\ my[t].next_is_null = TRUE /\ my[t].mf = 0 /\ my[t].nf = 0
             /\ my[t].imp = FALSE /\ my[t].mu = Dir2!Twice_M
 <2> PICK m \in Dir2!Remainders : m = Dir2!Twice_M BY <1>3
 <2> DEFINE r == [pc |-> "sum", depth |-> 0, work_on |-> t, turn |-> 0, next_is_null |-> TRUE,
                  mf |-> 0, nf |-> 0, imp |-> FALSE, mu |-> m, back |-> FALSE,
                  todo |-> {}, u |-> 0, j |-> 0, word |-> {}]
 <2>1. my[t] = r BY DEF Dir2!Init
 <2>2. "sum" \in Dir2!Labels /\ 0 \in Dir2!Depth /\ 0 \in Dir2!Thread /\ 0 \in Vertex
   BY Dir2LabelSet, Dir2Params
 <2>3. r \in Dir2!ThreadShape BY <1>2, <2>2 DEF Dir2!ThreadShape
 <2> QED BY <2>1, <2>3
<1>6. Dir2!Shape
 <2>1. my \in [Dir2!Thread -> Dir2!ThreadShape]
  <3>1. my = [t \in Dir2!Thread |-> my[t]] BY DEF Dir2!Init
  <3> QED BY <1>5, <3>1
 <2>2. nodes \in [Dir2!Depth -> Dir2!NodeShape] BY <1>4 DEF Dir2!Init
 <2>3. dist \in [Vertex -> Dir2!Unset .. MaxDelta] BY Dir2Params DEF Dir2!Init
 <2>4. vis \in [Vertex -> {-1} \cup Dir2!Depth] /\ vis_forw \in [Vertex -> Dir2!Depth]
   BY Dir2Params DEF Dir2!Init
 <2>5. a \in Alphas /\ linked \in [Dir2!Depth -> BOOLEAN] BY DEF Dir2!Init
 <2> QED BY <2>1, <2>2, <2>3, <2>4, <2>5 DEF Dir2!Shape
<1>7. Dir2!DistSound /\ Dir2!Complete(0)
 <2>1. \A v \in Vertex : dist[v] = IF v = Root THEN 0 ELSE Dir2!Unset BY DEF Dir2!Init
 <2> QED BY <2>1, Dir2GoalFacts DEF Dir2!DistSound, Dir2!Complete
<1>8. Dir2!MarksSound BY DEF Dir2!MarksSound, Dir2!Init
<1>9. Dir2!DoneSound
 <2>1. \A d \in Dir2!Depth : nodes[d].done = {} BY DEF Dir2!Init, Dir2!HeadNode, Dir2!NewNode
 <2> QED BY <2>1 DEF Dir2!DoneSound
<1>10. \A w \in Dir2!Thread : Dir2!Counted(0, w) BY <1>1, Dir2Params DEF Dir2!Counted, Dir2!Init
<1>11. Dir2!CountsSound
 <2>1. \A d \in Dir2!Depth : nodes[d].done_calcs = {} BY DEF Dir2!Init, Dir2!HeadNode, Dir2!NewNode
 <2> QED BY <1>10, <2>1 DEF Dir2!CountsSound
<1>12. ASSUME NEW t \in Dir2!Thread
       PROVE  /\ Dir2!Rounds(t) /\ Dir2!Summing(t) /\ Dir2!Counts(t) /\ Dir2!Directed(t)
              /\ Dir2!Walks(t) /\ Dir2!View(t)
 <2>1. Dir2!Rounds(t) BY <1>5 DEF Dir2!Rounds
 <2>2. Dir2!Summing(t)
  <3>1. 0 .. 0 - 1 = {} OBVIOUS
  <3> QED BY <1>2, <1>3, <1>5, <1>10, <3>1 DEF Dir2!Summing
 <2>3. Dir2!Counts(t) /\ Dir2!Directed(t) /\ Dir2!View(t)
   BY <1>5 DEF Dir2!Counts, Dir2!Counting, Dir2!Directed, Dir2!InLevel, Dir2!Forward, Dir2!Backward,
      Dir2!View, Dir2!AtNeighbor
 <2>4. Dir2!Walks(t) BY <1>5, <1>7 DEF Dir2!Walks, Dir2!InLevel, Dir2!Scanning
 <2> QED BY <2>1, <2>2, <2>3, <2>4
<1> QED BY <1>6, <1>7, <1>8, <1>9, <1>11, <1>12 DEF Dir2!IInv

LEMMA Dir2Keeps == Dir2!IInv /\ [Dir2!Next]_Dir2!vars => Dir2!IInv'
<1> SUFFICES ASSUME Dir2!IInv, [Dir2!Next]_Dir2!vars PROVE Dir2!IInv' OBVIOUS
<1>1. CASE UNCHANGED Dir2!vars
 <2>1. UNCHANGED <<a, dist, vis, vis_forw, nodes, linked, my>> BY <1>1 DEF Dir2!vars
 <2>2. PICK t : t \in Dir2!Thread BY Dir2Params
 <2>3. Dir2Grows BY <2>1, Dir2Stays
 <2>4. my \in [Dir2!Thread -> Dir2!ThreadShape] /\ my[t] = my'[t] BY <2>1 DEF Dir2!IInv, Dir2!Shape
 <2>5. Dir2Moves(t) /\ Dir2Sound(t)' BY <2>1, <2>2, <2>3, <2>4, Dir2Others DEF Dir2Moves, Dir2Sound
 <2> QED BY <2>1, <2>2, <2>5, Dir2LocalStep
<1>2. ASSUME NEW t \in Dir2!Thread, Dir2!Step(t) PROVE Dir2!IInv'
 <2>1. \/ Dir2!Sum(t) \/ Dir2!TestDone(t) \/ Dir2!LinkNext(t) \/ Dir2!TakeVertex(t)
       \/ Dir2!TestLevel(t) \/ Dir2!TestNeighbor(t) \/ Dir2!Found(t)
       \/ Dir2!TestUnset(t) \/ Dir2!TestParent(t) \/ Dir2!FoundSelf(t)
       \/ Dir2!Mark(t) \/ Dir2!ReadDone(t) \/ Dir2!WriteDone(t) \/ Dir2!Advance(t)
       \/ Dir2!TestCalcs(t) \/ Dir2!CountRange(t) \/ Dir2!WriteCounts(t) \/ Dir2!ReadCalcs(t) \/ Dir2!WriteCalcs(t)
   BY <1>2 DEF Dir2!Step, Dir2!RunLevel, Dir2!Calcs
 <2> QED
   BY <2>1, Dir2SumStep, Dir2TestDoneStep, Dir2LinkNextStep, Dir2TakeVertexStep, Dir2TestLevelStep,
      Dir2TestNeighborStep, Dir2FoundStep, Dir2TestUnsetStep, Dir2TestParentStep, Dir2FoundSelfStep,
      Dir2MarkStep, Dir2ReadDoneStep, Dir2WriteDoneStep, Dir2AdvanceStep, Dir2TestCalcsStep,
      Dir2CountRangeStep, Dir2WriteCountsStep, Dir2ReadCalcsStep, Dir2WriteCalcsStep
<1>3. [Dir2!Next]_Dir2!vars => UNCHANGED Dir2!vars \/ \E t \in Dir2!Thread : Dir2!Step(t)
  BY DEF Dir2!Next, Dir2!Exited
<1> QED BY <1>1, <1>2, <1>3

\* Every state of wf-dir-2.cpp's search satisfies its inductive invariant.
THEOREM Dir2InvCorrect == Dir2!Spec => []Dir2!IInv
<1> QED BY Dir2Start, Dir2Keeps, PTL DEF Dir2!Spec

\* Threads that never meet run a level in the same direction ...
THEOREM DirectionAgreed == Dir2!Spec => []Dir2!OneDirection
<1>1. Dir2!IInv => Dir2!OneDirection
 <2> SUFFICES ASSUME Dir2!IInv PROVE Dir2!OneDirection OBVIOUS
 <2>1. \A t \in Dir2!Thread : Dir2!Directed(t) /\ Dir2!Walks(t) BY DEF Dir2!IInv
 <2>2. \A t \in Dir2!Thread : my[t].pc = "next" => linked[my[t].depth + 1] BY <2>1 DEF Dir2!Walks
 <2>3. ASSUME NEW t \in Dir2!Thread, NEW s \in Dir2!Thread, my[s].pc \in Dir2!InLevel,
              my[t].pc \in Dir2!InLevel,
              my[s].depth = my[t].depth
       PROVE  my[s].back = my[t].back /\ my[s].mu = my[t].mu
  <3>1. /\ my[t].back = Dir2!BackAt(my[t].depth)
        /\ my[t].mu = Dir2!Remaining(Dir2!Goal)[my[t].depth + 1]
    BY <2>1, <2>3 DEF Dir2!Directed
  <3>2. /\ my[s].back = Dir2!BackAt(my[s].depth)
        /\ my[s].mu = Dir2!Remaining(Dir2!Goal)[my[s].depth + 1]
    BY <2>1, <2>3 DEF Dir2!Directed
  <3> QED BY <2>3, <3>1, <3>2
 <2> QED BY <2>2, <2>3 DEF Dir2!OneDirection
<1> QED BY <1>1, Dir2InvCorrect, PTL

\* ... and the first to return leaves the distances of the graph, unless the first level goes back.
THEOREM ResultRight == Dir2!Spec => []Dir2!ReturnedExact
<1>1. Dir2!IInv => Dir2!ReturnedExact
 <2> SUFFICES ASSUME Dir2!IInv, NEW t \in Dir2!Thread, Dir2!At(t, "returned")
              PROVE  dist = Dir2!Goal
   BY DEF Dir2!ReturnedExact, Dir2!Goal
 <2>a. PICK d \in Nat : d = my[t].depth BY Dir2Parts, Dir2ThreadFields
 <2>1. Dir2!Complete(d) /\ Dir2!DistSound /\ Dir2!Shape /\ \A v \in Vertex : Dir2!Goal[v] # d
   BY <2>a, Dir2Parts DEF Dir2!At, Dir2!Walks, Dir2!Directed
 <2>2. \A v \in Vertex : Dir2!Goal[v] < d BY <2>1, Dir2LastLevel
 <2>3. \A v \in Vertex : dist[v] = Dir2!Goal[v]
  <3> TAKE v \in Vertex
  <3>1. CASE Dir2!Goal[v] >= 0 BY <2>1, <2>2, <3>1, Dir2GoalFacts DEF Dir2!Complete
  <3>2. CASE ~(Dir2!Goal[v] >= 0) BY <2>1, <3>2, Dir2GoalFacts, Dir2Params DEF Dir2!DistSound
  <3> QED BY <3>1, <3>2
 <2>4. Dir2!Goal = [v \in Vertex |-> Dir2!Goal[v]] BY DistanceAssumption DEF Dir2!Goal
 <2>5. dist = [v \in Vertex |-> dist[v]] BY <2>1 DEF Dir2!Shape
 <2> QED BY <2>3, <2>4, <2>5
<1> QED BY <1>1, Dir2InvCorrect, PTL

=============================================================================
