--------------------------- MODULE BfsGraphProofs ---------------------------
(***************************************************************************)
(* Facts about graphs and distances, and about numbers and sequences, that *)
(* the proofs about the searches share.                                    *)
(***************************************************************************)
EXTENDS BfsGraph, WellFoundedInduction, TLAPS

LEMMA GraphTypes ==
  /\ \A v \in Vertex : Delta[v] \in Int /\ Delta[v] >= -1 /\ Delta[v] <= MaxDelta
  /\ \A u \in Vertex : Neighbors(u) \subseteq Vertex
  /\ \A u \in Vertex : \A p \in 1 .. Len(adj[u]) : adj[u][p] \in Neighbors(u)
  /\ \A u \in Vertex : \A v \in Neighbors(u) : \E p \in 1 .. Len(adj[u]) : v = adj[u][p]
<1>1. \A v \in Vertex : Delta[v] \in Int /\ Delta[v] >= -1 /\ Delta[v] <= MaxDelta
 <2>1. \A d \in Unset .. MaxDelta : d \in Int /\ d >= -1 /\ d <= MaxDelta
   BY GraphAssumption DEF Unset
 <2> QED BY <2>1, DistanceAssumption
<1>2. \A u \in Vertex : adj[u] \in Seq(Vertex) BY GraphAssumption
<1>3. \A u \in Vertex : DOMAIN adj[u] = 1 .. Len(adj[u])
 <2> TAKE u \in Vertex
 <2>1. adj[u] \in Seq(Vertex) BY <1>2
 <2> QED BY <2>1
<1> QED BY <1>1, <1>2, <1>3 DEF Neighbors

(***************************************************************************)
(* A set of naturals that is not empty has a least element.                *)
(***************************************************************************)
LEMMA Least ==
  ASSUME NEW S \in SUBSET Nat, S # {}
  PROVE  \E m \in S : \A k \in S : m <= k
<1> DEFINE R == {p \in Nat \X Nat : p[1] < p[2]}
<1>1. IsWellFoundedOn(R, Nat) BY NatLessThanWellFounded DEF OpToRel
<1>2. \A k, m \in Nat : ~ (<<k, m>> \in R) => m <= k BY DEF R
<1> HIDE DEF R
<1>3. PICK m \in S : \A k \in S : ~ (<<k, m>> \in R) BY <1>1, WFMin
<1>4. \A k \in S : m <= k
 <2> TAKE k \in S
 <2>1. k \in Nat /\ m \in Nat /\ ~ (<<k, m>> \in R) BY <1>3
 <2> QED BY <1>2, <2>1
<1> QED BY <1>4

(***************************************************************************)
(* There is nothing beyond an empty level: the vertex there that is        *)
(* closest to the source has a predecessor one step closer.                *)
(***************************************************************************)
LEMMA NothingBeyond ==
  ASSUME NEW n \in Nat, Level(n) = {}
  PROVE  \A v \in Vertex : Delta[v] < n
<1> DEFINE Beyond == {d \in Nat : d >= n /\ \E v \in Vertex : Delta[v] = d}
<1>1. Beyond = {}
 <2> SUFFICES ASSUME Beyond # {} PROVE FALSE OBVIOUS
 <2>1. PICK m \in Beyond : \A k \in Beyond : m <= k BY Least
 <2>2. PICK v \in Vertex : Delta[v] = m /\ m >= n /\ m \in Nat BY <2>1
 <2>3. m > n BY <2>2 DEF Level
 <2>4. PICK u \in Vertex : Delta[u] = m - 1 BY <2>2, <2>3, DistanceAssumption
 <2>5. m - 1 \in Nat /\ m - 1 >= n BY <2>2, <2>3
 <2>6. m - 1 \in Beyond BY <2>4, <2>5
 <2> QED BY <2>1, <2>2, <2>6
<1> TAKE v \in Vertex
<1>2. Delta[v] >= n => Delta[v] \in Beyond BY GraphTypes
<1> QED BY <1>1, <1>2, GraphTypes

(***************************************************************************)
(* Quotients, for the positions of blocks, and parities, for two nodes     *)
(* that take turns.                                                        *)
(***************************************************************************)
LEMMA Quotients ==
  ASSUME NEW n \in Nat, NEW m \in Nat \ {0}
  PROVE  /\ n \div m \in Nat
         /\ (n \div m) * m <= n
         /\ n < (n \div m) * m + m
  OBVIOUS

LEMMA Mult == ASSUME NEW a \in Nat, NEW b \in Nat, NEW m \in Nat, a <= b PROVE a * m <= b * m
  OBVIOUS

LEMMA Parity ==
  ASSUME NEW n \in Int
  PROVE  /\ n % 2 \in {0, 1} /\ (n + 1) % 2 = 1 - (n % 2) /\ (n + 2) % 2 = n % 2
         /\ (n - 1) % 2 = 1 - (n % 2)
         /\ \A m \in Int : m % 2 = n % 2 => m # n - 1 /\ m # n + 1
         /\ \A m \in Int : m % 2 # n % 2 => m # n
  OBVIOUS

(***************************************************************************)
(* Candidates are tested from the head; buckets grow at the end.           *)
(***************************************************************************)
LEMMA TailEntries ==
  ASSUME NEW c \in Seq(Vertex), c # <<>>
  PROVE  /\ Tail(c) \in Seq(Vertex) /\ Len(c) \in Nat /\ Len(Tail(c)) = Len(c) - 1
         /\ Len(c) >= 1 /\ Head(c) = c[1]
         /\ \A i \in 1 .. Len(Tail(c)) : i + 1 \in 1 .. Len(c) /\ Tail(c)[i] = c[i + 1]
         /\ \A i \in 2 .. Len(c) : i - 1 \in 1 .. Len(Tail(c)) /\ Tail(c)[i - 1] = c[i]
  OBVIOUS

LEMMA AppendEntries ==
  ASSUME NEW S, NEW c \in Seq(S), NEW x \in S
  PROVE  /\ Append(c, x) \in Seq(S) /\ Len(c) \in Nat /\ Len(Append(c, x)) = Len(c) + 1
         /\ Append(c, x)[Len(c) + 1] = x
         /\ \A i \in 1 .. Len(c) : Append(c, x)[i] = c[i]
  OBVIOUS

=============================================================================
