------------------------------ MODULE Startup ------------------------------
(***************************************************************************)
(* The part of every main() that comes between loading and output: the     *)
(* thread counts it is given, the choice of the CPUs for each of them      *)
(* (CPU_helpers/cpu_affinity.hpp), and the pinning of the threads.  In     *)
(* some programs the main thread is one of those that search, and is       *)
(* pinned with them (DO_BFS/dir-bfs.cpp); in others it starts num_t        *)
(* threads and waits (WF_DO_BFS/wf-dir-mem.cpp).                           *)
(*                                                                         *)
(* What /proc and /sys say is external: which CPUs there are at a call and *)
(* how idle each has been.  Node and core of a CPU do not change.  A       *)
(* search is one step here; see SearchControl.                             *)
(***************************************************************************)
EXTENDS Integers, Sequences, FiniteSets, FiniteSetsExt, SequencesExt

CONSTANTS
  Cpu,          \* the CPUs the program may use when it starts
  NodeOf,       \* numa_node, -1 if it is not known
  CoreOf,       \* core_key
  Idle,         \* the values of idle_ratio
  Arguments     \* the lists of thread counts; 0 for what is no positive number

ASSUME StartupAssumption ==
  /\ Cpu \subseteq Nat /\ Cpu # {} /\ IsFiniteSet(Cpu)
  /\ NodeOf \in [Cpu -> Nat \cup {-1}]
  /\ Idle \subseteq Nat
  /\ \A a \in Arguments : a \in Seq(Nat)

VARIABLES
  settings,     \* what does not change: argument, spread_threads(), main works
  pc,
  c,            \* the index of the thread count
  mask,         \* the CPUs the main thread may run on
  allowed,      \* the static set of select_idle_cpus(), {} before the first call
  idle,         \* idle_ratio of the candidates of the last call
  cpu_ids,      \* what it returned
  on            \* the CPUs thread t of the search may run on

vars == <<settings, pc, c, mask, allowed, idle, cpu_ids, on>>

Nothing == [cpu \in {} |-> 0]

Init ==
  /\ settings \in [argument : Arguments, spread : BOOLEAN, main_works : BOOLEAN]
  /\ pc = "counts"
  /\ c = 1
  /\ mask = Cpu
  /\ allowed = {}
  /\ idle = Nothing
  /\ cpu_ids = <<>>
  /\ on = <<>>

num_t == settings.argument[c]

\* parse_thread_counts()
ParseCounts ==
  /\ pc = "counts"
  /\ pc' = IF settings.argument = <<>> \/ 0 \in ToSet(settings.argument)
           THEN "failed" ELSE "select"
  /\ UNCHANGED <<settings, c, mask, allowed, idle, cpu_ids, on>>

-----------------------------------------------------------------------------
(***************************************************************************)
(* select_idle_cpus().                                                     *)
(***************************************************************************)

\* the set of this call
SlipAllowed == mask
\* The set of the first call.
Allowed == IF allowed = {} THEN mask ELSE allowed

\* read_cpu_times() twice: a CPU may be missing, or not have advanced.
Sample ==
  /\ pc = "select"
  /\ allowed' = Allowed
  /\ \E there \in SUBSET Allowed : \E ratio \in [there -> Idle] : idle' = ratio
  /\ pc' = "sampled"
  /\ UNCHANGED <<settings, c, mask, cpu_ids, on>>

Candidates == DOMAIN idle
Before(a, b) == idle[a] > idle[b] \/ (idle[a] = idle[b] /\ a < b)
\* the CPUs that the first loop of choose_candidates() takes
FirstOfCore(cpus, a) == \A b \in cpus : Before(b, a) => CoreOf[b] # CoreOf[a]

\* The first of S, count or all there are; order has the pairs of S in order.
FirstOf(S, order, count) ==
  [i \in 1 .. Min({count, Cardinality(S)}) |->
     CHOOSE a \in S : Cardinality({b \in S : <<b, a>> \in order}) = i - 1]

\* the idlest, whichever core they are on
SlipChooseCandidates(cpus, count) ==
  FirstOf(cpus, {p \in cpus \X cpus : Before(p[1], p[2])}, count)
\* choose_candidates(): one of each core, then the others.
ChooseCandidates(cpus, count) ==
  LET first == {a \in cpus : FirstOfCore(cpus, a)}
  IN FirstOf(cpus, {p \in cpus \X cpus :
                      IF p[1] \in first <=> p[2] \in first THEN Before(p[1], p[2])
                      ELSE p[1] \in first}, count)

Nodes == {NodeOf[cpu] : cpu \in Candidates}
OnNode(node) == {cpu \in Candidates : NodeOf[cpu] = node}
Score(cpus) ==
  LET sum[i \in 0 .. Len(cpus)] == IF i = 0 THEN 0 ELSE sum[i - 1] + idle[cpus[i]]
  IN sum[Len(cpus)]

\* The node with the best choice, the first of them if there are several.
OneNode ==
  LET room == {node \in Nodes : Cardinality(OnNode(node)) >= num_t}
      Best(node) == Score(ChooseCandidates(OnNode(node), num_t))
      node == Min({n \in room : \A m \in room : Best(n) >= Best(m)})
  IN IF room = {} THEN <<>> ELSE ChooseCandidates(OnNode(node), num_t)

\* spread_over_nodes(): the share of a node, and the shares dealt out in rounds.
NodeShare(node) ==
  LET k == Cardinality(Nodes)
      before == Cardinality({n \in Nodes : n < node})
  IN num_t \div k + (IF before < num_t % k THEN 1 ELSE 0)

\* <<round, node>>
Deals == {deal \in (1 .. num_t) \X Nodes : deal[1] <= NodeShare(deal[2])}
Earlier(d, e) == d[1] < e[1] \/ (d[1] = e[1] /\ d[2] < e[2])

SpreadOverNodes ==
  LET deals == FirstOf(Deals, {p \in Deals \X Deals : Earlier(p[1], p[2])}, num_t)
      Dealt(d) == ChooseCandidates(OnNode(d[2]), NodeShare(d[2]))[d[1]]
  IN IF \E node \in Nodes : Cardinality(OnNode(node)) < NodeShare(node) THEN <<>>
     ELSE [i \in DOMAIN deals |-> Dealt(deals[i])]

Selection ==
  IF settings.spread THEN SpreadOverNodes
  ELSE IF OneNode # <<>> THEN OneNode
  ELSE ChooseCandidates(Candidates, num_t)

Select ==
  /\ pc = "sampled"
  /\ IF Cardinality(Candidates) < num_t
     THEN pc' = "short" /\ UNCHANGED cpu_ids
     ELSE IF Selection = <<>>
     THEN pc' = "uneven" /\ UNCHANGED cpu_ids
     ELSE pc' = "start" /\ cpu_ids' = Selection
  /\ UNCHANGED <<settings, c, mask, allowed, idle, on>>

-----------------------------------------------------------------------------
(***************************************************************************)
(* The threads of a search.  A thread starts with the CPUs of the one that *)
(* starts it, and is then pinned.                                          *)
(***************************************************************************)

StartThreads ==
  /\ pc = "start"
  /\ on' = [t \in 1 .. num_t |-> mask]
  /\ pc' = "pin"
  /\ UNCHANGED <<settings, c, mask, allowed, idle, cpu_ids>>

\* pin_current_thread(); it may fail, and the program then ends.
Pin(t) ==
  /\ pc = "pin" /\ on[t] # {cpu_ids[t]}
  /\ \/ /\ on' = [on EXCEPT ![t] = {cpu_ids[t]}]
        /\ mask' = IF settings.main_works /\ t = 1 THEN {cpu_ids[t]} ELSE mask
        /\ UNCHANGED pc
     \/ /\ pc' = "failed"
        /\ UNCHANGED <<on, mask>>
  /\ UNCHANGED <<settings, c, allowed, idle, cpu_ids>>

\* run_searches(), and the loop of main() over the thread counts.
Searched ==
  /\ pc = "pin" /\ \A t \in 1 .. num_t : on[t] = {cpu_ids[t]}
  /\ IF c < Len(settings.argument)
     THEN pc' = "select" /\ c' = c + 1
     ELSE pc' = "output" /\ UNCHANGED c
  /\ idle' = Nothing /\ cpu_ids' = <<>> /\ on' = <<>>
  /\ UNCHANGED <<settings, mask, allowed>>

\* write_output() may fail.
Write ==
  /\ pc = "output"
  /\ pc' \in {"done", "failed"}
  /\ UNCHANGED <<settings, c, mask, allowed, idle, cpu_ids, on>>

\* The program has ended.
Exited == pc \in {"failed", "short", "uneven", "done"} /\ UNCHANGED vars

Next ==
  \/ ParseCounts \/ Sample \/ Select \/ StartThreads
  \/ (\E t \in DOMAIN on : Pin(t)) \/ Searched \/ Write \/ Exited

Spec == Init /\ [][Next]_vars

-----------------------------------------------------------------------------

OnCore(key) == {cpu \in Candidates : CoreOf[cpu] = key}
Used == ToSet(cpu_ids)

(***************************************************************************)
(* Every thread gets a CPU of its own.  By default all are on one node     *)
(* whenever one has room; spread, no node has two more than another.  Two  *)
(* threads share a core only when every core they could have had is used:  *)
(* by default every core of the nodes in use; spread, when each node gives *)
(* a fixed number of CPUs, every core of the node that the two are on.     *)
(***************************************************************************)
ChosenWell ==
  pc = "start" =>
    LET there == {cpu \in Candidates : \E other \in Used : NodeOf[cpu] = NodeOf[other]}
        Near(a) == IF settings.spread THEN OnNode(NodeOf[a]) ELSE there
        PerNode(node) == Cardinality(Used \cap OnNode(node))
    IN /\ Len(cpu_ids) = num_t /\ Cardinality(Used) = num_t /\ Used \subseteq Candidates
       /\ ~settings.spread /\ (\E node \in Nodes : Cardinality(OnNode(node)) >= num_t) =>
            Cardinality({NodeOf[cpu] : cpu \in Used}) = 1
       /\ settings.spread =>
            \A m, n \in Nodes : PerNode(m) <= PerNode(n) + 1
       /\ \A a, b \in Used : a # b /\ b \in Near(a) /\ CoreOf[a] = CoreOf[b] =>
            \A cpu \in Near(a) : OnCore(CoreOf[cpu]) \cap Used # {}

(***************************************************************************)
(* Every call chooses among the CPUs the program was started with, however *)
(* many threads it ran before and although the thread that asks may by now *)
(* be pinned to one of them.                                               *)
(***************************************************************************)
NeverNarrowed == allowed \in {{}, Cpu}

=============================================================================
