--------------------------- MODULE SearchControl ---------------------------
(***************************************************************************)
(* The driver of WF_BFS/wf-bfs-csr.cpp: threads that live for a whole run  *)
(* of searches, and the main thread that sets up each search, publishes    *)
(* its number, and takes the memory back when all have returned.           *)
(* (wf-dir.cpp and wf-dir-mem.cpp have the same driver.)                   *)
(*                                                                         *)
(* One action is one access to a counter, to the mutex or to the condition *)
(* variable, or one vertex of a share.  Inside a search a thread does what *)
(* WaitFreeBfs was shown to do: it goes from level to level, finds         *)
(* distances and marks vertices until its level is done; what can be wrong *)
(* here is what it starts from, and when.                                  *)
(***************************************************************************)
EXTENDS BfsGraph, FiniteSets

CONSTANTS
  N,              \* the number of vertices, which are 0..N-1
  ThreadCounts,   \* the thread counts of the command line, in order
  Repetitions     \* searches per thread count; 20 in the code

ASSUME ControlAssumption ==
  /\ N \in Nat \ {0} /\ Vertex = 0 .. N - 1
  /\ ThreadCounts \in Seq(Nat \ {0}) /\ ThreadCounts # <<>>
  /\ Repetitions \in Nat \ {0}

VARIABLES
  \* search_control
  number,         \* the search to run; -1 stops the threads
  reset,          \* shares reset and searches returned, over all searches
  returned,
  mutex,          \* returned_mutex: the set of who holds it
  waiting,        \* all_returned: the set of who waits for it
  return_times,   \* the search whose return time thread t has noted
  levels,         \* the list from head: for each level when it was allocated
  \* the data of a search
  dist, vis,
  arena,          \* how many times the arenas have been made or taken back
  spare_level,    \* per thread: when its spare level was allocated, or None
  \* local to the main thread
  mpc, c, i,
  \* local to the threads
  pc,
  last,           \* the search the thread is in
  pos,            \* the vertex of its share it resets next
  curr            \* the level it is at, counted from 1

countVars == <<number, reset, returned>>
lockVars == <<mutex, waiting>>
mainVars == <<mpc, c, i>>
threadVars == <<pc, last, pos, curr>>
dataVars == <<dist, vis>>
levelVars == <<levels, arena, spare_level>>
vars == <<countVars, lockVars, mainVars, threadVars, dataVars, levelVars,
          return_times>>

None == 0
Main == -1                                      \* the main thread's name

num_t == ThreadCounts[c]
Thread == 0 .. num_t - 1
AnyThread == UNION {0 .. ThreadCounts[k] - 1 : k \in DOMAIN ThreadCounts}

Begin(t) == (N * t) \div num_t
End(t) == (N * (t + 1)) \div num_t

Init ==
  /\ number = 0 /\ reset = 0 /\ returned = 0
  /\ mutex = {} /\ waiting = {}
  /\ return_times = [t \in AnyThread |-> 0]
  /\ levels = <<>>
  /\ dist = [v \in Vertex |-> Unset]
  /\ vis = [v \in Vertex |-> FALSE]
  /\ arena = 0
  /\ spare_level = [t \in AnyThread |-> None]
  /\ mpc = "start" /\ c = 1 /\ i = 1
  /\ pc = [t \in AnyThread |-> "none"]
  /\ last = [t \in AnyThread |-> 0]
  /\ pos = [t \in AnyThread |-> 0]
  /\ curr = [t \in AnyThread |-> 0]

-----------------------------------------------------------------------------
(***************************************************************************)
(* The main thread: run_searches(), once per thread count.                 *)
(***************************************************************************)

\* New arenas, counts and threads.  (Threads that are started before the
\* others only spin: number is 0.)
StartThreads ==
  /\ mpc = "start"
  /\ arena' = arena + 1
  /\ number' = 0 /\ reset' = 0 /\ returned' = 0
  /\ return_times' = [t \in AnyThread |-> 0]
  /\ pc' = [t \in AnyThread |-> IF t \in Thread THEN "poll" ELSE "none"]
  /\ last' = [t \in AnyThread |-> 0]
  /\ spare_level' = [t \in AnyThread |-> None]
  /\ i' = 1
  /\ mpc' = "head"
  /\ UNCHANGED <<c, levels, lockVars, pos, curr, dataVars>>

\* make_first_level()
MakeFirstLevel ==
  /\ mpc = "head"
  /\ levels' = <<arena>>
  /\ mpc' = "publish"
  /\ UNCHANGED <<c, i, arena, spare_level, countVars, lockVars, threadVars,
                 dataVars, return_times>>

Publish ==
  /\ mpc = "publish"
  /\ number' = i
  /\ mpc' = "lock"
  /\ UNCHANGED <<c, i, reset, returned, lockVars, threadVars, dataVars,
                 levelVars, return_times>>

LockMain ==
  /\ mpc = "lock"
  /\ mutex = {}
  /\ mutex' = {Main}
  /\ mpc' = "test"
  /\ UNCHANGED <<c, i, waiting, countVars, threadVars, dataVars, levelVars,
                 return_times>>

\* forgets that the counts go on from search to search
SlipAllReturned == returned >= num_t
AllReturned == returned = i * num_t

\* The predicate of wait(), under the mutex.
TestReturned ==
  /\ mpc = "test"
  /\ IF AllReturned
     THEN mpc' = "times" /\ mutex' = {}
     ELSE mpc' = "block" /\ UNCHANGED mutex
  /\ UNCHANGED <<c, i, waiting, countVars, threadVars, dataVars, levelVars,
                 return_times>>

\* wait() blocks and gives the mutex back, in one step.
Block ==
  /\ mpc = "block"
  /\ mutex' = {}
  /\ waiting' = {Main}
  /\ mpc' = "wait"
  /\ UNCHANGED <<c, i, countVars, threadVars, dataVars, levelVars, return_times>>

\* wait() goes on: it has been notified.
Wake ==
  /\ mpc = "wait" /\ waiting = {}
  /\ mpc' = "lock"
  /\ UNCHANGED <<c, i, countVars, lockVars, threadVars, dataVars, levelVars,
                 return_times>>

\* A condition variable may also wake up by itself.
SpuriousWake ==
  /\ mpc = "wait" /\ waiting # {}
  /\ waiting' = {}
  /\ UNCHANGED <<mutex, countVars, mainVars, threadVars, dataVars, levelVars,
                 return_times>>

\* min_element(return_times), then free_levels().
FreeLevels ==
  /\ mpc = "times"
  /\ arena' = arena + 1
  /\ levels' = <<>>
  /\ IF i < Repetitions
     THEN i' = i + 1 /\ mpc' = "head"
     ELSE i' = i /\ mpc' = "stop"
  /\ UNCHANGED <<c, spare_level, countVars, lockVars, threadVars, dataVars,
                 return_times>>

StopThreads ==
  /\ mpc = "stop"
  /\ number' = -1
  /\ mpc' = "join"
  /\ UNCHANGED <<c, i, reset, returned, lockVars, threadVars, dataVars,
                 levelVars, return_times>>

\* join(), and main() goes on to the next thread count or writes dist.
Join ==
  /\ mpc = "join"
  /\ \A t \in Thread : pc[t] = "exited"
  /\ IF c < Len(ThreadCounts)
     THEN c' = c + 1 /\ mpc' = "start"
     ELSE c' = c /\ mpc' = "output"
  /\ UNCHANGED <<i, countVars, lockVars, threadVars, dataVars, levelVars,
                 return_times>>

Exited == mpc = "output" /\ UNCHANGED vars

MainStep ==
  \/ StartThreads \/ MakeFirstLevel \/ Publish \/ LockMain \/ TestReturned
  \/ Block \/ Wake \/ FreeLevels \/ StopThreads \/ Join

-----------------------------------------------------------------------------
(***************************************************************************)
(* A thread outside of its searches: search_thread() and reset_share().    *)
(***************************************************************************)

Goto(t, label) == pc' = [pc EXCEPT ![t] = label]

\* keeps the spare level of the search before
SlipDropSpare(t) == UNCHANGED spare_level
DropSpare(t) == spare_level' = [spare_level EXCEPT ![t] = None]

\* The spin on number, then the start of reset_share().
Poll(t) ==
  /\ pc[t] = "poll" /\ number # last[t]
  /\ IF number < 0
     THEN /\ Goto(t, "exited")
          /\ UNCHANGED <<last, pos, spare_level>>
     ELSE /\ Goto(t, "dist")
          /\ last' = [last EXCEPT ![t] = number]
          /\ pos' = [pos EXCEPT ![t] = Begin(t)]
          /\ DropSpare(t)
  /\ UNCHANGED <<curr, levels, arena, countVars, lockVars, mainVars, dataVars,
                 return_times>>

\* One vertex of fill(dist...), or its end.
FillDist(t) ==
  /\ pc[t] = "dist"
  /\ IF pos[t] < End(t)
     THEN /\ dist' = [dist EXCEPT ![pos[t]] = Unset]
          /\ pos' = [pos EXCEPT ![t] = @ + 1]
          /\ UNCHANGED pc
     ELSE /\ pos' = [pos EXCEPT ![t] = Begin(t)]
          /\ Goto(t, "vis")
          /\ UNCHANGED dist
  /\ UNCHANGED <<vis, last, curr, levelVars, countVars, lockVars, mainVars,
                 return_times>>

FillVis(t) ==
  /\ pc[t] = "vis"
  /\ IF pos[t] < End(t)
     THEN /\ vis' = [vis EXCEPT ![pos[t]] = FALSE]
          /\ pos' = [pos EXCEPT ![t] = @ + 1]
          /\ UNCHANGED pc
     ELSE /\ Goto(t, "source")
          /\ UNCHANGED <<vis, pos>>
  /\ UNCHANGED <<dist, last, curr, levelVars, countVars, lockVars, mainVars,
                 return_times>>

SetSource(t) ==
  /\ pc[t] = "source"
  /\ dist' = IF Begin(t) <= Root /\ Root < End(t)
             THEN [dist EXCEPT ![Root] = 0] ELSE dist
  /\ Goto(t, "reset")
  /\ UNCHANGED <<vis, last, pos, curr, levelVars, countVars, lockVars,
                 mainVars, return_times>>

\* searches.reset++
CountReset(t) ==
  /\ pc[t] = "reset"
  /\ reset' = reset + 1
  /\ Goto(t, "meet")
  /\ UNCHANGED <<number, returned, last, pos, curr, lockVars, mainVars,
                 dataVars, levelVars, return_times>>

\* does not wait for the other shares
SlipAllReset(t) == reset >= last[t]
AllReset(t) == reset >= last[t] * num_t

\* The spin on reset, then the head of the list.
Meet(t) ==
  /\ pc[t] = "meet" /\ AllReset(t)
  /\ curr' = [curr EXCEPT ![t] = 1]
  /\ Goto(t, "level")
  /\ UNCHANGED <<last, pos, countVars, lockVars, mainVars, dataVars,
                 levelVars, return_times>>

NoteTime(t) ==
  /\ pc[t] = "time"
  /\ return_times' = [return_times EXCEPT ![t] = last[t]]
  /\ Goto(t, "count")
  /\ UNCHANGED <<last, pos, curr, countVars, lockVars, mainVars, dataVars,
                 levelVars>>

\* ++returned; the last thread goes on to notify the main thread.
CountReturn(t) ==
  /\ pc[t] = "count"
  /\ returned' = returned + 1
  /\ Goto(t, IF returned' = last[t] * num_t THEN "lock" ELSE "poll")
  /\ UNCHANGED <<number, reset, last, pos, curr, lockVars, mainVars, dataVars,
                 levelVars, return_times>>

\* notifies without holding the mutex
SlipLockMutex(t) ==
  /\ pc[t] = "lock"
  /\ Goto(t, "notify")
  /\ UNCHANGED <<last, pos, curr, lockVars, countVars, mainVars, dataVars,
                 levelVars, return_times>>
LockMutex(t) ==
  /\ pc[t] = "lock"
  /\ mutex = {}
  /\ mutex' = {t}
  /\ Goto(t, "notify")
  /\ UNCHANGED <<last, pos, curr, waiting, countVars, mainVars, dataVars,
                 levelVars, return_times>>

\* notify_one(), and the mutex is given back.
Notify(t) ==
  /\ pc[t] = "notify"
  /\ waiting' = {}
  /\ mutex' = mutex \ {t}
  /\ Goto(t, "poll")
  /\ UNCHANGED <<last, pos, curr, countVars, mainVars, dataVars, levelVars,
                 return_times>>

-----------------------------------------------------------------------------
(***************************************************************************)
(* A thread in a search: wf_bfs() and top_down_level(), in the steps       *)
(* WaitFreeBfs was shown to implement.  Vertices are distances and marks   *)
(* here, not entries of buckets; levels carry the time they were allocated *)
(* at, which tells memory that has been taken back from memory in use.     *)
(***************************************************************************)

Depth(t) == curr[t] - 1
AtLevel(t) == {v \in Vertex : dist[v] = Depth(t)}
NextIsNull(t) == Len(levels) = curr[t]
Covered(u) == \A v \in Neighbors(u) : dist[v] # Unset

\* A level with vertices needs a successor: the test of next in
\* top_down_level().
TestNext(t) ==
  /\ pc[t] = "level" /\ NextIsNull(t) /\ AtLevel(t) # {}
  /\ Goto(t, "link")
  /\ UNCHANGED <<last, pos, curr, countVars, lockVars, mainVars, dataVars,
                 levelVars, return_times>>

(***************************************************************************)
(* add_node(): the spare level, or a new one, is linked, or becomes the    *)
(* spare one because another thread has been faster.                       *)
(***************************************************************************)
AddNode(t) ==
  /\ pc[t] = "link"
  /\ LET new_node == IF spare_level[t] = None THEN arena ELSE spare_level[t]
     IN IF NextIsNull(t)
        THEN /\ levels' = Append(levels, new_node)
             /\ spare_level' = [spare_level EXCEPT ![t] = None]
        ELSE /\ spare_level' = [spare_level EXCEPT ![t] = new_node]
             /\ UNCHANGED levels
  /\ Goto(t, "level")
  /\ UNCHANGED <<arena, last, pos, curr, countVars, lockVars, mainVars,
                 dataVars, return_times>>

Discover(t) ==
  /\ pc[t] = "level" /\ ~NextIsNull(t)
  /\ \E u \in AtLevel(t) : \E v \in Neighbors(u) :
       /\ ~vis[u] /\ dist[v] = Unset
       /\ dist' = [dist EXCEPT ![v] = Depth(t) + 1]
  /\ UNCHANGED <<vis, threadVars, countVars, lockVars, mainVars, levelVars,
                 return_times>>

MarkVisited(t) ==
  /\ pc[t] = "level" /\ ~NextIsNull(t)
  /\ \E u \in AtLevel(t) :
       /\ ~vis[u] /\ Covered(u)
       /\ vis' = [vis EXCEPT ![u] = TRUE]
  /\ UNCHANGED <<dist, threadVars, countVars, lockVars, mainVars, levelVars,
                 return_times>>

\* curr = curr->next; the call returns at the end of the list.
Advance(t) ==
  /\ pc[t] = "level"
  /\ \A u \in AtLevel(t) : vis[u]
  /\ IF NextIsNull(t)
     THEN AtLevel(t) = {} /\ Goto(t, "time") /\ UNCHANGED curr
     ELSE curr' = [curr EXCEPT ![t] = @ + 1] /\ UNCHANGED pc
  /\ UNCHANGED <<last, pos, countVars, lockVars, mainVars, dataVars,
                 levelVars, return_times>>

ThreadStep(t) ==
  \/ Poll(t) \/ FillDist(t) \/ FillVis(t) \/ SetSource(t)
  \/ CountReset(t) \/ Meet(t)
  \/ TestNext(t) \/ AddNode(t) \/ Discover(t) \/ MarkVisited(t) \/ Advance(t)
  \/ NoteTime(t) \/ CountReturn(t) \/ LockMutex(t) \/ Notify(t)

Next ==
  \/ MainStep
  \/ SpuriousWake
  \/ \E t \in AnyThread : ThreadStep(t)
  \/ Exited

Spec == Init /\ [][Next]_vars

(***************************************************************************)
(* Every thread gets time, and so does the main thread.  A thread that     *)
(* locks the mutex gets it although spurious wake-ups may make the main    *)
(* thread take it again and again: it is held for a few instructions only. *)
(***************************************************************************)
Fairness ==
  /\ WF_vars(MainStep)
  /\ \A t \in AnyThread : WF_vars(ThreadStep(t)) /\ SF_vars(LockMutex(t))

FairSpec == Spec /\ Fairness

-----------------------------------------------------------------------------

Labels == {"none", "poll", "dist", "vis", "source", "reset", "meet", "level",
           "link", "time", "count", "lock", "notify", "exited"}
MainLabels == {"start", "head", "publish", "lock", "test", "block", "wait",
               "times", "stop", "join", "output"}

TypeOK ==
  /\ number \in -1 .. Repetitions
  /\ reset \in Nat /\ returned \in Nat
  /\ mutex \in SUBSET ({Main} \cup AnyThread) /\ Cardinality(mutex) <= 1
  /\ waiting \subseteq {Main}
  /\ return_times \in [AnyThread -> 0 .. Repetitions]
  /\ levels \in Seq(Nat)
  /\ dist \in [Vertex -> Unset .. MaxDelta]
  /\ vis \in [Vertex -> BOOLEAN]
  /\ arena \in Nat
  /\ spare_level \in [AnyThread -> Nat]
  /\ mpc \in MainLabels
  /\ c \in DOMAIN ThreadCounts
  /\ i \in 1 .. Repetitions
  /\ pc \in [AnyThread -> Labels]
  /\ last \in [AnyThread -> 0 .. Repetitions]
  /\ pos \in [AnyThread -> 0 .. N]
  /\ curr \in [AnyThread -> Nat]

Searching(t) == pc[t] \in {"level", "link"}

(***************************************************************************)
(* The comment at line 585: when the first thread has returned from a      *)
(* search, the distances are final.  They stay as they are until the next  *)
(* search is published, so the main thread reads them right.               *)
(***************************************************************************)
FirstReturnExact ==
  (\E t \in Thread : return_times[t] = number) /\ number > 0 => dist = Delta
OutputExact == mpc \in {"times", "stop", "join", "output"} => dist = Delta

DistancesFinal == FirstReturnExact /\ OutputExact

(***************************************************************************)
(* No thread walks or links a level whose memory has been taken back: it   *)
(* comes from the arenas as they are now, and so does a spare level, which *)
(* survives from level to level but not from search to search.             *)
(***************************************************************************)
LevelsInUse ==
  \A t \in Thread : Searching(t) =>
    /\ curr[t] \in DOMAIN levels
    /\ \A k \in DOMAIN levels : levels[k] = arena
    /\ spare_level[t] \in {None, arena}

(***************************************************************************)
(* When the main thread looks for the first return time, every thread has  *)
(* noted that of this search.                                              *)
(***************************************************************************)
TimesNoted == mpc = "times" => \A t \in Thread : return_times[t] = i

(***************************************************************************)
(* A thread that searches sees what a search starts from, and what has     *)
(* become of it since: no share is reset once a thread has begun.          *)
(***************************************************************************)
SharesReset ==
  \A t \in Thread : Searching(t) =>
    \A s \in Thread :
      last[s] = last[t] /\ pc[s] \notin {"dist", "vis", "source", "reset"}

(***************************************************************************)
(* The run of searches ends: no thread waits for a count that is never     *)
(* reached, and the main thread is never left waiting for a notification   *)
(* that came before it waited.                                             *)
(***************************************************************************)
Ends == <>(mpc = "output")

=============================================================================
