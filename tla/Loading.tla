------------------------------ MODULE Loading ------------------------------
(***************************************************************************)
(* Reading a graph, building its CSR and writing the distances, as every   *)
(* program does it with Graph_helpers/graph_reader.hpp: seven jobs, each   *)
(* run on the load threads and followed by what the main thread does with  *)
(* the results.                                                            *)
(*                                                                         *)
(* A file is a sequence of lines and the bytes at which they start, with   *)
(* the size of the file at the end; a line is what the reader makes of it. *)
(* The workers of a job share no memory they write, which is what this     *)
(* module is about, so that most of them are one action; the sort, where   *)
(* they write into one array, is an action per edge.  What a job needs no  *)
(* more is dropped.                                                        *)
(***************************************************************************)
EXTENDS Integers, Sequences, FiniteSets, FiniteSetsExt, SequencesExt

CONSTANTS
  LoadThreads,   \* load_threads, 8
  Files,         \* the files there may be
  MaxBlocks,     \* 1 << 20
  MaxInt         \* INT_MAX

\* Each line has a byte at least, its end.
IsFile(f) ==
  /\ f.format \in {"counted", "matrix", "bare"}
  /\ f.lines \in Seq(ToSet(f.lines))
  /\ \A i \in DOMAIN f.lines : f.lines[i].kind \in {"edge", "blank", "comment", "bad"}
  /\ f.starts \in [1 .. Len(f.lines) + 1 -> Nat]
  /\ f.starts[1] = 0
  /\ \A i \in DOMAIN f.lines : f.starts[i] < f.starts[i + 1]

ASSUME LoadingAssumption ==
  /\ LoadThreads \in Nat \ {0}
  /\ MaxBlocks \in Nat \ {0}
  /\ MaxInt \in Nat \ {0}
  /\ \A f \in Files : IsFile(f)

Thread == 0 .. LoadThreads - 1

VARIABLES
  file,      \* the file that is read; it does not change
  main,      \* where the main thread is: its job, how far it has started it, how it ended
  working,   \* the threads that run work(t)
  errors,    \* errors[t] of run_on_threads(), 0 for none and else the line
  parts,     \* what each thread has for the main thread, or for itself
  edges,     \* n and the edges
  entries,   \* the list entries, by owner
  csr,       \* offsets and adj
  dist       \* the distances that are written

vars == <<file, main, working, errors, parts, edges, entries, csr, dist>>

Junk == -1     \* what an array holds before anything is written
JunkPair == <<Junk, Junk>>
NoEdges == [n |-> 0, list |-> <<>>]
NoCsr == [offsets |-> <<>>, adj |-> <<>>]
Jobs == <<"parse", "copy", "count", "sort", "degrees", "lists", "text">>

Init ==
  /\ file \in Files
  /\ main = [job |-> "open", started |-> 0, line |-> 0]
  /\ working = {}
  /\ errors = [t \in Thread |-> 0]
  /\ parts = [t \in Thread |-> <<>>]
  /\ edges = NoEdges
  /\ entries = <<>>
  /\ csr = NoCsr
  /\ dist = <<>>

-----------------------------------------------------------------------------
(***************************************************************************)
(* run_on_threads(): starts the other threads, runs work(0), joins them,   *)
(* and throws the first exception.  A thread may fail to start; those that *)
(* have been started are then joined, too.                                 *)
(***************************************************************************)

Begin(job) == main' = [main EXCEPT !.job = job, !.started = 0]
Fail(line) == main' = [main EXCEPT !.job = "failed", !.line = line]

Running == main.job \in ToSet(Jobs)
Unwinding == main.started = -1

StartThread ==
  /\ Running /\ main.started \in 0 .. LoadThreads - 2
  /\ \/ /\ main' = [main EXCEPT !.started = @ + 1]
        /\ working' = working \cup {main.started + 1}
     \/ /\ main' = [main EXCEPT !.started = -1]
        /\ UNCHANGED working
  /\ UNCHANGED <<file, errors, parts, edges, entries, csr, dist>>

\* run(0)
RunOwn ==
  /\ Running /\ main.started = LoadThreads - 1
  /\ main' = [main EXCEPT !.started = LoadThreads]
  /\ working' = working \cup {0}
  /\ UNCHANGED <<file, errors, parts, edges, entries, csr, dist>>

\* also waits for the threads that have not been started
SlipAllJoined == working = {} /\ main.started = LoadThreads
\* Every thread that was started has ended.
AllJoined == working = {} /\ (main.started = LoadThreads \/ Unwinding)

Joined(job) == main.job = job /\ AllJoined /\ ~Unwinding

Unwind ==
  /\ Running /\ AllJoined /\ Unwinding
  /\ Fail(0)
  /\ UNCHANGED <<file, working, errors, parts, edges, entries, csr, dist>>

Works(t, job) == main.job = job /\ t \in working
Ended(t) == working' = working \ {t}

FirstError == errors[Min({t \in Thread : errors[t] # 0})]

-----------------------------------------------------------------------------
(***************************************************************************)
(* The readers of the three formats, up to the first edge.                 *)
(***************************************************************************)

Comments == file.format = "bare"

ReadHeader ==
  /\ main.job = "open"
  /\ IF file.format = "bare" THEN /\ Begin("parse")
                                  /\ edges' = [edges EXCEPT !.n = MaxInt]
     ELSE LET h == file.header
          IN IF ~h.good \/ h.n > MaxInt \/ h.m > MaxInt
                \/ (file.format = "matrix" /\ h.n # h.columns)
                \/ h.n = 0
             THEN Fail(0) /\ UNCHANGED edges
             ELSE Begin("parse") /\ edges' = [edges EXCEPT !.n = h.n]
  /\ UNCHANGED <<file, working, errors, parts, entries, csr, dist>>

-----------------------------------------------------------------------------
(***************************************************************************)
(* parse_edges().                                                          *)
(***************************************************************************)

Size == file.starts[Len(file.lines) + 1]
LineStarts == ToSet(file.starts)

\* the line the boundary falls into is in both parts
SlipAligned(p) == p
\* Forward to the next byte that has the end of a line before it.
Aligned(p) == Min({s \in LineStarts : s >= p})

\* starts[t]: each boundary is at a line start, so they do not go back.
Start(t) == IF t = LoadThreads THEN Size ELSE Aligned((Size * t) \div LoadThreads)

\* The lines that have a byte in the part.
PartLines(t) ==
  {i \in DOMAIN file.lines : file.starts[i] < Start(t + 1) /\ file.starts[i + 1] > Start(t)}

IsEdge(line) == line.kind = "edge"
ToVertex(id) == id - file.first_id
Outside(id) == id > MaxInt \/ id < file.first_id \/ ToVertex(id) >= edges.n
Bad(line) ==
  \/ line.kind = "bad"
  \/ line.kind = "comment" /\ ~Comments
  \/ IsEdge(line) /\ (Outside(line.u) \/ Outside(line.v))

EdgeOn(line) == <<ToVertex(line.u), ToVertex(line.v)>>
\* The edges on these lines, in the order of the lines.
EdgesOf(lines) ==
  LET read[i \in 0 .. Len(file.lines)] ==
        IF i = 0 THEN <<>>
        ELSE IF i \in lines /\ IsEdge(file.lines[i])
        THEN Append(read[i - 1], EdgeOn(file.lines[i]))
        ELSE read[i - 1]
  IN read[Len(file.lines)]

Parse(t) ==
  /\ Works(t, "parse")
  /\ LET bad == {i \in PartLines(t) : Bad(file.lines[i])}
     IN IF bad # {}
        THEN errors' = [errors EXCEPT ![t] = Min(bad)] /\ UNCHANGED parts
        ELSE parts' = [parts EXCEPT ![t] = EdgesOf(PartLines(t))] /\ UNCHANGED errors
  /\ Ended(t)
  /\ UNCHANGED <<file, main, edges, entries, csr, dist>>

\* first_edge
FirstEdge(t) ==
  LET first[s \in 0 .. LoadThreads] ==
        IF s = 0 THEN 0 ELSE first[s - 1] + Len(parts[s - 1])
  IN first[t]

AfterParse ==
  /\ Joined("parse")
  /\ IF \E t \in Thread : errors[t] # 0
     THEN Fail(FirstError) /\ UNCHANGED edges
     ELSE IF FirstEdge(LoadThreads) > MaxInt
     THEN Fail(0) /\ UNCHANGED edges
     ELSE /\ Begin("copy")
          /\ edges' = [edges EXCEPT !.list = [i \in 1 .. FirstEdge(LoadThreads) |-> JunkPair]]
  /\ UNCHANGED <<file, working, errors, parts, entries, csr, dist>>

\* The offsets are those of the parts as they were parsed.
Copy(t) ==
  /\ Works(t, "copy")
  /\ edges' = [edges EXCEPT !.list =
                 [i \in DOMAIN @ |-> IF i - FirstEdge(t) \in DOMAIN parts[t]
                                     THEN parts[t][i - FirstEdge(t)] ELSE @[i]]]
  /\ Ended(t)
  /\ UNCHANGED <<file, main, errors, parts, entries, csr, dist>>

-----------------------------------------------------------------------------
(***************************************************************************)
(* The end of the readers, and build_csr().                                *)
(***************************************************************************)

M == Len(edges.list)
Largest == Max({-1} \cup {Max({edges.list[i][1], edges.list[i][2]}) : i \in 1 .. M})

AfterCopy ==
  /\ Joined("copy")
  /\ IF file.format = "bare"
     THEN IF M = 0 THEN Fail(0) /\ UNCHANGED edges
          ELSE Begin("count") /\ edges' = [edges EXCEPT !.n = Largest + 1]
     ELSE IF M # file.header.m THEN Fail(0) /\ UNCHANGED edges
          ELSE Begin("count") /\ UNCHANGED edges
  /\ parts' = [t \in Thread |-> <<>>]
  /\ UNCHANGED <<file, working, errors, entries, csr, dist>>

\* Blocks of 2^shift vertices, no more than MaxBlocks of them.
Width == Min({2 ^ s : s \in {i \in 0 .. edges.n : (edges.n - 1) \div 2 ^ i < MaxBlocks}})
Blocks == (edges.n - 1) \div Width + 1
BlockOf(u) == u \div Width
BlockStart(b) == Min({b * Width, edges.n})

\* leaves the remainder out
SlipShare(t) == (M \div LoadThreads) * t + 1 .. (M \div LoadThreads) * (t + 1)
\* Thread t's share of the edges.
Share(t) == ((M * t) \div LoadThreads) + 1 .. (M * (t + 1)) \div LoadThreads

\* in_block[t]
Count(t) ==
  /\ Works(t, "count")
  /\ parts' = [parts EXCEPT ![t] =
                 [b \in 0 .. Blocks - 1 |->
                    MapThenSumSet(LAMBDA i : Cardinality({s \in {1, 2} :
                                               BlockOf(edges.list[i][s]) = b}), Share(t))]]
  /\ Ended(t)
  /\ UNCHANGED <<file, main, errors, edges, entries, csr, dist>>

InRun(in_block, blocks) ==
  MapThenSumSet(LAMBDA t : MapThenSumSet(LAMBDA b : in_block[t][b], blocks), Thread)

\* Owner o begins after the first blocks that hold o shares of the entries.
FirstBlock(in_block, o) ==
  IF o = 0 THEN 0 ELSE IF o = LoadThreads THEN Blocks
  ELSE Min({Blocks} \cup {b \in 1 .. Blocks :
              InRun(in_block, 0 .. b - 1) >= (2 * M * o) \div LoadThreads})

Run(first_block, o) == first_block[o] .. first_block[o + 1] - 1
OwnerOf(b) == CHOOSE o \in Thread : b \in Run(entries.first_block, o)

\* the places of a thread follow those of the thread before, for all owners at once
SlipPlace(in_block, first_block, t, o) ==
  InRun(in_block, 0 .. first_block[o] - 1) + 1
\* Where thread t puts the first of its entries for owner o.
Place(in_block, first_block, t, o) ==
  InRun(in_block, 0 .. first_block[o] - 1) + 1 +
  MapThenSumSet(LAMBDA s : MapThenSumSet(LAMBDA b : in_block[s][b], Run(first_block, o)),
                0 .. t - 1)

\* first_block, owner_of, region and place
AfterCount ==
  /\ Joined("count")
  /\ LET first_block == [o \in 0 .. LoadThreads |-> FirstBlock(parts, o)]
     IN /\ entries' = [first_block |-> first_block,
                       region |-> [o \in 0 .. LoadThreads |->
                                     InRun(parts, 0 .. first_block[o] - 1) + 1],
                       list |-> [k \in 1 .. 2 * M |-> JunkPair]]
        /\ parts' = [t \in Thread |->
                       [next |-> [o \in Thread |-> Place(parts, first_block, t, o)],
                        todo |-> Share(t)]]
  /\ Begin("sort")
  /\ UNCHANGED <<file, working, errors, edges, csr, dist>>

\* Puts what x is followed by among the entries of x's owner.
Put(state, x, y) ==
  LET o == OwnerOf(BlockOf(x))
  IN [next |-> [state.next EXCEPT ![o] = @ + 1],
      list |-> [state.list EXCEPT ![state.next[o]] = <<x, y>>]]

SortEdge(t) ==
  /\ Works(t, "sort") /\ parts[t].todo # {}
  /\ LET i == Min(parts[t].todo)
         u == edges.list[i][1]
         v == edges.list[i][2]
         both == Put(Put([next |-> parts[t].next, list |-> entries.list], u, v), v, u)
     IN /\ entries' = [entries EXCEPT !.list = both.list]
        /\ parts' = [parts EXCEPT ![t] = [next |-> both.next, todo |-> @.todo \ {i}]]
  /\ UNCHANGED <<file, main, working, errors, edges, csr, dist>>

SortEnd(t) ==
  /\ Works(t, "sort") /\ parts[t].todo = {}
  /\ Ended(t)
  /\ UNCHANGED <<file, main, errors, parts, edges, entries, csr, dist>>

\* offsets has a place more than there are vertices; the degree of u is at u + 1.
AfterSort ==
  /\ Joined("sort")
  /\ csr' = [csr EXCEPT !.offsets = [u \in 0 .. edges.n |-> IF u = 0 THEN 0 ELSE Junk]]
  /\ parts' = [t \in Thread |-> <<>>]
  /\ Begin("degrees")
  /\ UNCHANGED <<file, working, errors, edges, entries, dist>>

Owned(o) ==
  BlockStart(entries.first_block[o]) .. BlockStart(entries.first_block[o + 1]) - 1
Region(o) == entries.region[o] .. entries.region[o + 1] - 1
Among(o, u) == {k \in Region(o) : entries.list[k][1] = u}

\* Fills its own with zeros, then counts its entries.
Degrees(o) ==
  /\ Works(o, "degrees")
  /\ csr' = [csr EXCEPT !.offsets =
               [u \in DOMAIN @ |->
                  IF u > 0 /\ u - 1 \in Owned(o) THEN Cardinality(Among(o, u - 1))
                  ELSE IF u > 0 THEN @[u] + Cardinality(Among(o, u - 1)) ELSE @[u]]]
  /\ Ended(o)
  /\ UNCHANGED <<file, main, errors, parts, edges, entries, dist>>

\* partial_sum()
AfterDegrees ==
  /\ Joined("degrees")
  /\ LET sums == [u \in 0 .. edges.n |-> MapThenSumSet(LAMBDA v : csr.offsets[v], 0 .. u)]
     IN csr' = [offsets |-> sums, adj |-> [k \in 1 .. sums[edges.n] |-> Junk]]
  /\ Begin("lists")
  /\ UNCHANGED <<file, working, errors, parts, edges, entries, dist>>

\* The entry at k is as far into its list as there are entries of the list before it.
Target(o, k) ==
  csr.offsets[entries.list[k][1]] + Cardinality({j \in Among(o, entries.list[k][1]) : j <= k})

Lists(o) ==
  /\ Works(o, "lists")
  /\ csr' = [csr EXCEPT !.adj =
               [p \in DOMAIN @ |->
                  LET from == {k \in Region(o) : Target(o, k) = p}
                  IN IF from = {} THEN @[p] ELSE entries.list[Max(from)][2]]]
  /\ Ended(o)
  /\ UNCHANGED <<file, main, errors, parts, edges, entries, dist>>

-----------------------------------------------------------------------------
(***************************************************************************)
(* The searches, and write_distances().  Of the distances only which       *)
(* vertex has the largest matters here.                                    *)
(***************************************************************************)

AfterLists ==
  /\ Joined("lists")
  /\ \E far \in 1 .. edges.n :
       dist' = [i \in 1 .. edges.n |-> IF i = far THEN edges.n ELSE Junk]
  /\ entries' = <<>>
  /\ Begin("text")
  /\ UNCHANGED <<file, working, errors, parts, edges, csr>>

Slice(t) == ((edges.n * t) \div LoadThreads) + 1 .. (edges.n * (t + 1)) \div LoadThreads
Lowest == -MaxInt - 1      \* INT_MIN

Text(t) ==
  /\ Works(t, "text")
  /\ parts' = [parts EXCEPT ![t] =
                 [text |-> [k \in 1 .. Cardinality(Slice(t)) |-> dist[Min(Slice(t)) + k - 1]],
                  largest |-> Max({Lowest} \cup {dist[i] : i \in Slice(t)})]]
  /\ Ended(t)
  /\ UNCHANGED <<file, main, errors, edges, entries, csr, dist>>

\* The file may fail to open or to be written.
AfterText ==
  /\ Joined("text")
  /\ Begin("written") \/ Fail(0)
  /\ UNCHANGED <<file, working, errors, parts, edges, entries, csr, dist>>

Output ==
  [distances |-> FlattenSeq([t \in 1 .. LoadThreads |-> parts[t - 1].text]),
   largest |-> Max({parts[t].largest : t \in Thread})]

-----------------------------------------------------------------------------

Worker(t) ==
  \/ Parse(t) \/ Copy(t) \/ Count(t) \/ SortEdge(t) \/ SortEnd(t)
  \/ Degrees(t) \/ Lists(t) \/ Text(t)

MainThread ==
  \/ StartThread \/ RunOwn \/ Unwind
  \/ ReadHeader \/ AfterParse \/ AfterCopy \/ AfterCount \/ AfterSort
  \/ AfterDegrees \/ AfterLists \/ AfterText

\* The last call has returned or thrown.
Exited == main.job \in {"failed", "written"} /\ UNCHANGED vars

Next == MainThread \/ Exited \/ \E t \in Thread : Worker(t)

\* No thread of the program waits for anything but the end of another.
Spec ==
  /\ Init /\ [][Next]_vars
  /\ WF_vars(MainThread)
  /\ \A t \in Thread : WF_vars(Worker(t))

-----------------------------------------------------------------------------

FirstBad ==
  LET bad == {i \in DOMAIN file.lines : Bad(file.lines[i])} IN IF bad = {} THEN 0 ELSE Min(bad)

(***************************************************************************)
(* Wherever the boundaries of the parts fall, the edges that are read are  *)
(* those of the file in the order of its lines; and if there is a line     *)
(* that is no edge, the graph is not loaded and the line that is reported  *)
(* is the first one, whichever thread meets its own first.                 *)
(***************************************************************************)
ReadOnce ==
  /\ main.job \in {"count", "sort", "degrees", "lists", "text", "written"} =>
       edges.list = EdgesOf(DOMAIN file.lines)
  /\ main.line # 0 => main.job = "failed" /\ main.line = FirstBad
  /\ main.job = "copy" => FirstBad = 0

(***************************************************************************)
(* When owners count and fill lists without a lock, every entry is there,  *)
(* and those of a list are all in the region of the one owner that has it. *)
(***************************************************************************)
OwnersApart ==
  main.job \in {"degrees", "lists"} =>
    /\ \A o \in Thread, k \in DOMAIN entries.list :
         k \in Region(o) => /\ entries.list[k] # JunkPair
                            /\ entries.list[k][1] \in Owned(o)
    /\ \A k \in DOMAIN entries.list : \E o \in Thread : k \in Region(o)
    /\ \A u \in 0 .. edges.n - 1 : Cardinality({o \in Thread : u \in Owned(o)}) = 1

\* The list of u as a sequential build makes it.
SequentialList(u) ==
  FoldLeft(LAMBDA list, e : list \o (IF e[1] = u THEN <<e[2]>> ELSE <<>>)
                                 \o (IF e[2] = u THEN <<e[1]>> ELSE <<>>),
           <<>>, edges.list)

(***************************************************************************)
(* What is built by the threads together is what a sequential build makes: *)
(* each edge at both of its ends, in file order; and what is written is    *)
(* every distance once, in the order of the vertices, then the largest.    *)
(***************************************************************************)
SameAsSequential ==
  /\ main.job = "text" =>
       \A u \in 0 .. edges.n - 1 :
         SubSeq(csr.adj, csr.offsets[u] + 1, csr.offsets[u + 1]) = SequentialList(u)
  /\ main.job = "written" =>
       Output = [distances |-> dist, largest |-> Max(ToSet(dist))]

(***************************************************************************)
(* Loading ends, also when a thread cannot be started in the middle of a   *)
(* job or workers throw.                                                   *)
(***************************************************************************)
Ends == <>(main.job \in {"failed", "written"})

=============================================================================
