------------------------------- MODULE Bucket -------------------------------
(***************************************************************************)
(* customList of WF_BFS/wf-bfs.cpp: the bucket of one thread in one level. *)
(* Its owner alone appends; other threads read the size, then the pointer  *)
(* to the array, then entries below the size, while the owner goes on and  *)
(* may replace the array by one twice as large.                            *)
(*                                                                         *)
(* One action is one access to memory the threads share; what the owner    *)
(* does in between (allocating and filling an array nobody else knows of,  *)
(* capacity, prevPointers) is part of the action before.  The accesses of  *)
(* a thread take effect in program order: the code has compiler barriers   *)
(* for this, and x86 keeps stores and loads in order.  Positions count     *)
(* from 1.                                                                 *)
(***************************************************************************)
EXTENDS Integers, Sequences

CONSTANTS
  Value,      \* what is appended: vertices
  Reader,     \* the threads that read the bucket
  Junk,       \* what an int of a new array holds before it is written
  MaxPush     \* bound: how many entries are appended

ASSUME BucketAssumption == Junk \notin Value /\ MaxPush \in Nat

VARIABLES
  arrays,         \* the arrays allocated so far, in order
  list,           \* the current one
  size,
  capacity,
  prevPointers,   \* the arrays that have been replaced
  freed,          \* the arrays that have been deleted, once per delete
  \* local to the owner
  pc,             \* the access it performs next
  x,              \* the argument of push_back
  \* local to the readers
  rpc, sz, bucket,
  got             \* position and result of the last read

ownerVars == <<arrays, list, size, capacity, prevPointers, pc, x>>
readerVars == <<rpc, sz, bucket, got>>
vars == <<ownerVars, readerVars, freed>>

NoRead == <<0, Junk>>

Init ==
  /\ arrays = << <<Junk>> >>
  /\ list = 1
  /\ size = 0
  /\ capacity = 1
  /\ prevPointers = <<>>
  /\ freed = <<>>
  /\ pc = "call"
  /\ x = Junk
  /\ rpc = [r \in Reader |-> "size"]
  /\ sz = [r \in Reader |-> 0]
  /\ bucket = [r \in Reader |-> 0]
  /\ got = [r \in Reader |-> NoRead]

-----------------------------------------------------------------------------
(***************************************************************************)
(* The owner: push_back().                                                 *)
(***************************************************************************)

IsFull == size = capacity

\* the copy misses the last entry
SlipNewList ==
  [i \in 1 .. 2 * capacity |-> IF i < size THEN arrays[list][i] ELSE Junk]
NewList ==
  [i \in 1 .. 2 * capacity |-> IF i <= size THEN arrays[list][i] ELSE Junk]

\* only the last of the replaced arrays is remembered
SlipReplaced == <<list>>
Replaced == Append(prevPointers, list)

(***************************************************************************)
(* push_back(v) starts.  A full array is copied to one twice its size,     *)
(* which nobody else knows of yet; the replaced one is kept, since readers *)
(* may still use it.                                                       *)
(***************************************************************************)
PushBack(v) ==
  /\ pc = "call" /\ freed = <<>> /\ size < MaxPush
  /\ x' = v
  /\ IF IsFull
     THEN /\ capacity' = 2 * capacity
          /\ arrays' = Append(arrays, NewList)
          /\ prevPointers' = Replaced
          /\ pc' = "list"
     ELSE /\ pc' = "entry"
          /\ UNCHANGED <<arrays, capacity, prevPointers>>
  /\ UNCHANGED <<list, size, readerVars, freed>>

\* list = new_list
PublishList ==
  /\ pc = "list"
  /\ list' = Len(arrays)
  /\ pc' = "entry"
  /\ UNCHANGED <<arrays, size, capacity, prevPointers, x, readerVars, freed>>

\* list[size] = x
WriteEntry ==
  /\ pc = "entry"
  /\ arrays' = [arrays EXCEPT ![list][size + 1] = x]
  /\ pc' = "size"
  /\ UNCHANGED <<list, size, capacity, prevPointers, x, readerVars, freed>>

\* size++
PublishSize ==
  /\ pc = "size"
  /\ size' = size + 1
  /\ pc' = "call"
  /\ UNCHANGED <<arrays, list, capacity, prevPointers, x, readerVars, freed>>

-----------------------------------------------------------------------------
(***************************************************************************)
(* A reader: wf_bfs() reads the size, then process_own_bucket() or         *)
(* process_other_bucket() reads the pointer and takes entries below the    *)
(* size, in any order.  It may also never look, or stop at any point.      *)
(***************************************************************************)

ReadSize(r) ==
  /\ rpc[r] = "size"
  /\ sz' = [sz EXCEPT ![r] = size]
  /\ rpc' = [rpc EXCEPT ![r] = IF size = 0 THEN "left" ELSE "list"]
  /\ UNCHANGED <<ownerVars, bucket, got, freed>>

ReadList(r) ==
  /\ rpc[r] = "list"
  /\ bucket' = [bucket EXCEPT ![r] = list]
  /\ rpc' = [rpc EXCEPT ![r] = "entry"]
  /\ UNCHANGED <<ownerVars, sz, got, freed>>

ReadEntry(r) ==
  /\ rpc[r] = "entry"
  /\ \E i \in 1 .. sz[r] : got' = [got EXCEPT ![r] = <<i, arrays[bucket[r]][i]>>]
  /\ UNCHANGED <<ownerVars, rpc, sz, bucket, freed>>

Leave(r) ==
  /\ rpc[r] \in {"size", "entry"}
  /\ rpc' = [rpc EXCEPT ![r] = "left"]
  /\ UNCHANGED <<ownerVars, sz, bucket, got, freed>>

-----------------------------------------------------------------------------
(***************************************************************************)
(* clean_up(), when all threads have been joined: the current array is     *)
(* deleted, then the replaced ones.                                        *)
(***************************************************************************)
Clear ==
  /\ pc = "call" /\ freed = <<>>
  /\ \A r \in Reader : rpc[r] = "left"
  /\ freed' = <<list>> \o prevPointers
  /\ UNCHANGED <<ownerVars, readerVars>>

Exited == freed # <<>> /\ UNCHANGED vars

Next ==
  \/ \E v \in Value : PushBack(v)
  \/ PublishList \/ WriteEntry \/ PublishSize
  \/ \E r \in Reader : ReadSize(r) \/ ReadList(r) \/ ReadEntry(r) \/ Leave(r)
  \/ Clear
  \/ Exited

Spec == Init /\ [][Next]_vars

-----------------------------------------------------------------------------

TypeOK ==
  /\ arrays \in Seq(Seq(Value \cup {Junk}))
  /\ list \in DOMAIN arrays
  /\ size \in 0 .. MaxPush /\ size <= capacity
  /\ capacity \in Nat \ {0}
  /\ prevPointers \in Seq(DOMAIN arrays)
  /\ freed \in Seq(DOMAIN arrays)
  /\ pc \in {"call", "list", "entry", "size"}
  /\ x \in Value \cup {Junk}
  /\ rpc \in [Reader -> {"size", "list", "entry", "left"}]
  /\ sz \in [Reader -> Nat]
  /\ bucket \in [Reader -> {0} \cup DOMAIN arrays]
  /\ got \in [Reader -> Nat \X (Value \cup {Junk})]

(***************************************************************************)
(* What a reader is allowed to read is in its array: an array that was     *)
(* replaced while it reads is as good as the one that replaced it.         *)
(***************************************************************************)
ArraysAgree ==
  \A r \in Reader : rpc[r] = "entry" =>
    \A i \in 1 .. sz[r] :
      arrays[bucket[r]][i] = arrays[list][i] /\ arrays[list][i] \in Value

(***************************************************************************)
(* clean_up() deletes every array of the bucket, each one once.  (That is  *)
(* so for the buckets of the nodes in the list; a node that loses its link *)
(* is deleted at wf-bfs.cpp:368 without a call of clear().)                *)
(***************************************************************************)
AllFreed ==
  freed # <<>> =>
    \A a \in DOMAIN arrays :
      \E i \in DOMAIN freed : \A k \in DOMAIN freed : freed[k] = a <=> k = i

(***************************************************************************)
(* The bucket implements AppendLog: its entries are the size first ones of *)
(* the current array, and growing does not change them.                    *)
(***************************************************************************)
Entries == [i \in 1 .. size |-> arrays[list][i]]

Log == INSTANCE AppendLog WITH log <- Entries, bound <- sz

ImplementsLog == Log!Spec

-----------------------------------------------------------------------------
(***************************************************************************)
(* The inductive invariant the proofs in BucketProofs use.                 *)
(***************************************************************************)

Last == Len(arrays)

\* The current array is the last one, except while a new one is not yet
\* published; then it is the last but one.  The others have been replaced.
Chain ==
  /\ list = IF pc = "list" THEN Last - 1 ELSE Last
  /\ Len(prevPointers) = Last - 1
  /\ \A i \in 1 .. Last - 1 : prevPointers[i] = i
  /\ freed # <<>> => pc = "call" /\ freed = <<list>> \o prevPointers

\* There is room for the entry that is being appended.
Room ==
  /\ Len(arrays[Last]) = capacity
  /\ size <= Len(arrays[list])
  /\ pc # "call" => size < capacity /\ size < MaxPush /\ x \in Value

\* Entries below the size are written, in the current array and in the one
\* about to replace it, and the next one is before the size covers it.
Written ==
  /\ \A i \in 1 .. size :
       arrays[list][i] \in Value /\ arrays[Last][i] = arrays[list][i]
  /\ pc = "size" => arrays[list][size + 1] \in Value

\* What a reader may read is in the array it has found.
Views ==
  \A r \in Reader :
    /\ sz[r] <= size
    /\ rpc[r] = "entry" =>
         /\ bucket[r] \in DOMAIN arrays
         /\ sz[r] <= Len(arrays[bucket[r]])
         /\ \A i \in 1 .. sz[r] : arrays[bucket[r]][i] = arrays[list][i]

BucketInv == TypeOK /\ Chain /\ Room /\ Written /\ Views

=============================================================================
