---------------------------- MODULE AtomicBucket ----------------------------
(***************************************************************************)
(* customList of WF_BFS/wf-atomic.cpp, the variant of the top-down search  *)
(* on std::atomic.  It has the fields and the readers of Bucket, and       *)
(* grows the array in the same way, but push_back() ends with              *)
(*                                                                         *)
(*     list[size++] = x                                                    *)
(*                                                                         *)
(* where size++ is an atomic increment the compiler and the processor      *)
(* perform before the plain store of the entry.  copy(), by which a helper *)
(* takes the entries, is a sequence of ReadEntry steps.                    *)
(***************************************************************************)
EXTENDS Bucket

AtomicPushBack(v) ==
  /\ pc = "call" /\ freed = <<>> /\ size < MaxPush
  /\ x' = v
  /\ IF IsFull
     THEN /\ capacity' = 2 * capacity
          /\ arrays' = Append(arrays, NewList)
          /\ prevPointers' = Replaced
          /\ pc' = "list"
     ELSE /\ pc' = "size"
          /\ UNCHANGED <<arrays, capacity, prevPointers>>
  /\ UNCHANGED <<list, size, readerVars, freed>>

\* list.store(new_list)
StoreList ==
  /\ pc = "list"
  /\ list' = Len(arrays)
  /\ pc' = "size"
  /\ UNCHANGED <<arrays, size, capacity, prevPointers, x, readerVars, freed>>

\* size++
IncrementSize ==
  /\ pc = "size"
  /\ size' = size + 1
  /\ pc' = "entry"
  /\ UNCHANGED <<arrays, list, capacity, prevPointers, x, readerVars, freed>>

\* list[...] = x, at the position size had before
StoreEntry ==
  /\ pc = "entry"
  /\ arrays' = [arrays EXCEPT ![list][size] = x]
  /\ pc' = "call"
  /\ UNCHANGED <<list, size, capacity, prevPointers, x, readerVars, freed>>

AtomicNext ==
  \/ \E v \in Value : AtomicPushBack(v)
  \/ StoreList \/ IncrementSize \/ StoreEntry
  \/ \E r \in Reader : ReadSize(r) \/ ReadList(r) \/ ReadEntry(r) \/ Leave(r)
  \/ Clear
  \/ Exited

AtomicSpec == Init /\ [][AtomicNext]_vars

(***************************************************************************)
(* What a reader gets has been written: "publish the array contents, then  *)
(* list, then size; otherwise a reader can index past what it is able to   *)
(* see" (wf-bfs.cpp:35).  Here a helper can copy an entry between the      *)
(* increment of size and the store, and take what the array held before    *)
(* for a vertex.                                                           *)
(***************************************************************************)
ReadsWritten == \A r \in Reader : got[r] # NoRead => got[r][2] # Junk

=============================================================================
