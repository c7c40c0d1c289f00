---------------------------- MODULE BucketProofs ----------------------------
(***************************************************************************)
(* Proofs about Bucket, for any number of readers and entries: BucketInv   *)
(* is inductive, and the bucket implements AppendLog.                      *)
(***************************************************************************)
EXTENDS Bucket, SequenceTheorems, TLAPS

Item == Value \cup {Junk}

\* A new array: twice the capacity, the entries so far in front.
LEMMA NewListCopies ==
  ASSUME BucketInv, pc = "call"
  PROVE  /\ NewList \in Seq(Item)
         /\ Len(NewList) = 2 * capacity
         /\ \A i \in 1 .. size : NewList[i] = arrays[list][i]
<1> USE DEF Item
<1>1. capacity \in Nat \ {0} /\ size \in Nat /\ size <= capacity /\ size <= Len(arrays[list])
  BY BucketAssumption DEF BucketInv, TypeOK, Room
<1>2. arrays[list] \in Seq(Item) BY DEF BucketInv, TypeOK
<1>3. \A i \in 1 .. 2 * capacity : i <= size => arrays[list][i] \in Item BY <1>1, <1>2
<1>4. NewList \in [1 .. 2 * capacity -> Item] BY <1>3 DEF NewList
<1>5. 2 * capacity \in Nat BY <1>1
<1>6. NewList \in Seq(Item) /\ Len(NewList) = 2 * capacity BY <1>4, <1>5, IsASeq, LenProperties
<1>7. \A i \in 1 .. size : i \in 1 .. 2 * capacity /\ i <= size BY <1>1
<1> QED BY <1>6, <1>7 DEF NewList

\* push_back() adds an array nobody knows of, or nothing.
LEMMA PushBackInv ==
  ASSUME BucketInv, NEW v \in Value, PushBack(v)
  PROVE  BucketInv'
<1> USE DEF Item
<1>1. TypeOK /\ Chain /\ Room /\ Written /\ Views /\ pc = "call" /\ freed = <<>>
     /\ size < MaxPush
  BY DEF BucketInv, PushBack
<1>2. CASE IsFull
 <2>1. /\ arrays' = Append(arrays, NewList) /\ capacity' = 2 * capacity
       /\ prevPointers' = Append(prevPointers, list) /\ pc' = "list" /\ x' = v
       /\ list' = list /\ size' = size /\ freed' = freed
       /\ rpc' = rpc /\ sz' = sz /\ bucket' = bucket /\ got' = got
   BY <1>2 DEF PushBack, Replaced, readerVars
 <2>2. /\ NewList \in Seq(Item) /\ Len(NewList) = 2 * capacity
       /\ \A i \in 1 .. size : NewList[i] = arrays[list][i]
   BY <1>1, NewListCopies
 <2>3. arrays \in Seq(Seq(Item)) /\ list = Len(arrays) /\ list \in DOMAIN arrays
   BY <1>1 DEF TypeOK, Chain, Last
 <2>4. /\ Len(arrays') = Len(arrays) + 1 /\ arrays' \in Seq(Seq(Item))
       /\ arrays'[Len(arrays) + 1] = NewList
       /\ \A a \in DOMAIN arrays : arrays'[a] = arrays[a] /\ a \in DOMAIN arrays'
   BY <2>1, <2>2, <2>3
 <2>5. prevPointers \in Seq(DOMAIN arrays) /\ Len(prevPointers) = Len(arrays) - 1
   BY <1>1 DEF TypeOK, Chain, Last
 <2>6. /\ Len(prevPointers') = Len(arrays)
       /\ \A i \in 1 .. Len(arrays) - 1 : prevPointers'[i] = i
       /\ prevPointers'[Len(arrays)] = Len(arrays)
   BY <1>1, <2>1, <2>3, <2>5 DEF Chain, Last
 <2>7. \A i \in 1 .. Len(prevPointers') : prevPointers'[i] \in DOMAIN arrays'
  <3>1. Len(arrays) \in Nat /\ DOMAIN arrays' = 1 .. Len(arrays) + 1 BY <2>3, <2>4
  <3>2. \A i \in 1 .. Len(arrays) : prevPointers'[i] = i BY <2>6, <3>1
  <3> QED BY <2>6, <3>1, <3>2
 <2>8. prevPointers' \in Seq(DOMAIN arrays')
  <3>1. prevPointers' \in Seq(DOMAIN arrays) BY <2>1, <2>3, <2>5
  <3> QED BY <3>1, <2>4
 <2>9. capacity \in Nat \ {0} /\ size \in 0 .. MaxPush /\ size = capacity
   BY <1>1, <1>2 DEF TypeOK, IsFull
 <2>10. capacity' \in Nat \ {0} /\ size < capacity' /\ size' \in 0 .. MaxPush
   BY <2>1, <2>9, BucketAssumption
 <2>11. TypeOK'
  <3>1. bucket' \in [Reader -> {0} \cup DOMAIN arrays'] BY <1>1, <2>1, <2>4 DEF TypeOK
  <3>2. freed' \in Seq(DOMAIN arrays') BY <1>1, <2>1
  <3>3. list' \in DOMAIN arrays' /\ size' <= capacity' BY <2>1, <2>3, <2>4, <2>9, <2>10
  <3> QED BY <1>1, <2>1, <2>4, <2>8, <2>10, <3>1, <3>2, <3>3 DEF TypeOK
 <2>12. Chain' BY <1>1, <2>1, <2>3, <2>4, <2>6 DEF Chain, Last
 <2>13. arrays'[list'] = arrays[list] /\ arrays'[Last'] = NewList BY <2>1, <2>3, <2>4 DEF Last
 <2>14. Room' BY <1>1, <2>1, <2>2, <2>10, <2>13 DEF Room
 <2>15. Written' BY <1>1, <2>1, <2>2, <2>13 DEF Written
 <2>16. Views' BY <1>1, <2>1, <2>4, <2>13 DEF Views
 <2> QED BY <2>11, <2>12, <2>14, <2>15, <2>16 DEF BucketInv
<1>3. CASE ~IsFull
 <2>1. /\ UNCHANGED <<arrays, capacity, prevPointers, list, size, freed>>
       /\ UNCHANGED <<rpc, sz, bucket, got>>
       /\ pc' = "entry" /\ x' = v
   BY <1>3 DEF PushBack, readerVars
 <2>2. size < capacity BY <1>1, <1>3, BucketAssumption DEF TypeOK, IsFull
 <2>3. TypeOK' BY <1>1, <2>1 DEF TypeOK
 <2>4. Chain' /\ Room' /\ Written' /\ Views'
   BY <1>1, <2>1, <2>2 DEF Chain, Room, Written, Views, Last
 <2> QED BY <2>3, <2>4 DEF BucketInv
<1> QED BY <1>2, <1>3

\* The array that replaces the current one holds the same entries.
LEMMA PublishListInv ==
  ASSUME BucketInv, PublishList
  PROVE  BucketInv' /\ \A i \in 1 .. size : arrays[list'][i] = arrays[list][i]
<1>1. TypeOK /\ Chain /\ Room /\ Written /\ Views /\ pc = "list" BY DEF BucketInv, PublishList
<1>2. /\ UNCHANGED <<arrays, capacity, prevPointers, size, x, freed>>
      /\ UNCHANGED <<rpc, sz, bucket, got>>
      /\ pc' = "entry" /\ list' = Len(arrays)
  BY DEF PublishList, readerVars
<1>3. arrays \in Seq(Seq(Value \cup {Junk})) /\ list \in DOMAIN arrays BY <1>1 DEF TypeOK
<1>4. list' \in DOMAIN arrays /\ arrays[Last] \in Seq(Value \cup {Junk}) BY <1>2, <1>3 DEF Last
<1>5. TypeOK' BY <1>1, <1>2, <1>4 DEF TypeOK
<1>6. Chain' BY <1>1, <1>2 DEF Chain, Last
<1>7. size <= capacity /\ size \in Nat /\ capacity \in Nat BY <1>1, BucketAssumption DEF TypeOK
<1>8. Room' BY <1>1, <1>2, <1>7 DEF Room, Last
<1>9. \A i \in 1 .. size : arrays[list'][i] = arrays[list][i] BY <1>1, <1>2 DEF Written, Last
<1>10. Written' BY <1>1, <1>2, <1>9 DEF Written, Last
<1>11. \A r \in Reader : \A i \in 1 .. sz[r] : i \in 1 .. size BY <1>1, <1>7 DEF Views, TypeOK
<1>12. Views' BY <1>1, <1>2, <1>9, <1>11 DEF Views
<1> QED BY <1>5, <1>6, <1>8, <1>9, <1>10, <1>12 DEF BucketInv

\* Only the position after the last entry is written, in the current array.
LEMMA WriteEntryInv ==
  ASSUME BucketInv, WriteEntry
  PROVE  BucketInv' /\ \A i \in 1 .. size : arrays'[list][i] = arrays[list][i]
<1> DEFINE written == [arrays[list] EXCEPT ![size + 1] = x]
<1>1. TypeOK /\ Chain /\ Room /\ Written /\ Views /\ pc = "entry" BY DEF BucketInv, WriteEntry
<1>2. /\ UNCHANGED <<list, size, capacity, prevPointers, x, freed>>
      /\ UNCHANGED <<rpc, sz, bucket, got>>
      /\ pc' = "size" /\ arrays' = [arrays EXCEPT ![list] = written]
  BY DEF WriteEntry, readerVars
<1>3. arrays \in Seq(Seq(Value \cup {Junk})) /\ list \in DOMAIN arrays BY <1>1 DEF TypeOK
<1>4. list = Len(arrays) /\ Last = list BY <1>1 DEF Chain, Last
<1>5. size \in Nat /\ capacity \in Nat /\ size < capacity /\ x \in Value
  BY <1>1, BucketAssumption DEF TypeOK, Room
<1>6. arrays[list] \in Seq(Value \cup {Junk}) /\ Len(arrays[list]) = capacity
  BY <1>1, <1>3, <1>4 DEF Room
<1>7. /\ written \in Seq(Value \cup {Junk}) /\ Len(written) = capacity
      /\ written[size + 1] = x
      /\ \A i \in 1 .. size : written[i] = arrays[list][i]
  BY <1>5, <1>6
<1> HIDE DEF written
<1>8. /\ arrays' \in Seq(Seq(Value \cup {Junk})) /\ Len(arrays') = Len(arrays)
      /\ DOMAIN arrays' = DOMAIN arrays
      /\ arrays'[list] = written
      /\ \A a \in DOMAIN arrays : a # list => arrays'[a] = arrays[a]
  BY <1>2, <1>3, <1>7
<1>9. TypeOK' BY <1>1, <1>2, <1>8 DEF TypeOK
<1>10. Chain' BY <1>1, <1>2, <1>8 DEF Chain, Last
<1>11. list' = list /\ Last' = list BY <1>2, <1>4, <1>8 DEF Last
<1>12. Room' BY <1>1, <1>2, <1>5, <1>7, <1>8, <1>11 DEF Room
<1>13. \A i \in 1 .. size : arrays'[list][i] = arrays[list][i] BY <1>7, <1>8
<1>14. Written' BY <1>1, <1>2, <1>5, <1>7, <1>8, <1>11, <1>13 DEF Written
<1>15. \A r \in Reader : \A i \in 1 .. sz[r] : i \in 1 .. size BY <1>1, <1>5 DEF Views, TypeOK
<1>16. Views'
 <2> SUFFICES ASSUME NEW r \in Reader
              PROVE  /\ sz'[r] <= size'
                     /\ rpc'[r] = "entry" =>
                          /\ bucket'[r] \in DOMAIN arrays'
                          /\ sz'[r] <= Len(arrays'[bucket'[r]])
                          /\ \A i \in 1 .. sz'[r] :
                               arrays'[bucket'[r]][i] = arrays'[list'][i]
   BY DEF Views
 <2>1. CASE bucket[r] = list BY <1>1, <1>2, <1>5, <1>6, <1>7, <1>8, <2>1 DEF Views, TypeOK
 <2>2. CASE bucket[r] # list BY <1>1, <1>2, <1>8, <1>13, <1>15, <2>2 DEF Views
 <2> QED BY <2>1, <2>2
<1> QED BY <1>9, <1>10, <1>12, <1>13, <1>14, <1>16 DEF BucketInv

\* The size covers an entry that is written.
LEMMA PublishSizeInv ==
  ASSUME BucketInv, PublishSize
  PROVE  BucketInv'
<1>1. TypeOK /\ Chain /\ Room /\ Written /\ Views /\ pc = "size" BY DEF BucketInv, PublishSize
<1>2. /\ UNCHANGED <<arrays, list, capacity, prevPointers, x, freed>>
      /\ UNCHANGED <<rpc, sz, bucket, got>>
      /\ pc' = "call" /\ size' = size + 1
  BY DEF PublishSize, readerVars
<1>3. list = Last /\ Len(arrays[list]) = capacity BY <1>1 DEF Chain, Room
<1>4. size \in Nat /\ capacity \in Nat /\ size < capacity /\ size' \in 0 .. MaxPush
  BY <1>1, <1>2, BucketAssumption DEF TypeOK, Room
<1>5. TypeOK' BY <1>1, <1>2, <1>4 DEF TypeOK
<1>6. Chain' BY <1>1, <1>2 DEF Chain, Last
<1>7. Room' BY <1>1, <1>2, <1>3, <1>4 DEF Room, Last
<1>8. Written' BY <1>1, <1>2, <1>3, <1>4 DEF Written, Last
<1>9. Views' BY <1>1, <1>2, <1>4 DEF Views, TypeOK
<1> QED BY <1>5, <1>6, <1>7, <1>8, <1>9 DEF BucketInv

\* Readers change nothing but what they know.
LEMMA ReaderInv ==
  ASSUME BucketInv, NEW r \in Reader,
         ReadSize(r) \/ ReadList(r) \/ ReadEntry(r) \/ Leave(r)
  PROVE  BucketInv'
<1>1. TypeOK /\ Chain /\ Room /\ Written /\ Views BY DEF BucketInv
<1>2. /\ UNCHANGED <<arrays, list, size, capacity, prevPointers, pc, x, freed>>
  BY DEF ReadSize, ReadList, ReadEntry, Leave, ownerVars
<1>3. Chain' /\ Room' /\ Written' BY <1>1, <1>2 DEF Chain, Room, Written, Last
<1>4. /\ arrays \in Seq(Seq(Value \cup {Junk})) /\ list \in DOMAIN arrays
      /\ size \in Nat /\ size <= Len(arrays[list])
      /\ rpc \in [Reader -> {"size", "list", "entry", "left"}]
      /\ sz \in [Reader -> Nat] /\ bucket \in [Reader -> {0} \cup DOMAIN arrays]
      /\ got \in [Reader -> Nat \X (Value \cup {Junk})]
  BY <1>1, BucketAssumption DEF TypeOK, Room
<1>5. CASE ReadSize(r)
 <2>1. TypeOK' BY <1>1, <1>2, <1>4, <1>5 DEF ReadSize, TypeOK
 <2>2. Views' BY <1>1, <1>2, <1>4, <1>5 DEF ReadSize, Views
 <2> QED BY <1>3, <2>1, <2>2 DEF BucketInv
<1>6. CASE ReadList(r)
 <2>1. TypeOK' BY <1>1, <1>2, <1>4, <1>6 DEF ReadList, TypeOK
 <2>2. Views' BY <1>1, <1>2, <1>4, <1>6 DEF ReadList, Views
 <2> QED BY <1>3, <2>1, <2>2 DEF BucketInv
<1>7. CASE ReadEntry(r)
 <2>1. PICK i \in 1 .. sz[r] : got' = [got EXCEPT ![r] = <<i, arrays[bucket[r]][i]>>]
   BY <1>7 DEF ReadEntry
 <2>2. /\ bucket[r] \in DOMAIN arrays /\ sz[r] <= Len(arrays[bucket[r]])
       /\ sz[r] \in Nat
   BY <1>1, <1>4, <1>7 DEF ReadEntry, Views
 <2>3. arrays[bucket[r]] \in Seq(Value \cup {Junk}) BY <1>4, <2>2
 <2>4. i \in 1 .. Len(arrays[bucket[r]]) BY <2>2, <2>3
 <2>5. arrays[bucket[r]][i] \in Value \cup {Junk} /\ i \in Nat BY <2>3, <2>4
 <2>6. TypeOK' BY <1>1, <1>2, <1>4, <1>7, <2>1, <2>5 DEF ReadEntry, TypeOK
 <2>7. Views' BY <1>1, <1>2, <1>7 DEF ReadEntry, Views
 <2> QED BY <1>3, <2>6, <2>7 DEF BucketInv
<1>8. CASE Leave(r)
 <2>1. TypeOK' BY <1>1, <1>2, <1>4, <1>8 DEF Leave, TypeOK
 <2>2. Views' BY <1>1, <1>2, <1>4, <1>8 DEF Leave, Views
 <2> QED BY <1>3, <2>1, <2>2 DEF BucketInv
<1> QED BY <1>5, <1>6, <1>7, <1>8

\* clean_up() deletes the current array and the replaced ones.
LEMMA ClearInv ==
  ASSUME BucketInv, Clear
  PROVE  BucketInv'
<1>1. TypeOK /\ Chain /\ Room /\ Written /\ Views BY DEF BucketInv
<1>2. /\ UNCHANGED <<arrays, list, size, capacity, prevPointers, pc, x>>
      /\ UNCHANGED <<rpc, sz, bucket, got>>
      /\ pc = "call" /\ freed' = <<list>> \o prevPointers
  BY DEF Clear, ownerVars, readerVars
<1>3. list \in DOMAIN arrays /\ prevPointers \in Seq(DOMAIN arrays) BY <1>1 DEF TypeOK
<1>4. <<list>> \in Seq(DOMAIN arrays) BY <1>3
<1>5. freed' \in Seq(DOMAIN arrays) BY <1>2, <1>3, <1>4, ConcatProperties
<1>6. TypeOK' BY <1>1, <1>2, <1>5 DEF TypeOK
<1>7. Chain' /\ Room' /\ Written' /\ Views' BY <1>1, <1>2 DEF Chain, Room, Written, Views, Last
<1> QED BY <1>6, <1>7 DEF BucketInv

\* A new bucket has one array with one position.
LEMMA InitInv ==
  ASSUME Init
  PROVE  BucketInv
<1>1. /\ arrays = << <<Junk>> >> /\ list = 1 /\ size = 0 /\ capacity = 1
      /\ prevPointers = <<>> /\ freed = <<>> /\ pc = "call" /\ x = Junk
      /\ rpc = [r \in Reader |-> "size"] /\ sz = [r \in Reader |-> 0]
      /\ bucket = [r \in Reader |-> 0] /\ got = [r \in Reader |-> <<0, Junk>>]
  BY DEF Init, NoRead
<1>2. <<Junk>> \in Seq(Value \cup {Junk}) /\ Len(<<Junk>>) = 1 OBVIOUS
<1>3. /\ arrays \in Seq(Seq(Value \cup {Junk})) /\ Len(arrays) = 1
      /\ DOMAIN arrays = {1} /\ arrays[1] = <<Junk>>
  BY <1>1, <1>2
<1>4. prevPointers \in Seq(DOMAIN arrays) /\ freed \in Seq(DOMAIN arrays) BY <1>1
<1>5. TypeOK BY <1>1, <1>3, <1>4, BucketAssumption DEF TypeOK
<1>6. Chain BY <1>1, <1>3 DEF Chain, Last
<1>7. Room /\ Written /\ Views BY <1>1, <1>2, <1>3 DEF Room, Written, Views, Last
<1> QED BY <1>5, <1>6, <1>7 DEF BucketInv

LEMMA StepInv ==
  ASSUME BucketInv, [Next]_vars
  PROVE  BucketInv'
<1>1. CASE UNCHANGED vars
 <2>1. /\ UNCHANGED <<arrays, list, size, capacity, prevPointers, pc, x, freed>>
       /\ UNCHANGED <<rpc, sz, bucket, got>>
   BY <1>1 DEF vars, ownerVars, readerVars
 <2>2. TypeOK' BY <2>1 DEF BucketInv, TypeOK
 <2>3. Chain' /\ Room' /\ Written' /\ Views'
   BY <2>1 DEF BucketInv, Chain, Room, Written, Views, Last
 <2> QED BY <2>2, <2>3 DEF BucketInv
<1>2. ASSUME NEW v \in Value, PushBack(v) PROVE BucketInv' BY <1>2, PushBackInv
<1>3. CASE PublishList BY <1>3, PublishListInv
<1>4. CASE WriteEntry BY <1>4, WriteEntryInv
<1>5. CASE PublishSize BY <1>5, PublishSizeInv
<1>6. ASSUME NEW r \in Reader, ReadSize(r) \/ ReadList(r) \/ ReadEntry(r) \/ Leave(r)
      PROVE  BucketInv'
  BY <1>6, ReaderInv
<1>7. CASE Clear BY <1>7, ClearInv
<1>8. CASE Exited BY <1>1, <1>8 DEF Exited
<1> QED BY <1>1, <1>2, <1>3, <1>4, <1>5, <1>6, <1>7, <1>8 DEF Next

(***************************************************************************)
(* The inductive invariant holds in every state: whatever the owner and    *)
(* the readers of a bucket do, in whatever order.                          *)
(***************************************************************************)
THEOREM BucketInvCorrect == Spec => []BucketInv
<1>1. Init => BucketInv BY InitInv
<1>2. BucketInv /\ [Next]_vars => BucketInv' BY StepInv
<1> QED BY <1>1, <1>2, PTL DEF Spec

\* What the invariant gives for the properties of Bucket.
LEMMA InvGivesArrays ==
  ASSUME BucketInv
  PROVE  ArraysAgree
<1>1. TypeOK /\ Written /\ Views BY DEF BucketInv
<1>2. size \in Nat /\ \A r \in Reader : sz[r] \in Nat /\ sz[r] <= size
  BY <1>1, BucketAssumption DEF TypeOK, Views
<1>3. \A r \in Reader : \A i \in 1 .. sz[r] : i \in 1 .. size BY <1>2
<1> QED BY <1>1, <1>3 DEF ArraysAgree, Written, Views

LEMMA InvGivesFreed ==
  ASSUME BucketInv
  PROVE  AllFreed
<1> SUFFICES ASSUME freed # <<>>, NEW a \in DOMAIN arrays
             PROVE  \E i \in DOMAIN freed : \A k \in DOMAIN freed : freed[k] = a <=> k = i
  BY DEF AllFreed
<1>1. TypeOK /\ Chain BY DEF BucketInv
<1>2. /\ freed = <<list>> \o prevPointers
      /\ list = Len(arrays) /\ Len(prevPointers) = Len(arrays) - 1
      /\ \A i \in 1 .. Len(arrays) - 1 : prevPointers[i] = i
  BY <1>1 DEF Chain, Last
<1>3. /\ prevPointers \in Seq(DOMAIN arrays) /\ <<list>> \in Seq(DOMAIN arrays)
      /\ arrays \in Seq(Seq(Value \cup {Junk}))
  BY <1>1 DEF TypeOK
<1>4. DOMAIN arrays = 1 .. Len(arrays) /\ Len(arrays) \in Nat BY <1>3
<1>5. Len(freed) = Len(arrays) /\ freed \in Seq(DOMAIN arrays) BY <1>2, <1>3, <1>4, ConcatProperties
<1>6. DOMAIN freed = 1 .. Len(arrays) BY <1>4, <1>5
<1>7. freed[1] = list BY <1>2, <1>3, ConcatProperties
<1>8. \A k \in 2 .. Len(arrays) : freed[k] = k - 1
 <2> SUFFICES ASSUME NEW k \in 2 .. Len(arrays) PROVE freed[k] = k - 1 OBVIOUS
 <2>1. k - 1 \in 1 .. Len(arrays) - 1 /\ k \in 1 .. Len(arrays) BY <1>4
 <2>2. Len(<<list>>) = 1 /\ k \in 1 .. Len(<<list>>) + Len(prevPointers) /\ k > Len(<<list>>)
   BY <1>2, <1>4, <2>1
 <2>3. freed[k] = prevPointers[k - Len(<<list>>)] BY <1>2, <1>3, <2>2, ConcatProperties
 <2> QED BY <1>2, <2>1, <2>2, <2>3
<1>9. CASE a = Len(arrays)
 <2>1. 1 \in DOMAIN freed BY <1>4, <1>6
 <2>2. \A k \in DOMAIN freed : freed[k] = a <=> k = 1 BY <1>2, <1>4, <1>6, <1>7, <1>8, <1>9
 <2> QED BY <2>1, <2>2
<1>10. CASE a # Len(arrays)
 <2>1. a + 1 \in DOMAIN freed BY <1>4, <1>6, <1>10
 <2>2. \A k \in DOMAIN freed : freed[k] = a <=> k = a + 1 BY <1>2, <1>4, <1>6, <1>7, <1>8, <1>10
 <2> QED BY <2>1, <2>2
<1> QED BY <1>9, <1>10

(***************************************************************************)
(* The type invariant of the bucket.                                       *)
(***************************************************************************)
THEOREM BucketTyped == Spec => []TypeOK
<1>1. BucketInv => TypeOK BY DEF BucketInv
<1> QED BY <1>1, BucketInvCorrect, PTL

(***************************************************************************)
(* A reader that uses an array the owner has replaced finds the same       *)
(* entries there as in the current one, and all of them are written.       *)
(***************************************************************************)
THEOREM ArraysCorrect == Spec => []ArraysAgree
<1>1. BucketInv => ArraysAgree BY InvGivesArrays
<1> QED BY <1>1, BucketInvCorrect, PTL

(***************************************************************************)
(* Every array is deleted once.                                            *)
(***************************************************************************)
THEOREM FreedCorrect == Spec => []AllFreed
<1>1. BucketInv => AllFreed BY InvGivesFreed
<1> QED BY <1>1, BucketInvCorrect, PTL

-----------------------------------------------------------------------------
(***************************************************************************)
(* The refinement: every step appends, looks or reads, or the log, the     *)
(* lengths seen and the results stay as they are.                          *)
(***************************************************************************)

LEMMA RefineInit ==
  ASSUME Init
  PROVE  Log!Init
<1>1. size = 0 /\ sz = [r \in Reader |-> 0] /\ got = [r \in Reader |-> <<0, Junk>>]
  BY DEF Init, NoRead
<1>2. Entries = <<>> BY <1>1 DEF Entries
<1> QED BY <1>1, <1>2 DEF Log!Init

LEMMA EntriesSeq ==
  ASSUME BucketInv
  PROVE  Entries \in Seq(Value) /\ Len(Entries) = size
<1>1. size \in Nat /\ \A i \in 1 .. size : arrays[list][i] \in Value
 <2>1. size \in 0 .. MaxPush BY DEF BucketInv, TypeOK
 <2>2. \A i \in 1 .. size : arrays[list][i] \in Value BY DEF BucketInv, Written
 <2> QED BY <2>1, <2>2, BucketAssumption
<1>2. Entries \in [1 .. size -> Value] BY <1>1 DEF Entries
<1> QED BY <1>1, <1>2, IsASeq, LenProperties

LEMMA RefineStep ==
  ASSUME BucketInv, BucketInv', [Next]_vars
  PROVE  [Log!Next]_(Log!vars)
<1>1. CASE UNCHANGED <<arrays, list, size, sz, got>> BY <1>1 DEF Entries, Log!vars
<1>2. ASSUME NEW v \in Value, PushBack(v) PROVE UNCHANGED <<Entries, sz, got>>
 <2>1. TypeOK /\ size' = size /\ list' = list /\ UNCHANGED <<sz, got>>
   BY <1>2 DEF BucketInv, PushBack, readerVars
 <2>2. arrays'[list] = arrays[list]
  <3>1. arrays \in Seq(Seq(Value \cup {Junk})) /\ list \in DOMAIN arrays BY <2>1 DEF TypeOK
  <3>2. CASE IsFull
   <4>1. arrays' = Append(arrays, NewList) BY <1>2, <3>2 DEF PushBack
   <4>2. pc = "call" BY <1>2 DEF PushBack
   <4>3. NewList \in Seq(Item) BY <4>2, NewListCopies
   <4> QED BY <3>1, <4>1, <4>3 DEF Item
  <3>3. CASE ~IsFull BY <1>2, <3>3 DEF PushBack
  <3> QED BY <3>2, <3>3
 <2> QED BY <2>1, <2>2 DEF Entries
<1>3. ASSUME PublishList PROVE UNCHANGED <<Entries, sz, got>>
 <2>1. \A i \in 1 .. size : arrays[list'][i] = arrays[list][i] BY <1>3, PublishListInv
 <2>2. UNCHANGED <<arrays, size, sz, got>> BY <1>3 DEF PublishList, readerVars
 <2> QED BY <2>1, <2>2 DEF Entries
<1>4. ASSUME WriteEntry PROVE UNCHANGED <<Entries, sz, got>>
 <2>1. \A i \in 1 .. size : arrays'[list][i] = arrays[list][i] BY <1>4, WriteEntryInv
 <2>2. UNCHANGED <<list, size, sz, got>> BY <1>4 DEF WriteEntry, readerVars
 <2> QED BY <2>1, <2>2 DEF Entries
<1>5. ASSUME PublishSize PROVE Log!Next
 <2>1. UNCHANGED <<arrays, list, sz, got>> /\ size' = size + 1 /\ pc = "size"
   BY <1>5 DEF PublishSize, readerVars
 <2>2. arrays[list][size + 1] \in Value BY <2>1 DEF BucketInv, Written
 <2>3. /\ Entries \in Seq(Value) /\ Len(Entries) = size
       /\ Entries' \in Seq(Value) /\ Len(Entries') = size + 1 /\ size \in Nat
  <3>1. Entries' \in Seq(Value) /\ Len(Entries') = size'
   <4>1. size' \in Nat /\ \A i \in 1 .. size' : arrays'[list'][i] \in Value
    <5>1. size' \in 0 .. MaxPush BY DEF BucketInv, TypeOK
    <5>2. \A i \in 1 .. size' : arrays'[list'][i] \in Value BY DEF BucketInv, Written
    <5> QED BY <5>1, <5>2, BucketAssumption
   <4>2. Entries' \in [1 .. size' -> Value] BY <4>1 DEF Entries
   <4> QED BY <4>1, <4>2, IsASeq, LenProperties
  <3> QED BY <2>1, <3>1, EntriesSeq, BucketAssumption DEF BucketInv, TypeOK
 <2>4. \A i \in 1 .. size + 1 : Entries'[i] = Append(Entries, arrays[list][size + 1])[i]
  <3> SUFFICES ASSUME NEW i \in 1 .. size + 1
               PROVE  Entries'[i] = Append(Entries, arrays[list][size + 1])[i]
    OBVIOUS
  <3>1. Entries'[i] = arrays[list][i] BY <2>1 DEF Entries
  <3>2. CASE i = size + 1 BY <2>2, <2>3, <3>1, <3>2
  <3>3. CASE i # size + 1
   <4>1. i \in 1 .. size BY <2>3, <3>3
   <4>2. Entries[i] = arrays[list][i] BY <4>1 DEF Entries
   <4> QED BY <2>2, <2>3, <3>1, <4>1, <4>2
  <3> QED BY <3>2, <3>3
 <2>5. Entries' = Append(Entries, arrays[list][size + 1])
  <3>1. /\ Append(Entries, arrays[list][size + 1]) \in Seq(Value)
        /\ Len(Append(Entries, arrays[list][size + 1])) = size + 1
    BY <2>2, <2>3
  <3> QED BY <2>3, <2>4, <3>1, SeqEqual
 <2>6. Log!AppendEntry(arrays[list][size + 1]) BY <2>1, <2>5 DEF Log!AppendEntry
 <2> QED BY <2>2, <2>6 DEF Log!Next
<1>6. ASSUME NEW r \in Reader, ReadSize(r) PROVE Log!Next
 <2>1. UNCHANGED <<arrays, list, size, got>> /\ sz' = [sz EXCEPT ![r] = size]
   BY <1>6 DEF ReadSize, ownerVars
 <2>2. Entries' = Entries BY <2>1 DEF Entries
 <2>3. Log!Look(r) BY <2>1, <2>2, EntriesSeq DEF Log!Look
 <2> QED BY <2>3 DEF Log!Next
<1>7. ASSUME NEW r \in Reader, ReadEntry(r) PROVE Log!Next
 <2>1. UNCHANGED <<arrays, list, size, sz>> /\ rpc[r] = "entry" BY <1>7 DEF ReadEntry, ownerVars
 <2>2. PICK i \in 1 .. sz[r] : got' = [got EXCEPT ![r] = <<i, arrays[bucket[r]][i]>>]
   BY <1>7 DEF ReadEntry
 <2>3. arrays[bucket[r]][i] = arrays[list][i] /\ sz[r] <= size BY <2>1, <2>2 DEF BucketInv, Views
 <2>4. i \in 1 .. size BY <2>2, <2>3, BucketAssumption DEF BucketInv, TypeOK
 <2>5. Entries[i] = arrays[list][i] BY <2>4 DEF Entries
 <2>6. Entries' = Entries BY <2>1 DEF Entries
 <2>7. Log!Read(r) BY <2>1, <2>2, <2>3, <2>5, <2>6 DEF Log!Read
 <2> QED BY <2>7 DEF Log!Next
<1>8. ASSUME NEW r \in Reader, ReadList(r) \/ Leave(r)
      PROVE  UNCHANGED <<arrays, list, size, sz, got>>
  BY <1>8 DEF ReadList, Leave, ownerVars
<1>9. ASSUME Clear \/ Exited \/ UNCHANGED vars PROVE UNCHANGED <<arrays, list, size, sz, got>>
  BY <1>9 DEF Clear, Exited, vars, ownerVars, readerVars
<1> QED BY <1>1, <1>2, <1>3, <1>4, <1>5, <1>6, <1>7, <1>8, <1>9 DEF Next, Log!vars

(***************************************************************************)
(* The bucket implements AppendLog: to its readers it is a list that only  *)
(* grows, though a push is four accesses and may move the entries.         *)
(***************************************************************************)
THEOREM LogImplemented == Spec => ImplementsLog
<1>1. Init => Log!Init BY RefineInit
<1>2. BucketInv /\ BucketInv' /\ [Next]_vars => [Log!Next]_(Log!vars) BY RefineStep
<1> QED BY <1>1, <1>2, BucketInvCorrect, PTL DEF Spec, ImplementsLog, Log!Spec

=============================================================================
