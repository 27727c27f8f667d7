-------------------------- MODULE BlockCacheProofs --------------------------
(***************************************************************************)
(* Proofs about BlockCache: its type invariant, the agreement of the read  *)
(* counts with the storage, the capacity bound, the contents of the stored *)
(* blocks, and that reads through the cache are those of DocumentReads,    *)
(* for any documents, block size, capacity and number of tasks.            *)
(***************************************************************************)
EXTENDS BlockCache, FiniteSetTheorems, SequenceLemmas, TLAPS

\* The inductive invariant.  The capacity bound needs CountsMatchStorage: only
\* because of it does discarding find a block whenever the storage has one.
IInv == TypeOK /\ CountsMatchStorage /\ CapacityBound /\ StoredBlocksGenuine

-----------------------------------------------------------------------------
(* The loop of read_range *)

\* The block numbers of a range are natural numbers.
LEMMA BlockNumbers ==
  ASSUME NEW r \in Ranges
  PROVE  /\ FirstBlock(r) \in Nat /\ LastBlock(r) \in Nat
         /\ FirstBlock(r) <= LastBlock(r)
<1>1. r[1] \in Nat /\ r[2] \in Nat
  BY RangesAssumption
<1>2. QED
  BY <1>1, BlockSizeAssumption, Z3 DEF FirstBlock, LastBlock

\* The next block to fetch is in the rest of the range or just after it, and
\* every block before it is a hit.
LEMMA NextMissInRange ==
  ASSUME NEW r \in Ranges, NEW d, NEW stored,
         NEW from \in Nat, from <= LastBlock(r) + 1
  PROVE  LET m == NextMiss(stored, d, r, from)
         IN  /\ m \in from..(LastBlock(r) + 1)
             /\ \A b \in from..(m - 1) : Hit(stored, d, b)
<1> DEFINE T == {m \in from..(LastBlock(r) + 1) :
                   m = LastBlock(r) + 1 \/ ~Hit(stored, d, m)}
<1>1. LastBlock(r) \in Nat
  BY BlockNumbers
<1>2. LastBlock(r) + 1 \in T /\ T \subseteq Nat
  BY <1>1
<1>3. PICK m \in T : \A y \in T : m <= y
  BY <1>2, NatMin, Zenon
<1>4. \A b \in from..(m - 1) : Hit(stored, d, b)
  <2> SUFFICES ASSUME NEW b \in from..(m - 1) PROVE Hit(stored, d, b)
    OBVIOUS
  <2>1. m \in Nat /\ m <= LastBlock(r) + 1
    BY <1>1, <1>3
  <2>2. b \in from..(LastBlock(r) + 1) /\ b < m
    BY <1>1, <2>1
  <2>3. b \notin T
    BY <1>1, <1>3, <2>1, <2>2
  <2>4. QED
    BY <2>2, <2>3
<1>5. \E n \in from..(LastBlock(r) + 1) :
        /\ n = LastBlock(r) + 1 \/ ~Hit(stored, d, n)
        /\ \A b \in from..(n - 1) : Hit(stored, d, b)
  BY <1>3, <1>4
<1>6. QED
  BY <1>5 DEF NextMiss

\* The loop stores nothing itself, and counts only blocks that are stored.
LEMMA ProceedEffect ==
  ASSUME NEW t \in Tasks, NEW d, NEW r \in Ranges,
         NEW from \in Nat, from <= LastBlock(r) + 1,
         NEW got, NEW stored, NEW count,
         \A k \in DOMAIN count : count[k] \in Nat \ {0},
         Proceed(t, d, r, from, got, stored, count)
  PROVE  /\ blocks' = stored
         /\ \E hits \in SUBSET {k \in DOMAIN stored : k[1] = d} :
              DOMAIN readCount' = DOMAIN count \cup hits
         /\ \A k \in DOMAIN readCount' : readCount'[k] \in Nat \ {0}
<1> DEFINE m == NextMiss(stored, d, r, from)
           hits == {<<d, b>> : b \in from..(m - 1)}
<1>1. \A b \in from..(m - 1) : Hit(stored, d, b)
  BY NextMissInRange
<1>2. hits \in SUBSET {k \in DOMAIN stored : k[1] = d}
  BY <1>1 DEF Hit
<1>3. /\ blocks' = stored
      /\ readCount' = [k \in DOMAIN count \cup hits |->
                         (IF k \in DOMAIN count THEN count[k] ELSE 0)
                         + (IF k \in hits THEN 1 ELSE 0)]
  BY Zenon DEF Proceed
<1> HIDE DEF hits
<1>4. DOMAIN readCount' = DOMAIN count \cup hits
  BY <1>3
<1>5. \A k \in DOMAIN readCount' : readCount'[k] \in Nat \ {0}
  BY <1>3
<1>6. QED
  BY <1>2, <1>3, <1>4, <1>5

\* Where the loop leaves the task and the clocks.
LEMMA ProceedTask ==
  ASSUME NEW t \in Tasks, NEW d, NEW r \in Ranges,
         NEW from \in Nat, FirstBlock(r) <= from, from <= LastBlock(r) + 1,
         NEW got, NEW stored, NEW count,
         lastRead \in [Docs -> Nat], clock \in Nat,
         Proceed(t, d, r, from, got, stored, count)
  PROVE  /\ lastRead' \in [Docs -> Nat] /\ clock' \in Nat
         /\ \/ \E n \in FirstBlock(r)..LastBlock(r) : \E all :
                 task' = [task EXCEPT ![t] = Fetching(d, r, n, all)]
            \/ \E data : task' = [task EXCEPT ![t] = Source!Answered(d, r, data)]
<1> DEFINE m == NextMiss(stored, d, r, from)
<1>1. m \in from..(LastBlock(r) + 1)
  BY NextMissInRange
<1>2. FirstBlock(r) \in Nat /\ LastBlock(r) \in Nat
  BY BlockNumbers
<1> HIDE DEF m
<1>3. CASE m <= LastBlock(r)
  <2>1. /\ task' = [task EXCEPT ![t] =
                      Fetching(d, r, m, got \o Bytes(stored, d, from, m - 1))]
        /\ UNCHANGED <<lastRead, clock>>
    BY <1>1, <1>2, <1>3 DEF Proceed, m
  <2>2. m \in FirstBlock(r)..LastBlock(r)
    BY <1>1, <1>2, <1>3
  <2>3. QED
    BY <2>1, <2>2
<1>4. CASE ~(m <= LastBlock(r))
  <2>1. /\ \E data : task' = [task EXCEPT ![t] = Source!Answered(d, r, data)]
        /\ clock' = clock + 1
        /\ lastRead' = [lastRead EXCEPT ![d] = clock + 1]
    BY <1>4, <1>1, <1>2 DEF Proceed, m
  <2>2. clock' \in Nat /\ clock + 1 \in Nat
    BY <2>1
  <2>3. lastRead' \in [Docs -> Nat]
    BY <2>1, <2>2
  <2>4. QED
    BY <2>1, <2>2, <2>3, Zenon
<1>5. QED
  BY <1>3, <1>4

-----------------------------------------------------------------------------
(* Discarding *)

\* A reader with a counted block has a least read one.
LEMMA LeastReadExists ==
  ASSUME TypeOK, NEW k \in DOMAIN readCount
  PROVE  LeastRead(k[1]) # {}
<1> DEFINE counted == {j \in DOMAIN readCount : j[1] = k[1]}
           T == {readCount[j] : j \in counted}
<1>1. T \subseteq Nat /\ T # {}
  BY DEF TypeOK
<1>2. PICK x \in T : \A y \in T : x <= y
  BY <1>1, NatMin, Zenon
<1>3. PICK i \in counted : readCount[i] = x
  OBVIOUS
<1>4. i \in LeastRead(k[1])
  BY <1>2, <1>3 DEF LeastRead
<1>5. QED
  BY <1>4

\* When anything is stored there is an oldest reader.
LEMMA OldestReaderExists ==
  ASSUME TypeOK, DOMAIN blocks # {}
  PROVE  OldestReaders # {}
<1> DEFINE holding == {k[1] : k \in DOMAIN blocks}
           T == {lastRead[d] : d \in holding}
<1>1. holding \subseteq Docs /\ holding # {}
  BY DEF TypeOK
<1> HIDE DEF holding
<1>2. T \subseteq Nat /\ T # {}
  BY <1>1 DEF TypeOK
<1>3. PICK x \in T : \A y \in T : x <= y
  BY <1>2, NatMin, Zenon
<1>4. PICK d \in holding : lastRead[d] = x
  OBVIOUS
<1>5. d \in OldestReaders
  BY <1>3, <1>4 DEF OldestReaders, holding
<1>6. QED
  BY <1>5

\* While anything is stored, discarding drops exactly one stored block.
LEMMA DiscardsOneBlock ==
  ASSUME TypeOK, CountsMatchStorage, DOMAIN blocks # {}, NEW x \in Discards
  PROVE  \E k \in DOMAIN blocks : x = {k}
<1>1. PICK d \in OldestReaders :
        x \in (IF LeastRead(d) = {} THEN {{}} ELSE {{k} : k \in LeastRead(d)})
  BY OldestReaderExists DEF Discards
<1>2. PICK k \in DOMAIN blocks : d = k[1]
  BY DEF OldestReaders
<1>3. LeastRead(d) # {}
  BY <1>2, LeastReadExists DEF CountsMatchStorage
<1>4. PICK j \in LeastRead(d) : x = {j}
  BY <1>1, <1>3
<1>5. j \in DOMAIN blocks
  BY <1>4 DEF LeastRead, CountsMatchStorage
<1>6. QED
  BY <1>4, <1>5

\* Nothing but stored blocks is ever dropped.
LEMMA DropsStoredBlocks ==
  ASSUME TypeOK, CountsMatchStorage, NEW x \in DiscardsForPut
  PROVE  x \subseteq DOMAIN blocks
<1>1. CASE DOMAIN blocks = {}
  <2>1. OldestReaders = {}
    BY <1>1 DEF OldestReaders
  <2>2. QED
    BY <2>1 DEF DiscardsForPut, Discards
<1>2. CASE DOMAIN blocks # {} /\ x \in Discards
  BY <1>2, DiscardsOneBlock
<1>3. CASE x = {}
  BY <1>3
<1>4. QED
  BY <1>1, <1>2, <1>3 DEF DiscardsForPut

-----------------------------------------------------------------------------
(* The invariant *)

LEMMA InitIInv == Init => IInv
<1> SUFFICES ASSUME Init PROVE IInv
  OBVIOUS
<1>1. DOMAIN blocks = {} /\ DOMAIN readCount = {}
  BY DEF Init
<1>2. TypeOK
  BY <1>1, FS_EmptySet, MaxReadsAssumption DEF Init, TypeOK, Source!Idle
<1>3. TotalStored = 0
  BY <1>1, FS_EmptySet, BlockSizeAssumption DEF TotalStored
<1>4. CapacityBound
  BY <1>3, BlockSizeAssumption, CapacityAssumption DEF CapacityBound
<1>5. QED
  BY <1>1, <1>2, <1>4 DEF IInv, CountsMatchStorage, StoredBlocksGenuine

\* What the storage becomes when a block arrives.
LEMMA PutKeepsBound ==
  ASSUME IInv, NEW dropped \in DiscardsForPut, NEW key
  PROVE  LET keys == (DOMAIN blocks \ dropped) \cup {key}
         IN  /\ IsFiniteSet(keys)
             /\ Cardinality(keys) * BlockSize
                  <= IF Capacity < BlockSize THEN BlockSize ELSE Capacity
<1> DEFINE rest == DOMAIN blocks \ dropped
           keys == rest \cup {key}
           bound == IF Capacity < BlockSize THEN BlockSize ELSE Capacity
           n == Cardinality(DOMAIN blocks)
<1>1. IsFiniteSet(DOMAIN blocks) /\ n \in Nat
  BY FS_CardinalityType DEF IInv, TypeOK
<1>2. IsFiniteSet(rest) /\ Cardinality(rest) \in Nat /\ Cardinality(rest) <= n
  BY <1>1, FS_Subset, FS_CardinalityType
<1>3. IsFiniteSet(keys) /\ Cardinality(keys) \in Nat
      /\ Cardinality(keys) <= Cardinality(rest) + 1
  <2> HIDE DEF rest
  <2>1. /\ IsFiniteSet(rest \cup {key})
        /\ \/ Cardinality(rest \cup {key}) = Cardinality(rest)
           \/ Cardinality(rest \cup {key}) = Cardinality(rest) + 1
    BY <1>2, FS_AddElement, Zenon
  <2>2. QED
    BY <1>2, <2>1
<1>4. BlockSize \in Nat \ {0} /\ Capacity \in Nat
  BY BlockSizeAssumption, CapacityAssumption
<1>5. n * BlockSize <= bound
  BY DEF IInv, CapacityBound, TotalStored
<1>6. CASE n * BlockSize + BlockSize <= Capacity
  <2>1. Cardinality(keys) <= n + 1
    BY <1>1, <1>2, <1>3
  <2>2. Cardinality(keys) * BlockSize <= (n + 1) * BlockSize
    BY <1>1, <1>3, <1>4, <2>1, Z3
  <2>3. (n + 1) * BlockSize = n * BlockSize + BlockSize
    BY <1>1, <1>4, Z3
  <2>4. n * BlockSize \in Nat /\ Cardinality(keys) * BlockSize \in Nat
    BY <1>1, <1>3, <1>4, Z3
  <2> HIDE DEF keys, n
  <2>5. QED
    BY <1>3, <1>4, <1>6, <2>2, <2>3, <2>4 DEF keys
<1>7. CASE ~(n * BlockSize + BlockSize <= Capacity) /\ n # 0
  <2>1. dropped \in Discards
    <3>1. n * BlockSize \in Nat
      BY <1>1, <1>4, Z3
    <3>2. TotalStored + BlockSize > Capacity
      BY <1>4, <1>7, <3>1 DEF TotalStored
    <3>3. QED
      BY <3>2 DEF DiscardsForPut
  <2>2. DOMAIN blocks # {}
    BY <1>7, FS_EmptySet
  <2>3. PICK k \in DOMAIN blocks : dropped = {k}
    BY <2>1, <2>2, DiscardsOneBlock DEF IInv
  <2>4. Cardinality(rest) = n - 1
    BY <1>1, <2>3, FS_RemoveElement
  <2>5. Cardinality(keys) <= n
    BY <1>1, <1>2, <1>3, <2>4
  <2>6. Cardinality(keys) * BlockSize <= n * BlockSize
    BY <1>1, <1>3, <1>4, <2>5, Z3
  <2>7. n * BlockSize \in Nat /\ Cardinality(keys) * BlockSize \in Nat
    BY <1>1, <1>3, <1>4, Z3
  <2> HIDE DEF keys, n
  <2>8. QED
    BY <1>3, <1>4, <1>5, <2>6, <2>7 DEF keys
<1>8. CASE n = 0
  <2>1. Cardinality(keys) <= 1
    BY <1>1, <1>2, <1>3, <1>8
  <2>2. Cardinality(keys) = 0 \/ Cardinality(keys) = 1
    BY <1>3, <2>1
  <2>3. Cardinality(keys) * BlockSize <= BlockSize
    BY <1>4, <2>2
  <2> HIDE DEF keys, n
  <2>4. QED
    BY <1>3, <1>4, <2>2, <2>3 DEF keys
<1>9. QED
  BY <1>6, <1>7, <1>8

\* The record of a task after the loop satisfies the type invariant.
LEMMA ProceedTypesTask ==
  ASSUME TypeOK, NEW t \in Tasks, NEW r \in Ranges,
         documents \subseteq documents', NEW d \in documents',
         \/ \E n \in FirstBlock(r)..LastBlock(r) : \E all :
              task' = [task EXCEPT ![t] = Fetching(d, r, n, all)]
         \/ \E data : task' = [task EXCEPT ![t] = Source!Answered(d, r, data)]
  PROVE  \A u \in Tasks :
           /\ task'[u].pc \in {"idle", "reading", "answered", "failed"}
           /\ task'[u].pc = "reading" =>
                /\ task'[u].doc \in documents'
                /\ task'[u].range \in Ranges
                /\ task'[u].next \in FirstBlock(task'[u].range)..LastBlock(task'[u].range)
<1> SUFFICES ASSUME NEW u \in Tasks
             PROVE  /\ task'[u].pc \in {"idle", "reading", "answered", "failed"}
                    /\ task'[u].pc = "reading" =>
                         /\ task'[u].doc \in documents'
                         /\ task'[u].range \in Ranges
                         /\ task'[u].next \in
                              FirstBlock(task'[u].range)..LastBlock(task'[u].range)
  OBVIOUS
<1>1. u \in DOMAIN task /\ t \in DOMAIN task
  BY DEF TypeOK
<1>2. CASE u # t
  <2>1. task'[u] = task[u]
    BY <1>1, <1>2
  <2>2. QED
    BY <2>1 DEF TypeOK
<1>3. CASE u = t
  <2>1. CASE \E n \in FirstBlock(r)..LastBlock(r) : \E all :
               task' = [task EXCEPT ![t] = Fetching(d, r, n, all)]
    <3>1. PICK n \in FirstBlock(r)..LastBlock(r) :
            \E all : task'[t] = Fetching(d, r, n, all)
      BY <1>1, <2>1
    <3>2. /\ task'[t].pc = "reading" /\ task'[t].doc = d
          /\ task'[t].range = r /\ task'[t].next = n
      BY <3>1 DEF Fetching
    <3>3. QED
      BY <1>3, <3>2
  <2>2. CASE \E data : task' = [task EXCEPT ![t] = Source!Answered(d, r, data)]
    <3>1. task'[t].pc = "answered"
      BY <1>1, <2>2 DEF Source!Answered
    <3>2. QED
      BY <1>3, <3>1
  <2>3. QED
    BY <2>1, <2>2
<1>4. QED
  BY <1>2, <1>3

-----------------------------------------------------------------------------
\* Starting a read: only what is stored is counted, nothing is stored.
LEMMA BeginIInv ==
  ASSUME IInv, NEW t \in Tasks, NEW d \in Docs, NEW r \in Ranges, Begin(t, d, r)
  PROVE  IInv'
<1>1. /\ documents' = documents \cup {d} /\ started' = started + 1
      /\ started < MaxReads
      /\ Proceed(t, d, r, FirstBlock(r), <<>>, blocks, readCount)
  BY DEF Begin, ReadersWith
<1>2. /\ FirstBlock(r) \in Nat /\ LastBlock(r) \in Nat
      /\ FirstBlock(r) <= LastBlock(r) + 1
  BY BlockNumbers
<1>3. /\ blocks' = blocks
      /\ \E hits \in SUBSET {k \in DOMAIN blocks : k[1] = d} :
           DOMAIN readCount' = DOMAIN readCount \cup hits
      /\ \A k \in DOMAIN readCount' : readCount'[k] \in Nat \ {0}
  BY <1>1, <1>2, ProceedEffect DEF IInv, TypeOK
<1>4. /\ lastRead' \in [Docs -> Nat] /\ clock' \in Nat
      /\ \/ \E n \in FirstBlock(r)..LastBlock(r) : \E all :
              task' = [task EXCEPT ![t] = Fetching(d, r, n, all)]
         \/ \E data : task' = [task EXCEPT ![t] = Source!Answered(d, r, data)]
  BY <1>1, <1>2, ProceedTask DEF IInv, TypeOK
<1>5. TypeOK'
  <2>1. documents' \subseteq Docs /\ documents \subseteq documents'
    BY <1>1 DEF IInv, TypeOK
  <2>2. DOMAIN blocks' \subseteq documents' \X Nat /\ IsFiniteSet(DOMAIN blocks')
    BY <1>3, <2>1 DEF IInv, TypeOK
  <2>3. DOMAIN readCount' \subseteq documents' \X Nat
    BY <1>3, <2>1 DEF IInv, TypeOK
  <2>4. DOMAIN task' = Tasks
    BY <1>4 DEF IInv, TypeOK
  <2>5. \A u \in Tasks :
           /\ task'[u].pc \in {"idle", "reading", "answered", "failed"}
           /\ task'[u].pc = "reading" =>
                /\ task'[u].doc \in documents'
                /\ task'[u].range \in Ranges
                /\ task'[u].next \in FirstBlock(task'[u].range)..LastBlock(task'[u].range)
    BY <1>1, <1>4, <2>1, ProceedTypesTask DEF IInv
  <2>6. started' \in 0..MaxReads
    BY <1>1, MaxReadsAssumption DEF IInv, TypeOK
  <2>7. QED
    BY <1>3, <1>4, <2>1, <2>2, <2>3, <2>4, <2>5, <2>6 DEF TypeOK, FirstBlock, LastBlock
<1>6. CountsMatchStorage'
  BY <1>3 DEF IInv, CountsMatchStorage
<1>7. CapacityBound'
  BY <1>3 DEF IInv, CapacityBound, TotalStored
<1>8. StoredBlocksGenuine'
  BY <1>3 DEF IInv, StoredBlocksGenuine, FetchBlock, Source!Read, Source!Slice, Source!File
<1>9. QED
  BY <1>5, <1>6, <1>7, <1>8 DEF IInv

\* A block arrives: it takes the place of the one that is discarded.
LEMMA FetchedIInv ==
  ASSUME IInv, NEW t \in Tasks, Fetched(t)
  PROVE  IInv'
<1> DEFINE d == task[t].doc
           r == task[t].range
           n == task[t].next
           key == <<d, n>>
           data == FetchBlock(d, n)
<1>1. /\ d \in documents /\ r \in Ranges /\ n \in FirstBlock(r)..LastBlock(r)
      /\ task[t].pc = "reading"
  BY DEF Fetched, FetchEnds, IInv, TypeOK
<1>2. FirstBlock(r) \in Nat /\ LastBlock(r) \in Nat
  BY <1>1, BlockNumbers
<1>3. n \in Nat /\ n + 1 \in Nat /\ FirstBlock(r) <= n + 1 /\ n + 1 <= LastBlock(r) + 1
  BY <1>1, <1>2
<1>4. PICK dropped \in DiscardsForPut :
        Proceed(t, d, r, n + 1, task[t].got \o data,
                With(Without(blocks, dropped), key, data),
                Counted(Without(readCount, dropped), key))
  BY DEF Fetched, FetchEnds, StoreKey, CountsAfter
<1> DEFINE stored == With(Without(blocks, dropped), key, data)
           count == Counted(Without(readCount, dropped), key)
<1>5. /\ DOMAIN stored = (DOMAIN blocks \ dropped) \cup {key}
      /\ DOMAIN count = (DOMAIN readCount \ dropped) \cup {key}
  BY DEF With, Without, Counted
<1>6. \A k \in DOMAIN count : count[k] \in Nat \ {0}
  BY DEF With, Without, Counted, IInv, TypeOK
<1>7. documents' = documents /\ started' = started
  BY DEF Fetched, FetchEnds
<1>8. \A k \in DOMAIN stored : stored[k] = FetchBlock(k[1], k[2])
  BY DEF With, Without, IInv, StoredBlocksGenuine
<1> HIDE DEF stored, count, d, r, n, data
<1>9. Proceed(t, d, r, n + 1, task[t].got \o data, stored, count)
  BY <1>4 DEF stored, count
<1>10. /\ blocks' = stored
       /\ \E hits \in SUBSET {k \in DOMAIN stored : k[1] = d} :
            DOMAIN readCount' = DOMAIN count \cup hits
       /\ \A k \in DOMAIN readCount' : readCount'[k] \in Nat \ {0}
  BY <1>1, <1>3, <1>6, <1>9, ProceedEffect
<1>11. /\ lastRead' \in [Docs -> Nat] /\ clock' \in Nat
       /\ \/ \E m \in FirstBlock(r)..LastBlock(r) : \E all :
               task' = [task EXCEPT ![t] = Fetching(d, r, m, all)]
          \/ \E bytes : task' = [task EXCEPT ![t] = Source!Answered(d, r, bytes)]
  BY <1>1, <1>3, <1>9, ProceedTask DEF IInv, TypeOK
<1>12. DOMAIN readCount' = DOMAIN blocks'
  BY <1>5, <1>10 DEF IInv, CountsMatchStorage
<1>13. IsFiniteSet(DOMAIN blocks') /\
       Cardinality(DOMAIN blocks') * BlockSize
         <= IF Capacity < BlockSize THEN BlockSize ELSE Capacity
  BY <1>5, <1>10, PutKeepsBound
<1>14. TypeOK'
  <2>1. documents' \subseteq Docs /\ documents \subseteq documents'
    BY <1>7 DEF IInv, TypeOK
  <2>2. DOMAIN blocks' \subseteq documents' \X Nat
    BY <1>1, <1>3, <1>5, <1>7, <1>10 DEF IInv, TypeOK
  <2>3. DOMAIN task' = Tasks
    BY <1>11 DEF IInv, TypeOK
  <2>4. \A u \in Tasks :
           /\ task'[u].pc \in {"idle", "reading", "answered", "failed"}
           /\ task'[u].pc = "reading" =>
                /\ task'[u].doc \in documents'
                /\ task'[u].range \in Ranges
                /\ task'[u].next \in FirstBlock(task'[u].range)..LastBlock(task'[u].range)
    BY <1>1, <1>7, <1>11, <2>1, ProceedTypesTask DEF IInv
  <2>5. QED
    BY <1>7, <1>10, <1>11, <1>12, <1>13, <2>1, <2>2, <2>3, <2>4
       DEF IInv, TypeOK, FirstBlock, LastBlock
<1>15. CapacityBound'
  BY <1>13 DEF CapacityBound, TotalStored
<1>16. StoredBlocksGenuine'
  BY <1>8, <1>10 DEF StoredBlocksGenuine, FetchBlock, Source!Read, Source!Slice, Source!File
<1>17. QED
  BY <1>12, <1>14, <1>15, <1>16 DEF IInv, CountsMatchStorage

\* A failed fetch changes only the task.
LEMMA FetchFailedIInv ==
  ASSUME IInv, NEW t \in Tasks, FetchFailed(t)
  PROVE  IInv'
<1>1. UNCHANGED <<documents, blocks, readCount, lastRead, clock, started>>
  BY DEF FetchFailed, FetchEnds
<1>2. /\ DOMAIN task' = Tasks /\ task'[t].pc = "failed"
      /\ \A u \in Tasks \ {t} : task'[u] = task[u]
  BY DEF FetchFailed, FetchEnds, IInv, TypeOK, Source!Failed
<1>3. TypeOK'
  BY <1>1, <1>2 DEF IInv, TypeOK, FirstBlock, LastBlock
<1>4. QED
  BY <1>1, <1>3 DEF IInv, CountsMatchStorage, CapacityBound, TotalStored,
     StoredBlocksGenuine, FetchBlock, Source!Read, Source!Slice, Source!File

LEMMA NextIInv == IInv /\ [Next]_vars => IInv'
<1> SUFFICES ASSUME IInv, [Next]_vars PROVE IInv'
  OBVIOUS
<1>1. ASSUME NEW t \in Tasks, NEW d \in Docs, NEW r \in Ranges, Begin(t, d, r)
      PROVE  IInv'
  BY <1>1, BeginIInv
<1>2. ASSUME NEW t \in Tasks, Fetched(t) PROVE IInv'
  BY <1>2, FetchedIInv
<1>3. ASSUME NEW t \in Tasks, FetchFailed(t) PROVE IInv'
  BY <1>3, FetchFailedIInv
<1>4. CASE UNCHANGED vars
  BY <1>4 DEF vars, IInv, TypeOK, FirstBlock, LastBlock, CountsMatchStorage,
     CapacityBound, TotalStored, StoredBlocksGenuine, FetchBlock, Source!Read,
     Source!Slice, Source!File
<1>5. QED
  BY <1>1, <1>2, <1>3, <1>4 DEF Next

LEMMA SpecIInv == Spec => []IInv
BY InitIInv, NextIInv, PTL DEF Spec

-----------------------------------------------------------------------------
(* The theorems *)

\* The types of the cache, for any documents, ranges, block size and capacity.
THEOREM TypeCorrect == Spec => []TypeOK
<1>1. IInv => TypeOK
  BY DEF IInv
<1>2. QED
  BY <1>1, SpecIInv, PTL

\* Whenever all tasks are suspended a block has a read count exactly when it is
\* stored, so discarding always finds a block to discard (reader.py:37-49).
THEOREM CountsAlwaysMatch == Spec => []CountsMatchStorage
<1>1. IInv => CountsMatchStorage
  BY DEF IInv
<1>2. QED
  BY <1>1, SpecIInv, PTL

\* put_block keeps the cache within its capacity, or one block, although it
\* discards at most one block (cache_in_blocks.py:148-191).
THEOREM CapacityRespected == Spec => []CapacityBound
<1>1. IInv => CapacityBound
  BY DEF IInv
<1>2. QED
  BY <1>1, SpecIInv, PTL

\* A stored block is always the block of the document it is stored under.
THEOREM StorageGenuine == Spec => []StoredBlocksGenuine
<1>1. IInv => StoredBlocksGenuine
  BY DEF IInv
<1>2. QED
  BY <1>1, SpecIInv, PTL

-----------------------------------------------------------------------------
(* What leaves the cache *)

\* What a block that arrives costs is one other block at most.
LEMMA DropsOneAtMost ==
  ASSUME TypeOK, CountsMatchStorage, NEW x \in DiscardsForPut
  PROVE  \A k, j \in x : k = j
<1>1. CASE DOMAIN blocks = {}
  BY <1>1, DropsStoredBlocks
<1>2. CASE DOMAIN blocks # {} /\ x \in Discards
  BY <1>2, DiscardsOneBlock
<1>3. CASE x = {}
  BY <1>3
<1>4. QED
  BY <1>1, <1>2, <1>3 DEF DiscardsForPut

\* A task whose block arrived asks for a later one or is done.
LEMMA FetchedMovesOn ==
  ASSUME IInv, NEW t \in Tasks, Fetched(t)
  PROVE  task'[t] # task[t]
<1> DEFINE d == task[t].doc
           r == task[t].range
           n == task[t].next
<1>1. /\ task[t].pc = "reading" /\ t \in DOMAIN task
      /\ r \in Ranges /\ n \in FirstBlock(r)..LastBlock(r)
  BY DEF Fetched, FetchEnds, IInv, TypeOK
<1>2. /\ FirstBlock(r) \in Nat /\ LastBlock(r) \in Nat
      /\ n \in Nat /\ n + 1 \in Nat /\ n + 1 <= LastBlock(r) + 1
  BY <1>1, BlockNumbers
<1>3. PICK got, stored, count : Proceed(t, d, r, n + 1, got, stored, count)
  BY DEF Fetched
<1> DEFINE m == NextMiss(stored, d, r, n + 1)
<1> HIDE DEF d, r, n
<1>4. m \in (n + 1)..(LastBlock(r) + 1)
  BY <1>1, <1>2, NextMissInRange
<1> HIDE DEF m
<1>5. \/ \E all : task' = [task EXCEPT ![t] = Fetching(d, r, m, all)]
      \/ \E all : task' = [task EXCEPT ![t] = Source!Answered(d, r, all)]
  BY <1>3 DEF Proceed, m
<1>6. CASE \E all : task' = [task EXCEPT ![t] = Fetching(d, r, m, all)]
  <2>1. task'[t].next = m
    BY <1>1, <1>6 DEF Fetching
  <2>2. m # n
    BY <1>2, <1>4
  <2>3. QED
    BY <2>1, <2>2 DEF n
<1>7. CASE \E all : task' = [task EXCEPT ![t] = Source!Answered(d, r, all)]
  <2>1. task'[t].pc = "answered"
    BY <1>1, <1>7 DEF Source!Answered
  <2>2. QED
    BY <1>1, <2>1
<1>8. QED
  BY <1>5, <1>6, <1>7

\* CacheInBlocks.put_block (cache_in_blocks.py) discards once, and nothing else
\* does: a block leaves the cache only when another one arrives, and alone.
THEOREM DiscardsAreSingle == Spec => OneBlockPerDiscard
<1>1. IInv /\ [Next]_vars =>
        [\A k, j \in DOMAIN blocks \ DOMAIN blocks' :
           k = j /\ \E t \in Tasks : task[t].pc = "reading" /\ task'[t] # task[t]]_vars
  <2> DEFINE Lost   == DOMAIN blocks \ DOMAIN blocks'
             Single == \A k, j \in Lost :
               k = j /\ \E t \in Tasks : task[t].pc = "reading" /\ task'[t] # task[t]
  <2> SUFFICES ASSUME IInv, [Next]_vars PROVE Single
    OBVIOUS
  <2>1. ASSUME NEW t \in Tasks, NEW d \in Docs, NEW r \in Ranges, Begin(t, d, r)
        PROVE  Single
    BY <2>1 DEF Begin, Proceed
  <2>2. ASSUME NEW t \in Tasks, Fetched(t) PROVE Single
    <3>1. PICK dropped \in DiscardsForPut :
            \E key, data : blocks' = With(Without(blocks, dropped), key, data)
      BY <2>2 DEF Fetched, Proceed
    <3>2. Lost \subseteq dropped
      BY <3>1 DEF With, Without
    <3>3. \A k, j \in dropped : k = j
      BY DropsOneAtMost DEF IInv
    <3>4. task[t].pc = "reading" /\ task'[t] # task[t]
      BY <2>2, FetchedMovesOn DEF Fetched, FetchEnds
    <3>5. QED
      BY <3>2, <3>3, <3>4
  <2>3. ASSUME NEW t \in Tasks, FetchFailed(t) PROVE Single
    BY <2>3 DEF FetchFailed
  <2>4. CASE UNCHANGED vars
    BY <2>4 DEF vars
  <2>5. QED
    BY <2>1, <2>2, <2>3, <2>4 DEF Next
<1>2. QED
  BY <1>1, SpecIInv, PTL DEF Spec, OneBlockPerDiscard

-----------------------------------------------------------------------------
(* The cache is transparent *)

\* The source slices as the lemmas about slices do.
LEMMA SliceIs ==
  \A s, from, count : Source!Slice(s, from, count) = Slice(s, from, count)
BY DEF Source!Slice, Slice

LEMMA FileProperties ==
  ASSUME NEW d \in Docs
  PROVE  Source!File(d) \in Seq({d} \X Nat)
<1>1. Size[d] \in Nat
  BY SizeAssumption
<1>2. QED
  BY <1>1 DEF Source!File

\* The bytes of a document from one block to before another.
Stretch(d, from, to) ==
  Slice(Source!File(d), from * BlockSize, (to - from) * BlockSize)

\* Stretches are joined where they meet.
Meet(d, a, b, c) == Stretch(d, a, b) \o Stretch(d, b, c) = Stretch(d, a, c)

LEMMA StretchesJoin ==
  ASSUME NEW d \in Docs, NEW a \in Nat, NEW b \in Nat, NEW c \in Nat, a <= b, b <= c
  PROVE  Meet(d, a, b, c)
<1> DEFINE s == Source!File(d)
           S == {d} \X Nat
           from == a * BlockSize
           m == (b - a) * BlockSize
           n == (c - b) * BlockSize
<1>1. s \in Seq(S)
  BY FileProperties
<1>2. BlockSize \in Nat
  BY BlockSizeAssumption
<1>3. from \in Nat /\ from + m = b * BlockSize
  <2>1. a \in Int /\ b - a \in Int /\ a + (b - a) = b
    OBVIOUS
  <2>2. a * BlockSize + (b - a) * BlockSize = (a + (b - a)) * BlockSize
    BY <1>2, <2>1, Products
  <2>3. QED
    BY <1>2, <2>1, <2>2, Products
<1>4. m \in Nat /\ n \in Nat
  <2>1. b - a \in Int /\ b - a >= 0 /\ c - b \in Int /\ c - b >= 0
    OBVIOUS
  <2>2. QED
    BY <1>2, <2>1, Products
<1>5. m + n = (c - a) * BlockSize
  <2>1. b - a \in Int /\ c - b \in Int /\ (b - a) + (c - b) = c - a
    OBVIOUS
  <2>2. (b - a) * BlockSize + (c - b) * BlockSize = ((b - a) + (c - b)) * BlockSize
    BY <1>2, <2>1, Products
  <2>3. QED
    BY <2>1, <2>2
<1> HIDE DEF s, S, from, m, n
<1>6. Joins(s, from, m, n)
  BY <1>1, <1>3, <1>4, SlicesJoin
<1>7. QED
  BY <1>3, <1>5, <1>6 DEF Meet, Joins, Stretch, s, from, m, n

\* The block of a document is the stretch from it to the next.
LEMMA BlockIsStretch ==
  ASSUME NEW d \in Docs, NEW b \in Nat
  PROVE  FetchBlock(d, b) = Stretch(d, b, b + 1)
<1>1. (b + 1) - b = 1 /\ 1 * BlockSize = BlockSize
  BY BlockSizeAssumption
<1>2. QED
  BY <1>1, SliceIs DEF FetchBlock, Source!Read, Stretch

\* Nothing is between a block and itself.
LEMMA EmptyStretch ==
  ASSUME NEW d \in Docs, NEW b \in Nat
  PROVE  Stretch(d, b, b) = <<>>
<1> DEFINE s == Source!File(d)
           S == {d} \X Nat
           from == b * BlockSize
<1>1. s \in Seq(S)
  BY FileProperties
<1>2. from \in Nat /\ (b - b) * BlockSize = 0
  BY BlockSizeAssumption, Products
<1> HIDE DEF s, S, from
<1>3. Slice(s, from, 0) \in Seq(S) /\ Len(Slice(s, from, 0)) = 0
  <2>1. Len(s) \in Nat
    BY <1>1, LenProperties
  <2>2. /\ Slice(s, from, 0) \in Seq(S)
        /\ Len(Slice(s, from, 0)) =
             IF from + 0 < Len(s) THEN 0
             ELSE IF from <= Len(s) THEN Len(s) - from ELSE 0
    <3>1. from \in Nat
      BY <1>2
    <3>2. 0 \in Nat
      OBVIOUS
    <3>3. QED
      BY <1>1, <3>1, <3>2, SliceProperties, Zenon
  <2>3. QED
    BY <1>2, <2>1, <2>2
<1>4. Slice(s, from, 0) = <<>>
  BY <1>3, EmptySeq
<1>5. QED
  BY <1>2, <1>4 DEF Stretch, s, from

\* The bytes of blocks that are stored are those the document has there.
LEMMA BytesAreStretch ==
  ASSUME NEW d \in Docs, NEW stored, NEW from \in Nat, NEW to \in Nat, from <= to,
         \A b \in from..(to - 1) : stored[<<d, b>>] = FetchBlock(d, b)
  PROVE  Bytes(stored, d, from, to - 1) = Stretch(d, from, to)
<1> DEFINE n == to - from
           seqs == [i \in 1..n |-> stored[<<d, from + i - 1>>]]
           g == [i \in 1..n |-> Stretch(d, from, from + i)]
<1>1. Bytes(stored, d, from, to - 1) = FlattenSeq(seqs)
  <2>1. (to - 1) - from + 1 = n
    OBVIOUS
  <2>2. QED
    BY <2>1 DEF Bytes
<1>2. n \in Nat /\ seqs = [i \in 1..n |-> stored[<<d, from + i - 1>>]]
  OBVIOUS
<1>3. Len(seqs) = n
  BY <1>2
<1>4. CASE n = 0
  <2>1. from = to
    BY <1>4
  <2>2. seqs = <<>> /\ Len(seqs) = 0
    BY <1>3, <1>4
  <2>3. FlattenSeq(seqs) = <<>>
    BY <2>2 DEF FlattenSeq
  <2>4. QED
    BY <1>1, <2>1, <2>3, EmptyStretch
<1>5. CASE n # 0
  <2>1. ASSUME NEW i \in 1..n
        PROVE  seqs[i] = Stretch(d, from + i - 1, from + i)
    <3>1. from + i - 1 \in from..(to - 1) /\ from + i - 1 \in Nat
          /\ (from + i - 1) + 1 = from + i
      OBVIOUS
    <3>2. seqs[i] = FetchBlock(d, from + i - 1)
      BY <3>1
    <3>3. QED
      BY <3>1, <3>2, BlockIsStretch
  <2>2. ASSUME NEW i \in 1..n
        PROVE  g[i] = IF i = 1 THEN seqs[i] ELSE g[i - 1] \o seqs[i]
    <3>1. g[i] = Stretch(d, from, from + i)
      OBVIOUS
    <3>2. CASE i = 1
      <4>1. from + i - 1 = from
        BY <3>2
      <4>2. QED
        BY <2>1, <3>1, <3>2, <4>1
    <3>3. CASE i # 1
      <4>1. /\ i - 1 \in 1..n /\ from + (i - 1) = from + i - 1
            /\ from + i - 1 \in Nat /\ from + i \in Nat
            /\ from <= from + i - 1 /\ from + i - 1 <= from + i
        BY <3>3
      <4>2. g[i - 1] = Stretch(d, from, from + i - 1)
        BY <4>1
      <4>3. Meet(d, from, from + i - 1, from + i)
        BY <4>1, StretchesJoin
      <4>4. QED
        BY <2>1, <3>1, <3>3, <4>2, <4>3 DEF Meet
    <3>4. QED
      BY <3>2, <3>3
  <2>3. g = [i \in 1..n |-> IF i = 1 THEN seqs[i] ELSE g[i - 1] \o seqs[i]]
    BY <2>2
  <2>4. n \in Nat \ {0} /\ n \in 1..n /\ from + n = to
    BY <1>2, <1>5
  <2>5. g[n] = Stretch(d, from, to)
    BY <2>4
  <2> HIDE DEF seqs, g, n
  <2>6. FlattenSeq(seqs) = g[n]
    <3>1. JoinsSoFar(g, seqs)
      BY <1>3, <2>3 DEF JoinsSoFar
    <3>2. QED
      BY <1>3, <2>4, <3>1, FlattenJoins
  <2>7. QED
    BY <1>1, <2>5, <2>6
<1>6. QED
  BY <1>4, <1>5

\* Between two steps a task that reads has the bytes from the start of the first
\* block of its range to the block it waits for.
HasRead(t) ==
  task[t].pc = "reading" =>
    task[t].got = Stretch(task[t].doc, FirstBlock(task[t].range), task[t].next)

AllHaveRead == \A t \in Tasks : HasRead(t)

\* The range of a read, cut out of all its blocks.
LEMMA CutOutOfBlocks ==
  ASSUME NEW d \in Docs, NEW r \in Ranges
  PROVE  Source!Slice(Stretch(d, FirstBlock(r), LastBlock(r) + 1), r[1] % BlockSize, r[2])
           = Source!Read(d, r[1], r[2])
<1> DEFINE s == Source!File(d)
           S == {d} \X Nat
           f == FirstBlock(r)
           l == LastBlock(r)
           from == f * BlockSize
           m == ((l + 1) - f) * BlockSize
           k == r[1] % BlockSize
           n == r[2]
<1>1. s \in Seq(S)
  BY FileProperties
<1>2. f \in Nat /\ l \in Nat /\ f <= l /\ BlockSize \in Nat \ {0}
  BY BlockNumbers, BlockSizeAssumption
<1>3. r[1] \in Nat /\ r[2] \in Nat /\ r[1] + r[2] \in Nat
  BY RangesAssumption
<1>4. from + k = r[1] /\ k \in Nat
  BY <1>2, <1>3, DivMod DEF FirstBlock
<1>5. r[1] + r[2] < (l + 1) * BlockSize
  BY <1>2, <1>3, DivBounds DEF LastBlock
<1>6. from \in Nat /\ m \in Nat /\ from + m = (l + 1) * BlockSize
  <2> HIDE DEF f, l
  <2>1. f \in Int /\ (l + 1) - f \in Int /\ (l + 1) - f >= 0 /\ f + ((l + 1) - f) = l + 1
        /\ BlockSize \in Nat
    BY <1>2
  <2>2. f * BlockSize + ((l + 1) - f) * BlockSize = (f + ((l + 1) - f)) * BlockSize
    BY <2>1, Products
  <2>3. f * BlockSize \in Nat /\ ((l + 1) - f) * BlockSize \in Nat
    BY <1>2, <2>1, Products
  <2>4. QED
    BY <2>1, <2>2, <2>3
<1>7. n \in Nat
  BY <1>3
<1>8. Slice(s, r[1], n) = Source!Read(d, r[1], r[2])
  BY SliceIs DEF Source!Read
<1>9. Stretch(d, f, l + 1) = Slice(s, from, m)
  BY Zenon DEF Stretch
<1> HIDE DEF s, S, from, m, k, n, f, l
<1>10. k + n <= m
  <2>1. from + k + n < from + m
    BY <1>3, <1>4, <1>5, <1>6 DEF n
  <2>2. QED
    BY <2>1, <1>4, <1>6, <1>7
<1>11. Slice(Slice(s, from, m), k, n) = Slice(s, from + k, n)
  <2>1. Holds(s, from, m, k, n)
    BY <1>10 DEF Holds
  <2>2. from \in Nat /\ m \in Nat /\ k \in Nat /\ n \in Nat
    BY <1>4, <1>6, <1>7
  <2>3. QED
    BY <1>1, <2>1, <2>2, SliceOfSlice
<1>12. Source!Slice(Stretch(d, f, l + 1), k, n) = Source!Read(d, r[1], r[2])
  BY <1>4, <1>8, <1>9, <1>11, SliceIs
<1>13. QED
  BY <1>12 DEF f, l, k, n

\* The loop of read_range goes on with what it has to the next fetch, or
\* answers like the source.
LEMMA ProceedReads ==
  ASSUME NEW t \in Tasks, NEW d \in Docs, NEW r \in Ranges,
         NEW from \in Nat, FirstBlock(r) <= from, from <= LastBlock(r) + 1,
         NEW got, got = Stretch(d, FirstBlock(r), from), NEW stored, NEW count,
         \A k \in DOMAIN stored : stored[k] = FetchBlock(k[1], k[2]),
         Proceed(t, d, r, from, got, stored, count)
  PROVE  \/ \E n \in Nat :
              task' = [task EXCEPT ![t] = Fetching(d, r, n, Stretch(d, FirstBlock(r), n))]
         \/ task' = [task EXCEPT ![t] =
                       Source!Answered(d, r, Source!Read(d, r[1], r[2]))]
<1> DEFINE m == NextMiss(stored, d, r, from)
           all == got \o Bytes(stored, d, from, m - 1)
<1>1. FirstBlock(r) \in Nat /\ LastBlock(r) \in Nat
  BY BlockNumbers
<1>2. m \in from..(LastBlock(r) + 1) /\ \A b \in from..(m - 1) : Hit(stored, d, b)
  BY NextMissInRange
<1>3. \/ m <= LastBlock(r) /\ task' = [task EXCEPT ![t] = Fetching(d, r, m, all)]
      \/ /\ m > LastBlock(r)
         /\ task' = [task EXCEPT ![t] =
              Source!Answered(d, r, Source!Slice(all, r[1] % BlockSize, r[2]))]
  BY Zenon DEF Proceed
<1> HIDE DEF m
<1>4. m \in Nat /\ from <= m /\ m <= LastBlock(r) + 1
  BY <1>1, <1>2
<1>5. \A b \in from..(m - 1) : stored[<<d, b>>] = FetchBlock(d, b)
  BY <1>2 DEF Hit
<1>6. Bytes(stored, d, from, m - 1) = Stretch(d, from, m)
  BY <1>4, <1>5, BytesAreStretch
<1>7. all = Stretch(d, FirstBlock(r), m)
  <2>1. Meet(d, FirstBlock(r), from, m)
    BY <1>1, <1>4, StretchesJoin
  <2>2. QED
    BY <1>6, <2>1 DEF Meet
<1> HIDE DEF all
<1>8. CASE m <= LastBlock(r)
  <2>1. task' = [task EXCEPT ![t] = Fetching(d, r, m, Stretch(d, FirstBlock(r), m))]
    BY <1>1, <1>3, <1>4, <1>7, <1>8
  <2>2. QED
    BY <1>4, <2>1
<1>9. CASE ~(m <= LastBlock(r))
  <2>1. m = LastBlock(r) + 1
    BY <1>1, <1>4, <1>9
  <2>2. Source!Slice(all, r[1] % BlockSize, r[2]) = Source!Read(d, r[1], r[2])
    BY <1>7, <2>1, CutOutOfBlocks
  <2>3. QED
    BY <1>3, <1>9, <2>2
<1>10. QED
  BY <1>8, <1>9

\* A block that arrives continues what its task has read.
LEMMA FetchedReads ==
  ASSUME IInv, AllHaveRead, NEW t \in Tasks, Fetched(t)
  PROVE  LET d == task[t].doc  r == task[t].range
         IN  \/ \E n \in Nat :
                  task' = [task EXCEPT ![t] =
                             Fetching(d, r, n, Stretch(d, FirstBlock(r), n))]
             \/ task' = [task EXCEPT ![t] =
                           Source!Answered(d, r, Source!Read(d, r[1], r[2]))]
<1> DEFINE d == task[t].doc
           r == task[t].range
           n == task[t].next
           key == <<d, n>>
           data == FetchBlock(d, n)
           got == task[t].got \o data
<1>1. /\ d \in Docs /\ r \in Ranges /\ n \in FirstBlock(r)..LastBlock(r)
      /\ task[t].pc = "reading" /\ task[t].got = Stretch(d, FirstBlock(r), n)
  BY DEF Fetched, FetchEnds, IInv, TypeOK, AllHaveRead, HasRead
<1>2. FirstBlock(r) \in Nat /\ LastBlock(r) \in Nat
  BY <1>1, BlockNumbers
<1>3. n \in Nat /\ n + 1 \in Nat /\ FirstBlock(r) <= n + 1 /\ n + 1 <= LastBlock(r) + 1
      /\ FirstBlock(r) <= n
  BY <1>1, <1>2
<1>4. PICK dropped \in DiscardsForPut :
        Proceed(t, d, r, n + 1, got, With(Without(blocks, dropped), key, data),
                Counted(Without(readCount, dropped), key))
  BY DEF Fetched, FetchEnds, StoreKey, CountsAfter
<1> DEFINE stored == With(Without(blocks, dropped), key, data)
           count == Counted(Without(readCount, dropped), key)
<1>5. \A k \in DOMAIN stored : stored[k] = FetchBlock(k[1], k[2])
  BY DEF With, Without, IInv, StoredBlocksGenuine
<1>6. got = Stretch(d, FirstBlock(r), n + 1)
  <2>1. data = Stretch(d, n, n + 1)
    BY <1>1, <1>3, BlockIsStretch
  <2> HIDE DEF d, r, n, data
  <2>2. n <= n + 1
    BY <1>3
  <2>3. Meet(d, FirstBlock(r), n, n + 1)
    BY <1>1, <1>2, <1>3, <2>2, StretchesJoin
  <2>4. QED
    BY <1>1, <2>1, <2>3 DEF Meet, got
<1> HIDE DEF stored, count, d, r, n, data, got
<1>7. Proceed(t, d, r, n + 1, got, stored, count)
  BY <1>4 DEF stored, count
<1>8. \/ \E b \in Nat :
           task' = [task EXCEPT ![t] = Fetching(d, r, b, Stretch(d, FirstBlock(r), b))]
      \/ task' = [task EXCEPT ![t] =
                    Source!Answered(d, r, Source!Read(d, r[1], r[2]))]
  BY <1>1, <1>3, <1>5, <1>6, <1>7, ProceedReads
<1>9. QED
  BY <1>8 DEF d, r

\* A read starts with nothing, and what is stored continues that.
LEMMA BeginReads ==
  ASSUME IInv, NEW t \in Tasks, NEW d \in Docs, NEW r \in Ranges, Begin(t, d, r)
  PROVE  \/ \E n \in Nat :
              task' = [task EXCEPT ![t] = Fetching(d, r, n, Stretch(d, FirstBlock(r), n))]
         \/ task' = [task EXCEPT ![t] =
                       Source!Answered(d, r, Source!Read(d, r[1], r[2]))]
<1>1. Proceed(t, d, r, FirstBlock(r), <<>>, blocks, readCount)
  BY DEF Begin
<1>2. /\ FirstBlock(r) \in Nat /\ LastBlock(r) \in Nat
      /\ FirstBlock(r) <= FirstBlock(r) /\ FirstBlock(r) <= LastBlock(r) + 1
  BY BlockNumbers
<1>3. <<>> = Stretch(d, FirstBlock(r), FirstBlock(r))
  BY <1>2, EmptyStretch
<1>4. \A k \in DOMAIN blocks : blocks[k] = FetchBlock(k[1], k[2])
  BY DEF IInv, StoredBlocksGenuine
<1>5. QED
  BY <1>1, <1>2, <1>3, <1>4, ProceedReads

\* What a step that sets the task to one of these leaves true of all tasks.
LEMMA OthersHaveRead ==
  ASSUME TypeOK, AllHaveRead, NEW t \in Tasks, NEW new, task' = [task EXCEPT ![t] = new],
         new.pc = "reading" =>
           new.got = Stretch(new.doc, FirstBlock(new.range), new.next)
  PROVE  AllHaveRead'
<1> SUFFICES ASSUME NEW u \in Tasks PROVE HasRead(u)'
  BY DEF AllHaveRead
<1>0. HasRead(u)' <=>
        (task'[u].pc = "reading" =>
           task'[u].got = Stretch(task'[u].doc, FirstBlock(task'[u].range), task'[u].next))
  BY Zenon DEF HasRead, Stretch, FirstBlock, Slice, Source!File
<1>1. u \in DOMAIN task /\ t \in DOMAIN task
  BY DEF TypeOK
<1>2. CASE u = t
  <2>1. task'[u] = new
    BY <1>1, <1>2
  <2>2. QED
    BY <1>0, <2>1
<1>3. CASE u # t
  <2>1. task'[u] = task[u] /\ HasRead(u)
    BY <1>1, <1>3 DEF AllHaveRead
  <2>2. QED
    BY <1>0, <2>1 DEF HasRead
<1>4. QED
  BY <1>2, <1>3

LEMMA NextHaveRead == IInv /\ AllHaveRead /\ [Next]_vars => AllHaveRead'
<1> SUFFICES ASSUME IInv, AllHaveRead, [Next]_vars PROVE AllHaveRead'
  OBVIOUS
<1>1. ASSUME NEW t \in Tasks, NEW d, NEW r,
             \/ \E n \in Nat :
                  task' = [task EXCEPT ![t] =
                             Fetching(d, r, n, Stretch(d, FirstBlock(r), n))]
             \/ task' = [task EXCEPT ![t] =
                           Source!Answered(d, r, Source!Read(d, r[1], r[2]))]
      PROVE  AllHaveRead'
  <2>1. ASSUME NEW n \in Nat,
               task' = [task EXCEPT ![t] =
                          Fetching(d, r, n, Stretch(d, FirstBlock(r), n))]
        PROVE  AllHaveRead'
    <3> DEFINE new == Fetching(d, r, n, Stretch(d, FirstBlock(r), n))
    <3>1. new.got = Stretch(new.doc, FirstBlock(new.range), new.next)
      BY DEF Fetching
    <3> HIDE DEF new
    <3>2. task' = [task EXCEPT ![t] = new]
      BY <2>1 DEF new
    <3>3. QED
      BY <3>1, <3>2, OthersHaveRead DEF IInv
  <2>2. ASSUME task' = [task EXCEPT ![t] =
                          Source!Answered(d, r, Source!Read(d, r[1], r[2]))]
        PROVE  AllHaveRead'
    <3> DEFINE new == Source!Answered(d, r, Source!Read(d, r[1], r[2]))
    <3>1. new.pc = "answered"
      BY DEF Source!Answered
    <3> HIDE DEF new
    <3>2. task' = [task EXCEPT ![t] = new]
      BY <2>2 DEF new
    <3>3. QED
      BY <3>1, <3>2, OthersHaveRead DEF IInv
  <2>3. QED
    BY <1>1, <2>1, <2>2
<1>2. ASSUME NEW t \in Tasks, NEW d \in Docs, NEW r \in Ranges, Begin(t, d, r)
      PROVE  AllHaveRead'
  <2>1. \/ \E n \in Nat :
             task' = [task EXCEPT ![t] =
                        Fetching(d, r, n, Stretch(d, FirstBlock(r), n))]
        \/ task' = [task EXCEPT ![t] =
                      Source!Answered(d, r, Source!Read(d, r[1], r[2]))]
    BY <1>2, BeginReads
  <2>2. QED
    BY <1>1, <2>1
<1>3. ASSUME NEW t \in Tasks, Fetched(t) PROVE AllHaveRead'
  BY <1>1, <1>3, FetchedReads
<1>4. ASSUME NEW t \in Tasks, FetchFailed(t) PROVE AllHaveRead'
  <2> DEFINE new == Source!Failed(task[t].doc, task[t].range)
  <2>1. new.pc = "failed"
    BY DEF Source!Failed
  <2> HIDE DEF new
  <2>2. task' = [task EXCEPT ![t] = new]
    BY <1>4 DEF FetchFailed, new
  <2>3. QED
    BY <2>1, <2>2, OthersHaveRead DEF IInv
<1>5. CASE UNCHANGED vars
  BY <1>5 DEF vars, AllHaveRead, HasRead, Stretch, FirstBlock, Slice, Source!File
<1>6. QED
  BY <1>2, <1>3, <1>4, <1>5 DEF Next

\* The reads as the source sees them.
Seen(q) ==
  IF q.pc = "reading" THEN [pc |-> "reading", doc |-> q.doc, range |-> q.range] ELSE q

Reads == [t \in Tasks |-> Seen(task[t])]

\* A step that sets a task is seen as one that sets its read.
LEMMA StepSeen ==
  ASSUME TypeOK, NEW t \in Tasks, NEW new, task' = [task EXCEPT ![t] = new]
  PROVE  Reads' = [Reads EXCEPT ![t] = Seen(new)]
<1>1. t \in DOMAIN task /\ DOMAIN task = Tasks
  BY DEF TypeOK
<1>2. \A u \in Tasks : task'[u] = IF u = t THEN new ELSE task[u]
  BY <1>1
<1>3. Reads' = [u \in Tasks |-> Seen(task'[u])]
  BY DEF Reads, Seen
<1>4. [Reads EXCEPT ![t] = Seen(new)] = [u \in Tasks |-> IF u = t THEN Seen(new)
                                                       ELSE Seen(task[u])]
  BY DEF Reads
<1>5. QED
  BY <1>2, <1>3, <1>4

\* A step of the cache is a step of the source, or does not show.
LEMMA StepImplements ==
  ASSUME IInv, AllHaveRead, [Next]_vars
  PROVE  \/ \E t \in Tasks :
              \/ \E d \in Docs, r \in Ranges :
                   /\ Reads[t].pc # "reading"
                   /\ \/ Reads' = [Reads EXCEPT ![t] = Source!Reading(d, r)]
                      \/ Reads' = [Reads EXCEPT ![t] =
                           Source!Answered(d, r, Source!Read(d, r[1], r[2]))]
              \/ /\ Reads[t].pc = "reading"
                 /\ Reads' = [Reads EXCEPT ![t] =
                      Source!Answered(Reads[t].doc, Reads[t].range,
                        Source!Read(Reads[t].doc, Reads[t].range[1], Reads[t].range[2]))]
              \/ /\ Reads[t].pc = "reading"
                 /\ Reads' = [Reads EXCEPT ![t] =
                      Source!Failed(Reads[t].doc, Reads[t].range)]
         \/ Reads' = Reads
<1>0. TypeOK
  BY DEF IInv
<1>1. \A d, r, n, got : Seen(Fetching(d, r, n, got)) = Source!Reading(d, r)
  BY DEF Seen, Fetching, Source!Reading
<1>2. \A d, r, data : Seen(Source!Answered(d, r, data)) = Source!Answered(d, r, data)
  BY DEF Seen, Source!Answered
<1>3. \A d, r : Seen(Source!Failed(d, r)) = Source!Failed(d, r)
  BY DEF Seen, Source!Failed
<1>4. \A t \in Tasks :
        /\ task[t].pc = "reading" <=> Reads[t].pc = "reading"
        /\ task[t].pc = "reading" =>
             /\ Reads[t] = Source!Reading(task[t].doc, task[t].range)
             /\ Reads[t].doc = task[t].doc /\ Reads[t].range = task[t].range
  BY DEF Reads, Seen, Source!Reading
<1>5. ASSUME NEW t \in Tasks, NEW d, NEW r,
             \/ \E n \in Nat :
                  task' = [task EXCEPT ![t] =
                             Fetching(d, r, n, Stretch(d, FirstBlock(r), n))]
             \/ task' = [task EXCEPT ![t] =
                           Source!Answered(d, r, Source!Read(d, r[1], r[2]))]
      PROVE  \/ Reads' = [Reads EXCEPT ![t] = Source!Reading(d, r)]
             \/ Reads' = [Reads EXCEPT ![t] =
                            Source!Answered(d, r, Source!Read(d, r[1], r[2]))]
  <2>1. ASSUME NEW n \in Nat,
               task' = [task EXCEPT ![t] =
                          Fetching(d, r, n, Stretch(d, FirstBlock(r), n))]
        PROVE  Reads' = [Reads EXCEPT ![t] = Source!Reading(d, r)]
    <3> DEFINE new == Fetching(d, r, n, Stretch(d, FirstBlock(r), n))
    <3>1. Seen(new) = Source!Reading(d, r)
      BY <1>1
    <3>2. task' = [task EXCEPT ![t] = new]
      BY <2>1
    <3> HIDE DEF new
    <3>3. QED
      BY <1>0, <3>1, <3>2, StepSeen
  <2>2. ASSUME task' = [task EXCEPT ![t] =
                          Source!Answered(d, r, Source!Read(d, r[1], r[2]))]
        PROVE  Reads' = [Reads EXCEPT ![t] =
                           Source!Answered(d, r, Source!Read(d, r[1], r[2]))]
    <3> DEFINE new == Source!Answered(d, r, Source!Read(d, r[1], r[2]))
    <3>1. Seen(new) = new
      BY <1>2
    <3>2. task' = [task EXCEPT ![t] = new]
      BY <2>2
    <3> HIDE DEF new
    <3>3. Reads' = [Reads EXCEPT ![t] = new]
      BY <1>0, <3>1, <3>2, StepSeen
    <3>4. QED
      BY <3>3 DEF new
  <2>3. QED
    BY <1>5, <2>1, <2>2
<1>6. ASSUME NEW t \in Tasks, NEW d \in Docs, NEW r \in Ranges, Begin(t, d, r)
      PROVE  /\ Reads[t].pc # "reading"
             /\ \/ Reads' = [Reads EXCEPT ![t] = Source!Reading(d, r)]
                \/ Reads' = [Reads EXCEPT ![t] =
                     Source!Answered(d, r, Source!Read(d, r[1], r[2]))]
  <2>1. Reads[t].pc # "reading"
    BY <1>4, <1>6 DEF Begin
  <2>2. \/ \E n \in Nat :
             task' = [task EXCEPT ![t] =
                        Fetching(d, r, n, Stretch(d, FirstBlock(r), n))]
        \/ task' = [task EXCEPT ![t] =
                      Source!Answered(d, r, Source!Read(d, r[1], r[2]))]
    BY <1>6, BeginReads
  <2>3. QED
    BY <1>5, <2>1, <2>2
<1>7. ASSUME NEW t \in Tasks, Fetched(t)
      PROVE  \/ Reads' = Reads
             \/ /\ Reads[t].pc = "reading"
                /\ Reads' = [Reads EXCEPT ![t] =
                     Source!Answered(Reads[t].doc, Reads[t].range,
                       Source!Read(Reads[t].doc, Reads[t].range[1], Reads[t].range[2]))]
  <2> DEFINE d == task[t].doc
             r == task[t].range
  <2>1. /\ task[t].pc = "reading" /\ Reads[t].pc = "reading"
        /\ Reads[t] = Source!Reading(d, r)
        /\ Reads[t].doc = d /\ Reads[t].range = r
    BY <1>4, <1>7 DEF Fetched, FetchEnds
  <2>2. \/ \E n \in Nat :
             task' = [task EXCEPT ![t] =
                        Fetching(d, r, n, Stretch(d, FirstBlock(r), n))]
        \/ task' = [task EXCEPT ![t] =
                      Source!Answered(d, r, Source!Read(d, r[1], r[2]))]
    BY <1>7, FetchedReads
  <2> HIDE DEF d, r
  <2>3. \/ Reads' = [Reads EXCEPT ![t] = Source!Reading(d, r)]
        \/ Reads' = [Reads EXCEPT ![t] =
                       Source!Answered(d, r, Source!Read(d, r[1], r[2]))]
    BY <1>5, <2>2
  <2>4. [Reads EXCEPT ![t] = Reads[t]] = Reads
    BY DEF Reads
  <2>5. QED
    BY <2>1, <2>3, <2>4
<1>8. ASSUME NEW t \in Tasks, FetchFailed(t)
      PROVE  /\ Reads[t].pc = "reading"
             /\ Reads' = [Reads EXCEPT ![t] =
                  Source!Failed(Reads[t].doc, Reads[t].range)]
  <2> DEFINE new == Source!Failed(task[t].doc, task[t].range)
  <2>1. /\ Reads[t].pc = "reading"
        /\ Reads[t].doc = task[t].doc /\ Reads[t].range = task[t].range
    BY <1>4, <1>8 DEF FetchFailed, FetchEnds
  <2>2. Seen(new) = new
    BY <1>3
  <2>3. task' = [task EXCEPT ![t] = new]
    BY <1>8 DEF FetchFailed
  <2> HIDE DEF new
  <2>4. Reads' = [Reads EXCEPT ![t] = new]
    BY <1>0, <2>2, <2>3, StepSeen
  <2>5. QED
    BY <2>1, <2>4 DEF new
<1>9. CASE UNCHANGED vars
  BY <1>9 DEF vars, Reads
<1>10. QED
  BY <1>6, <1>7, <1>8, <1>9 DEF Next

LEMMA InitHasRead == Init => AllHaveRead
BY DEF Init, AllHaveRead, HasRead, Source!Idle

\* FilesSourceCached implements DocumentReads: whatever the cache holds, discards
\* and fetches while a read waits, the read is answered with the bytes of its
\* range or fails (files_source.py, reader.py:60-125).
THEOREM ImplementsReads == Spec => ReadsLikeUncached
<1>1. Init => Source!Init
  BY DEF Init, Source!Init, Source!Idle
<1>2. IInv /\ AllHaveRead /\ [Next]_vars =>
        [Source!Next]_[t \in Tasks |-> IF task[t].pc = "reading"
                          THEN [pc |-> "reading", doc |-> task[t].doc,
                                range |-> task[t].range]
                          ELSE task[t]]
  <2>1. Reads' = Reads =>
          UNCHANGED [t \in Tasks |-> IF task[t].pc = "reading"
                          THEN [pc |-> "reading", doc |-> task[t].doc,
                                range |-> task[t].range]
                          ELSE task[t]]
    BY Zenon DEF Reads, Seen
  <2>2. Source!Next <=>
          \E t \in Tasks :
            \/ \E d \in Docs, r \in Ranges :
                 \/ /\ Reads[t].pc # "reading"
                    /\ Reads' = [Reads EXCEPT ![t] = Source!Reading(d, r)]
                 \/ /\ Reads[t].pc # "reading"
                    /\ Reads' = [Reads EXCEPT ![t] =
                         Source!Answered(d, r, Source!Read(d, r[1], r[2]))]
            \/ /\ Reads[t].pc = "reading"
               /\ Reads' = [Reads EXCEPT ![t] =
                    Source!Answered(Reads[t].doc, Reads[t].range,
                      Source!Read(Reads[t].doc, Reads[t].range[1], Reads[t].range[2]))]
            \/ /\ Reads[t].pc = "reading"
               /\ Reads' = [Reads EXCEPT ![t] =
                    Source!Failed(Reads[t].doc, Reads[t].range)]
    BY Zenon DEF Source!Next, Source!Begin, Source!Serve, Source!Answer, Source!Fail,
       Reads, Seen
  <2>3. IInv /\ AllHaveRead /\ [Next]_vars => Source!Next \/ Reads' = Reads
    <3> SUFFICES ASSUME IInv, AllHaveRead, [Next]_vars PROVE Source!Next \/ Reads' = Reads
      OBVIOUS
    <3>1. QED
      BY <2>2, StepImplements, Zenon
  <2>4. QED
    BY <2>1, <2>3, Zenon
<1>3. Spec => []AllHaveRead
  BY InitHasRead, SpecIInv, NextHaveRead, PTL DEF Spec
<1>4. QED
  BY <1>1, <1>2, <1>3, SpecIInv, PTL DEF Spec, ReadsLikeUncached, Source!Spec
=============================================================================
