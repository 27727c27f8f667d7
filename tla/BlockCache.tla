----------------------------- MODULE BlockCache -----------------------------
(***************************************************************************)
(* The block cache of document contents (tgmount/cache): FilesSourceCached *)
(* asks CacheInBlocks for the reader of a document, and the reader serves  *)
(* the range block by block, fetching the blocks its storage has not got.  *)
(* The program is one asyncio loop: a task gives up control only while a   *)
(* fetch is out, so an action runs from one fetch to the next.  While a    *)
(* fetch is out other tasks read, store and discard the same blocks.       *)
(*                                                                         *)
(* The dictionaries of all readers are one function here, keyed by         *)
(* <<document, block number>>.                                             *)
(***************************************************************************)
EXTENDS Integers, Sequences, FiniteSets, SequencesExt

CONSTANTS
  Docs,        \* document ids
  Size,        \* Size[d]: length of the document in bytes
  Tasks,       \* tasks serving a read
  Ranges,      \* the <<offset, limit>> pairs requested
  BlockSize,   \* bytes in a block
  Capacity,    \* bytes the cache may hold
  MaxReads     \* bound: reads started in a run

ASSUME SizeAssumption == Size \in [Docs -> Nat]

ASSUME RangesAssumption == Ranges \subseteq Nat \X Nat

ASSUME BlockSizeAssumption == BlockSize \in Nat \ {0}

ASSUME CapacityAssumption == Capacity \in Nat

ASSUME MaxReadsAssumption == MaxReads \in Nat

VARIABLES
  documents,   \* documents that have a reader (CacheInBlocks._caches)
  blocks,      \* blocks[<<d, b>>]: bytes of block b of document d
  readCount,   \* readCount[<<d, b>>]: times the block was read
  lastRead,    \* lastRead[d]: last_read_time of the reader, 0 for None
  clock,       \* the time: the number of reads that have ended
  task,        \* task[t]: progress of the read task t serves
  started      \* number of reads started

vars == <<documents, blocks, readCount, lastRead, clock, task, started>>

\* The uncached source: what the cache fetches from, and what it promises.
Source == INSTANCE DocumentReads WITH
  req <- [t \in Tasks |-> IF task[t].pc = "reading"
                          THEN [pc |-> "reading", doc |-> task[t].doc,
                                range |-> task[t].range]
                          ELSE task[t]]

\* Variant: the last block is the one before the end of the range.
LastBlockShort(r) == (r[1] + r[2]) \div BlockSize - 1

\* range_blocks: from FirstBlock to LastBlock, which lies after the range when
\* the range ends where a block does.
LastBlock(r) == (r[1] + r[2]) \div BlockSize

FirstBlock(r) == r[1] \div BlockSize

TotalStored == Cardinality(DOMAIN blocks) * BlockSize

Fetching(d, r, next, got) ==
  [pc |-> "reading", doc |-> d, range |-> r, next |-> next, got |-> got]

-----------------------------------------------------------------------------
\* Stored, but an empty block counts as absent: "if block := ...get(...)".
Hit(stored, d, b) == <<d, b>> \in DOMAIN stored /\ stored[<<d, b>>] # <<>>

\* The first block from "from" on that has to be fetched, or the one after
\* the last block of the range.
NextMiss(stored, d, r, from) ==
  CHOOSE m \in from..(LastBlock(r) + 1) :
    /\ m = LastBlock(r) + 1 \/ ~Hit(stored, d, m)
    /\ \A b \in from..(m - 1) : Hit(stored, d, b)

Bytes(stored, d, from, to) ==
  FlattenSeq([i \in 1..(to - from + 1) |-> stored[<<d, from + i - 1>>]])

\* The loop of read_range from block "from" to the next fetch or to the end.
\* "stored" and "count" are the storage and the read counts the loop starts with.
Proceed(t, d, r, from, got, stored, count) ==
  LET miss == NextMiss(stored, d, r, from)
      hits == {<<d, b>> : b \in from..(miss - 1)}
      all  == got \o Bytes(stored, d, from, miss - 1)
  IN  /\ blocks' = stored
      /\ readCount' = [k \in DOMAIN count \cup hits |->
                         (IF k \in DOMAIN count THEN count[k] ELSE 0)
                         + (IF k \in hits THEN 1 ELSE 0)]
      /\ \/ /\ miss <= LastBlock(r)
            /\ task' = [task EXCEPT ![t] = Fetching(d, r, miss, all)]
            /\ UNCHANGED <<lastRead, clock>>
         \/ /\ miss > LastBlock(r)
            /\ task' = [task EXCEPT ![t] =
                 Source!Answered(d, r, Source!Slice(all, r[1] % BlockSize, r[2]))]
            /\ clock' = clock + 1
            /\ lastRead' = [lastRead EXCEPT ![d] = clock + 1]

-----------------------------------------------------------------------------
\* The first of sorted_readers_by_read_time that have anything stored.  The
\* order of readers that were never read to the end is left open.
OldestReaders ==
  LET holding == {k[1] : k \in DOMAIN blocks}
  IN  {d \in holding : \A e \in holding : lastRead[d] <= lastRead[e]}

LeastRead(d) ==
  LET counted == {k \in DOMAIN readCount : k[1] = d}
  IN  {k \in counted : \A j \in counted : readCount[k] <= readCount[j]}

\* What discard_useless_blocks may drop: one block, or nothing.
Discards ==
  LET least(d) == IF LeastRead(d) = {} THEN {{}} ELSE {{k} : k \in LeastRead(d)}
  IN  IF OldestReaders = {} THEN {{}} ELSE UNION {least(d) : d \in OldestReaders}

\* Variant: discards only once the capacity is exceeded.
DiscardsWhenOver == IF TotalStored > Capacity THEN Discards ELSE {{}}

\* Variant: discards all the blocks of the oldest reader.
DiscardsReader ==
  IF TotalStored + BlockSize > Capacity
  THEN {{k \in DOMAIN blocks : k[1] = d} : d \in OldestReaders}
  ELSE {{}}

\* What CacheInBlocks.put_block may drop before it stores a block.
DiscardsForPut ==
  IF TotalStored + BlockSize > Capacity THEN Discards ELSE {{}}

Without(f, ks) == [k \in DOMAIN f \ ks |-> f[k]]

With(f, k, v) == [j \in DOMAIN f \cup {k} |-> IF j = k THEN v ELSE f[j]]

Counted(f, k) == With(f, k, IF k \in DOMAIN f THEN f[k] + 1 ELSE 1)

FetchBlock(d, b) == Source!Read(d, b * BlockSize, BlockSize)

-----------------------------------------------------------------------------
Init ==
  /\ documents = {}
  /\ blocks = <<>>
  /\ readCount = <<>>
  /\ lastRead = [d \in Docs |-> 0]
  /\ clock = 0
  /\ task = [t \in Tasks |-> Source!Idle]
  /\ started = 0

\* Variant: a new reader is not registered.
ReadersUnregistered(d) == documents

\* get_reader: the reader of the document, made when there is none.
ReadersWith(d) == documents \cup {d}

\* FilesSourceCached.read: take the reader of the document, making it if it
\* is not there, and read up to the first fetch.
Begin(t, d, r) ==
  /\ started < MaxReads
  /\ task[t].pc # "reading"
  /\ documents' = ReadersWith(d)
  /\ started' = started + 1
  /\ Proceed(t, d, r, FirstBlock(r), <<>>, blocks, readCount)

\* Variant: a discarded block keeps its read count.
CountsKeepingDropped(key, dropped) == Counted(readCount, key)

\* discard_least_read_block forgets the count, the loop counts the new block.
CountsAfter(key, dropped) == Counted(Without(readCount, dropped), key)

\* Variant: every block is stored under the first number of the range.
KeyOfFirst(q) == <<q.doc, FirstBlock(q.range)>>

StoreKey(q) == <<q.doc, q.next>>

\* Variant: a task leaves the fetch to whoever else fetches the same block.
EndsForOne(t) ==
  /\ task[t].pc = "reading"
  /\ \A u \in Tasks \ {t} :
       task[u].pc = "reading" => StoreKey(task[u]) # StoreKey(task[t])

\* The fetch of a task may end, whatever the others fetch.
FetchEnds(t) == task[t].pc = "reading"

\* A block arrives: it is stored, at the price of another one when the cache
\* is full, and the loop goes on to the next fetch.
Fetched(t) ==
  /\ FetchEnds(t)
  /\ LET q    == task[t]
         key  == StoreKey(q)
         data == FetchBlock(q.doc, q.next)
     IN  \E dropped \in DiscardsForPut :
           Proceed(t, q.doc, q.range, q.next + 1, q.got \o data,
                   With(Without(blocks, dropped), key, data),
                   CountsAfter(key, dropped))
  /\ UNCHANGED <<documents, started>>

\* The fetch raises: the exception leaves read_range, nothing was stored.
FetchFailed(t) ==
  /\ FetchEnds(t)
  /\ task' = [task EXCEPT ![t] = Source!Failed(task[t].doc, task[t].range)]
  /\ UNCHANGED <<documents, blocks, readCount, lastRead, clock, started>>

Next ==
  \E t \in Tasks :
    \/ \E d \in Docs, r \in Ranges : Begin(t, d, r)
    \/ Fetched(t)
    \/ FetchFailed(t)

Spec == Init /\ [][Next]_vars

\* Every fetch comes to an end; whether another read starts is up to the user.
FairSpec == Spec /\ \A t \in Tasks : WF_vars(Fetched(t) \/ FetchFailed(t))

-----------------------------------------------------------------------------
(* Correctness *)

\* The shape of the state: dictionaries with the keys of blocks of documents
\* that have a reader, and tasks that are idle, reading or done.
TypeOK ==
  /\ documents \subseteq Docs
  /\ DOMAIN blocks \subseteq documents \X Nat /\ IsFiniteSet(DOMAIN blocks)
  /\ DOMAIN readCount \subseteq documents \X Nat
  /\ \A k \in DOMAIN readCount : readCount[k] \in Nat \ {0}
  /\ lastRead \in [Docs -> Nat] /\ clock \in Nat
  /\ DOMAIN task = Tasks
  /\ \A t \in Tasks :
       /\ task[t].pc \in {"idle", "reading", "answered", "failed"}
       /\ task[t].pc = "reading" =>
            /\ task[t].doc \in documents
            /\ task[t].range \in Ranges
            /\ task[t].next \in FirstBlock(task[t].range)..LastBlock(task[t].range)
  /\ started \in 0..MaxReads

\* The reader's read counts and its storage hold the same blocks whenever a
\* task is suspended.  discard_least_read_block picks its victim from the
\* counts (reader.py:38) but is called because the storage is not empty
\* (cache_in_blocks.py:183): a stored block without a count could never be
\* discarded, a count without a block would be "discarded" for nothing.
CountsMatchStorage == DOMAIN readCount = DOMAIN blocks

\* The cache never holds more than its capacity, or than one block when the
\* capacity is smaller than that, whatever fetches are out and however often
\* put_block is called for a block that another task stored meanwhile.
CapacityBound ==
  TotalStored <= IF Capacity < BlockSize THEN BlockSize ELSE Capacity

\* What is stored under a block is that block of that document, although the
\* fetch that brought it was started many steps before the put.
StoredBlocksGenuine == \A k \in DOMAIN blocks : blocks[k] = FetchBlock(k[1], k[2])

\* The cache is transparent: every read is answered with what the uncached
\* source would answer, even if its blocks were stored, discarded and stored
\* again by others while it was waiting, and with ranges past the end of file.
ReadsLikeUncached == Source!Spec

\* One arrival costs at most one other block: put_block discards once, not
\* until there is room, and nothing but an arriving block discards.
OneBlockPerDiscard ==
  [][\A k, j \in DOMAIN blocks \ DOMAIN blocks' :
       k = j /\ \E t \in Tasks : task[t].pc = "reading" /\ task'[t] # task[t]]_vars

\* Every read comes to an answer or an error; in particular the empty block at
\* the end of a file, which is never a hit, is not asked for again and again.
ReadsEnd == \A t \in Tasks : task[t].pc = "reading" ~> task[t].pc # "reading"
=============================================================================
