------------------------- MODULE FilesSourceProofs -------------------------
(***************************************************************************)
(* Proofs about FilesSource: its type invariant, that a retry has a fresh  *)
(* reference, and that it implements DocumentReads for any documents,      *)
(* tasks and request size, if the requests for a range reach to its end -- *)
(* which they do for every range that starts on the alignment.             *)
(***************************************************************************)
EXTENDS FilesSource, SequenceLemmas, SequenceTheorems, TLAPS

-----------------------------------------------------------------------------
(* Slices *)

\* Reads slices as the lemmas about slices do.
LEMMA SliceIs ==
  \A s, from, count : Reads!Slice(s, from, count) = Slice(s, from, count)
BY DEF Reads!Slice, Slice

-----------------------------------------------------------------------------
(* Requests *)

LEMMA FileProperties ==
  ASSUME NEW d \in Docs
  PROVE  /\ Reads!File(d) \in Seq({d} \X Nat)
         /\ Len(Reads!File(d)) = Size[d]
         /\ Size[d] \in Nat
<1>1. Size[d] \in Nat
  BY SizeAssumption
<1>2. QED
  BY <1>1 DEF Reads!File

LEMMA AlignedDownBelow ==
  ASSUME NEW x \in Nat
  PROVE  AlignedDown(x) \in Nat /\ AlignedDown(x) <= x
<1>1. x \div Align \in Nat /\ (x \div Align) * Align <= x
  BY DivBounds, RequestsAssumption
<1>2. (x \div Align) * Align \in Nat
  BY <1>1, Products, RequestsAssumption
<1>3. QED
  BY <1>1, <1>2 DEF AlignedDown

LEMMA AlignedUpAbove ==
  ASSUME NEW x \in Nat
  PROVE  AlignedUp(x) \in Nat /\ x <= AlignedUp(x)
<1>1. x \div Align \in Nat /\ x < ((x \div Align) + 1) * Align
  BY DivBounds, RequestsAssumption
<1>2. ((x \div Align) + 1) * Align \in Nat
  BY <1>1, Products, RequestsAssumption
<1>3. QED
  BY <1>1, <1>2 DEF AlignedUp

\* The requests of a range are at least one, and start at or before the range.
LEMMA RequestNumbers ==
  ASSUME NEW r \in Ranges
  PROVE  /\ r[1] \in Nat /\ r[2] \in Nat
         /\ FirstRequest(r) \in Nat /\ LastRequest(r) \in Nat
         /\ Requests(r) \in Nat /\ Requests(r) >= 1
         /\ Start(r) \in Nat /\ Start(r) <= r[1]
         /\ Start(r) + Requests(r) * RequestSize = (LastRequest(r) + 1) * RequestSize
<1> DEFINE a == AlignedDown(r[1])
           u == AlignedUp(r[2])
<1>1. r[1] \in Nat /\ r[2] \in Nat /\ r[2] >= 1
  BY RangesAssumption
<1>2. a \in Nat /\ a <= r[1] /\ u \in Nat /\ u >= 1
  BY <1>1, AlignedDownBelow, AlignedUpAbove
<1> HIDE DEF a, u
<1>3. /\ a \div RequestSize \in Nat
      /\ (a \div RequestSize) * RequestSize <= a
      /\ a < ((a \div RequestSize) + 1) * RequestSize
  BY <1>2, DivBounds, RequestsAssumption
<1>4. /\ a + u - 1 \in Nat
      /\ (a + u - 1) \div RequestSize \in Nat
      /\ a + u - 1 < (((a + u - 1) \div RequestSize) + 1) * RequestSize
  <2>1. a + u - 1 \in Nat
    BY <1>2
  <2>2. QED
    BY <2>1, DivBounds, RequestsAssumption
<1>5. FirstRequest(r) = a \div RequestSize
  BY DEF FirstRequest, a
<1>6. LastRequest(r) = (a + u - 1) \div RequestSize
  BY DEF LastRequest, a, u
<1> DEFINE f == FirstRequest(r)
           l == LastRequest(r)
<1>7. f \in Nat /\ l \in Nat /\ f * RequestSize <= a /\ a < (l + 1) * RequestSize
  BY <1>2, <1>3, <1>4, <1>5, <1>6, Products, RequestsAssumption
<1>8. /\ Start(r) = f * RequestSize
      /\ Requests(r) = l - f + 1
  BY DEF Start, Requests
<1> HIDE DEF f, l
<1>9. f <= l
  <2>1. ASSUME ~(f <= l) PROVE FALSE
    <3>1. l + 1 <= f
      BY <2>1, <1>7
    <3>2. (l + 1) * RequestSize <= f * RequestSize
      BY <3>1, <1>7, Products, RequestsAssumption
    <3>3. (l + 1) * RequestSize \in Nat /\ f * RequestSize \in Nat
      BY <1>7, Products, RequestsAssumption
    <3>4. QED
      BY <3>2, <3>3, <1>2, <1>7
  <2>2. QED
    BY <2>1
<1>10. f * RequestSize + (l - f + 1) * RequestSize = (l + 1) * RequestSize
  <2>1. l - f + 1 \in Int /\ f + (l - f + 1) = l + 1
    BY <1>7
  <2>2. QED
    BY <2>1, <1>7, Products, RequestsAssumption
<1>11. Start(r) \in Nat /\ Start(r) <= r[1]
  <2>1. f * RequestSize \in Nat
    BY <1>7, Products, RequestsAssumption
  <2>2. QED
    BY <2>1, <1>1, <1>2, <1>7, <1>8
<1>12. QED
  BY <1>1, <1>7, <1>8, <1>9, <1>10, <1>11 DEF f, l

\* The requests reach to the end of every range that starts on the alignment
\* (tgclient/source/util.py:19-29), as the kernel and the cache ask for.
THEOREM AlignedCovered ==
  ASSUME NEW r \in Ranges, r[1] % Align = 0
  PROVE  Covered(r)
<1> DEFINE u == AlignedUp(r[2])
<1>1. r[1] \in Nat /\ r[2] \in Nat /\ r[2] >= 1
  BY RangesAssumption
<1>2. AlignedDown(r[1]) = r[1]
  BY <1>1, RequestsAssumption DEF AlignedDown
<1>3. u \in Nat /\ r[2] <= u
  BY <1>1, AlignedUpAbove
<1>4. LastRequest(r) = (r[1] + u - 1) \div RequestSize
  BY <1>2 DEF LastRequest
<1> HIDE DEF u
<1>5. r[1] + u - 1 \in Nat
  BY <1>1, <1>3
<1>6. r[1] + u - 1 < (((r[1] + u - 1) \div RequestSize) + 1) * RequestSize
  BY <1>5, DivBounds, RequestsAssumption
<1>7. (((r[1] + u - 1) \div RequestSize) + 1) * RequestSize \in Nat
  BY <1>5, DivBounds, Products, RequestsAssumption
<1>8. QED
  BY <1>1, <1>3, <1>4, <1>6, <1>7 DEF Covered

-----------------------------------------------------------------------------
(* The inductive invariant *)

\* A download has as much of the document as it has had answers: every request
\* but the last is answered in full.
Downloaded(t) ==
  job[t].pc = "download" =>
    LET r == req[t].range
        m == job[t].chunks * RequestSize
    IN  /\ job[t].got = Reads!Slice(Reads!File(req[t].doc), Start(r), m)
        /\ m = 0 \/ Start(r) + m <= Size[req[t].doc]

IInv == TypeOK /\ \A t \in Tasks : Downloaded(t)

LEMMA InitIInv == Init => IInv
<1> SUFFICES ASSUME Init PROVE IInv
  OBVIOUS
<1>1. TypeOK
  BY ExpiriesAssumption DEF Init, TypeOK, Reads!Idle, NoJob, Fetched
<1>2. \A t \in Tasks : job[t].pc # "download"
  BY DEF Init, NoJob
<1>3. QED
  BY <1>1, <1>2 DEF IInv, Downloaded

\* Nothing is downloaded of a range whose first request is not answered yet.
LEMMA NothingDownloaded ==
  ASSUME NEW d \in Docs, NEW r \in Ranges
  PROVE  Reads!Slice(Reads!File(d), Start(r), 0) = <<>>
<1> DEFINE c == Reads!Slice(Reads!File(d), Start(r), 0)
<1>1. Start(r) \in Nat /\ Size[d] \in Nat
  BY RequestNumbers, FileProperties
<1>2. c \in Seq({d} \X Nat) /\ Len(c) = 0
  <2>1. 0 \in Nat /\ Reads!File(d) \in Seq({d} \X Nat) /\ Len(Reads!File(d)) = Size[d]
    BY FileProperties
  <2>2. /\ c \in Seq({d} \X Nat)
        /\ Len(c) = IF Start(r) + 0 < Len(Reads!File(d)) THEN 0
                    ELSE IF Start(r) <= Len(Reads!File(d))
                         THEN Len(Reads!File(d)) - Start(r) ELSE 0
    BY <1>1, <2>1, SliceProperties, SliceIs
  <2> HIDE DEF c
  <2>3. QED
    BY <1>1, <2>1, <2>2
<1> HIDE DEF c
<1>3. c = <<>>
  BY <1>2, EmptySeq
<1>4. QED
  BY <1>3 DEF c

\* What is known of a request that is answered while a download goes on.
LEMMA PieceProperties ==
  ASSUME IInv, NEW t \in Tasks, job[t].pc = "download"
  PROVE  LET d == req[t].doc  r == req[t].range  c == job[t].chunks
         IN  /\ d \in Docs /\ r \in Ranges /\ c \in Nat
             /\ c + 1 <= Requests(r)
             /\ (c + 1) * RequestSize \in Nat
             /\ job[t].got \o Piece(t)
                  = Reads!Slice(Reads!File(d), Start(r), (c + 1) * RequestSize)
             /\ Len(Piece(t)) >= RequestSize
                  => Start(r) + (c + 1) * RequestSize <= Size[d]
             /\ Len(Piece(t)) < RequestSize
                  => Size[d] <= Start(r) + (c + 1) * RequestSize
<1> DEFINE d == req[t].doc
           r == req[t].range
           c == job[t].chunks
           m == c * RequestSize
           s == Reads!File(d)
           S == {d} \X Nat
           piece == Reads!Slice(s, Start(r) + m, RequestSize)
<1>1. d \in Docs /\ r \in Ranges /\ c \in 0..(Requests(r) - 1)
  BY DEF IInv, TypeOK
<1>2. Start(r) \in Nat /\ Requests(r) \in Nat
  BY <1>1, RequestNumbers
<1>3. c \in Nat /\ c + 1 <= Requests(r)
  BY <1>1, <1>2
<1>4. RequestSize \in Nat /\ RequestSize > 0
  BY RequestsAssumption
<1>5. m \in Nat /\ (c + 1) * RequestSize = m + RequestSize
  <2>1. c * RequestSize + 1 * RequestSize = (c + 1) * RequestSize
    BY <1>3, <1>4, Products
  <2>2. c * RequestSize \in Nat
    BY <1>3, <1>4, Products
  <2>3. QED
    BY <2>1, <2>2, <1>4
<1>6. /\ job[t].got = Reads!Slice(s, Start(r), m)
      /\ m = 0 \/ Start(r) + m <= Size[d]
  BY DEF IInv, Downloaded
<1>7. s \in Seq(S) /\ Len(s) = Size[d] /\ Size[d] \in Nat
  BY <1>1, FileProperties
<1>8. Piece(t) = piece
  BY DEF Piece
<1> HIDE DEF d, r, c, m, s, S
<1>9. job[t].got \o piece = Reads!Slice(s, Start(r), m + RequestSize)
  <2>1. Reads!Slice(s, Start(r), m) \o Reads!Slice(s, Start(r) + m, RequestSize)
          = Reads!Slice(s, Start(r), m + RequestSize)
    <3>1. s \in Seq(S) /\ Start(r) \in Nat /\ m \in Nat /\ RequestSize \in Nat
      BY <1>2, <1>4, <1>5, <1>7
    <3>2. Joins(s, Start(r), m, RequestSize)
      BY <3>1, SlicesJoin
    <3>3. QED
      BY <3>2, SliceIs DEF Joins
  <2>2. QED
    BY <2>1, <1>6, Zenon DEF piece
<1>10. Len(piece) = IF (Start(r) + m) + RequestSize < Len(s) THEN RequestSize
                    ELSE IF Start(r) + m <= Len(s)
                         THEN Len(s) - (Start(r) + m) ELSE 0
  <2>1. Start(r) + m \in Nat
    BY <1>2, <1>5
  <2>2. QED
    BY <2>1, <1>4, <1>7, SliceProperties, SliceIs
<1> HIDE DEF piece
<1>11. Len(piece) >= RequestSize => Start(r) + (m + RequestSize) <= Size[d]
  BY <1>2, <1>4, <1>5, <1>7, <1>10
<1>12. Len(piece) < RequestSize => Size[d] <= Start(r) + (m + RequestSize)
  BY <1>2, <1>4, <1>5, <1>7, <1>10
<1>13. (c + 1) * RequestSize \in Nat
  BY <1>4, <1>5
<1>14. /\ d \in Docs /\ r \in Ranges /\ c \in Nat
       /\ c + 1 <= Requests(r)
       /\ (c + 1) * RequestSize \in Nat
       /\ job[t].got \o Piece(t)
            = Reads!Slice(s, Start(r), (c + 1) * RequestSize)
       /\ Len(Piece(t)) >= RequestSize
            => Start(r) + (c + 1) * RequestSize <= Size[d]
       /\ Len(Piece(t)) < RequestSize
            => Size[d] <= Start(r) + (c + 1) * RequestSize
  BY <1>1, <1>3, <1>5, <1>8, <1>9, <1>11, <1>12, <1>13
<1>15. QED
  BY <1>14 DEF d, r, c, s

\* The bytes cut out of a finished download are those of the range, if the
\* requests for the range reach to its end.
LEMMA AnswerExact ==
  ASSUME IInv, NEW t \in Tasks, job[t].pc = "download", IsLast(t),
         Covered(req[t].range)
  PROVE  LET d == req[t].doc  r == req[t].range
         IN  Reads!Slice(job[t].got \o Piece(t), r[1] - Start(r), r[2])
               = Reads!Read(d, r[1], r[2])
<1> DEFINE d == req[t].doc
           r == req[t].range
           c == job[t].chunks
           n == (c + 1) * RequestSize
           s == Reads!File(d)
           S == {d} \X Nat
           k == r[1] - Start(r)
<1>1. /\ d \in Docs /\ r \in Ranges /\ c \in Nat /\ n \in Nat
      /\ c + 1 <= Requests(r)
      /\ job[t].got \o Piece(t) = Reads!Slice(s, Start(r), n)
      /\ Len(Piece(t)) < RequestSize => Size[d] <= Start(r) + n
  BY PieceProperties
<1>2. /\ r[1] \in Nat /\ r[2] \in Nat /\ Start(r) \in Nat /\ Start(r) <= r[1]
      /\ Start(r) + Requests(r) * RequestSize = (LastRequest(r) + 1) * RequestSize
  BY <1>1, RequestNumbers
<1>3. c + 1 = Requests(r) => r[1] + r[2] <= Start(r) + n
  BY <1>2 DEF Covered
<1>4. s \in Seq(S) /\ Len(s) = Size[d] /\ Size[d] \in Nat
  BY <1>1, FileProperties
<1>5. c + 1 = Requests(r) \/ Len(Piece(t)) < RequestSize
  BY DEF IsLast, AllRequested
<1>6. k \in Nat /\ Start(r) + k = r[1]
  BY <1>2
<1>7. Reads!Slice(s, r[1], r[2]) = Reads!Read(d, r[1], r[2])
  BY DEF Reads!Read
<1> HIDE DEF d, r, c, n, s, S
<1>8. k + r[2] <= n \/ Len(s) <= Start(r) + n
  BY <1>1, <1>2, <1>3, <1>4, <1>5
<1> HIDE DEF k
<1>9. Reads!Slice(Reads!Slice(s, Start(r), n), k, r[2])
        = Reads!Slice(s, Start(r) + k, r[2])
  <2> DEFINE b == Start(r)
             x == r[2]
  <2>1. /\ s \in Seq(S) /\ b \in Nat /\ n \in Nat /\ k \in Nat /\ x \in Nat
        /\ k + x <= n \/ Len(s) <= b + n
    BY <1>1, <1>2, <1>4, <1>6, <1>8
  <2> HIDE DEF b, x
  <2>2. Reads!Slice(Reads!Slice(s, b, n), k, x) = Reads!Slice(s, b + k, x)
    <3>1. s \in Seq(S)
      BY <2>1
    <3>2. b \in Nat /\ n \in Nat /\ k \in Nat /\ x \in Nat
      BY <2>1
    <3>3. Holds(s, b, n, k, x)
      BY <2>1 DEF Holds
    <3>4. QED
      BY <3>1, <3>2, <3>3, SliceOfSlice, SliceIs
  <2>3. QED
    BY <2>2 DEF b, x
<1>10. Reads!Slice(job[t].got \o Piece(t), k, r[2]) = Reads!Read(d, r[1], r[2])
  BY <1>1, <1>6, <1>7, <1>9
<1>11. QED
  BY <1>10 DEF d, r, k

-----------------------------------------------------------------------------
(* Every step preserves the invariant *)

LEMMA BeginIInv ==
  ASSUME IInv, NEW t \in Tasks, NEW d \in Docs, NEW r \in Ranges, Begin(t, d, r)
  PROVE  IInv'
<1> USE DEF IInv
<1>1. /\ req' = [req EXCEPT ![t] = Reads!Reading(d, r)]
      /\ \E reference :
           job' = [job EXCEPT ![t] = Download(reference, <<>>, 0, FALSE, accepted[d])]
      /\ UNCHANGED <<fileReferences, accepted, holds>>
  BY DEF Begin
<1>2. Requests(r) \in Nat /\ Requests(r) >= 1
  BY RequestNumbers
<1>3. TypeOK'
  BY <1>1, <1>2 DEF TypeOK, Reads!Reading, Download
<1>4. ASSUME NEW u \in Tasks PROVE Downloaded(u)'
  <2>1. CASE u = t
    <3>1. /\ req[t]'.doc = d /\ req[t]'.range = r
          /\ job[t]'.got = <<>> /\ job[t]'.chunks = 0
      BY <1>1 DEF TypeOK, Reads!Reading, Download
    <3>2. Reads!Slice(Reads!File(d), Start(r), 0) = <<>>
      BY NothingDownloaded
    <3>3. 0 * RequestSize = 0
      BY RequestsAssumption
    <3>4. QED
      BY <2>1, <3>1, <3>2, <3>3 DEF Downloaded
  <2>2. CASE u # t
    <3>1. req[u]' = req[u] /\ job[u]' = job[u]
      BY <2>2, <1>1 DEF TypeOK
    <3>2. QED
      BY <3>1 DEF Downloaded
  <2>3. QED
    BY <2>1, <2>2
<1>5. QED
  BY <1>3, <1>4

\* A step of a read leaves the other downloads alone; a read that does not
\* download after it has nothing to show.
LEMMA OthersDownloaded ==
  ASSUME IInv, NEW t \in Tasks,
         \A u \in Tasks \ {t} : req'[u] = req[u] /\ job'[u] = job[u],
         job[t]'.pc = "download" => Downloaded(t)'
  PROVE  \A u \in Tasks : Downloaded(u)'
<1> SUFFICES ASSUME NEW u \in Tasks PROVE Downloaded(u)'
  OBVIOUS
<1>1. CASE u = t
  BY <1>1 DEF Downloaded
<1>2. CASE u # t
  BY <1>2 DEF IInv, Downloaded
<1>3. QED
  BY <1>1, <1>2

LEMMA ChunkIInv ==
  ASSUME IInv, NEW t \in Tasks, Chunk(t)
  PROVE  IInv'
<1> DEFINE d == req[t].doc
           r == req[t].range
           c == job[t].chunks
<1>1. job[t].pc = "download" /\ ~IsLast(t)
  BY DEF Chunk, Accepts
<1>2. /\ d \in Docs /\ r \in Ranges /\ c \in Nat /\ c + 1 <= Requests(r)
      /\ job[t].got \o Piece(t)
           = Reads!Slice(Reads!File(d), Start(r), (c + 1) * RequestSize)
      /\ Len(Piece(t)) >= RequestSize
           => Start(r) + (c + 1) * RequestSize <= Size[d]
      /\ Len(Piece(t)) \in Nat
  <2>1. d \in Docs /\ r \in Ranges /\ c \in Nat
    BY <1>1, PieceProperties
  <2>2. Start(r) + c * RequestSize \in Nat /\ RequestSize \in Nat
    BY <2>1, RequestNumbers, Products, RequestsAssumption
  <2>3. Piece(t) \in Seq({d} \X Nat)
    BY <2>1, <2>2, FileProperties, SliceProperties, SliceIs DEF Piece
  <2>4. QED
    BY <1>1, <2>3, LenProperties, PieceProperties
<1>3. /\ c + 1 # Requests(r)
      /\ Len(Piece(t)) >= RequestSize
  BY <1>1, <1>2, RequestsAssumption DEF IsLast, AllRequested
<1>4. DOMAIN job = Tasks
  BY DEF IInv, TypeOK
<1>5. job[t]' = Download(job[t].reference, job[t].got \o Piece(t), c + 1,
                         job[t].retried, job[t].begun)
  BY <1>4 DEF Chunk
<1>6. /\ req' = req
      /\ \A u \in Tasks \ {t} : job[u]' = job[u]
      /\ DOMAIN job' = Tasks
      /\ UNCHANGED <<fileReferences, accepted, holds>>
  BY <1>4 DEF Chunk
<1> HIDE DEF d, r, c
<1>7. Requests(r) \in Nat /\ c + 1 \in 0..(Requests(r) - 1)
  <2>1. Requests(r) \in Nat
    BY <1>2, RequestNumbers
  <2>2. QED
    BY <2>1, <1>2, <1>3
<1>8. /\ job[t]'.pc = "download" /\ job[t]'.chunks = c + 1
      /\ job[t]'.got = job[t].got \o Piece(t)
  BY <1>5 DEF Download
<1>9. TypeOK'
  BY <1>1, <1>6, <1>7, <1>8 DEF IInv, TypeOK, d, r
<1>10. Downloaded(t)'
  BY <1>2, <1>3, <1>6, <1>8 DEF Downloaded, d, r
<1>11. QED
  BY <1>6, <1>9, <1>10, OthersDownloaded DEF IInv

LEMMA LastChunkIInv ==
  ASSUME IInv, NEW t \in Tasks, LastChunk(t)
  PROVE  IInv'
<1>1. /\ DOMAIN req' = Tasks /\ DOMAIN job' = Tasks
      /\ req[t]'.pc = "answered" /\ job[t]'.pc = "none"
      /\ \A u \in Tasks \ {t} : req'[u] = req[u] /\ job'[u] = job[u]
      /\ UNCHANGED <<fileReferences, accepted, holds>>
  BY DEF IInv, TypeOK, NoJob, LastChunk, Reads!Answered
<1>2. TypeOK'
  BY <1>1 DEF IInv, TypeOK
<1>3. QED
  BY <1>1, <1>2, OthersDownloaded DEF IInv

\* A read that fails, for whatever reason.
LEMMA FailedIInv ==
  ASSUME IInv, NEW t \in Tasks, Failed(t), UNCHANGED <<fileReferences, accepted, holds>>
  PROVE  IInv'
<1>1. /\ DOMAIN req' = Tasks /\ DOMAIN job' = Tasks
      /\ req[t]'.pc = "failed" /\ job[t]'.pc = "none"
      /\ \A u \in Tasks \ {t} : req'[u] = req[u] /\ job'[u] = job[u]
      /\ UNCHANGED <<fileReferences, accepted, holds>>
  BY DEF IInv, TypeOK, NoJob, Failed, Reads!Failed
<1>2. TypeOK'
  BY <1>1 DEF IInv, TypeOK
<1>3. QED
  BY <1>1, <1>2, OthersDownloaded DEF IInv

\* A read asks for the message, or its answer is on the way.
LEMMA RefetchingIInv ==
  ASSUME IInv, NEW t \in Tasks, Rejected(t) \/ Served(t)
  PROVE  IInv'
<1>1. /\ DOMAIN job' = Tasks /\ job[t].pc # "none"
      /\ job[t]'.pc \in {"refetch", "answer"}
      /\ \A u \in Tasks \ {t} : req'[u] = req[u] /\ job'[u] = job[u]
      /\ UNCHANGED <<req, fileReferences, accepted, holds>>
  BY DEF IInv, TypeOK, Rejected, Served, IsRejected, Refetch, Answer
<1>2. TypeOK'
  BY <1>1 DEF IInv, TypeOK
<1>3. QED
  BY <1>1, <1>2, OthersDownloaded DEF IInv

\* The download starts over, with nothing.
LEMMA RefetchedIInv ==
  ASSUME IInv, NEW t \in Tasks, Refetched(t)
  PROVE  IInv'
<1> DEFINE d == req[t].doc
           r == req[t].range
<1>1. job[t].pc = "answer" /\ UNCHANGED <<req, accepted, holds>>
  BY DEF Refetched
<1>2. d \in Docs /\ r \in Ranges
  BY <1>1 DEF IInv, TypeOK
<1>3. DOMAIN fileReferences' \subseteq Docs
  BY <1>2 DEF Refetched, With, IInv, TypeOK
<1>4. Requests(r) \in Nat /\ Requests(r) >= 1
  BY <1>2, RequestNumbers
<1>5. /\ job[t]'.pc = "download" /\ job[t]'.chunks = 0 /\ job[t]'.got = <<>>
      /\ \A u \in Tasks \ {t} : req'[u] = req[u] /\ job'[u] = job[u]
      /\ DOMAIN job' = Tasks
  BY DEF IInv, TypeOK, Refetched, DataForRetry, Download
<1> HIDE DEF d, r
<1>6. TypeOK'
  <2>1. 0 \in 0..(Requests(r) - 1)
    BY <1>4
  <2>2. job[t]'.chunks \in 0..(Requests(req[t]'.range) - 1) /\ req'[t].pc = "reading"
    BY <2>1, <1>1, <1>5 DEF r, IInv, TypeOK
  <2>3. QED
    BY <2>2, <1>1, <1>2, <1>3, <1>5 DEF IInv, TypeOK, d, r
<1>7. Reads!Slice(Reads!File(d), Start(r), 0) = <<>>
  BY <1>2, NothingDownloaded
<1>8. 0 * RequestSize = 0
  BY RequestsAssumption
<1>9. Downloaded(t)'
  BY <1>1, <1>5, <1>7, <1>8 DEF Downloaded, d, r
<1>10. QED
  BY <1>5, <1>6, <1>9, OthersDownloaded DEF IInv

LEMMA NextIInv == IInv /\ [Next]_vars => IInv'
<1> SUFFICES ASSUME IInv, [Next]_vars PROVE IInv'
  OBVIOUS
<1>1. ASSUME NEW t \in Tasks, NEW d \in Docs, NEW r \in Ranges, Begin(t, d, r)
      PROVE  IInv'
  BY <1>1, BeginIInv
<1>2. ASSUME NEW t \in Tasks, Chunk(t) PROVE IInv'
  BY <1>2, ChunkIInv
<1>3. ASSUME NEW t \in Tasks, LastChunk(t) PROVE IInv'
  BY <1>3, LastChunkIInv
<1>4. ASSUME NEW t \in Tasks, Rejected(t) \/ Served(t) PROVE IInv'
  BY <1>4, RefetchingIInv
<1>5. ASSUME NEW t \in Tasks, RejectedAgain(t) \/ NothingLeft(t) \/ NetworkFails(t)
      PROVE  IInv'
  BY <1>5, FailedIInv DEF RejectedAgain, NothingLeft, NetworkFails
<1>6. ASSUME NEW t \in Tasks, Refetched(t) PROVE IInv'
  BY <1>6, RefetchedIInv
<1>7. ASSUME NEW d \in Docs, Expire(d) PROVE IInv'
  <2>1. accepted' \in [Docs -> 0..MaxExpiries]
    BY <1>7, ExpiriesAssumption DEF Expire, IInv, TypeOK
  <2>2. TypeOK' /\ \A t \in Tasks : Downloaded(t)'
    BY <1>7, <2>1 DEF Expire, IInv, TypeOK, Downloaded
  <2>3. QED
    BY <2>2 DEF IInv
<1>8. ASSUME NEW d \in Docs, NEW left \in {"other", "nothing"}, Lose(d, left)
      PROVE  IInv'
  <2>1. holds' \in [Docs -> {"same", "other", "nothing"}]
    BY <1>8 DEF Lose, IInv, TypeOK
  <2>2. TypeOK' /\ \A t \in Tasks : Downloaded(t)'
    BY <1>8, <2>1 DEF Lose, IInv, TypeOK, Downloaded
  <2>3. QED
    BY <2>2 DEF IInv
<1>9. CASE UNCHANGED vars
  BY <1>9 DEF vars, IInv, TypeOK, Downloaded
<1>10. QED
  BY <1>1, <1>2, <1>3, <1>4, <1>5, <1>6, <1>7, <1>8, <1>9 DEF Next, Progress

LEMMA SpecIInv == Spec => []IInv
BY InitIInv, NextIInv, PTL DEF Spec

-----------------------------------------------------------------------------
(* The theorems *)

\* A read that is going on has downloaded less than it asks for in all, and one
\* that is over has no job left behind it, for any documents, ranges, request
\* size and number of tasks (files_source.py:129-205).
THEOREM TypeCorrect == Spec => []TypeOK
<1>1. IInv => TypeOK
  BY DEF IInv
<1>2. QED
  BY <1>1, SpecIInv, PTL

\* A step of a read is a step of DocumentReads, or does not show.
LEMMA StepReads ==
  (\A r \in Ranges : Covered(r)) /\ IInv /\ [Next]_vars => [Reads!Next]_req
<1> SUFFICES ASSUME \A r \in Ranges : Covered(r), IInv, [Next]_vars
             PROVE  Reads!Next \/ req' = req
  BY DEF Reads!Next
<1>1. ASSUME NEW t \in Tasks, NEW d \in Docs, NEW r \in Ranges, Begin(t, d, r)
      PROVE  Reads!Begin(t, d, r)
  BY <1>1 DEF Begin, Reads!Begin
<1>2. ASSUME NEW t \in Tasks, LastChunk(t) PROVE Reads!Answer(t)
  <2>1. /\ job[t].pc = "download" /\ IsLast(t)
        /\ req' = [req EXCEPT ![t] =
                     Reads!Answered(req[t].doc, req[t].range,
                       Reads!Slice(job[t].got \o Piece(t),
                                   req[t].range[1] - Start(req[t].range),
                                   req[t].range[2]))]
    BY <1>2 DEF LastChunk, Accepts
  <2>2. req[t].range \in Ranges /\ req[t].pc = "reading"
    BY <2>1 DEF IInv, TypeOK
  <2>3. Reads!Slice(job[t].got \o Piece(t),
                    req[t].range[1] - Start(req[t].range), req[t].range[2])
          = Reads!Read(req[t].doc, req[t].range[1], req[t].range[2])
    BY <2>1, <2>2, AnswerExact
  <2>4. QED
    BY <2>1, <2>2, <2>3, Zenon DEF Reads!Answer
<1>3. ASSUME NEW t \in Tasks, RejectedAgain(t) \/ NothingLeft(t) \/ NetworkFails(t)
      PROVE  Reads!Fail(t)
  <2>1. Failed(t) /\ job[t].pc # "none"
    BY <1>3 DEF RejectedAgain, IsRejected, NothingLeft, NetworkFails
  <2>2. QED
    BY <2>1 DEF Failed, Reads!Fail, IInv, TypeOK
<1>4. ASSUME NEW t \in Tasks, Chunk(t) \/ Rejected(t) \/ Served(t) \/ Refetched(t)
      PROVE  req' = req
  BY <1>4 DEF Chunk, Rejected, Served, Refetched
<1>5. ASSUME NEW d \in Docs, Expire(d) \/ \E left \in {"other", "nothing"} : Lose(d, left)
      PROVE  req' = req
  BY <1>5 DEF Expire, Lose
<1>6. CASE UNCHANGED vars
  BY <1>6 DEF vars
<1>7. QED
  BY <1>1, <1>2, <1>3, <1>4, <1>5, <1>6 DEF Next, Progress, Reads!Next

\* Reading from Telegram implements DocumentReads: however often references
\* expire and reads refetch them, a read is answered with the bytes of its range
\* or fails -- if the requests reach to the end of every range.
THEOREM ImplementsReads ==
  ASSUME \A r \in Ranges : Covered(r)
  PROVE  Spec => ReadsExact
<1>1. Init => Reads!Init
  BY DEF Init, Reads!Init
<1>2. IInv /\ [Next]_vars => [Reads!Next]_req
  BY StepReads
<1>3. QED
  BY <1>1, <1>2, SpecIInv, PTL DEF Spec, ReadsExact, Reads!Spec

-----------------------------------------------------------------------------
(* Retries *)

\* A reference that a read has asked for is at least as new as the one that was
\* accepted when it began, unless the message has lost the document.
Fresh(t) ==
  job[t].pc # "none" =>
    LET d == req[t].doc  j == job[t]
    IN  /\ j.begun \in 0..accepted[d]
        /\ j.pc = "answer" =>
             /\ holds[d] = "same" => j.message = "same"
             /\ j.message = "same" => j.reference >= j.begun
        /\ j.pc = "download" /\ j.retried /\ holds[d] = "same" =>
             j.reference >= j.begun

AllFresh == \A t \in Tasks : Fresh(t)

LEMMA OthersFresh ==
  ASSUME AllFresh, NEW t \in Tasks, UNCHANGED <<accepted, holds>>,
         \A u \in Tasks \ {t} : req'[u] = req[u] /\ job'[u] = job[u],
         Fresh(t)'
  PROVE  AllFresh'
<1> SUFFICES ASSUME NEW u \in Tasks PROVE Fresh(u)'
  BY DEF AllFresh
<1>1. CASE u = t
  BY <1>1
<1>2. CASE u # t
  BY <1>2 DEF AllFresh, Fresh
<1>3. QED
  BY <1>1, <1>2

LEMMA RefetchedFresh ==
  ASSUME TypeOK, AllFresh, NEW t \in Tasks, Refetched(t)
  PROVE  AllFresh'
<1> DEFINE d == req[t].doc
           a == job[t]
           known == IF a.message = "same" THEN With(fileReferences, d, a.reference)
                    ELSE fileReferences
<1>1. /\ a.pc = "answer"
      /\ UNCHANGED <<req, accepted, holds>>
      /\ job' = [job EXCEPT ![t] = Download(Reference(known, d), DataForRetry(a.got),
                                            0, TRUE, a.begun)]
  BY DEF Refetched
<1>2. a.message = "same" => Reference(known, d) = a.reference
  BY DEF Reference, With
<1> HIDE DEF known
<1>3. /\ job[t]'.pc = "download" /\ job[t]'.begun = a.begun
      /\ job[t]'.reference = Reference(known, d)
      /\ \A u \in Tasks \ {t} : req'[u] = req[u] /\ job'[u] = job[u]
  BY <1>1 DEF TypeOK, Download
<1>4. Fresh(t)
  BY DEF AllFresh
<1>5. Fresh(t)'
  BY <1>1, <1>2, <1>3, <1>4 DEF Fresh
<1>6. QED
  BY <1>1, <1>3, <1>5, OthersFresh

LEMMA NextFresh == TypeOK /\ AllFresh /\ [Next]_vars => AllFresh'
<1> SUFFICES ASSUME TypeOK, AllFresh, [Next]_vars PROVE AllFresh'
  OBVIOUS
<1>1. ASSUME NEW t \in Tasks, NEW d \in Docs, NEW r \in Ranges, Begin(t, d, r)
      PROVE  AllFresh'
  <2>1. /\ req[t]'.doc = d /\ job[t]'.pc = "download"
        /\ job[t]'.begun = accepted[d] /\ job[t]'.retried = FALSE
        /\ \A u \in Tasks \ {t} : req'[u] = req[u] /\ job'[u] = job[u]
        /\ UNCHANGED <<accepted, holds>>
    BY <1>1 DEF TypeOK, Begin, Reads!Reading, Download
  <2>2. accepted[d] \in 0..accepted[d]
    BY ExpiriesAssumption DEF TypeOK
  <2>3. Fresh(t)'
    BY <2>1, <2>2 DEF Fresh
  <2>4. QED
    BY <2>1, <2>3, OthersFresh
<1>2. ASSUME NEW t \in Tasks, Chunk(t) PROVE AllFresh'
  <2>1. /\ job[t].pc = "download" /\ job[t]'.pc = "download"
        /\ job[t]'.reference = job[t].reference /\ job[t]'.retried = job[t].retried
        /\ job[t]'.begun = job[t].begun
        /\ \A u \in Tasks \ {t} : req'[u] = req[u] /\ job'[u] = job[u]
        /\ UNCHANGED <<req, accepted, holds>>
    BY <1>2 DEF TypeOK, Chunk, Accepts, Download
  <2>2. Fresh(t)'
    BY <2>1 DEF AllFresh, Fresh
  <2>3. QED
    BY <2>1, <2>2, OthersFresh
<1>3. ASSUME NEW t \in Tasks,
             LastChunk(t) \/ RejectedAgain(t) \/ NothingLeft(t) \/ NetworkFails(t)
      PROVE  AllFresh'
  <2>1. /\ job[t]'.pc = "none"
        /\ \A u \in Tasks \ {t} : req'[u] = req[u] /\ job'[u] = job[u]
        /\ UNCHANGED <<accepted, holds>>
    BY <1>3 DEF TypeOK, LastChunk, RejectedAgain, NothingLeft, NetworkFails, Failed,
       NoJob
  <2>2. QED
    BY <2>1, OthersFresh DEF Fresh
<1>4. ASSUME NEW t \in Tasks, Rejected(t) PROVE AllFresh'
  <2>1. /\ job[t].pc = "download" /\ job[t]'.pc = "refetch"
        /\ job[t]'.begun = job[t].begun
        /\ \A u \in Tasks \ {t} : req'[u] = req[u] /\ job'[u] = job[u]
        /\ UNCHANGED <<req, accepted, holds>>
    BY <1>4 DEF TypeOK, Rejected, IsRejected, Refetch
  <2>2. Fresh(t)'
    BY <2>1 DEF AllFresh, Fresh
  <2>3. QED
    BY <2>1, <2>2, OthersFresh
<1>5. ASSUME NEW t \in Tasks, Served(t) PROVE AllFresh'
  <2>1. /\ job[t].pc = "refetch" /\ job[t]'.pc = "answer"
        /\ job[t]'.begun = job[t].begun
        /\ job[t]'.message = holds[req[t].doc]
        /\ job[t]'.reference = accepted[req[t].doc]
        /\ \A u \in Tasks \ {t} : req'[u] = req[u] /\ job'[u] = job[u]
        /\ UNCHANGED <<req, accepted, holds>>
    BY <1>5 DEF TypeOK, Served, Answer
  <2>2. accepted[req[t].doc] \in Nat
    BY <2>1, ExpiriesAssumption DEF TypeOK
  <2>3. Fresh(t)'
    BY <2>1, <2>2 DEF AllFresh, Fresh
  <2>4. QED
    BY <2>1, <2>3, OthersFresh
<1>6. ASSUME NEW t \in Tasks, Refetched(t) PROVE AllFresh'
  BY <1>6, RefetchedFresh
<1>7. ASSUME NEW d \in Docs, Expire(d) PROVE AllFresh'
  <2>1. /\ \A e \in Docs : accepted[e] \in Nat /\ accepted'[e] \in {accepted[e], accepted[e] + 1}
        /\ UNCHANGED <<req, job, holds>>
    BY <1>7, ExpiriesAssumption DEF TypeOK, Expire
  <2>2. ASSUME NEW t \in Tasks PROVE Fresh(t)'
    <3>1. job[t].pc # "none" => req[t].doc \in Docs
      BY DEF TypeOK
    <3>2. job[t].pc # "none" => 0..accepted[req[t].doc] \subseteq 0..accepted'[req[t].doc]
      BY <2>1, <3>1
    <3>3. QED
      BY <2>1, <3>2 DEF AllFresh, Fresh
  <2>3. QED
    BY <2>2 DEF AllFresh
<1>8. ASSUME NEW d \in Docs, NEW left \in {"other", "nothing"}, Lose(d, left)
      PROVE  AllFresh'
  <2>1. /\ \A e \in Docs : holds'[e] = "same" => holds[e] = "same"
        /\ UNCHANGED <<req, job, accepted>>
    BY <1>8 DEF TypeOK, Lose
  <2>2. ASSUME NEW t \in Tasks PROVE Fresh(t)'
    BY <2>1 DEF TypeOK, AllFresh, Fresh
  <2>3. QED
    BY <2>2 DEF AllFresh
<1>9. CASE UNCHANGED vars
  BY <1>9 DEF vars, AllFresh, Fresh
<1>10. QED
  BY <1>1, <1>2, <1>3, <1>4, <1>5, <1>6, <1>7, <1>8, <1>9 DEF Next, Progress

\* The one retry of a read goes out with a reference that was valid after the
\* read began, whatever other reads refetch and store (files_source.py:180-200).
THEOREM RetryFresh == Spec => []RetryIsFresh
<1>1. Init => AllFresh
  BY DEF Init, AllFresh, Fresh, NoJob
<1>2. TypeOK /\ AllFresh => RetryIsFresh
  BY DEF AllFresh, Fresh, RetryIsFresh
<1>3. QED
  BY <1>1, <1>2, NextFresh, TypeCorrect, PTL DEF Spec
=============================================================================
