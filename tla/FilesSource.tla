----------------------------- MODULE FilesSource -----------------------------
(***************************************************************************)
(* Reading documents from Telegram (tgclient/files_source.py): a range is  *)
(* split into requests of one size, and Telegram answers them only for the *)
(* reference of the document that is valid at the time.  A read that meets *)
(* an expired reference asks for the message again, keeps the new one for  *)
(* every read of the document, and starts over, once.                      *)
(*                                                                         *)
(* A reference is the number of references that expired before it.         *)
(***************************************************************************)
EXTENDS Integers, Sequences

CONSTANTS
  Docs,         \* documents of messages
  Size,         \* Size[d]: length of the document in bytes
  Tasks,        \* tasks serving a read
  Ranges,       \* the <<offset, limit>> pairs requested
  Align,        \* what Telegram wants offsets to be divisible by (4096)
  RequestSize,  \* bytes in a request
  MaxExpiries   \* bound: times the reference of a document expires

ASSUME SizeAssumption == Size \in [Docs -> Nat]

ASSUME RangesAssumption == Ranges \subseteq Nat \X (Nat \ {0})

ASSUME RequestsAssumption == Align \in Nat \ {0} /\ RequestSize \in Nat \ {0}

ASSUME ExpiriesAssumption == MaxExpiries \in Nat

VARIABLES
  req,             \* req[t]: the read task t is serving, and its answer
  job,             \* job[t]: how far that read is
  fileReferences,  \* _items_file_references: references by document
  accepted,        \* accepted[d]: the reference Telegram accepts
  holds            \* holds[d]: what the message has: the document, another, or nothing

vars == <<req, job, fileReferences, accepted, holds>>

Reads == INSTANCE DocumentReads

-----------------------------------------------------------------------------
(* split_range *)

AlignedDown(offset) == (offset \div Align) * Align

AlignedUp(limit) == IF limit % Align = 0 THEN limit ELSE (limit \div Align + 1) * Align

FirstRequest(r) == AlignedDown(r[1]) \div RequestSize

LastRequest(r) == (AlignedDown(r[1]) + AlignedUp(r[2]) - 1) \div RequestSize

Requests(r) == LastRequest(r) - FirstRequest(r) + 1

Start(r) == FirstRequest(r) * RequestSize

-----------------------------------------------------------------------------
(* References *)

\* The reference of a message as it was fetched at the start.
Fetched == 0

Reference(references, d) == IF d \in DOMAIN references THEN references[d] ELSE Fetched

\* Variant: a reference that is there is kept.
Kept(references, d, reference) ==
  [e \in DOMAIN references \cup {d} |->
     IF e \in DOMAIN references THEN references[e] ELSE reference]

With(references, d, reference) ==
  [e \in DOMAIN references \cup {d} |-> IF e = d THEN reference ELSE references[e]]

-----------------------------------------------------------------------------
(* Reads *)

NoJob == [pc |-> "none"]

\* begun: the reference Telegram accepted when the read began (for properties).
Download(reference, got, chunks, retried, begun) ==
  [pc |-> "download", reference |-> reference, got |-> got, chunks |-> chunks,
   retried |-> retried, begun |-> begun]

Refetch(j) == [pc |-> "refetch", got |-> j.got, begun |-> j.begun]

Answer(d, j) ==
  [pc |-> "answer", got |-> j.got, begun |-> j.begun,
   message |-> holds[d], reference |-> accepted[d]]

Init ==
  /\ req = [t \in Tasks |-> Reads!Idle]
  /\ job = [t \in Tasks |-> NoJob]
  /\ fileReferences = <<>>
  /\ accepted = [d \in Docs |-> Fetched]
  /\ holds = [d \in Docs |-> "same"]

Begin(t, d, r) ==
  /\ req[t].pc # "reading"
  /\ req' = [req EXCEPT ![t] = Reads!Reading(d, r)]
  /\ job' = [job EXCEPT ![t] =
               Download(Reference(fileReferences, d), <<>>, 0, FALSE, accepted[d])]
  /\ UNCHANGED <<fileReferences, accepted, holds>>

Piece(t) ==
  Reads!Slice(Reads!File(req[t].doc),
              Start(req[t].range) + job[t].chunks * RequestSize, RequestSize)

\* Variant: one request more.
OneMore(r, chunks) == chunks = Requests(r)

AllRequested(r, chunks) == chunks + 1 = Requests(r)

\* iter_download ends after the given number of requests, or with a short one.
IsLast(t) ==
  AllRequested(req[t].range, job[t].chunks) \/ Len(Piece(t)) < RequestSize

Accepts(t) == job[t].pc = "download" /\ job[t].reference = accepted[req[t].doc]

\* A request is answered, and there are more.
Chunk(t) ==
  /\ Accepts(t)
  /\ ~IsLast(t)
  /\ job' = [job EXCEPT ![t] = Download(@.reference, @.got \o Piece(t), @.chunks + 1,
                                          @.retried, @.begun)]
  /\ UNCHANGED <<req, fileReferences, accepted, holds>>

\* The last request is answered: the range is cut out of what was downloaded.
LastChunk(t) ==
  LET d == req[t].doc  r == req[t].range
      data == job[t].got \o Piece(t)
  IN  /\ Accepts(t)
      /\ IsLast(t)
      /\ req' = [req EXCEPT ![t] =
                   Reads!Answered(d, r, Reads!Slice(data, r[1] - Start(r), r[2]))]
      /\ job' = [job EXCEPT ![t] = NoJob]
      /\ UNCHANGED <<fileReferences, accepted, holds>>

Failed(t) ==
  /\ req' = [req EXCEPT ![t] = Reads!Failed(req[t].doc, req[t].range)]
  /\ job' = [job EXCEPT ![t] = NoJob]

IsRejected(t) == job[t].pc = "download" /\ job[t].reference # accepted[req[t].doc]

\* Variant: another reference is asked for until one is accepted.
Never(retried) == FALSE

GivesUp(retried) == retried

\* FileReferenceExpiredError: the message is asked for again.
Rejected(t) ==
  /\ IsRejected(t)
  /\ ~GivesUp(job[t].retried)
  /\ job' = [job EXCEPT ![t] = Refetch(@)]
  /\ UNCHANGED <<req, fileReferences, accepted, holds>>

\* The second error leaves _message_read.
RejectedAgain(t) ==
  /\ IsRejected(t)
  /\ GivesUp(job[t].retried)
  /\ Failed(t)
  /\ UNCHANGED <<fileReferences, accepted, holds>>

\* Telegram answers get_messages; the answer is on its way.
Served(t) ==
  /\ job[t].pc = "refetch"
  /\ job' = [job EXCEPT ![t] = Answer(req[t].doc, @)]
  /\ UNCHANGED <<req, fileReferences, accepted, holds>>

\* Variant: what was downloaded with the old reference is kept.
KeptData(got) == got

DataForRetry(got) == <<>>

\* The message arrives.  The reference of another document that has taken the
\* place of this one is stored under the other document.
Refetched(t) ==
  LET d == req[t].doc
      a == job[t]
      known == IF a.message = "same" THEN With(fileReferences, d, a.reference)
               ELSE fileReferences
  IN  /\ a.pc = "answer"
      /\ a.message # "nothing"
      /\ fileReferences' = known
      /\ job' = [job EXCEPT ![t] =
                   Download(Reference(known, d), DataForRetry(a.got), 0, TRUE, a.begun)]
      /\ UNCHANGED <<req, accepted, holds>>

\* FilesSourceError: the message has nothing to download.
NothingLeft(t) ==
  /\ job[t].pc = "answer"
  /\ job[t].message = "nothing"
  /\ Failed(t)
  /\ UNCHANGED <<fileReferences, accepted, holds>>

\* A request raises for any other reason.
NetworkFails(t) ==
  /\ job[t].pc # "none"
  /\ Failed(t)
  /\ UNCHANGED <<fileReferences, accepted, holds>>

-----------------------------------------------------------------------------
(* Telegram *)

Expire(d) ==
  /\ accepted[d] < MaxExpiries
  /\ accepted' = [accepted EXCEPT ![d] = @ + 1]
  /\ UNCHANGED <<req, job, fileReferences, holds>>

\* The message is edited to have another document, or deleted.
Lose(d, left) ==
  /\ holds[d] = "same"
  /\ holds' = [holds EXCEPT ![d] = left]
  /\ UNCHANGED <<req, job, fileReferences, accepted>>

Progress(t) ==
  \/ Chunk(t) \/ LastChunk(t)
  \/ Rejected(t) \/ RejectedAgain(t)
  \/ Served(t) \/ Refetched(t) \/ NothingLeft(t)
  \/ NetworkFails(t)

Next ==
  \/ \E t \in Tasks : Progress(t) \/ \E d \in Docs, r \in Ranges : Begin(t, d, r)
  \/ \E d \in Docs : Expire(d) \/ \E left \in {"other", "nothing"} : Lose(d, left)

Spec == Init /\ [][Next]_vars

\* Every request is answered or raises; nobody has to read.
FairSpec == Spec /\ \A t \in Tasks : WF_vars(Progress(t))

-----------------------------------------------------------------------------
(* Correctness *)

\* The shape of the state: a read that is going on has a job, which has
\* downloaded less than it asks for in all.
TypeOK ==
  /\ DOMAIN req = Tasks /\ DOMAIN job = Tasks
  /\ \A t \in Tasks : req[t].pc = "reading" <=> job[t].pc # "none"
  /\ \A t \in Tasks : job[t].pc # "none" =>
       /\ req[t].doc \in Docs /\ req[t].range \in Ranges
       /\ job[t].pc \in {"download", "refetch", "answer"}
       /\ job[t].pc = "download" => job[t].chunks \in 0..(Requests(req[t].range) - 1)
  /\ DOMAIN fileReferences \subseteq Docs
  /\ accepted \in [Docs -> 0..MaxExpiries]
  /\ holds \in [Docs -> {"same", "other", "nothing"}]

\* The requests for a range reach to its end (files_source.py:156 cuts the range
\* out of what they bring).
Covered(r) == r[1] + r[2] <= (LastRequest(r) + 1) * RequestSize

\* A read is answered with the bytes of its range, or fails, however often the
\* reference expires in the middle of the download and whatever other reads do
\* with the references.
ReadsExact == Reads!Spec

\* The one retry has a reference that was valid after the read began, as long as
\* the message has the document: an older answer that arrives late, for this
\* read or another one, is not what it is spent on (files_source.py:188).
RetryIsFresh ==
  \A t \in Tasks :
    job[t].pc = "download" /\ job[t].retried /\ holds[req[t].doc] = "same"
      => job[t].reference >= job[t].begun

\* Every read ends, also when the document is gone and no reference will do.
ReadsEnd == \A t \in Tasks : req[t].pc = "reading" ~> req[t].pc # "reading"
=============================================================================
