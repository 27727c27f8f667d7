--------------------------- MODULE DocumentReads ---------------------------
(***************************************************************************)
(* What reading a document of a message promises whoever reads it: a       *)
(* request for a range of a document is answered with the bytes the        *)
(* document has there, or fails.  A source without a cache does this       *)
(* directly; BlockCache is shown to implement it.                          *)
(***************************************************************************)
EXTENDS Integers, Sequences

CONSTANTS
  Docs,     \* documents of messages
  Size,     \* Size[d]: length of document d in bytes
  Tasks,    \* tasks serving read requests concurrently
  Ranges    \* the <<offset, limit>> pairs requested

VARIABLE req    \* req[t]: the request task t is serving, and its answer

\* The bytes of a document, each a distinct value.
File(d) == [i \in 1..Size[d] |-> <<d, i>>]

\* s[from : from + count] of Python: short or empty past the end.
Slice(s, from, count) ==
  SubSeq(s, from + 1, IF from + count < Len(s) THEN from + count ELSE Len(s))

\* Bytes [offset, offset + limit) of a document, cut at its end.
Read(d, offset, limit) == Slice(File(d), offset, limit)

Idle == [pc |-> "idle"]

Reading(d, r) == [pc |-> "reading", doc |-> d, range |-> r]

Answered(d, r, data) ==
  [pc |-> "answered", doc |-> d, range |-> r, data |-> data]

Failed(d, r) == [pc |-> "failed", doc |-> d, range |-> r]

Init == req = [t \in Tasks |-> Idle]

Begin(t, d, r) ==
  /\ req[t].pc # "reading"
  /\ req' = [req EXCEPT ![t] = Reading(d, r)]

Answer(t) ==
  /\ req[t].pc = "reading"
  /\ LET q == req[t]
     IN  req' = [req EXCEPT ![t] =
                   Answered(q.doc, q.range, Read(q.doc, q.range[1], q.range[2]))]

\* A request may be answered in the step that makes it.
Serve(t, d, r) ==
  /\ req[t].pc # "reading"
  /\ req' = [req EXCEPT ![t] = Answered(d, r, Read(d, r[1], r[2]))]

Fail(t) ==
  /\ req[t].pc = "reading"
  /\ req' = [req EXCEPT ![t] = Failed(req[t].doc, req[t].range)]

Next ==
  \E t \in Tasks :
    \/ \E d \in Docs, r \in Ranges : Begin(t, d, r) \/ Serve(t, d, r)
    \/ Answer(t)
    \/ Fail(t)

Spec == Init /\ [][Next]_req
=============================================================================
