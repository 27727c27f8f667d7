----------------------- MODULE UpdatesPipelineProofs -----------------------
(***************************************************************************)
(* Proofs about UpdatesPipeline, for any number of entities, sources and   *)
(* directories, messages and updates: its type invariant, and that sources *)
(* hold only messages a file can be made of.                               *)
(***************************************************************************)
EXTENDS UpdatesPipeline, TLAPS

-----------------------------------------------------------------------------
(* The operations of a source *)

\* All the messages of a collection are ones that a file can be made of.
AllSupported(ms) == \A i \in DOMAIN ms : ms[i] \in Supported

\* The filter of a source lets supported messages through only, as they are.
LEMMA FilteredSupported ==
  ASSUME NEW ms
  PROVE  /\ AllSupported(M!Filtered(ms))
         /\ DOMAIN M!Filtered(ms) \subseteq DOMAIN ms
BY DEF AllSupported, M!Filtered, M!RestrictValues, M!Restrict

\* A collection without some messages has the others.
LEMMA WithoutSupported ==
  ASSUME NEW ms, NEW ids, AllSupported(ms)
  PROVE  AllSupported(M!Without(ms, ids))
BY DEF AllSupported, M!Without, M!Ids, M!Restrict

\* Supported messages may overwrite others.
LEMMA OverwrittenSupported ==
  ASSUME NEW ms, NEW others, AllSupported(ms), AllSupported(others)
  PROVE  AllSupported(M!Overwritten(ms, others))
BY DEF AllSupported, M!Overwritten, M!Ids

\* New messages are filtered.
LEMMA AddSupported ==
  ASSUME NEW ms, NEW others, AllSupported(ms)
  PROVE  AllSupported(M!AddMessages(ms, others).messages)
<1> DEFINE diff == M!Without(M!Filtered(others), M!Ids(ms))
<1>1. AllSupported(diff)
  BY FilteredSupported, WithoutSupported
<1>2. AllSupported(M!Extended(ms, diff))
  BY <1>1, OverwrittenSupported DEF M!Extended
<1>3. M!AddMessages(ms, others).messages = M!Extended(ms, diff)
  BY DEF M!AddMessages, M!Result
<1>4. QED
  BY <1>2, <1>3

\* Edited messages are filtered.
LEMMA EditSupported ==
  ASSUME NEW ms, NEW edited, AllSupported(ms)
  PROVE  AllSupported(M!EditMessages(ms, edited).messages)
<1> DEFINE filtered == M!Filtered(edited)
<1>1. AllSupported(M!Overwritten(ms, filtered))
  BY FilteredSupported, OverwrittenSupported
<1>2. M!EditMessages(ms, edited).messages \in {M!Overwritten(ms, filtered), ms}
  BY DEF M!EditMessages, M!Result
<1>3. QED
  BY <1>1, <1>2

LEMMA RemoveSupported ==
  ASSUME NEW ms, NEW ids, AllSupported(ms)
  PROVE  AllSupported(M!RemoveMessages(ms, ids).messages)
<1>1. M!RemoveMessages(ms, ids).messages = M!Without(ms, ids)
  BY DEF M!RemoveMessages, M!Result
<1>2. QED
  BY <1>1, WithoutSupported

-----------------------------------------------------------------------------
(* The inductive invariant *)

\* The entities: what the type invariant says of them.
ServerInv ==
  /\ posted \in [Entities -> Nat] /\ DOMAIN server = Entities
  /\ \A e \in Entities : DOMAIN server[e] \subseteq 1..posted[e]
  /\ updates \in 0..MaxUpdates

\* mount(): as long as the dispatcher is paused, sources get their messages by
\* being fetched only, and nothing is delivered.
MountInv ==
  /\ phase \in {"starting", "resuming", "mounted", "aborted"}
  /\ paused \in BOOLEAN
  /\ fetched \subseteq known /\ known \subseteq Sources
  /\ phase = "starting" => paused
  /\ phase = "resuming" => ~paused
  /\ paused => known = fetched /\ NoJobs

\* The sources and their listeners.
SourceInv ==
  /\ DOMAIN messages = Sources /\ listeners \in [Sources -> Seq(Dirs)]
  /\ \A s \in Sources :
       /\ AllSupported(messages[s])
       /\ s \notin known => messages[s] = M!Empty
       /\ \A k \in DOMAIN listeners[s] : SourceOf[listeners[s][k]] = s

\* The jobs: who has the event loop.
JobInv ==
  /\ DOMAIN job = Workers
  /\ control \in Workers \cup {"none"}
  /\ \A w \in Workers :
       /\ job[w].pc \in {"idle", "notifying", "producing"}
       /\ job[w].pc = "producing" => control # w /\ job[w].left # <<>>
       /\ job[w].pc = "notifying" => control = w
  /\ overlapped \in BOOLEAN

IInv == ServerInv /\ MountInv /\ SourceInv /\ JobInv

LEMMA IInvTypeOK == IInv => TypeOK
BY DEF IInv, ServerInv, MountInv, SourceInv, JobInv, TypeOK

LEMMA IInvOnlySupported == IInv => OnlySupported
BY DEF IInv, SourceInv, AllSupported, OnlySupported, Range

LEMMA ConnectedAreSources == \A e : Connected(e) \subseteq Sources
BY DEF Connected, Sources, Range

LEMMA InitIInv == Init => IInv
<1> SUFFICES ASSUME Init PROVE IInv
  OBVIOUS
<1>1. ServerInv
  BY BoundsAssumption DEF Init, ServerInv
<1>2. MountInv
  BY DEF Init, MountInv, NoJobs, StartsPaused
<1>3. SourceInv
  BY DEF Init, SourceInv, AllSupported, M!Empty
<1>4. JobInv
  BY DEF Init, JobInv, Idle, Workers
<1>5. QED
  BY <1>1, <1>2, <1>3, <1>4 DEF IInv

-----------------------------------------------------------------------------
(* Telegram *)

\* An update of an entity leaves everything else alone.
LEMMA SendKeeps ==
  ASSUME IInv, NEW e, NEW kind, NEW change, Send(e, kind, change), ServerInv'
  PROVE  IInv'
<1> USE DEF Send, world, tree, history
<1>1. MountInv'
  BY DEF IInv, MountInv, NoJobs
<1>2. SourceInv'
  BY DEF IInv, SourceInv
<1>3. JobInv'
  BY DEF IInv, JobInv
<1>4. QED
  BY <1>1, <1>2, <1>3 DEF IInv

LEMMA TelegramIInv == ASSUME IInv, Telegram PROVE IInv'
<1>1. PICK e \in Entities : Post(e) \/ Edit(e) \/ React(e) \/ Delete(e)
  BY DEF Telegram
<1> USE DEF IInv, ServerInv
<1>2. CASE Post(e)
  <2>1. PICK b \in Bodies :
          LET message == One(posted[e] + 1, [body |-> b, reaction |-> NoReaction])
          IN  /\ posted' = [posted EXCEPT ![e] = @ + 1]
              /\ server' = [server EXCEPT ![e] = M!Extended(@, message)]
              /\ Send(e, "new", message)
    BY <1>2 DEF Post
  <2>2. ServerInv'
    BY <2>1, BoundsAssumption DEF Send, One, M!Extended, M!Overwritten, M!Ids
  <2>3. QED
    BY <2>1, <2>2, SendKeeps
<1>3. CASE Edit(e)
  <2>1. PICK i \in DOMAIN server[e], b \in Bodies :
          LET message == One(i, [server[e][i] EXCEPT !.body = b])
          IN  /\ server' = [server EXCEPT ![e] = M!Overwritten(@, message)]
              /\ Send(e, "edit", message)
              /\ UNCHANGED posted
    BY <1>3 DEF Edit
  <2>2. ServerInv'
    BY <2>1, BoundsAssumption DEF Send, One, M!Overwritten, M!Ids
  <2>3. QED
    BY <2>1, <2>2, SendKeeps
<1>4. CASE React(e)
  <2>1. PICK i \in DOMAIN server[e], r \in Reactions :
          /\ server' = [server EXCEPT ![e][i].reaction = r]
          /\ Send(e, "reaction", One(i, r))
          /\ UNCHANGED posted
    BY <1>4 DEF React
  <2>2. ServerInv'
    BY <2>1, BoundsAssumption DEF Send
  <2>3. QED
    BY <2>1, <2>2, SendKeeps
<1>5. CASE Delete(e)
  <2>1. PICK ids \in SUBSET DOMAIN server[e] :
          /\ server' = [server EXCEPT ![e] = M!Without(@, ids)]
          /\ Send(e, "delete", ids)
          /\ UNCHANGED posted
    BY <1>5 DEF Delete
  <2>2. ServerInv'
    BY <2>1, BoundsAssumption DEF Send, M!Without, M!Restrict, M!Ids
  <2>3. QED
    BY <2>1, <2>2, SendKeeps
<1>6. QED
  BY <1>1, <1>2, <1>3, <1>4, <1>5
-----------------------------------------------------------------------------
(* Events on their way *)

\* Only an event that is new or that is about messages of the source changes
\* the source, and it stays one of supported messages.
LEMMA UpdatedSupported ==
  ASSUME IInv, NEW s \in Sources, NEW event
  PROVE  AllSupported(Updated(s, event).messages)
<1> DEFINE new      == event.kind = "new"
           delete   == event.kind = "delete"
           edit     == event.kind = "edit" /\ s \in known
           reaction == /\ event.kind = "reaction"
                       /\ DOMAIN event.change \subseteq DOMAIN messages[s]
           kept     == AllSupported(Updated(s, event).messages)
<1>1. AllSupported(messages[s])
  BY DEF IInv, SourceInv
<1>2. new => kept
  BY <1>1, AddSupported DEF Updated
<1>3. delete => kept
  BY <1>1, RemoveSupported DEF Updated
<1>4. edit => kept
  BY <1>1, EditSupported DEF Updated
<1>5. reaction => kept
  BY <1>1, EditSupported DEF Updated
<1>6. ~new /\ ~delete /\ ~edit /\ ~reaction => kept
  BY <1>1 DEF Updated, M!Result
<1> HIDE DEF new, delete, edit, reaction
<1>7. QED
  BY <1>2, <1>3, <1>4, <1>5, <1>6

\* A source without a collection gets one from an event that adds or removes.
LEMMA UnknownStaysEmpty ==
  ASSUME IInv, NEW s \in Sources, NEW event, s \notin known,
         event.kind \notin {"new", "delete"}
  PROVE  Updated(s, event).messages = M!Empty
<1>1. messages[s] = M!Empty /\ DOMAIN M!Empty = {}
  BY DEF IInv, SourceInv, M!Empty
<1>2. CASE event.kind = "reaction" /\ DOMAIN event.change \subseteq DOMAIN messages[s]
  <2> DEFINE edited == [i \in DOMAIN event.change |->
                         [messages[s][i] EXCEPT !.reaction = event.change[i]]]
  <2>1. DOMAIN M!Filtered(edited) = {}
    BY <1>1, <1>2, FilteredSupported
  <2>2. M!Overwritten(messages[s], M!Filtered(edited)) = M!Empty
    BY <1>1, <2>1 DEF M!Overwritten, M!Ids, M!Empty
  <2>3. Updated(s, event).messages = M!EditMessages(messages[s], edited).messages
    BY <1>2 DEF Updated
  <2>4. QED
    BY <1>1, <2>2, <2>3 DEF M!EditMessages, M!Result
<1>3. CASE ~(event.kind = "reaction" /\ DOMAIN event.change \subseteq DOMAIN messages[s])
  BY <1>1, <1>3 DEF Updated, M!Result
<1>4. QED
  BY <1>2, <1>3

\* An event starts a job of its worker, which has the loop from then on.
LEMMA DispatchKeeps ==
  ASSUME IInv, NEW w \in Workers, NEW event, Dispatch(w, event), job[w] = Idle,
         \A v \in Workers : job[v].pc # "notifying",
         ~paused, UNCHANGED <<world, phase, paused, fetched, listeners>>
  PROVE  IInv'
<1> USE DEF IInv
<1>1. PICK s \in Connected(event.entity) :
        LET result == Updated(s, event)
            left   == IF result.notice = M!NoNotice THEN <<>> ELSE listeners[s]
        IN  /\ messages' = [messages EXCEPT ![s] = result.messages]
            /\ known' = IF event.kind \in {"new", "delete"} THEN known \cup {s}
                                                            ELSE known
            /\ job' = [job EXCEPT ![w] = Notifying(result.notice, left)]
  BY DEF Dispatch
<1>2. s \in Sources
  BY ConnectedAreSources
<1>3. ServerInv'
  BY DEF ServerInv, world
<1>4. MountInv'
  <2>1. known' = known \/ known' = known \cup {s}
    BY <1>1
  <2>2. QED
    BY <1>2, <2>1 DEF MountInv
<1>5. SourceInv'
  <2>1. DOMAIN messages' = Sources /\ listeners' \in [Sources -> Seq(Dirs)]
    BY <1>1 DEF SourceInv
  <2>2. \A t \in Sources : \A k \in DOMAIN listeners'[t] : SourceOf[listeners'[t][k]] = t
    BY DEF SourceInv
  <2>3. \A t \in Sources : messages'[t] = IF t = s THEN Updated(s, event).messages
                                                  ELSE messages[t]
    BY <1>1, <1>2 DEF SourceInv
  <2>4. \A t \in Sources : AllSupported(messages'[t])
    BY <1>2, <2>3, UpdatedSupported DEF SourceInv
  <2>5. ASSUME NEW t \in Sources, t \notin known' PROVE messages'[t] = M!Empty
    <3>1. t \notin known /\ (t = s => event.kind \notin {"new", "delete"})
      BY <1>1, <2>5
    <3>2. QED
      BY <1>2, <2>3, <3>1, UnknownStaysEmpty DEF SourceInv
  <2>6. QED
    BY <2>1, <2>2, <2>4, <2>5 DEF SourceInv, M!Empty
<1>6. JobInv'
  <2>1. control' = w /\ overlapped' \in BOOLEAN
    BY DEF Dispatch, JobInv
  <2>2. DOMAIN job' = Workers
    BY <1>1 DEF JobInv
  <2>3. job'[w].pc = "notifying"
    BY <1>1 DEF JobInv, Notifying
  <2>4. \A v \in Workers \ {w} : job'[v] = job[v]
    BY <1>1 DEF JobInv
  <2>5. QED
    BY <2>1, <2>2, <2>3, <2>4 DEF JobInv
<1>7. QED
  BY <1>3, <1>4, <1>5, <1>6

LEMMA HandleIInv == ASSUME IInv, Handle PROVE IInv'
<1>1. /\ control = "none" /\ job["live"] = Idle /\ "live" \in Workers
      /\ UNCHANGED <<world, phase, paused, fetched, listeners, tree, failed>>
  BY DEF Handle, Workers
<1>2. CASE paused
  <2>1. UNCHANGED <<known, messages, job, control, overlapped>>
    BY <1>2 DEF Handle
  <2>2. ServerInv'
    BY <1>1 DEF IInv, ServerInv, world
  <2>3. MountInv'
    BY <1>1, <2>1 DEF IInv, MountInv, NoJobs
  <2>4. SourceInv'
    BY <1>1, <2>1 DEF IInv, SourceInv
  <2>5. JobInv'
    BY <2>1 DEF IInv, JobInv
  <2>6. QED
    BY <2>2, <2>3, <2>4, <2>5 DEF IInv
<1>3. CASE ~paused
  <2>1. Dispatch("live", Head(inbox))
    BY <1>3 DEF Handle
  <2>2. \A v \in Workers : job[v].pc # "notifying"
    BY <1>1 DEF IInv, JobInv, Workers
  <2>3. QED
    BY <1>1, <1>3, <2>1, <2>2, DispatchKeeps
<1>4. QED
  BY <1>2, <1>3

LEMMA ReplayIInv == ASSUME IInv, Replay PROVE IInv'
<1>1. /\ phase = "resuming" /\ control = "resume" /\ job["resume"] = Idle
      /\ "resume" \in Workers /\ Dispatch("resume", Head(queue))
      /\ UNCHANGED <<world, inbox, phase, paused, fetched, listeners, tree, failed>>
  BY DEF Replay, Workers
<1>2. ~paused
  BY <1>1 DEF IInv, MountInv
<1>3. \A v \in Workers : job[v].pc # "notifying"
  BY <1>1 DEF IInv, JobInv, Workers, Idle
<1>4. QED
  BY <1>1, <1>2, <1>3, DispatchKeeps
-----------------------------------------------------------------------------
(* mount() *)

\* The first listener of a source may be followed by another of it.
LEMMA AppendListener ==
  ASSUME NEW list \in Seq(Dirs), NEW d \in Dirs, NEW s,
         \A k \in DOMAIN list : SourceOf[list[k]] = s, SourceOf[d] = s
  PROVE  /\ Append(list, d) \in Seq(Dirs)
         /\ \A k \in DOMAIN Append(list, d) : SourceOf[Append(list, d)[k]] = s
<1>1. /\ DOMAIN Append(list, d) = 1..(Len(list) + 1)
      /\ DOMAIN list = 1..Len(list)
      /\ \A k \in 1..Len(list) : Append(list, d)[k] = list[k]
      /\ Append(list, d)[Len(list) + 1] = d
      /\ Append(list, d) \in Seq(Dirs)
  OBVIOUS
<1>2. QED
  BY <1>1

LEMMA FetchIInv == ASSUME IInv, NEW s \in Sources, Fetch(s) PROVE IInv'
<1> USE DEF IInv
<1>1. paused /\ known = fetched /\ s \notin known
  BY DEF Fetch, MountInv
<1>2. messages' = [messages EXCEPT ![s] = M!Filtered(server[EntityOf[s]])]
  BY <1>1 DEF Fetch, M!SetMessages
<1>3. ServerInv'
  BY DEF Fetch, ServerInv, world
<1>4. MountInv'
  BY <1>1 DEF Fetch, MountInv, NoJobs
<1>5. SourceInv'
  <2>1. AllSupported(M!Filtered(server[EntityOf[s]]))
    BY FilteredSupported
  <2>2. \A t \in Sources : messages'[t] = IF t = s THEN M!Filtered(server[EntityOf[s]])
                                                  ELSE messages[t]
    BY <1>2 DEF SourceInv
  <2>3. QED
    BY <1>2, <2>1, <2>2 DEF Fetch, SourceInv, M!Empty
<1>6. JobInv'
  BY DEF Fetch, JobInv, history
<1>7. QED
  BY <1>3, <1>4, <1>5, <1>6

LEMMA ProduceIInv == ASSUME IInv, NEW d \in Dirs, Produce(d) PROVE IInv'
<1> USE DEF IInv
<1>1. /\ UNCHANGED <<world, inbox, phase, paused, queue, fetched, known, messages,
                     job, history>>
      /\ listeners' = [listeners EXCEPT ![SourceOf[d]] = Append(@, d)]
      /\ control' \in {"resume", "none"}
      /\ phase = "starting"
  BY DEF Produce
<1>2. NoJobs
  BY <1>1 DEF MountInv
<1>3. SourceOf[d] \in Sources
  BY SourcesAssumption
<1>4. ServerInv'
  BY <1>1 DEF ServerInv, world
<1>5. MountInv'
  BY <1>1 DEF MountInv, NoJobs
<1>6. SourceInv'
  <2>1. /\ Append(listeners[SourceOf[d]], d) \in Seq(Dirs)
        /\ \A k \in DOMAIN Append(listeners[SourceOf[d]], d) :
             SourceOf[Append(listeners[SourceOf[d]], d)[k]] = SourceOf[d]
    BY <1>3, AppendListener DEF SourceInv
  <2>2. \A t \in Sources : listeners'[t] = IF t = SourceOf[d]
                                            THEN Append(listeners[SourceOf[d]], d)
                                            ELSE listeners[t]
    BY <1>1 DEF SourceInv
  <2>3. listeners' \in [Sources -> Seq(Dirs)]
    BY <1>1, <1>3, <2>1 DEF SourceInv
  <2>4. \A t \in Sources : \A k \in DOMAIN listeners'[t] : SourceOf[listeners'[t][k]] = t
    BY <2>1, <2>2 DEF SourceInv
  <2>5. QED
    BY <1>1, <2>3, <2>4 DEF SourceInv
<1>7. JobInv'
  BY <1>1, <1>2 DEF JobInv, NoJobs, Idle, Workers, history
<1>8. QED
  BY <1>4, <1>5, <1>6, <1>7

\* FailProduce, Resume and Mount only move mount() on.
LEMMA PhaseIInv ==
  ASSUME IInv, (\E d \in Dirs : FailProduce(d)) \/ Resume \/ Mount PROVE IInv'
<1> USE DEF IInv
<1>1. UNCHANGED <<world, fetched, known, messages, listeners, job, overlapped>>
  BY DEF FailProduce, Resume, Mount, history
<1>2. \/ phase = "starting" /\ phase' = "aborted" /\ paused' = paused
      \/ phase = "starting" /\ phase' = "resuming" /\ paused' = FALSE
      \/ phase = "resuming" /\ phase' = "mounted" /\ paused' = paused
  BY DEF FailProduce, Resume, Mount
<1>3. \/ control' = control
      \/ control = "resume" /\ control' = "none" /\ job["resume"] = Idle
  BY DEF FailProduce, Resume, Mount
<1>4. ServerInv'
  BY <1>1 DEF ServerInv, world
<1>5. MountInv'
  <2>1. known' = known /\ fetched' = fetched /\ (NoJobs => NoJobs')
    BY <1>1 DEF NoJobs
  <2>2. CASE phase = "starting" /\ phase' = "aborted" /\ paused' = paused
    BY <2>1, <2>2 DEF MountInv
  <2>3. CASE phase = "starting" /\ phase' = "resuming" /\ paused' = FALSE
    BY <2>1, <2>3 DEF MountInv
  <2>4. CASE phase = "resuming" /\ phase' = "mounted" /\ paused' = paused
    BY <2>1, <2>4 DEF MountInv
  <2>5. QED
    BY <1>2, <2>2, <2>3, <2>4
<1>6. SourceInv'
  BY <1>1 DEF SourceInv
<1>7. JobInv'
  <2>1. job' = job /\ overlapped' = overlapped
    BY <1>1
  <2>2. CASE control' = control
    BY <2>1, <2>2 DEF JobInv
  <2>3. CASE control = "resume" /\ control' = "none" /\ job["resume"] = Idle
    BY <2>1, <2>3 DEF JobInv, Workers, Idle
  <2>4. QED
    BY <1>3, <2>2, <2>3
<1>8. QED
  BY <1>4, <1>5, <1>6, <1>7

-----------------------------------------------------------------------------
(* The jobs *)

\* A step of a job changes directories, jobs and what failed.
LEMMA WorkingKeeps ==
  ASSUME IInv, NEW w \in Workers, job[w] # Idle, JobInv',
         UNCHANGED <<world, paused, fetched, known, messages, listeners>>,
         phase' \in {phase, "aborted"}
  PROVE  IInv'
<1> USE DEF IInv
<1>1. ServerInv'
  BY DEF ServerInv, world
<1>2. MountInv'
  BY DEF MountInv, NoJobs
<1>3. SourceInv'
  BY DEF SourceInv
<1>4. QED
  BY <1>1, <1>2, <1>3

LEMMA WorkingIInv == ASSUME IInv, NEW w \in Workers, Working(w) PROVE IInv'
<1> USE DEF IInv
<1>1. job[w] # Idle
  BY DEF Working, Notify, Wake, Fail, Return, Idle
<1>2. /\ UNCHANGED <<world, paused, fetched, known, messages, listeners, overlapped>>
      /\ phase' \in {phase, "aborted"}
  BY DEF Working, Notify, Wake, Fail, Return, history
<1>3. JobInv'
  <2>1. ASSUME NEW j, NEW c \in Workers \cup {"none"},
               job' = [job EXCEPT ![w] = j], control' = c,
               j.pc \in {"idle", "notifying", "producing"},
               j.pc = "producing" => c # w /\ j.left # <<>>,
               j.pc = "notifying" => c = w,
               \A v \in Workers \ {w} : /\ job[v].pc = "producing" => c # v
                                        /\ job[v].pc # "notifying"
        PROVE  JobInv'
    <3>1. DOMAIN job' = Workers /\ job'[w] = j
      BY <2>1 DEF JobInv
    <3>2. \A v \in Workers \ {w} : job'[v] = job[v]
      BY <2>1 DEF JobInv
    <3>3. QED
      BY <1>2, <2>1, <3>1, <3>2 DEF JobInv
  <2>2. CASE Notify(w)
    <3>1. control = w /\ \A v \in Workers \ {w} : job[v].pc # "notifying"
      BY <2>2 DEF Notify, JobInv
    <3>2. PICK plan : \/ /\ job' = [job EXCEPT ![w] = Producing(job[w], plan)]
                         /\ control' = Suspended(w)
                      \/ Deliver(w, plan)
      BY <2>2 DEF Notify
    <3>3. CASE job' = [job EXCEPT ![w] = Producing(job[w], plan)] /\ control' = "none"
      <4>1. /\ Producing(job[w], plan).pc = "producing"
            /\ Producing(job[w], plan).left = job[w].left /\ job[w].left # <<>>
        BY <2>2 DEF Producing, Notify
      <4>2. "none" \notin Workers
        BY DEF Workers
      <4>3. QED
        BY <2>1, <3>1, <3>3, <4>1, <4>2
    <3>4. CASE Deliver(w, plan)
      <4>1. Notifying(job[w].notice, Tail(job[w].left)).pc = "notifying"
        BY DEF Notifying
      <4>2. \A v \in Workers \ {w} : job[v].pc = "producing" => w # v
        OBVIOUS
      <4>3. QED
        BY <2>1, <3>1, <3>4, <4>1, <4>2 DEF Deliver
    <3>5. QED
      BY <3>2, <3>3, <3>4 DEF Suspended
  <2>3. CASE Wake(w)
    <3>1. control = "none" /\ \A v \in Workers \ {w} : job[v].pc # "notifying"
      BY <2>3 DEF Wake, JobInv, Workers
    <3>2. Notifying(job[w].notice, Tail(job[w].left)).pc = "notifying"
      BY DEF Notifying
    <3>3. QED
      BY <2>1, <2>3, <3>1, <3>2 DEF Wake, Deliver
  <2>4. CASE Fail(w)
    <3>1. control' = "none" /\ \A v \in Workers \ {w} : job[v].pc # "notifying"
      BY <2>4 DEF Fail, JobInv, Workers
    <3>2. Idle.pc = "idle" /\ "none" \notin Workers
      BY DEF Idle, Workers
    <3>3. QED
      BY <2>1, <2>4, <3>1, <3>2 DEF Fail, AfterFailure
  <2>5. CASE Return(w)
    <3>1. control = w /\ \A v \in Workers \ {w} : job[v].pc # "notifying"
      BY <2>5 DEF Return, JobInv
    <3>2. /\ control' \in Workers \cup {"none"}
          /\ \A v \in Workers \ {w} : control' # v
      BY <2>5 DEF Return, Workers
    <3>3. Idle.pc = "idle"
      BY DEF Idle
    <3>4. QED
      BY <2>1, <2>5, <3>1, <3>2, <3>3 DEF Return
  <2>6. QED
    BY <2>2, <2>3, <2>4, <2>5 DEF Working
<1>4. QED
  BY <1>1, <1>2, <1>3, WorkingKeeps

-----------------------------------------------------------------------------
(* The theorems *)

LEMMA NextIInv == IInv /\ [Next]_vars => IInv'
<1> SUFFICES ASSUME IInv, [Next]_vars PROVE IInv'
  OBVIOUS
<1>1. CASE Telegram
  BY <1>1, TelegramIInv
<1>2. CASE Mounting
  BY <1>2, FetchIInv, ProduceIInv, PhaseIInv, ReplayIInv DEF Mounting
<1>3. CASE Handle
  BY <1>3, HandleIInv
<1>4. CASE \E w \in Workers : Working(w)
  BY <1>4, WorkingIInv
<1>5. CASE UNCHANGED vars
  BY <1>5 DEF vars, world, tree, history, IInv, ServerInv, MountInv, SourceInv, JobInv,
              NoJobs
<1>6. QED
  BY <1>1, <1>2, <1>3, <1>4, <1>5 DEF Next

\* The state keeps its shape, whatever happens while mount() is under way: in
\* particular a job that waits for a file never has the event loop.
THEOREM TypeCorrect == Spec => []TypeOK
<1>1. Spec => []IInv
  BY InitIInv, NextIInv, PTL DEF Spec
<1>2. QED
  BY <1>1, IInvTypeOK, PTL

\* A source holds only messages that a file can be made of, because no event
\* gets through to it before its messages were fetched.
THEOREM SourcesSupported == Spec => []OnlySupported
<1>1. Spec => []IInv
  BY InitIInv, NextIInv, PTL DEF Spec
<1>2. QED
  BY <1>1, IInvOnlySupported, PTL
=============================================================================
