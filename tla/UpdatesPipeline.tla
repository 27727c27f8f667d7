--------------------------- MODULE UpdatesPipeline ---------------------------
(***************************************************************************)
(* From a Telegram update to the files of the mounted directories:         *)
(* TgmountBase subscribes handlers to the updates of each entity, a        *)
(* handler takes the update lock and passes its event to the               *)
(* TelegramEventsDispatcher, which queues it while paused or calls the     *)
(* MessageSource of the entity, which notifies the producers of the        *)
(* directories made from it.  Meanwhile mount() fetches the messages,      *)
(* produces the directories and replays the queued events.                 *)
(*                                                                         *)
(* All of it runs on one event loop.  "control" names the job that has the *)
(* loop: other tasks move only when it is "none".  There are two jobs: the *)
(* handler that holds the update lock ("live") and mount() in resume(),    *)
(* which does not take the lock ("resume").                                *)
(***************************************************************************)
EXTENDS Naturals, Sequences, FiniteSets, SequencesExt, Functions

CONSTANTS
  Entities,     \* chats and channels
  SourceOrder,  \* the message sources, in the order of the config
  EntityOf,     \* EntityOf[s]: the entity source s follows
  Dirs,         \* produced directories
  SourceOf,     \* SourceOf[d]: the source directory d is made from
  Wanted,       \* Wanted[d]: the contents that pass the filters of d
  Bodies,       \* what a message can say or carry
  Reactions,    \* what reactions it can have
  Edits,        \* the <<from, to>> bodies an edit can take a message
  Supported,    \* contents a file can be made of
  Texts,        \* contents whose file waits for the sender to be fetched
  MaxInitial,   \* bound: messages of an entity before the start
  MaxUpdates    \* bound: updates in a run

Sources == Range(SourceOrder)

Contents == [body : Bodies, reaction : Reactions]

NoReaction == CHOOSE r \in Reactions : TRUE

ASSUME SourcesAssumption ==
  /\ SourceOrder \in Seq(Sources)
  /\ EntityOf \in [Sources -> Entities]
  /\ SourceOf \in [Dirs -> Sources]
  /\ Wanted \in [Dirs -> SUBSET Contents]

ASSUME ContentsAssumption ==
  /\ Reactions # {}
  /\ Edits \subseteq Bodies \X Bodies
  /\ Supported \subseteq Contents /\ Texts \subseteq Contents

ASSUME BoundsAssumption == MaxInitial \in Nat /\ MaxUpdates \in Nat

VARIABLES
  server,       \* server[e]: the messages of the entity
  posted,       \* posted[e]: messages ever posted to it, and the last id
  updates,      \* number of updates so far
  inbox,        \* handlers that wait for the update lock, with their events
  phase,        \* of mount(): "starting", "resuming", "mounted" or "aborted"
  paused,       \* _is_paused of the dispatcher
  queue,        \* _sources_events_queue: the events still to be replayed
  fetched,      \* sources that fetch_messages is done with
  known,        \* sources that have a collection of messages
  messages,     \* messages[s]: that collection
  listeners,    \* listeners[s]: directories subscribed to the source
  files,        \* files[d]: _message_to_file of the producer
  items,        \* items[d]: _dir_content_items of the directory
  job,          \* job[w]: the notice being delivered
  control,      \* the job that has the event loop
  overlapped,   \* history: two jobs were under way at one time
  failed        \* history: <<d, id>> whose last file could not be made

world == <<server, posted, updates>>
tree == <<files, items>>
history == <<overlapped, failed>>
vars == <<world, inbox, phase, paused, queue, fetched, known, messages, listeners, tree,
          job, control, history>>

M == INSTANCE MessageSource
P == INSTANCE PlainDir

Workers == {"live", "resume"}

\* connect(entity, source) is called for each source, and the last one stays.
Connected(e) ==
  {SourceOrder[k] : k \in {l \in DOMAIN SourceOrder :
     /\ EntityOf[SourceOrder[l]] = e
     /\ \A m \in DOMAIN SourceOrder : l < m => EntityOf[SourceOrder[m]] # e}}

Idle == [pc |-> "idle"]

\* A notice on its way to the listeners that are left.
Notifying(notice, left) == [pc |-> "notifying", notice |-> notice, left |-> left]

\* The first of those listeners waits for the files of its plan.
Producing(j, plan) ==
  [pc |-> "producing", notice |-> j.notice, left |-> j.left, plan |-> plan]

One(i, c) == [k \in {i} |-> c]

-----------------------------------------------------------------------------
(* Telegram: what happens to the messages, and the events that are sent *)

\* Variant: the dispatcher starts unpaused.
StartsRunning == FALSE

\* TelegramEventsDispatcher.__init__
StartsPaused == TRUE

Init ==
  /\ \E n \in [Entities -> 0..MaxInitial] :
       /\ posted = n
       /\ server \in {f \in [Entities -> UNION {[1..k -> Contents] : k \in 0..MaxInitial}] :
                        \A e \in Entities : DOMAIN f[e] = 1..n[e]}
  /\ updates = 0
  /\ inbox = <<>>
  /\ phase = "starting"
  /\ paused = StartsPaused
  /\ queue = <<>>
  /\ fetched = {}
  /\ known = {}
  /\ messages = [s \in Sources |-> M!Empty]
  /\ listeners = [s \in Sources |-> <<>>]
  /\ files = [d \in Dirs |-> <<>>]
  /\ items = [d \in Dirs |-> <<>>]
  /\ job = [w \in Workers |-> Idle]
  /\ control = "none"
  /\ overlapped = FALSE
  /\ failed = {}

\* An event starts a handler for every source of its entity: create_tgmount
\* subscribes once per source.
Handlers(e, event) ==
  [k \in 1..Cardinality({s \in Sources : EntityOf[s] = e}) |-> event]

Send(e, kind, change) ==
  /\ updates < MaxUpdates
  /\ updates' = updates + 1
  /\ inbox' = inbox \o
       Handlers(e, [entity |-> e, kind |-> kind, change |-> change])
  /\ UNCHANGED <<phase, paused, queue, fetched, known, messages, listeners,
                 tree, job, control, history>>

Post(e) ==
  \E b \in Bodies :
    LET message == One(posted[e] + 1, [body |-> b, reaction |-> NoReaction])
    IN  /\ posted' = [posted EXCEPT ![e] = @ + 1]
        /\ server' = [server EXCEPT ![e] = M!Extended(@, message)]
        /\ Send(e, "new", message)

Edit(e) ==
  \E i \in DOMAIN server[e] : \E b \in Bodies :
    LET message == One(i, [server[e][i] EXCEPT !.body = b])
    IN  /\ <<server[e][i].body, b>> \in Edits
        /\ server' = [server EXCEPT ![e] = M!Overwritten(@, message)]
        /\ Send(e, "edit", message)
        /\ UNCHANGED posted

\* The event of a reaction has the reactions only, not the message.
React(e) ==
  \E i \in DOMAIN server[e] : \E r \in Reactions \ {server[e][i].reaction} :
    /\ server' = [server EXCEPT ![e][i].reaction = r]
    /\ Send(e, "reaction", One(i, r))
    /\ UNCHANGED posted

Delete(e) ==
  \E ids \in SUBSET DOMAIN server[e] \ {{}} :
    /\ server' = [server EXCEPT ![e] = M!Without(@, ids)]
    /\ Send(e, "delete", ids)
    /\ UNCHANGED posted

-----------------------------------------------------------------------------
(* mount(): fetch_messages, create_fs, resume *)

\* One source of fetch_messages.  Nothing reads a source before all are
\* fetched, so that their order is left open.
Fetch(s) ==
  /\ phase = "starting"
  /\ s \in Sources \ fetched
  /\ fetched' = fetched \cup {s}
  /\ known' = known \cup {s}
  /\ messages' = [messages EXCEPT ![s] =
                    M!SetMessages(s \in known, @, server[EntityOf[s]])]
  /\ UNCHANGED <<world, inbox, phase, paused, queue, listeners, tree, job,
                 control, history>>

Produced == {d \in Dirs : Contains(listeners[SourceOf[d]], d)}

\* VfsTreeProducerPlainDir.produce: the files of the wanted messages, and the
\* subscription.  Handlers that run while the files are produced only queue
\* their events, so that the step need not be split.  The last one goes on
\* into resume().
Produce(d) ==
  LET s     == SourceOf[d]
      first == P!Matching(messages[s], Wanted[d])
  IN  /\ phase = "starting" /\ fetched = Sources
      /\ control = "none" /\ d \notin Produced
      /\ files' = [files EXCEPT ![d] = first]
      /\ items' = [items EXCEPT ![d] = P!FilesOf(first)]
      /\ listeners' = [listeners EXCEPT ![s] = Append(@, d)]
      /\ control' = IF Produced \cup {d} = Dirs THEN "resume" ELSE "none"
      /\ UNCHANGED <<world, inbox, phase, paused, queue, fetched, known,
                     messages, job, history>>

\* The sender of a text could not be fetched: mount() raises.
FailProduce(d) ==
  /\ phase = "starting" /\ fetched = Sources
  /\ control = "none" /\ d \notin Produced
  /\ \E i \in DOMAIN messages[SourceOf[d]] :
       messages[SourceOf[d]][i] \in Texts \cap Wanted[d]
  /\ phase' = "aborted"
  /\ UNCHANGED <<world, inbox, paused, queue, fetched, known, messages,
                 listeners, tree, job, control, history>>

Resume ==
  /\ phase = "starting" /\ control = "resume"
  /\ phase' = "resuming"
  /\ paused' = FALSE
  /\ UNCHANGED <<world, inbox, queue, fetched, known, messages, listeners, tree,
                 job, control, history>>

-----------------------------------------------------------------------------
(* Delivering an event *)

\* _on_new_message, _on_edited_message and _on_delete_message on source s.
Updated(s, event) ==
  LET old == messages[s]
  IN  CASE event.kind = "new"    -> M!AddMessages(old, event.change)
        [] event.kind = "delete" -> M!RemoveMessages(old, event.change)
        [] event.kind = "edit" /\ s \in known ->
             M!EditMessages(old, event.change)
        [] event.kind = "reaction" /\ DOMAIN event.change \subseteq DOMAIN old ->
             M!EditMessages(old, [i \in DOMAIN event.change |->
                                    [old[i] EXCEPT !.reaction = event.change[i]]])
        [] OTHER -> M!Result(old, M!NoNotice)

\* The dispatcher passes the event on.  An event of an entity that has no
\* source, and one that changes nothing, has nobody to notify.
Dispatch(w, event) ==
  /\ control' = w
  /\ overlapped' = (overlapped \/ \E v \in Workers \ {w} : job[v] # Idle)
  /\ \E s \in Connected(event.entity) :
       LET result == Updated(s, event)
           left   == IF result.notice = M!NoNotice THEN <<>> ELSE listeners[s]
       IN  /\ messages' = [messages EXCEPT ![s] = result.messages]
           /\ known' = IF event.kind \in {"new", "delete"} THEN known \cup {s}
                                                           ELSE known
           /\ job' = [job EXCEPT ![w] = Notifying(result.notice, left)]

\* Variant: an event is replayed before those that came earlier.
QueuedFirst(events, event) == <<event>> \o events

\* Variant: only the entity that was heard of first is replayed.
QueuedOfFirst(events, event) ==
  IF events = <<>> \/ events[1].entity = event.entity THEN Append(events, event)
  ELSE events

\* _enqueue_event: the queue is a dictionary of lists.  It is replayed list by
\* list, so that an event goes behind those of its entity, and behind all events
\* if it is the first of it.
Queued(events, event) ==
  LET same == {k \in DOMAIN events : events[k].entity = event.entity}
  IN  IF same = {} THEN Append(events, event)
      ELSE InsertAt(events, Max(same) + 1, event)

\* TgmountBase.on_...: the next handler gets the lock, which is free when no
\* live job is under way, and queues its event or has it dispatched.
Handle ==
  /\ phase # "aborted"
  /\ control = "none" /\ job["live"] = Idle
  /\ inbox # <<>>
  /\ inbox' = Tail(inbox)
  /\ \/ /\ paused
        /\ queue' = Queued(queue, Head(inbox))
        /\ UNCHANGED <<known, messages, job, control, overlapped>>
     \/ /\ ~paused
        /\ Dispatch("live", Head(inbox))
        /\ UNCHANGED queue
  /\ UNCHANGED <<world, phase, paused, fetched, listeners, tree, failed>>

Replay ==
  /\ phase = "resuming" /\ control = "resume" /\ job["resume"] = Idle
  /\ queue # <<>>
  /\ queue' = Tail(queue)
  /\ Dispatch("resume", Head(queue))
  /\ UNCHANGED <<world, inbox, phase, paused, fetched, listeners, tree, failed>>

\* The files of the plan are made: the directory and the dictionary of its
\* producer change, and the next listener is called.
Deliver(w, plan) ==
  LET j == job[w]
      d == Head(j.left)
  IN  /\ files' = [files EXCEPT ![d] = P!FilesAfter(@, plan)]
      /\ items' = [items EXCEPT ![d] = P!ItemsAfter(@, plan)]
      /\ job' = [job EXCEPT ![w] = Notifying(j.notice, Tail(j.left))]
      /\ failed' = failed \ ({d} \X (DOMAIN j.notice.old \cup DOMAIN j.notice.new))
      /\ control' = w

\* Variant: the file is waited for in a call that blocks the loop.
Blocked(w) == w

\* The job awaits the file, and the loop goes to other tasks.
Suspended(w) == "none"

\* The next listener of the notice either has to wait for a file or is done.
Notify(w) ==
  /\ control = w
  /\ job[w].pc = "notifying" /\ job[w].left # <<>>
  /\ LET d       == Head(job[w].left)
         passing == P!PassingIds(job[w].notice.new, Wanted[d])
     IN  \E plan \in {P!Plan(job[w].notice, files[d], passing)} :
           \/ /\ P!Waits(plan)
              /\ job' = [job EXCEPT ![w] = Producing(job[w], plan)]
              /\ control' = Suspended(w)
              /\ UNCHANGED <<tree, failed>>
           \/ /\ ~P!Waits(plan)
              /\ Deliver(w, plan)
  /\ UNCHANGED <<world, inbox, phase, paused, queue, fetched, known, messages,
                 listeners, overlapped>>

Wake(w) ==
  /\ control = "none" /\ phase # "aborted"
  /\ job[w].pc = "producing"
  /\ Deliver(w, job[w].plan)
  /\ UNCHANGED <<world, inbox, phase, paused, queue, fetched, known, messages,
                 listeners, overlapped>>

\* Variant: an exception leaves the lock taken.
LockKept(w) == [pc |-> "failed"]

\* "async with" releases the lock however the handler ends.
AfterFailure(w) == Idle

\* The sender could not be fetched.  The exception ends the handler, or is
\* logged by it (on_edited_message): the lock is free and the listeners that
\* are left hear nothing.  In resume() it ends mount().
Fail(w) ==
  /\ control = "none" /\ phase # "aborted"
  /\ job[w].pc = "producing"
  /\ job' = [job EXCEPT ![w] = AfterFailure(w)]
  /\ failed' = failed \cup
       (ToSet(job[w].left)
          \X (DOMAIN job[w].notice.old \cup DOMAIN job[w].notice.new))
  /\ phase' = IF w = "resume" THEN "aborted" ELSE phase
  /\ UNCHANGED <<world, inbox, paused, queue, fetched, known, messages,
                 listeners, tree, control, overlapped>>

\* notify() returns: the handler releases the lock, resume() goes on.
Return(w) ==
  /\ control = w
  /\ job[w].pc = "notifying" /\ job[w].left = <<>>
  /\ job' = [job EXCEPT ![w] = Idle]
  /\ control' = IF w = "resume" THEN "resume" ELSE "none"
  /\ UNCHANGED <<world, inbox, phase, paused, queue, fetched, known, messages,
                 listeners, tree, history>>

Mount ==
  /\ phase = "resuming" /\ control = "resume" /\ job["resume"] = Idle
  /\ queue = <<>>
  /\ phase' = "mounted"
  /\ control' = "none"
  /\ UNCHANGED <<world, inbox, paused, queue, fetched, known, messages,
                 listeners, tree, job, history>>

-----------------------------------------------------------------------------
Telegram == \E e \in Entities : Post(e) \/ Edit(e) \/ React(e) \/ Delete(e)

Mounting ==
  \/ \E s \in Sources : Fetch(s)
  \/ \E d \in Dirs : Produce(d) \/ FailProduce(d)
  \/ Resume \/ Replay \/ Mount

Working(w) == Notify(w) \/ Wake(w) \/ Fail(w) \/ Return(w)

Next == Telegram \/ Mounting \/ Handle \/ \E w \in Workers : Working(w)

Spec == Init /\ [][Next]_vars

\* The event loop runs what can run, and requests for a sender come back.
FairSpec ==
  /\ Spec
  /\ WF_vars(Mounting) /\ WF_vars(Handle)
  /\ \A w \in Workers : WF_vars(Working(w))

-----------------------------------------------------------------------------
(* Correctness *)

NoJobs == \A w \in Workers : job[w] = Idle

Settled == phase = "mounted" /\ inbox = <<>> /\ NoJobs

\* The shape of the state.  A source without a collection has no messages, a
\* listener is subscribed to the source of its directory, a job that waits for
\* files does not have the loop and one that does not wait has it.
TypeOK ==
  /\ \A e \in Entities : DOMAIN server[e] \subseteq 1..posted[e]
  /\ updates \in 0..MaxUpdates
  /\ phase \in {"starting", "resuming", "mounted", "aborted"}
  /\ paused \in BOOLEAN
  /\ fetched \subseteq known /\ known \subseteq Sources
  /\ \A s \in Sources :
       /\ s \notin known => messages[s] = M!Empty
       /\ \A k \in DOMAIN listeners[s] : SourceOf[listeners[s][k]] = s
  /\ control \in Workers \cup {"none"}
  /\ \A w \in Workers :
       /\ job[w].pc \in {"idle", "notifying", "producing"}
       /\ job[w].pc = "producing" => control # w /\ job[w].left # <<>>
       /\ job[w].pc = "notifying" => control = w
  /\ overlapped \in BOOLEAN

\* A source holds only messages that its filter passes, so that a file can be
\* made of each.  set_messages keeps the filtered messages only in a source
\* that has no collection yet (message_source.py:165), and an event that got
\* through before the fetch would have given it one.
OnlySupported == \A s \in Sources : Range(messages[s]) \subseteq Supported

\* Directory d shows one file, made of the message as it is, for each wanted
\* message of its source; messages whose file could not be made aside.
ShowsItsSource(d) ==
  LET source    == messages[SourceOf[d]]
      wanted    == {P!File(i, source[i]) : i \in DOMAIN P!Matching(source, Wanted[d])}
      sound(fs) == {f \in fs : <<d, f.id>> \notin failed}
  IN  /\ sound(ToSet(items[d])) = sound(wanted)
      /\ \A k, l \in DOMAIN items[d] : items[d][k].id = items[d][l].id => k = l

\* Between two events every produced directory shows its source, whatever
\* edits, reactions and removals came in which order, although a removed
\* message stays in _message_to_file and an update finds the old file by what
\* that dictionary says.  (Not once two events have been under way at a time.)
DirsShowTheirSource ==
  NoJobs /\ ~overlapped => \A d \in Produced : ShowsItsSource(d)

\* No edit or reaction makes or ends that a file can be made of a message.
\* (One that does is dropped by edit_messages.)
EditsKeepSupport ==
  \A c \in Contents :
    /\ \A b \in Bodies : <<c.body, b>> \in Edits =>
         (c \in Supported <=> [c EXCEPT !.body = b] \in Supported)
    /\ \A r \in Reactions : c \in Supported <=> [c EXCEPT !.reaction = r] \in Supported

\* When nothing is under way any more, the source that is connected to an
\* entity has the supported messages of the entity: none is lost between the
\* fetch and the subscription, and the replay of events the fetch had already
\* seen, stale edits among them, is undone by the events behind them.
ConnectedSourcesFollow ==
  Settled /\ ~overlapped =>
    \A e \in Entities : \A s \in Connected(e) :
      messages[s] = M!Filtered(server[e])

\* Every event is delivered and mount() ends, although an exception ends some
\* handlers: what is queued is replayed, and the lock is always free again.
Settles == []<>(Settled \/ phase = "aborted")

\* tgmountbase.py:120-132 puts the update lock around the whole way of an
\* update from Telegram to the file system: no two events are under way.
OneUpdateAtATime == \E w \in Workers : job[w] = Idle
=============================================================================
