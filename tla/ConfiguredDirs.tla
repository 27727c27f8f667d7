--------------------------- MODULE ConfiguredDirs ---------------------------
(***************************************************************************)
(* From a config to mounted directories, and what updates do to them: the  *)
(* config is read, resources are created and the messages are fetched, the *)
(* tree of the config is walked, depth first and in no particular order of *)
(* subdirectories, each directory is produced before those below it, and   *)
(* then every update of a source is passed to its directories in the order *)
(* in which they were produced.                                            *)
(*                                                                         *)
(* Directories have the producer PlainDir.  Between the handlers of        *)
(* different events nothing interleaves here: UpdatesPipeline does that.   *)
(***************************************************************************)
EXTENDS ConfigWalk, FiniteSetsExt

CONSTANTS
  Configs,      \* the YAML mappings a config can be
  Bodies,       \* what a message can carry: records of has, copy, ext and reactions
  Edits,        \* the <<from, to>> bodies of an edit
  Entities,     \* the sources of the config whose entity exists
  MaxInitial,   \* bound: messages of an entity before the start
  MaxUpdates(_) \* bound: updates in a run with a config

VARIABLES
  yaml,         \* the config as it is written
  config,       \* the config as it is read
  phase,        \* of the program
  server,       \* server[s]: the bodies of the messages of the entity of s
  posted,       \* posted[s]: the last id of its messages
  fetched,      \* fetched[s]: the last id when they were fetched
  messages,     \* messages[s]: what the source holds
  todo,         \* the directories the walk is in, with what is left in each
  made,         \* made[p]: what directory p is produced from
  order,        \* the listeners, in the order of subscription
  files,        \* files[p]: _message_to_file of the producer
  items,        \* items[p]: the items of the directory
  missed,       \* history: <<p, id>> whose last notice an exception swallowed
  repeated,     \* history: sources that held one document in two messages
  updates       \* number of updates so far

world == <<server, posted, updates>>
produced == <<made, order, files, items>>
history == <<missed, repeated>>
vars == <<yaml, config, phase, world, fetched, messages, todo, produced, history>>

M(accepted) == INSTANCE MessageSource WITH Supported <- accepted
P == INSTANCE PlainDir WITH Texts <- {}

\* Copies of one forwarded document have its id, any other is on its own.
Message(i, b) ==
  MessageProto(i, b.has, IF b.copy THEN 0 ELSE i, b.ext, b.reactions)

Repeats(ms) == \E i, j \in DOMAIN ms : i # j /\ ms[i].copy /\ ms[j].copy

-----------------------------------------------------------------------------
(* Messages of a source *)

\* Telegram gives the newest message first; later ones are appended.
InOrder(s, ms) ==
  LET before(i, j) == IF j <= fetched[s] THEN j < i /\ i <= fetched[s] ELSE i < j
  IN  SetToSortSeq(DOMAIN ms, before)

\* The bodies the filters of a source pass: file_factory.supports, and the
\* Telegram filter that the config names for it.
Accepted(s) ==
  LET classes(b) == Classify(Message(0, b))
      named      == config.message_sources[s].filter
  IN  {b \in Bodies :
         /\ TryGetCls(MyFileFactoryDefault, <<>>, classes(b)) # Unsupported
         /\ named \in DOMAIN TelegramFilters =>
              classes(b) \cap TelegramFilters[named] # {}}

\* TelegramMessagesFetcher.FILTERS: names of Telegram, two of which are no
\* filters of directories.
FetcherFilters ==
  DOMAIN TelegramFilters \cup {"InputMessagesFilterUrl", "InputMessagesFilterMyMentions"}

FetchFails(s) ==
  \/ s \notin Entities
  \/ config.message_sources[s].filter \notin {None} \cup FetcherFilters

-----------------------------------------------------------------------------
(* The files of a directory *)

\* Variant: the cached factory knows texts.
OneFactory(dir) == MyFileFactoryDefault

\* The factory of a cache is the default one, which knows no texts
\* (CacheFileFactoryFactory.FileFactory).
FactoryOf(dir) == IF dir.cached THEN FileFactoryDefault ELSE MyFileFactoryDefault

ClassFor(dir, m) == TryGetCls(FactoryOf(dir), dir.treat_as, Classify(m))

\* apply_filters, and produce_file for each message that passed: the file
\* contents by the message ids, or Error.
Made(dir, passed) ==
  IF passed = Error \/ (\E m \in Range(passed) : ClassFor(dir, m) = Unsupported) THEN Error
  ELSE [i \in {m.id : m \in Range(passed)} |->
          LET m == CHOOSE m \in Range(passed) : m.id = i
          IN  FileLike(m, ClassFor(dir, m)).content]

Passed(dir, s, ms) ==
  LET sorted == InOrder(s, ms)
  IN  Chain(dir.filters, [k \in DOMAIN sorted |-> Message(sorted[k], ms[sorted[k]])])

-----------------------------------------------------------------------------
(* Mounting *)

Init ==
  /\ yaml \in Configs
  /\ config = None
  /\ phase = "starting"
  /\ posted \in [Entities -> 0..MaxInitial]
  /\ server \in {f \in [Entities -> UNION {[1..k -> Bodies] : k \in 0..MaxInitial}] :
                   \A s \in Entities : DOMAIN f[s] = 1..posted[s]}
  /\ updates = 0
  /\ fetched = posted
  /\ messages = <<>>
  /\ todo = <<>>
  /\ made = <<>> /\ order = <<>> /\ files = <<>> /\ items = <<>>
  /\ missed = {} /\ repeated = {}

\* ConfigParser.parse_config
Read ==
  /\ phase = "starting" /\ config = None
  /\ config' = ReadConfig(yaml)
  /\ phase' = IF config' = Error THEN "refused" ELSE "starting"
  /\ UNCHANGED <<yaml, world, fetched, messages, todo, produced, history>>

\* A directory on the way down, with the subdirectories that are left.
Frame(path, dirs, ctx) == [path |-> path, dirs |-> dirs, left |-> DOMAIN dirs, ctx |-> ctx]

\* create_tgmount_resources and fetch_messages.
Fetch ==
  /\ phase = "starting" /\ config \notin {None, Error}
  /\ \E resources \in {Resources(config)} :
       IF resources = Error \/ (\E s \in resources.sources : FetchFails(s))
       THEN phase' = "failed" /\ UNCHANGED <<messages, todo, repeated>>
       ELSE /\ phase' = "walking"
            /\ messages' = [s \in resources.sources |->
                              M(Accepted(s))!SetMessages(FALSE, <<>>, server[s])]
            /\ repeated' = {s \in resources.sources : Repeats(messages'[s])}
            /\ todo' = <<Frame(<<>>, [root |-> config.root], NoContext)>>
  /\ UNCHANGED <<yaml, config, world, fetched, produced, missed>>

\* Variant: a directory that is done ends the walk of those it is in, too.
UpToFinished(frames) ==
  SubSeq(frames, 1, SelectInSeq(frames, LAMBDA f : f.left = {}) - 1)

\* The frames up to the last that has subdirectories left.
Unfinished(frames) ==
  SubSeq(frames, 1, SelectLastInSeq(frames, LAMBDA f : f.left # {}))

\* Extended with a path.
At(f, p, v) == [q \in DOMAIN f \cup {p} |-> IF q = p THEN v ELSE f[q]]

\* VfsTreeProducer.produce_from_config with VfsTreeProducerPlainDir.produce.
Produce(p, dir, passed, contents) ==
  /\ made' = At(made, p, dir)
  /\ IF dir.source = None
     THEN UNCHANGED <<order, files>> /\ items' = At(items, p, <<>>)
     ELSE /\ order' = Append(order, p)
          /\ files' = At(files, p, contents)
          /\ items' = At(items, p, P!FilesOf(contents))

\* The next subdirectory of the innermost directory that has one.
Walk ==
  /\ phase = "walking" /\ todo # <<>>
  /\ LET top == todo[Len(todo)] IN
     \E k \in top.left :
       \E dir \in {Resolve(top.dirs[k], top.ctx, Resources(config))} :
       \E passed \in {IF dir = Error \/ dir.source = None THEN <<>>
                      ELSE Passed(dir, dir.source, messages[dir.source])} :
       \E contents \in {IF dir = Error THEN Error ELSE Made(dir, passed)} :
         IF contents = Error
         THEN phase' = "failed" /\ UNCHANGED <<todo, produced>>
         ELSE LET p      == Append(top.path, k)
                  rest   == [todo EXCEPT ![Len(todo)].left = @ \ {k}]
                  frames == Unfinished(Append(rest, Frame(p, top.dirs[k].other_keys, dir.below)))
              IN  /\ todo' = frames
                  /\ phase' = IF frames = <<>> THEN "mounted" ELSE "walking"
                  /\ Produce(p, dir, passed, contents)
  /\ UNCHANGED <<yaml, config, world, fetched, messages, history>>

-----------------------------------------------------------------------------
(* Updates *)

\* What a notice does to directory p: Error if a file cannot be made.
UpdateDir(p, notice, state) ==
  LET dir      == made[p]
      passed   == IF DOMAIN notice.new = {} THEN <<>>
                  ELSE Passed(dir, dir.source, notice.new)
      contents == Made(dir, passed)
      plan     == P!Plan([notice EXCEPT !.new = contents], state.files[p],
                         [k \in DOMAIN passed |-> passed[k].id])
  IN  IF contents = Error THEN Error
      ELSE [files |-> [state.files EXCEPT ![p] = P!FilesAfter(@, plan)],
            items |-> [state.items EXCEPT ![p] = P!ItemsAfter(@, plan)]]

\* Subscribable.notify calls the listeners in turn, and an exception of one
\* keeps the notice from those behind it.
Told(state, p, notice) ==
  LET ids  == DOMAIN notice.old \cup DOMAIN notice.new
      next == UpdateDir(p, notice, state)
  IN  IF state.raised \/ next = Error
      THEN [state EXCEPT !.raised = TRUE, !.missed = @ \cup ({p} \X ids)]
      ELSE [files |-> next.files, items |-> next.items, raised |-> FALSE,
            missed |-> state.missed \ ({p} \X ids)]

Notify(s, result) ==
  LET listeners == SelectSeq(order, LAMBDA p : made[p].source = s)
      tell(state, p) == Told(state, p, result.notice)
      before == [files |-> files, items |-> items, raised |-> FALSE, missed |-> missed]
  IN  \E after \in {IF result.notice = M({})!NoNotice THEN before
                    ELSE FoldLeft(tell, before, listeners)} :
        /\ files' = after.files /\ items' = after.items /\ missed' = after.missed
        /\ messages' = [messages EXCEPT ![s] = result.messages]
        /\ repeated' = repeated \cup {r \in {s} : Repeats(result.messages)}

Update(s) ==
  /\ phase = "mounted" /\ updates < MaxUpdates(yaml)
  /\ updates' = updates + 1
  /\ UNCHANGED <<yaml, config, phase, fetched, todo, made, order>>

Followed == {s \in DOMAIN messages : config.message_sources[s].updates}

Post(s) ==
  \E b \in Bodies :
    LET new == [i \in {posted[s] + 1} |-> b]
    IN  /\ Update(s)
        /\ posted' = [posted EXCEPT ![s] = @ + 1]
        /\ server' = [server EXCEPT ![s] = M({})!Extended(@, new)]
        /\ Notify(s, M(Accepted(s))!AddMessages(messages[s], new))

Edit(s) ==
  \E i \in DOMAIN server[s] : \E b \in {c \in Bodies : <<server[s][i], c>> \in Edits} :
    LET new == [j \in {i} |-> b]
    IN  /\ Update(s)
        /\ UNCHANGED posted
        /\ server' = [server EXCEPT ![s][i] = b]
        /\ Notify(s, M(Accepted(s))!EditMessages(messages[s], new))

Delete(s) ==
  \E i \in DOMAIN server[s] :
    /\ Update(s)
    /\ UNCHANGED posted
    /\ server' = [server EXCEPT ![s] = M({})!Without(@, {i})]
    /\ Notify(s, M(Accepted(s))!RemoveMessages(messages[s], {i}))

Next ==
  \/ Read \/ Fetch \/ Walk
  \/ \E s \in Followed : Post(s) \/ Edit(s) \/ Delete(s)

Spec == Init /\ [][Next]_vars

-----------------------------------------------------------------------------
(* What a config comes to, said of whole paths *)

\* A directory of the config, and those from the root down to it.
DirAt(p) == FoldLeft(LAMBDA dir, k : dir.other_keys[k], [other_keys |-> config], p)

Line(p) == [k \in DOMAIN p |-> DirAt(SubSeq(p, 1, k))]

RECURSIVE PathsIn(_, _)
PathsIn(dir, p) ==
  {p} \cup UNION {PathsIn(dir.other_keys[k], Append(p, k)) : k \in DOMAIN dir.other_keys}

Paths == PathsIn(config.root, <<"root">>)

\* The source that the nearest directory on the way hands down.
Inherited(line) ==
  LET k == SelectLastInSeq(line, LAMBDA d : d.source # None /\ d.source.recursive)
  IN  IF k = 0 THEN None ELSE line[k].source.source

\* README.md:587-590
RuleSource(p) ==
  LET dir == DirAt(p)
  IN  IF dir.source # None /\ ~dir.source.recursive THEN dir.source.source
      ELSE IF dir.producer # None \/ (dir.filter # None /\ ~dir.filter.recursive)
      THEN Inherited(Line(p))
      ELSE None

\* The filters that some directories on the way hand down.
HandedDown(line) ==
  LET handed == SelectSeq(line, LAMBDA d : d.filter # None /\ d.filter.recursive)
  IN  FlattenSeq([k \in DOMAIN handed |-> OwnFilters(handed[k])])

\* The filters of a directory as the code adds them up (root_config_reader.py:193-198
\* and :270-274), which is not in all cases what the README says.
AddedUp(p) ==
  LET dir == DirAt(p)
  IN  IF dir.filter # None /\ dir.filter.overwright THEN OwnFilters(dir)
      ELSE HandedDown(Front(Line(p))) \o OwnFilters(dir)

\* README.md:667: `All` is used "to reset recursive filter".
IsReset(dir) ==
  LET own == OwnFilters(dir) IN own # Error /\ Len(own) = 1 /\ own[1].name = "All"

\* README.md:433: the filter of such a directory overwrites for subfolders too.
OverwritesBelow(d) == d.filter # None /\ d.filter.overwright /\ d.filter.recursive

\* The directories whose filters the README has otherwise than the code.
Contested(p) ==
  LET above == Front(Line(p))
  IN  \/ IsReset(DirAt(p)) /\ HandedDown(above) # <<>>
      \/ \E d \in Range(above) : OverwritesBelow(d)

\* What a filter that looks at one message at a time says of it.
RECURSIVE PerMessage(_), Passes(_, _)
PerMessage(f) ==
  f.name \notin {"Last", "OnlyUniqueDocs"} /\ \A k \in DOMAIN f.of : PerMessage(f.of[k])

Passes(f, m) ==
  CASE f.name = "All" -> TRUE
    [] f.name = "Not" -> \E k \in DOMAIN f.of : ~Passes(f.of[k], m)
    [] f.name = "Union" -> \E k \in DOMAIN f.of : Passes(f.of[k], m)
    [] f.name \in {"And", "Seq"} -> \A k \in DOMAIN f.of : Passes(f.of[k], m)
    [] OTHER -> Apply(f, <<m>>) # <<>>

\* Something the config names is not there, or is not what it should be.
Amiss(p) ==
  LET dir == DirAt(p)
  IN  \/ SourceMissing(dir, Resources(config)) \/ CacheMissing(dir, Resources(config))
      \/ OwnFilters(dir) = Error \/ WrapperMissing(dir)
      \/ RuleSource(p) # None /\ ProducerFor(dir) \notin ProducerNames

\* A message that has no file with a document behind it passes to a directory
\* with a cache, or a filter has an argument it cannot use.
Unmade(p) ==
  LET s    == RuleSource(p)
      ms   == InOrder(s, messages[s])
      all  == [k \in DOMAIN ms |-> Message(ms[k], messages[s][ms[k]])]
      passed == Chain(AddedUp(p), all)
  IN  /\ s # None
      /\ \/ passed = Error
         \/ DirAt(p).cache # None /\ \E m \in Range(passed) : ~MessageDownloadable(m)

-----------------------------------------------------------------------------
(* Correctness *)

\* The shape of the state: directories are made only from sources that exist,
\* listeners have files, and the walk ends when nothing is left of the config.
TypeOK ==
  /\ phase \in {"starting", "refused", "walking", "failed", "mounted"}
  /\ phase = "refused" <=> config = Error
  /\ phase = "mounted" => todo = <<>> /\ DOMAIN made = Paths
  /\ phase = "walking" => todo # <<>>
  /\ DOMAIN items = DOMAIN made
  /\ DOMAIN files = Range(order) /\ Len(order) = Cardinality(Range(order))
  /\ \A p \in DOMAIN made :
       IF p \in Range(order) THEN made[p].source \in DOMAIN messages
                             ELSE made[p].source = None /\ items[p] = <<>>

\* A directory has files exactly in the cases of README.md:587-590, and from
\* the source named there, whatever order the subdirectories are walked in and
\* whatever their siblings hand down to directories of their own.
SourceByTheRules == \A p \in DOMAIN made : made[p].source = RuleSource(p)

\* The walk, one step at a time and in any order, gives a directory the filters
\* its parents hand down and its own, or its own alone if they overwrite, and a
\* filter that is not recursive stays where it is: said of the whole path, of
\* the directories for which README.md:420-435 and :661-667 say the same.
FiltersAddUp ==
  \A p \in DOMAIN made : ~Contested(p) => made[p].filters = AddedUp(p)

\* Whether mount() fails does not depend on the order of the walk: it fails
\* only if something named is missing or a message cannot be a file where it
\* would have to be, and never mounts over such a config.
MountsUnlessAmiss ==
  LET amiss == (\E p \in Paths : Amiss(p)) \/ (\E p \in Paths : Unmade(p))
  IN  /\ phase = "failed" /\ messages # <<>> => amiss
      /\ phase = "mounted" /\ updates = 0 => ~amiss

Twice(p) ==
  \E b \in Bodies : \E passed \in {Chain(made[p].filters, <<Message(1, b)>>)} :
    passed # Error /\ Len(passed) > 1

\* A directory whose filters look at one message at a time shows the messages
\* of its source that pass all of them, as they are, each once, after any
\* updates: filtering the messages as they come is filtering them at once.
\* Left out are messages whose notice an exception kept from the directory,
\* sources that held a document twice, and filters that list a message twice.
DirsShowWhatPasses ==
  \A p \in Range(order) :
    LET s == made[p].source
        wanted == {i \in DOMAIN messages[s] :
                     \A k \in DOMAIN made[p].filters :
                       Passes(made[p].filters[k], Message(i, messages[s][i]))}
        shown == [k \in DOMAIN items[p] |-> items[p][k].id]
    IN  /\ phase = "mounted" /\ s \notin repeated /\ ~Twice(p)
        /\ \A k \in DOMAIN made[p].filters : PerMessage(made[p].filters[k])
        => /\ \A i \in wanted \cup Range(shown) :
                <<p, i>> \in missed \/ (i \in wanted /\ i \in Range(shown))
           /\ Len(shown) = Cardinality(Range(shown))
           /\ \A k \in DOMAIN shown : <<p, shown[k]>> \notin missed =>
                items[p][k].content[2] = Message(shown[k], messages[s][shown[k]])
=============================================================================
