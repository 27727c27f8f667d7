------------------------------- MODULE Grouper -------------------------------
(***************************************************************************)
(* A grouping producer (tgmount/producers/grouperbase.py): a directory for *)
(* each group of the messages of a source, each with a message source of   *)
(* its own and a directory structure made of it; messages without a group  *)
(* may have a place in the directory itself.  It is the root of the tree.  *)
(*                                                                         *)
(* A change of the source is one step: its notice, everything the grouper, *)
(* the sources of the groups and their directories do with it, and the     *)
(* dispatch of the tree's events to a file system that has been read.      *)
(***************************************************************************)
EXTENDS VfsTree, FiniteSets

CONSTANTS
  Contents,     \* contents of messages
  KeysOf,       \* KeysOf[c]: the groups a message belongs to
  DirOf,        \* DirOf[k]: the directory name of a group (sanitize)
  InRoot,       \* contents of messages that are listed beside the groups
  Passing,      \* contents that pass the filters of the producer
  Parts,        \* the directory structure of a group: paths below it, in order
  Wanted,       \* Wanted[part]: contents that pass its filter
  Edits,        \* pairs of contents: the edits of a message
  MaxMessages   \* bound: messages posted

Keys == UNION {KeysOf[c] : c \in Contents}

ASSUME GroupsAssumption ==
  /\ \A c \in Contents : IsFiniteSet(KeysOf[c])
  /\ Keys \subseteq DOMAIN DirOf
  /\ \A c \in InRoot : KeysOf[c] = {}
  /\ InRoot \cup Passing \subseteq Contents
  /\ Edits \subseteq Contents \X Contents
  /\ DOMAIN Wanted = Range(Parts)

\* A directory comes once, before the ones in it.
ASSUME PartsAssumption ==
  /\ Parts \in Seq(Range(Parts)) /\ IsInjective(Parts)
  /\ \A k \in DOMAIN Parts :
       /\ Parts[k] \in Seq(Range(Parts[k]))
       /\ Parts[k] # <<>> => Front(Parts[k]) \in {<<>>} \cup {Parts[l] : l \in 1..(k - 1)}

ASSUME BoundAssumption == MaxMessages \in Nat

VARIABLES
  messages,  \* the source of the producer
  posted,    \* number of messages ever posted to it
  groups,    \* _source_by_name: the messages of the source of each group
  root,      \* _source_root: the messages beside the groups
  files,     \* _message_to_file of the plain producer of each path
  tree,      \* the tree (VfsTree)
  seen,      \* what a file system that has been read lists: files by path
  fresh,     \* directories that got a new inode in the last step
  twice      \* the file system lists something twice

vars == <<messages, posted, groups, root, files, tree, seen, fresh, twice>>

\* Sources of groups have no filters.
Source == INSTANCE MessageSource WITH Supported <- Contents

Dir == INSTANCE PlainDir WITH Texts <- {}

None == Source!Empty

-----------------------------------------------------------------------------
(* Grouping *)

OfKey(ms, k) == RestrictValues(ms, LAMBDA c : k \in KeysOf[c])

KeysIn(ms) == UNION {KeysOf[ms[i]] : i \in DOMAIN ms}

\* _group_messages.  Of the groups that have the same directory name one is
\* kept: which one depends on the order of the messages.
Grouped(ms) ==
  [n \in {DirOf[k] : k \in KeysIn(ms)} |->
     OfKey(ms, CHOOSE k \in KeysIn(ms) : DirOf[k] = n)]

RootMessages(ms) == RestrictValues(ms, LAMBDA c : c \in InRoot)

\* The messages of a group in a notice, if there are any.
GroupIn(grouped, n) == IF n \in DOMAIN grouped THEN grouped[n] ELSE None

-----------------------------------------------------------------------------
(* What the grouper keeps, as one record g: groups, root, files, tree *)

RemoveFiles(t, path, own) ==
  FoldLeft(LAMBDA acc, f : RemoveContent(acc, path, f), t, Dir!FilesOf(own))

PutFiles(t, path, own) ==
  IF own = None THEN t ELSE PutContent(t, path, Dir!FilesOf(own))

UpdateFiles(t, path, own) ==
  IF own = None THEN t ELSE UpdateContent(t, path, Dir!FilesOf(own))

\* What a producer does with its plan.
Carry(g, path, plan) ==
  [g EXCEPT !.files[path] = Dir!FilesAfter(@, plan),
            !.tree = UpdateFiles(PutContent(RemoveFiles(@, path, plan.remove),
                                            path, plan.add),
                                 path, plan.update)]

\* The plain producer of a path is told of a notice of its source.
Listener(g, path, wanted, notice) ==
  IF notice.kind = "none" THEN g
  ELSE Carry(g, path, Dir!Plan(notice, g.files[path], Dir!PassingIds(notice.new, wanted)))

\* The source of a group changes and tells the producers of its parts.
Tell(g, n, result) ==
  FoldLeft(LAMBDA acc, part : Listener(acc, <<n>> \o part, Wanted[part], result.notice),
           [g EXCEPT !.groups[n] = result.messages], Parts)

TellRoot(g, result) ==
  Listener([g EXCEPT !.root = result.messages], RootPath, Passing, result.notice)

\* A part of the directory of a group is created and filled.
ProducePart(g, n, part, ms) ==
  LET path == <<n>> \o part
      own  == Dir!Matching(ms, Wanted[part])
  IN  [g EXCEPT
         !.files = [p \in DOMAIN @ \cup {path} |-> IF p = path THEN own ELSE @[p]],
         !.tree  = PutFiles(PutDir(@, path), path, own)]

\* _add_dir: the directory is created, and once more by the producer of its
\* structure.
AddDir(g, n, ms) ==
  FoldLeft(LAMBDA acc, part : ProducePart(acc, n, part, ms),
           [g EXCEPT !.tree   = PutDir(PutDir(@, <<n>>), <<n>>),
                     !.groups = [m \in DOMAIN @ \cup {n} |-> IF m = n THEN ms ELSE @[m]]],
           Parts)

\* Variant: the producers of the parts outlive the group.
OnlyItself(n, path) == path = <<n>>

Inside(n, path) == IsPrefix(<<n>>, path)

RemoveGroup(g, n) ==
  [g EXCEPT !.tree   = RemoveDir(@, <<n>>),
            !.groups = Restrict(@, DOMAIN @ \ {n}),
            !.files  = Restrict(@, {p \in DOMAIN @ : ~Inside(n, p)})]

\* Variant: a group stays when its last message leaves.
NeverEmpty(ms) == FALSE

LastLeft(ms) == ms = None

RemoveFrom(g, n, ms) ==
  IF ms = None THEN g ELSE Tell(g, n, Source!RemoveGiven(g.groups[n], ms))

AddTo(g, n, ms) ==
  IF ms = None THEN g ELSE Tell(g, n, Source!AddMessages(g.groups[n], ms))

EditIn(g, n, ms) ==
  IF ms = None THEN g ELSE Tell(g, n, Source!EditMessages(g.groups[n], ms))

DropIfEmpty(g, n) ==
  IF LastLeft(g.groups[n]) THEN RemoveGroup(g, n) ELSE g

\* _update_group: what messages_difference tells apart is removed from, added
\* to and edited in the source of the group.
UpdateGroup(g, n, before, after) ==
  LET gone   == Restrict(before, DOMAIN before \ DOMAIN after)
      new    == Restrict(after, DOMAIN after \ DOMAIN before)
      common == Restrict(after, DOMAIN after \cap DOMAIN before)
  IN  IF n \notin DOMAIN g.groups THEN AddDir(g, n, after)
      ELSE DropIfEmpty(EditIn(AddTo(RemoveFrom(g, n, gone), n, new), n, common), n)

UpdateGroups(g, names, before, after) ==
  FoldLeft(LAMBDA acc, n : UpdateGroup(acc, n, GroupIn(before, n), GroupIn(after, n)),
           g, SetToSeq(names))

-----------------------------------------------------------------------------
(* The callbacks *)

AddToRoot(g, ms) ==
  IF ms = None THEN g ELSE TellRoot(g, Source!AddMessages(g.root, ms))

RemoveFromRoot(g, ms) ==
  IF ms = None THEN g ELSE TellRoot(g, Source!RemoveGiven(g.root, ms))

\* _update_new_message
UpdateNew(g, notice) ==
  LET passing == Dir!Matching(notice.new, Passing)
      grouped == Grouped(passing)
  IN  UpdateGroups(AddToRoot(g, RootMessages(passing)), DOMAIN grouped, None, grouped)

\* _update_removed_messages
UpdateRemoved(g, notice) ==
  LET grouped == Grouped(notice.old)
  IN  UpdateGroups(RemoveFromRoot(g, RootMessages(notice.old)),
                   DOMAIN grouped, grouped, None)

\* Variant: only the groups of the message as it is now are updated.
OnlyAfter(before, after) == {}

\* The groups of the message as it was.
GroupsBefore(before, after) == DOMAIN before

\* _update_edited_messages: the groups of before come first.  Neither the
\* filters nor the messages beside the groups are looked at.
UpdateEdited(g, notice) ==
  LET before == Grouped(notice.old)
      after  == Grouped(notice.new)
      first  == GroupsBefore(before, after)
  IN  UpdateGroups(UpdateGroups(g, first, before, after),
                   DOMAIN after \ DOMAIN before, None, after)

Updated(g, notice) ==
  CASE notice.kind = "none"    -> g
    [] notice.kind = "new"     -> UpdateNew(g, notice)
    [] notice.kind = "removed" -> UpdateRemoved(g, notice)
    [] notice.kind = "edited"  -> UpdateEdited(g, notice)

Nothing == [groups |-> None, root |-> None, files |-> None, tree |-> NewTree]

ProduceRoot(g, own) ==
  [g EXCEPT !.root  = own,
            !.files = [p \in DOMAIN @ \cup {RootPath} |->
                         IF p = RootPath THEN own ELSE @[p]],
            !.tree  = PutFiles(@, RootPath, own)]

\* produce
Produced(ms) ==
  LET passing == Dir!Matching(ms, Passing)
      grouped == Grouped(passing)
  IN  ProduceRoot(FoldLeft(LAMBDA acc, n : AddDir(acc, n, grouped[n]),
                           Nothing, SetToSeq(DOMAIN grouped)),
                  RootMessages(passing))

-----------------------------------------------------------------------------
(* The file system *)

\* What can be listed from a directory down.
Reading(t, path) == [p \in Reachable(t, path) |-> Range(t.dirs[p])]

\* FileSystemOperationsUpdatable.update for one event: s has seen, fresh and
\* twice.  The content of a fresh directory is not read yet.
See(s, event) ==
  LET dir   == event.sender
      items == Range(event.items)
      known(p) == p \in DOMAIN s.seen \ s.fresh
      Named(p, fs) == {f \in s.seen[p] : \E i \in fs : i.id = f.id}
  IN  CASE event.kind = "newItems" /\ known(dir) ->
             [s EXCEPT !.twice = @ \/ Named(dir, items) # {}, !.seen[dir] = @ \cup items]
        [] event.kind = "updatedItems" /\ known(dir) ->
             [s EXCEPT !.seen[dir] = (@ \ Named(dir, items)) \cup items]
        [] event.kind = "removedItems" /\ known(dir) ->
             [s EXCEPT !.seen[dir] = @ \ Named(dir, items)]
        [] event.kind = "newDirs" /\ known(dir) ->
             [s EXCEPT !.twice = @ \/ items \cap DOMAIN s.seen # {},
                       !.fresh = @ \cup items,
                       !.seen  = [p \in DOMAIN @ \cup items |->
                                    IF p \in items THEN {} ELSE @[p]]]
        [] event.kind = "removedDirs" ->
             LET left == {p \in DOMAIN s.seen : \A d \in items : ~IsPrefix(d, p)}
             IN  [s EXCEPT !.seen = Restrict(@, left), !.fresh = @ \cap left]
        [] OTHER -> s

\* The events of a step are dispatched, then the fresh directories are read.
Dispatched(t) ==
  LET s == FoldLeft(See, [seen |-> seen, fresh |-> {}, twice |-> FALSE], t.events)
      below == UNION {Reachable(t, d) : d \in s.fresh \cap DOMAIN t.dirs}
  IN  [s EXCEPT !.seen  = [p \in DOMAIN @ \cup below |->
                             IF p \in below THEN Range(t.dirs[p]) ELSE @[p]],
                !.fresh = @ \cup below]

-----------------------------------------------------------------------------
Initials ==
  UNION {[1..k -> Contents] : k \in 0..MaxMessages}

Init ==
  /\ messages \in Initials
  /\ posted = Cardinality(DOMAIN messages)
  /\ \E g \in {Produced(messages)} :
       /\ groups = g.groups /\ root = g.root /\ files = g.files
       /\ tree = [g.tree EXCEPT !.events = <<>>]
       /\ seen = Reading(g.tree, RootPath)
  /\ fresh = {}
  /\ twice = FALSE

\* The source changes and notifies the grouper; TgmountBase dispatches.
Change(result) ==
  \E g \in {Updated([groups |-> groups, root |-> root, files |-> files, tree |-> tree],
                    result.notice)} :
    \E sight \in {Dispatched(g.tree)} :
      /\ messages' = result.messages
      /\ groups' = g.groups /\ root' = g.root /\ files' = g.files
      /\ tree' = [g.tree EXCEPT !.events = <<>>]
      /\ seen' = sight.seen /\ fresh' = sight.fresh
      /\ twice' = (twice \/ sight.twice)

Post(c) ==
  LET i == posted + 1
  IN  /\ posted < MaxMessages
      /\ posted' = i
      /\ Change(Source!AddMessages(messages, [j \in {i} |-> c]))

Edit(i, c) ==
  /\ <<messages[i], c>> \in Edits
  /\ Change(Source!EditMessages(messages, [j \in {i} |-> c]))
  /\ UNCHANGED posted

Delete(ids) ==
  /\ Change(Source!RemoveMessages(messages, ids))
  /\ UNCHANGED posted

Next ==
  \/ \E c \in Contents : Post(c)
  \/ \E i \in DOMAIN messages, c \in Contents : Edit(i, c)
  \/ \E ids \in SUBSET DOMAIN messages \ {{}} : Delete(ids)

Spec == Init /\ [][Next]_vars

-----------------------------------------------------------------------------
(* Correctness *)

\* The shape of the state: the producers of paths in the tree, and no others,
\* have files.
TypeOK ==
  /\ DOMAIN messages \subseteq 1..posted /\ posted \in 0..MaxMessages
  /\ \A ms \in {messages, root} \cup Range(groups) \cup Range(files) :
       \A i \in DOMAIN ms : i \in 1..posted /\ ms[i] \in Contents
  /\ DOMAIN files = {RootPath} \cup UNION {{<<n>> \o p : p \in Range(Parts)} : n \in DOMAIN groups}
  /\ DOMAIN files \subseteq DOMAIN tree.dirs
  /\ fresh \subseteq DOMAIN seen

\* The paths of the tree and of its registry agree after any sequence of groups
\* that come and go.
TreeAgrees == RegistryAgrees(tree)

\* The directories a message belongs to.
NamesOf(c) == {DirOf[k] : k \in KeysOf[c]}

\* The messages of the source that belong to a group and pass the filters.
Members(n) == RestrictValues(messages, LAMBDA c : c \in Passing /\ n \in NamesOf(c))

\* Every group has the messages of the source that belong to it, as they are
\* now, and there is a directory for every group that has a message, and none
\* for one that has not: over posts, edits that move messages between groups,
\* and deletions (_update_group, grouperbase.py:126).
GroupsFollowSource ==
  /\ DOMAIN groups = {n \in UNION {NamesOf(c) : c \in Contents} : Members(n) # None}
  /\ \A n \in DOMAIN groups : groups[n] = Members(n)
  /\ root = RootMessages(Dir!Matching(messages, Passing))

(* What the two properties depend on, of the messages and their edits. *)

\* No two groups have one directory.
NamesApart == \A k, l \in Keys : DirOf[k] = DirOf[l] => k = l

\* Messages of groups pass the filters: only new messages are filtered.
GroupsPass == \A c \in Contents : KeysOf[c] # {} => c \in Passing

\* Messages beside the groups are not edited: the grouper would not notice.
EditsStayBelow == \A e \in Edits : {e[1], e[2]} \cap InRoot = {}

Enters(e, n) == n \notin NamesOf(e[1]) /\ n \in NamesOf(e[2])

Leaves(e, n) == n \in NamesOf(e[1]) /\ n \notin NamesOf(e[2])

\* A message that leaves a group and comes back is wanted by the parts that
\* wanted it: their producers still have the file they made of it.
ReturnsAlike ==
  \A e, f \in Edits, n \in Range(DirOf), p \in Range(Parts) :
    Leaves(f, n) /\ Enters(e, n) /\ f[1] \in Wanted[p] => e[2] \in Wanted[p]

FilesShown(path) == Range(tree.dirs[path])

\* Every part of a group has one file for each message of the group that it
\* wants, made of the message as it is now; the directory itself has the
\* messages beside the groups.
DirsShowGroups ==
  /\ DOMAIN tree.dirs =
       {RootPath} \cup UNION {{<<n>>} \cup {<<n>> \o p : p \in Range(Parts)} :
                                n \in DOMAIN groups}
  /\ \A n \in DOMAIN groups, p \in Range(Parts) :
       /\ IsInjective(tree.dirs[<<n>> \o p])
       /\ FilesShown(<<n>> \o p) =
            Range(Dir!FilesOf(Dir!Matching(groups[n], Wanted[p])))
  /\ IsInjective(tree.dirs[RootPath])
  /\ FilesShown(RootPath) = Range(Dir!FilesOf(root))

\* A file system that was read once and then only follows the events lists what
\* the tree lists: the wrappers announce and withdraw each directory when its
\* listing becomes empty or stops being so (wrapper_exclude_empty_dirs.py:56).
EventsTellListing == seen = Reading(tree, RootPath) /\ ~twice

\* The messages that a step neither adds, edits nor removes.
Untouched(i) == i \in DOMAIN messages \cap DOMAIN messages' /\ messages[i] = messages'[i]

\* A directory that shows a message keeps its inode while the other messages
\* change: it is not withdrawn and announced again, which would close the files
\* that are open in it.
OthersUndisturbed ==
  [][\A p \in DOMAIN seen \cap fresh' :
       \A q \in DOMAIN seen : \A f \in seen[q] :
         IsPrefix(p, q) /\ f \in (IF q \in DOMAIN seen' THEN seen'[q] ELSE {})
           => ~Untouched(f.id)]_vars
=============================================================================
