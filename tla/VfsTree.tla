------------------------------- MODULE VfsTree -------------------------------
(***************************************************************************)
(* The virtual tree (tgmount/vfs_tree.py), its registry of subdirectories  *)
(* and the wrapper ExcludeEmptyDirs, as operators from a tree to the tree  *)
(* after an operation.  A tree is a record:                                *)
(*                                                                         *)
(*   dirs    the items of each directory, by path                          *)
(*   subdirs SubdirsRegistry: the paths of the children, by path           *)
(*   shown   subdirectories of wrapped directories that their wrapper has  *)
(*           announced (_wrapped_nonempty_dir_subdirs)                     *)
(*   events  what the listener of the tree has been told, in order         *)
(*                                                                         *)
(* A path is a sequence of names.  The wrapper keeps VfsTreeDir objects in *)
(* its set: "shown" loses a path when the object behind it is replaced.    *)
(***************************************************************************)
EXTENDS Naturals, Sequences, Functions, SequencesExt

CONSTANT Wrapped   \* depths of the directories with an ExcludeEmptyDirs wrapper

RootPath == <<>>

Parent(path) == Front(path)

NewTree ==
  [dirs    |-> [p \in {RootPath} |-> <<>>],
   subdirs |-> [p \in {RootPath} |-> <<>>],
   shown   |-> {},
   events  |-> <<>>]

Event(kind, sender, items) == [kind |-> kind, sender |-> sender, items |-> items]

\* The directories that are reached from one through the children of each.
Descendants(children, path) ==
  {p \in DOMAIN children :
     /\ IsPrefix(path, p)
     /\ \A k \in Len(path)..(Len(p) - 1) :
          SubSeq(p, 1, k + 1) \in children[SubSeq(p, 1, k)]}

\* SubdirsRegistry.get_subdirs(recursive=True), and the path itself
Below(tree, path) ==
  Descendants([p \in DOMAIN tree.subdirs |-> Range(tree.subdirs[p])], path)

-----------------------------------------------------------------------------
(* What a directory lists *)

\* The subdirectories each directory lists: a wrapper leaves out the ones that
\* list nothing.
Listed(tree) ==
  LET listed[p \in DOMAIN tree.dirs] ==
        {q \in Range(tree.subdirs[p]) :
           Len(p) \in Wrapped => tree.dirs[q] # <<>> \/ listed[q] # {}}
  IN  listed

\* Variant: only files count.
HasNoFiles(tree, path) == tree.dirs[path] = <<>>

IsEmpty(tree, path) == tree.dirs[path] = <<>> /\ Listed(tree)[path] = {}

\* The directories that can be reached from one through what is listed.
Reachable(tree, path) == Descendants(Listed(tree), path)

-----------------------------------------------------------------------------
(* Events climb from a directory to the root, through the wrappers *)

\* Variant: an announced directory is not remembered.
NotRemembered(shown, dir) == shown

Remembered(shown, dir) == shown \cup {dir}

\* WrapperEmpty.wrap_events of the wrapper of w, for one event.  "out" is what
\* goes on to the parent of w.
WrapEvent(tree, w, passed, event) ==
  LET sender  == event.sender
      isShown == sender \in passed.shown
      empty   == IsEmpty(tree, sender)
      announce == Event("newDirs", w, <<sender>>)
      withdraw == Event("removedDirs", w, <<sender>>)
      Passed(shown, events) == [shown |-> shown, out |-> passed.out \o events]
  IN  IF sender # RootPath /\ Parent(sender) = w THEN
        IF isShown /\ empty THEN Passed(passed.shown \ {sender}, <<withdraw>>)
        ELSE IF isShown     THEN Passed(passed.shown, <<event>>)
        ELSE IF ~empty      THEN Passed(Remembered(passed.shown, sender), <<announce, event>>)
        ELSE passed
      ELSE IF sender = w /\ event.kind = "newDirs" THEN
        Passed(passed.shown \cup {d \in Range(event.items) : ~IsEmpty(tree, d)}, <<>>)
      ELSE Passed(passed.shown, <<event>>)

WrapEvents(tree, w, passed) ==
  IF Len(w) \in Wrapped
  THEN FoldLeft(LAMBDA acc, event : WrapEvent(tree, w, acc, event),
                [shown |-> passed.shown, out |-> <<>>], passed.out)
  ELSE passed

\* A directory and its ancestors, up to the root.
Ancestors(path) ==
  [k \in 1..(Len(path) + 1) |-> SubSeq(path, 1, Len(path) + 1 - k)]

\* child_updated
ChildUpdated(tree, path, event) ==
  LET passed == FoldLeft(LAMBDA acc, w : WrapEvents(tree, w, acc),
                         [shown |-> tree.shown, out |-> <<event>>], Ancestors(path))
  IN  [tree EXCEPT !.shown = passed.shown, !.events = @ \o passed.out]

-----------------------------------------------------------------------------
(* Operations *)

PutContent(tree, path, items) ==
  ChildUpdated([tree EXCEPT !.dirs[path] = @ \o items], path,
               Event("newItems", path, items))

RemoveContent(tree, path, item) ==
  ChildUpdated([tree EXCEPT !.dirs[path] = RemoveFirst(@, item)], path,
               Event("removedItems", path, <<item>>))

\* Items are found by their name, which starts with the message id.
UpdateContent(tree, path, items) ==
  LET New(item) == {k \in DOMAIN items : items[k].id = item.id}
      updated   == [k \in DOMAIN tree.dirs[path] |->
                      LET item == tree.dirs[path][k]
                      IN  IF New(item) = {} THEN item ELSE items[Max(New(item))]]
  IN  ChildUpdated([tree EXCEPT !.dirs[path] = updated], path,
                   Event("updatedItems", path, items))

\* Variant: the registry of the parent keeps the path.
KeptByParent(subdirs, path) == subdirs

\* Both changes of the registry that mention the parent.
Unlinked(subdirs, path) == [subdirs EXCEPT ![Parent(path)] = RemoveFirst(@, path)]

\* The VfsTreeDir objects of these paths are gone or replaced.
Forgotten(shown, paths) == shown \ paths

\* put_dir: a path that exists gets a new, empty VfsTreeDir, and nobody is told.
PutDir(tree, path) ==
  IF path \in DOMAIN tree.dirs
  THEN [tree EXCEPT !.dirs[path] = <<>>, !.shown = Forgotten(@, {path})]
  ELSE LET paths == DOMAIN tree.dirs \cup {path}
           dirs  == [p \in paths |-> IF p = path THEN <<>> ELSE tree.dirs[p]]
           subs  == [p \in paths |-> IF p = path THEN <<>>
                                     ELSE IF p = Parent(path)
                                          THEN Append(tree.subdirs[p], path)
                                          ELSE tree.subdirs[p]]
       IN  ChildUpdated([tree EXCEPT !.dirs = dirs, !.subdirs = subs], Parent(path),
                        Event("newDirs", Parent(path), <<path>>))

RemoveDir(tree, path) ==
  LET gone == Below(tree, path)
      subs == Unlinked(tree.subdirs, path)
  IN  ChildUpdated([tree EXCEPT !.dirs = Restrict(@, DOMAIN @ \ gone),
                                !.subdirs = Restrict(subs, DOMAIN subs \ gone),
                                !.shown = Forgotten(@, gone)],
                   Parent(path), Event("removedDirs", Parent(path), <<path>>))

-----------------------------------------------------------------------------
(* Correctness *)

\* The registry and the dictionary of directories have the same paths; every
\* directory but the root is listed once, by its parent.  get_subdirs (line
\* 500) and remove_dir look up in one what they read in the other.
RegistryAgrees(tree) ==
  /\ DOMAIN tree.subdirs = DOMAIN tree.dirs
  /\ \A p \in DOMAIN tree.subdirs :
       /\ IsInjective(tree.subdirs[p])
       /\ Range(tree.subdirs[p]) = {q \in DOMAIN tree.dirs \ {RootPath} : Parent(q) = p}
  /\ \A p \in DOMAIN tree.dirs \ {RootPath} : Parent(p) \in DOMAIN tree.dirs
=============================================================================
