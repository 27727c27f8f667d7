------------------------------ MODULE ZipDirs ------------------------------
(***************************************************************************)
(* A directory whose zip files are shown as folders, either made so by its *)
(* producer UnpackedZip (VfsProducerZip, a PlainDir that puts folders into *)
(* the tree) or by the wrapper ZipsAsDirs, which rewrites what the tree    *)
(* lists and the events on their way to the file system.                   *)
(*                                                                         *)
(* A handler holds the update lock from its notice to the dispatch of the  *)
(* events of the tree, and may wait twice: for the archive of the message, *)
(* which is read over the network and may fail, and, its directory being   *)
(* done, for what else the notice goes to.  The file system may read the   *)
(* directory at any of these moments.                                      *)
(***************************************************************************)
EXTENDS Naturals, FiniteSets, Sequences, FiniteSetsExt, Functions, SequencesExt

CONSTANTS
  Bodies,      \* documents of messages: [name, doc, label], a label per caption
  ZipNames,    \* the names that end with .zip
  Archives,    \* Archives[doc]: the entries of the zip file; others are no zip files
  Excluded,    \* names left out of the root (skip_single_root_subfolder_exclude_from_root)
  Wanted,      \* the bodies that pass the filters of the directory
  Edits,       \* the <<from, to>> bodies of an edit
  Modes,       \* the ways zip files become folders: "producer", "wrapper"
  MaxInitial,  \* bound: messages before the start
  MaxMessages, \* bound: messages ever posted
  MaxUpdates   \* bound: updates in a run

ASSUME ZipBoundsAssumption ==
  MaxInitial \in Nat /\ MaxMessages \in Nat /\ MaxUpdates \in Nat

VARIABLES
  props,       \* WrapperZipsAsDirsProps, and who applies them
  phase,       \* of the program
  messages,    \* the messages of the source, as those of its entity
  posted,      \* the last id
  files,       \* _message_to_file of the producer
  items,       \* _dir_content_items of the VfsTreeDir
  folders,     \* _zip_to_dirlike of the producer or of the wrapper
  read,        \* the file system has read the directory
  shown,       \* its children there, in the order of inodes
  handler,     \* the handler of an update that is under way
  crossed,     \* history: messages listed while they were still to be told of
  upset,       \* history: messages whose handler ended with an exception
  retouched,   \* history: messages of zip files whose edit is not followed
  updates      \* number of updates so far

dir == <<files, items, folders>>
vars == <<props, phase, messages, posted, dir, read, shown, handler, crossed,
          upset, retouched, updates>>

M == INSTANCE MessageSource WITH Supported <- Bodies
P == INSTANCE PlainDir WITH Texts <- {}

-----------------------------------------------------------------------------
(* What is in a zip file *)

\* An entry of an archive; its path is a sequence of names.
Entry(path, isDir, global) == [path |-> path, isDir |-> isDir, global |-> global]

\* get_zipinfo_list: no folders, which end with a slash, and no absolute paths.
ZipInfos(entries) == {e.path : e \in {f \in entries : ~f.isDir /\ ~f.global}}

\* group_dirs_into_tree: the tree is the set of its paths.
RootNames(paths) == {Head(p) : p \in paths}

Under(paths, n) == {Tail(p) : p \in {q \in paths : Head(q) = n /\ Len(q) > 1}}

\* ls_zip_tree
LsZipTree(paths, path) == FoldLeft(Under, paths, path)

-----------------------------------------------------------------------------
(* Items of the directory *)

Name(i, of, unzipped) == [id |-> i, of |-> of, unzipped |-> unzipped]

FileLike(i, body) ==
  [kind |-> "file", name |-> Name(i, body.name, FALSE), doc |-> body.doc,
   label |-> body.label, paths |-> {}]

DirLike(name, doc, paths) ==
  [kind |-> "dir", name |-> name, doc |-> doc, label |-> 0, paths |-> paths]

IsZip(item) == item.kind = "file" /\ item.name.of \in ZipNames

\* dir_name_mapper: a folder beside its zip file needs a name of its own.
DirName(file) == [file.name EXCEPT !.unzipped = ~props.hide]

\* Variant: the folder is called like the one in the archive.
RootFolderName(file, root) == Name(0, root, FALSE)

SubfolderName(file, root) == Name(file.name.id, root, FALSE)

\* _add_zip_file up to the registration.  An archive that cannot be read, or
\* has nothing at its root to index, raises; one that is no archive is bad.
Unzip(file, readable) ==
  LET paths == ZipInfos(Archives[file.doc])
      roots == RootNames(paths) \ Excluded
      root  == CHOOSE n \in roots : TRUE
      Folder(name, below) == [is |-> "folder", item |-> DirLike(name, file.doc, below)]
  IN  IF ~readable THEN [is |-> "raised"]
      ELSE IF file.doc \notin DOMAIN Archives THEN [is |-> "bad"]
      ELSE IF roots = {} THEN [is |-> "raised"]
      ELSE IF props.skip /\ Cardinality(roots) = 1 /\ Under(paths, root) # {}
      THEN Folder(SubfolderName(file, root), LsZipTree(paths, <<root>>))
      ELSE Folder(DirName(file), paths)

\* The zip files among some files while their archives are awaited, and what
\* they turn out to be.
Awaited(list) == [f \in {g \in list : IsZip(g)} |-> [is |-> "awaited"]]

Unzipped(list, unreadable) ==
  [f \in {g \in list : IsZip(g)} |-> Unzip(f, f.name.id \notin unreadable)]

\* The folder in place of its zip file, or beside it.
WithFile(folder, file) == IF props.hide THEN <<folder>> ELSE <<folder, file>>

-----------------------------------------------------------------------------
(* Zip files of a list are turned into folders *)

\* Variant: a folder is not remembered.
NotRegistered(dict, name, folder) == dict

Registered(dict, name, folder) ==
  [n \in DOMAIN dict \cup {name} |-> IF n = name THEN folder ELSE dict[n]]

\* add_items_to_vfs_tree of the producer and _process_event_new_item of the
\* wrapper, for one item; "zips" is what its zip file turns out to be.
AddOne(st, item, zips) ==
  IF st.stop # "no" THEN st
  ELSE IF ~IsZip(item) THEN [st EXCEPT !.out = Append(@, item)]
  ELSE IF zips[item].is \in {"raised", "awaited"} THEN [st EXCEPT !.stop = zips[item].is]
  ELSE IF zips[item].is = "bad" THEN [st EXCEPT !.out = Append(@, item)]
  ELSE [st EXCEPT !.out = @ \o WithFile(zips[item].item, item),
                  !.folders = Registered(@, item.name, zips[item].item)]

\* Variant: the folder stays registered.
StillRegistered(dict, name) == dict

Unregistered(dict, name) == Restrict(dict, DOMAIN dict \ {name})

\* remove_items_from_vfs_dir of the producer, the removed items of an event in
\* the wrapper.
RemoveOne(st, item) ==
  IF item.kind = "file" /\ item.name \in DOMAIN st.folders
  THEN [st EXCEPT !.out = @ \o WithFile(st.folders[item.name], item),
                  !.folders = Unregistered(@, item.name)]
  ELSE [st EXCEPT !.out = Append(@, item)]

AddAll(st, list, zips) ==
  FoldLeft(LAMBDA acc, item : AddOne(acc, item, zips), [st EXCEPT !.out = <<>>], list)

RemoveAll(st, list) == FoldLeft(RemoveOne, [st EXCEPT !.out = <<>>], list)

\* Nothing is done behind an exception, nor yet while an archive is awaited.
Unless(st, next) == IF st.stop # "no" THEN st ELSE next

-----------------------------------------------------------------------------
(* Operations of the VfsTreeDir, and the event of each *)

\* "names" are those the items of an update replace.
Event(kind, list, names) == [kind |-> kind, items |-> list, names |-> names]

Pass(st, event) == [st EXCEPT !.events = Append(@, event)]

\* What goes on from the wrapper, if it does.
PassOut(st, kind) == Unless(st, Pass(st, Event(kind, st.out, <<>>)))

\* child_updated, through wrap_events: "events" are those that reach the tree's
\* listener.  An update of items is passed on as it is.
Emit(st, event, zips) ==
  IF props.by # "wrapper" \/ event.kind = "updated" THEN Pass(st, event)
  ELSE PassOut(IF event.kind = "new" THEN AddAll(st, event.items, zips)
               ELSE RemoveAll(st, event.items), event.kind)

PutContent(st, list, zips) ==
  Emit([st EXCEPT !.items = @ \o list], Event("new", list, <<>>), zips)

RemoveContent(st, item) ==
  Emit([st EXCEPT !.items = RemoveFirst(@, item)], Event("removed", <<item>>, <<>>), <<>>)

\* The new item of each name.
UpdateContent(st, names, list) ==
  LET replaced(item) == IF Contains(names, item.name)
                        THEN list[CHOOSE k \in DOMAIN names : names[k] = item.name]
                        ELSE item
  IN  Emit([st EXCEPT !.items = [k \in DOMAIN @ |-> replaced(@[k])]],
           Event("updated", list, names), <<>>)

-----------------------------------------------------------------------------
(* What the producer does with files *)

PutOut(st, zips) == Unless(st, PutContent(st, st.out, zips))

\* add_items_to_vfs_tree
AddItems(st, list, zips) ==
  IF list = <<>> \/ st.stop # "no" THEN st
  ELSE PutOut(IF props.by = "producer" THEN AddAll(st, list, zips)
              ELSE [st EXCEPT !.out = list], zips)

RemoveOut(st) == FoldLeft(RemoveContent, st, st.out)

\* remove_items_from_vfs_dir
RemoveItems(st, list) ==
  IF st.stop # "no" THEN st
  ELSE RemoveOut(IF props.by = "producer" THEN RemoveAll(st, list)
                 ELSE [st EXCEPT !.out = list])

\* Variant: an archive that is edited is always the same.
KeepsZip(old, new) ==
  \/ props.by # "producer"
  \/ IsZip(old) <=> IsZip(new)

\* A file keeps its place if no folder has to change: neither is a zip file, or
\* it is the same document, whose caption or reactions changed.
KeepsPlace(old, new) ==
  \/ props.by # "producer"
  \/ ~IsZip(old) /\ ~IsZip(new)
  \/ IsZip(old) /\ IsZip(new) /\ old.doc = new.doc

\* update_items_in_vfs_tree, with what an edit replaces and what it puts there:
\* the files that keep their place are updated after the others were removed
\* and added, and the tree is told also if there are none.
UpdateItems(st, old, new, zips) ==
  LET moves == SelectSeq([k \in DOMAIN old |-> k], LAMBDA k : ~KeepsPlace(old[k], new[k]))
      stays == SelectSeq([k \in DOMAIN old |-> k], LAMBDA k : KeepsPlace(old[k], new[k]))
      Move(acc, k) == AddItems(RemoveItems(acc, <<old[k]>>), <<new[k]>>, zips)
      Update(moved) ==
        Unless(moved, UpdateContent(moved, [k \in DOMAIN stays |-> old[stays[k]].name],
                                           [k \in DOMAIN stays |-> new[stays[k]]]))
  IN  IF old = <<>> THEN st ELSE Update(FoldLeft(Move, st, moves))

FilesLike(list) == [k \in DOMAIN list |-> FileLike(list[k].id, list[k].content)]

\* The files of the plan of a notice.
Work(plan) ==
  LET new == P!FilesOf(plan.update)
      old == [k \in DOMAIN new |-> P!File(new[k].id, files[new[k].id])]
  IN  [remove |-> FilesLike(P!FilesOf(plan.remove)), add |-> FilesLike(plan.add),
       old    |-> FilesLike(old), new |-> FilesLike(new)]

\* The update callbacks of VfsTreeProducerPlainDir.
Handled(st, work, zips) ==
  UpdateItems(AddItems(RemoveItems(st, work.remove), work.add, zips),
              work.old, work.new, zips)

-----------------------------------------------------------------------------
(* The file system *)

\* What the directory lists: wrap_dir_content puts the folders the wrapper knows
\* in the place of their files.
Listing ==
  LET turned(item) == IF props.by = "wrapper" /\ item.name \in DOMAIN folders
                      THEN WithFile(folders[item.name], item) ELSE <<item>>
  IN  FlattenSeq([k \in DOMAIN items |-> turned(items[k])])

\* The child of a name, the last one if there are several.
ChildAt(list, name) == SelectLastInSeq(list, LAMBDA item : item.name = name)

UpdateChild(list, name, item) ==
  LET k == ChildAt(list, name)
  IN  IF k = 0 THEN Append(list, item) ELSE [list EXCEPT ![k] = item]

RemoveChild(list, item) ==
  LET k == ChildAt(list, item.name)
  IN  IF k = 0 THEN list ELSE RemoveAt(list, k)

\* FileSystemOperationsUpdatable.update of a directory that was read.
Dispatched(list, event) ==
  CASE event.kind = "new"     -> list \o event.items
    [] event.kind = "removed" -> FoldLeft(RemoveChild, list, event.items)
    [] event.kind = "updated" ->
         FoldLeft(LAMBDA acc, k : UpdateChild(acc, event.names[k], event.items[k]),
                  list, [k \in DOMAIN event.items |-> k])

\* No handler is under way.
Idle == [at |-> "idle"]

\* The messages of what the handler has put there and has not told of.
Untold ==
  IF handler = Idle THEN {}
  ELSE {item.name.id : item \in ToSet(items) \ ToSet(handler.before.items)}

ReadDir ==
  /\ phase = "mounted" /\ ~read
  /\ read' = TRUE
  /\ shown' = Listing
  /\ crossed' = Untold
  /\ UNCHANGED <<props, phase, messages, posted, dir, handler, upset, retouched, updates>>

-----------------------------------------------------------------------------
(* Mounting and updates *)

Init ==
  /\ props \in [by : Modes, hide : BOOLEAN, skip : BOOLEAN]
  /\ phase = "starting"
  /\ posted \in 0..MaxInitial
  /\ messages \in [1..posted -> Bodies]
  /\ files = <<>> /\ items = <<>> /\ folders = <<>>
  /\ read = FALSE /\ shown = <<>>
  /\ handler = Idle
  /\ crossed = {} /\ upset = {} /\ retouched = {}
  /\ updates = 0

State ==
  [items |-> items, folders |-> folders, out |-> <<>>, events |-> <<>>, stop |-> "no"]

Becomes(st) == items' = st.items /\ folders' = st.folders

\* produce(): an exception ends mount().
Mount ==
  /\ phase = "starting"
  /\ files' = P!Matching(messages, Wanted)
  /\ \E unreadable \in SUBSET (1..posted) :
       \E list \in {FilesLike(P!FilesOf(files'))} :
     \E zips \in {Unzipped(ToSet(list), unreadable)} :
       \E after \in {AddItems(State, list, zips)} :
         /\ Becomes(after)
         /\ phase' = IF after.stop = "raised" THEN "failed" ELSE "mounted"
  /\ UNCHANGED <<props, messages, posted, read, shown, handler, crossed, upset,
                 retouched, updates>>

\* The handler has changed the directory and waits for the other listeners.
Telling(before, events) == [at |-> "told", before |-> before, events |-> events]

\* A handler from the notice of the source to the first archive, or to the end
\* of its directory if it reads none.
Begin(result) ==
  \E notice \in {result.notice} :
    \E plan \in {P!Plan(notice, files, P!PassingIds(notice.new, Wanted))} :
      \E work \in {Work(plan)} :
      \E now \in {Handled(State, work, Awaited(ToSet(work.add \o work.new)))} :
        /\ Becomes(now)
        /\ files' = P!FilesAfter(files, plan)
        /\ messages' = result.messages
        /\ handler' = IF now.stop = "no" THEN Telling(State, now.events)
                      ELSE [at |-> "archive", before |-> State, work |-> work,
                            edits |-> notice.kind = "edited"]

\* The archive is read, or the network fails.  What the handler did before it
\* asked for the archive does not depend on the answer, and nobody else changes
\* the directory: it is done over from there.  Only the handler of edits
\* catches an exception, and goes on to the events that are there.
ReadArchive ==
  /\ handler.at = "archive"
  /\ \E list \in {ToSet(handler.work.add \o handler.work.new)} :
     \E ids \in {{file.name.id : file \in list}} :
     \E unreadable \in {{}, ids} :
     \E after \in {Handled(handler.before, handler.work, Unzipped(list, unreadable))} :
       /\ Becomes(after)
       /\ upset' = IF after.stop = "raised" THEN upset \cup ids ELSE upset
       /\ handler' = IF after.stop = "raised" /\ ~handler.edits THEN Idle
                     ELSE Telling(handler.before, after.events)
  /\ UNCHANGED <<props, phase, messages, posted, files, read, shown, crossed, retouched,
                 updates>>

\* _dispatch_to_filesystem, which is not interrupted.
Dispatch ==
  /\ handler.at = "told"
  /\ shown' = IF read THEN FoldLeft(Dispatched, shown, handler.events) ELSE shown
  /\ handler' = Idle
  /\ UNCHANGED <<props, phase, messages, posted, dir, read, crossed, upset, retouched,
                 updates>>

Update ==
  /\ phase = "mounted" /\ handler = Idle /\ updates < MaxUpdates
  /\ updates' = updates + 1
  /\ UNCHANGED <<props, phase, read, shown, crossed, upset>>

Post ==
  \E b \in Bodies :
    /\ Update
    /\ posted < MaxMessages
    /\ posted' = posted + 1
    /\ Begin(M!AddMessages(messages, [i \in {posted + 1} |-> b]))
    /\ UNCHANGED retouched

\* The new file of an archive that is hidden takes the place of a folder of its
\* name, in the tree or in the file system, and the wrapper passes every update
\* of items on as it is.
Mistold(old, new) ==
  \/ props.by = "wrapper" /\ (IsZip(old) \/ IsZip(new))
  \/ props.by = "producer" /\ props.hide /\ IsZip(old) /\ IsZip(new) /\ old.doc = new.doc

Edit ==
  \E i \in DOMAIN messages : \E b \in {c \in Bodies : <<messages[i], c>> \in Edits} :
    /\ Update
    /\ Begin(M!EditMessages(messages, [j \in {i} |-> b]))
    /\ retouched' = IF Mistold(FileLike(i, messages[i]), FileLike(i, b))
                    THEN retouched \cup {i} ELSE retouched
    /\ UNCHANGED posted

Delete ==
  \E i \in DOMAIN messages :
    /\ Update
    /\ Begin(M!RemoveMessages(messages, {i}))
    /\ UNCHANGED <<posted, retouched>>

Next == Mount \/ ReadDir \/ Post \/ Edit \/ Delete \/ ReadArchive \/ Dispatch

Spec == Init /\ [][Next]_vars

-----------------------------------------------------------------------------
(* Correctness *)

\* The file of a message, turned into a folder if it is an archive.
Turning(i) ==
  LET file == FileLike(i, messages[i])
  IN  AddOne(State, file, Unzipped({file}, {})).out

Of(i, list) == SelectSeq(list, LAMBDA item : item.name.id = i)

\* The shape of the state: folders are of zip files, and those the producer
\* keeps are in the directory, or their handler ended with an exception.
TypeOK ==
  /\ phase \in {"starting", "mounted", "failed"}
  /\ DOMAIN messages \subseteq 1..posted
  /\ DOMAIN files \subseteq 1..posted
  /\ \A n \in DOMAIN folders :
       /\ n.of \in ZipNames /\ folders[n].kind = "dir"
       /\ props.by = "producer" /\ phase = "mounted" =>
            Contains(items, folders[n]) \/ n.id \in upset \cup retouched
  /\ \A k \in DOMAIN shown : read
  /\ handler.at \in {"idle", "archive", "told"}
  /\ handler # Idle => handler.before.stop = "no" /\ phase = "mounted"

IsPermutation(s, t) == Len(s) = Len(t) /\ ToSet(s) = ToSet(t)

FolderOrFile(i, list) ==
  Of(i, list) = IF messages[i] \in Wanted THEN Turning(i) ELSE <<>>

\* README.md:182 says of UnpackedZip "PlainDir but zips are mounted as folders":
\* every message that passes has its folder, and its file only if that is no
\* archive or not hidden, through edits that replace archives, turn them into
\* other files and back, or take them in and out of the directory.  Left out
\* are edits of hidden archives that keep the document, all edits of archives
\* under a wrapper, and handlers that ended with an exception; while an archive
\* is awaited its directory is not finished.
ZipsAreFolders ==
  phase = "mounted" /\ handler.at # "archive" =>
    \A list \in {Listing} :
      \A i \in DOMAIN messages \ (upset \cup retouched) : FolderOrFile(i, list)

\* The same with the edits of hidden archives, of which producer_zip.py:72 says
\* "reactions or text changed, not document".
EditedZipsAreFolders ==
  phase = "mounted" /\ handler.at # "archive" =>
    \A i \in DOMAIN messages \ upset : FolderOrFile(i, Listing)

\* No two items have one name, also when archives have the same folder at their
\* root and when zip files are listed beside their folders.
NamesDiffer ==
  \A list \in {Listing} : \A k, l \in DOMAIN list :
    list[k].name = list[l].name => k = l \/ list[k].name.id \in retouched

\* Between two handlers the file system has, told by events, what it would read
\* now, whenever it read the directory: before the handler, while an archive was
\* awaited between a removal and the new folder, or between the end of the
\* directory and the dispatch.  Left out are the messages it read while the
\* handler had still to tell of them: read while the wrapper awaits an archive,
\* the directory lists the zip file, and the event adds the folder beside it.
FsShowsListing ==
  read /\ handler = Idle =>
    \A list \in {Listing} : \A i \in (1..posted) \ (crossed \cup upset \cup retouched) :
      IsPermutation(Of(i, shown), Of(i, list))

\* Nothing is left of a message that was deleted, whatever failed before,
\* neither in the tree nor, when its handler is done, in the file system.
GoneIsGone ==
  \A i \in (1..posted) \ (DOMAIN messages \cup retouched) :
    /\ Of(i, items) = <<>>
    /\ handler = Idle /\ i \notin crossed => Of(i, shown) = <<>>
=============================================================================
