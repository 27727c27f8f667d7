----------------------------- MODULE FileSystem -----------------------------
(***************************************************************************)
(* The mounted file system (tgmount/fs) over the virtual tree: directories *)
(* are read into inodes when the kernel first asks for them, and an update *)
(* from Telegram changes the tree first and the inodes later, when its     *)
(* handler (TgmountBase.on_...) dispatches the events of the tree.         *)
(*                                                                         *)
(* No directory that the program makes suspends while it is read, so that  *)
(* nobody ever waits for the lock of the file system, and a request of the *)
(* kernel is one step, except opening a file.  A handler that changes the  *)
(* tree may wait between its changes; its dispatch is not interrupted.     *)
(***************************************************************************)
EXTENDS Naturals, Sequences, FiniteSets, FiniteSetsExt, Functions, SequencesExt

CONSTANTS
  Top,          \* the path of the root directory
  Dirs,         \* directories that producers may make in it, by name
  Names,        \* names of files
  MessageOf,    \* MessageOf[n]: the message whose file may have the name n
  Versions,     \* contents of files
  Mistaken,     \* names of files that producers may update when they are gone
  MaxChanges,   \* bound: changes of the tree
  MaxHandles    \* bound: handles given out

ASSUME NamesAssumption ==
  /\ Top \notin Dirs \cup Names /\ Dirs \cap Names = {}
  /\ DOMAIN MessageOf = Names
  /\ Mistaken \subseteq Names

ASSUME BoundsAssumption == MaxChanges \in Nat /\ MaxHandles \in Nat

VARIABLES
  tree,         \* tree[d][n]: the version of file n of directory d
  changes,      \* number of changes of the tree
  pending,      \* events of the tree the handler has still to dispatch
  dispatching,  \* the handler is dispatching them
  inodes,       \* InodesRegistry._inodes: the items, but for the root
  lastInode,    \* InodesRegistry._last_inode
  contentRead,  \* InodesRegistry._dir_content_read
  fhs,          \* FileSystemHandles._fhs: the item of each handle
  fhByItem,     \* FileSystemHandles._fh_by_item
  lastFh,       \* FileSystemHandles._last_fh
  opening,      \* requests whose open_func is awaited
  held,         \* handles the kernel has and has not given back
  crossed,      \* history: a directory was read while an event of it waited
  lost,         \* history: a handler failed and its events were not dispatched
  stray         \* history: an event told of a file that the tree does not have

producers == <<tree, changes>>
registry == <<inodes, lastInode, contentRead>>
handles == <<fhs, fhByItem, lastFh, opening, held>>
history == <<crossed, lost, stray>>
vars == <<producers, pending, dispatching, registry, handles, history>>

Root == 1

NoInode == 0

-----------------------------------------------------------------------------
(* What directories list *)

FileEntry(n, v) == [kind |-> "file", name |-> n, version |-> v]

DirEntry(d) == [kind |-> "dir", name |-> d]

Entries(d) ==
  {FileEntry(n, tree[d][n]) : n \in DOMAIN tree[d]}
    \cup IF d = Top THEN {DirEntry(e) : e \in DOMAIN tree \ {Top}} ELSE {}

-----------------------------------------------------------------------------
(* Inodes *)

\* A RegistryItem.  Each one made takes a new inode number, those that replace
\* the item of an inode too: "stamp" tells the objects apart.
Item(inode, stamp, parent, entry) ==
  [inode |-> inode, stamp |-> stamp, parent |-> parent, entry |-> entry]

Present(i) == i \in {Root} \cup DOMAIN inodes

Children(p) == {i \in DOMAIN inodes : inodes[i].parent = p}

\* Variant: the first item of the name is found.
FirstChild(p, n) ==
  LET named == {i \in Children(p) : inodes[i].entry.name = n}
  IN  IF named = {} THEN NoInode ELSE Min(named)

\* get_child_item_by_name: the dictionary by name keeps the last of its name.
Child(p, n) ==
  LET named == {i \in Children(p) : inodes[i].entry.name = n}
  IN  IF named = {} THEN NoInode ELSE Max(named)

\* get_by_path of a directory
DirInode(d) == IF d = Top THEN Root ELSE Child(Root, d)

\* The path of the VfsTreeDirContent behind a directory inode.
PathOf(i) == IF i = Root THEN Top ELSE inodes[i].entry.name

IsDir(i) == i # Root => inodes[i].entry.kind = "dir"

\* get_item_children_inodes_recursively
Descendants(i) ==
  Children(i) \cup {j \in DOMAIN inodes : inodes[j].parent \in Children(i)}

\* Variant: the children stay in the registry.
OnlyItself(i) == {i}

\* What remove_item_with_children takes out of the registry.
WithChildren(i) == {i} \cup Descendants(i)

-----------------------------------------------------------------------------
(* Handles *)

\* _remove_from_handles releases the handles of an item while it iterates over
\* the list release_fh takes them from, so that every second one is skipped.
Skipped(list) == [k \in 1..(Len(list) \div 2) |-> list[2 * k]]

\* The handles of the removed items are released, but for the skipped ones.
ReleaseAll(items) ==
  LET listed  == DOMAIN fhByItem \cap items
      kept    == [it \in listed |-> Skipped(fhByItem[it])]
      dropped == {fh \in DOMAIN fhs :
                    \E it \in listed : /\ Contains(fhByItem[it], fh)
                                       /\ ~Contains(kept[it], fh)}
  IN  /\ fhs' = Restrict(fhs, DOMAIN fhs \ dropped)
      /\ fhByItem' = [it \in (DOMAIN fhByItem \ listed)
                               \cup {it \in listed : kept[it] # <<>>} |->
                        IF it \in listed THEN kept[it] ELSE fhByItem[it]]

OpenFh(item) ==
  LET fh  == lastFh + 1
      old == IF item \in DOMAIN fhByItem THEN fhByItem[item] ELSE <<>>
  IN  /\ lastFh < MaxHandles
      /\ lastFh' = fh
      /\ fhs' = [f \in DOMAIN fhs \cup {fh} |-> IF f = fh THEN item ELSE fhs[f]]
      /\ fhByItem' = [it \in DOMAIN fhByItem \cup {item} |->
                        IF it = item THEN Append(old, fh) ELSE fhByItem[it]]
      /\ held' = held \cup {fh}

\* Variant: the handle stays in the list of its item.
StillListed(list, fh) == list

Unlisted(list, fh) == RemoveFirst(list, fh)

ReleaseFh(fh) ==
  LET item == fhs[fh]
      left == Unlisted(fhByItem[item], fh)
  IN  /\ fhs' = Restrict(fhs, DOMAIN fhs \ {fh})
      /\ fhByItem' = IF left = <<>> THEN Restrict(fhByItem, DOMAIN fhByItem \ {item})
                                    ELSE [fhByItem EXCEPT ![item] = left]

-----------------------------------------------------------------------------
Init ==
  /\ tree \in [{Top} -> {<<>>} \cup UNION {[{n} -> Versions] : n \in Names}]
  /\ changes = 0
  /\ pending = <<>>
  /\ dispatching = FALSE
  /\ inodes = <<>>
  /\ lastInode = Root
  /\ contentRead = {}
  /\ fhs = <<>>
  /\ fhByItem = <<>>
  /\ lastFh = 0
  /\ opening = {}
  /\ held = {}
  /\ crossed = FALSE
  /\ lost = FALSE
  /\ stray = FALSE

-----------------------------------------------------------------------------
(* The handler of an update: changes of the tree, then their dispatch *)

Event(kind, d, n, entry) == [kind |-> kind, dir |-> d, name |-> n, entry |-> entry]

Change(newTree, event) ==
  /\ changes < MaxChanges
  /\ ~dispatching
  /\ tree' = newTree
  /\ changes' = changes + 1
  /\ pending' = Append(pending, event)
  /\ UNCHANGED <<dispatching, registry, handles, crossed, lost>>

PutFile(d, n, v) ==
  /\ \A m \in DOMAIN tree[d] : MessageOf[m] # MessageOf[n]
  /\ Change([tree EXCEPT ![d] = [m \in DOMAIN @ \cup {n} |->
                                   IF m = n THEN v ELSE @[m]]],
            Event("new", d, n, FileEntry(n, v)))
  /\ UNCHANGED stray

\* An edit brings another content and may bring another name: both names start
\* with the id of the message.
UpdateFile(d, n, m, v) ==
  /\ n \in DOMAIN tree[d]
  /\ MessageOf[m] = MessageOf[n] /\ <<m, v>> # <<n, tree[d][n]>>
  /\ Change([tree EXCEPT ![d] = [k \in (DOMAIN @ \ {n}) \cup {m} |->
                                   IF k = m THEN v ELSE @[k]]],
            Event("update", d, n, FileEntry(m, v)))
  /\ UNCHANGED stray

\* A producer that takes a file that it has removed for one that is there: of
\* what is not there update_content replaces nothing, and tells all the same.
UpdateNothing(d, n, m, v) ==
  /\ n \in Mistaken \ DOMAIN tree[d]
  /\ MessageOf[m] = MessageOf[n]
  /\ Change(tree, Event("update", d, n, FileEntry(m, v)))
  /\ stray' = TRUE

RemoveFile(d, n) ==
  /\ n \in DOMAIN tree[d]
  /\ Change([tree EXCEPT ![d] = Restrict(@, DOMAIN @ \ {n})],
            Event("remove", d, n, FileEntry(n, tree[d][n])))
  /\ UNCHANGED stray

CreateDir(d) ==
  /\ d \in Dirs \ DOMAIN tree
  /\ Change([e \in DOMAIN tree \cup {d} |-> IF e = d THEN <<>> ELSE tree[e]],
            Event("new", Top, d, DirEntry(d)))
  /\ UNCHANGED stray

RemoveDir(d) ==
  /\ d \in DOMAIN tree \ {Top}
  /\ Change(Restrict(tree, DOMAIN tree \ {d}), Event("remove", Top, d, DirEntry(d)))
  /\ UNCHANGED stray

\* A message of the update could not be made a file of: on_new_message ends
\* before the events of its changes are dispatched.  (An edit catches the
\* exception and a removal makes no files.)
FailHandler ==
  /\ ~dispatching /\ pending # <<>>
  /\ \A k \in DOMAIN pending : pending[k].kind = "new"
  /\ pending' = <<>>
  /\ lost' = TRUE
  /\ UNCHANGED <<producers, dispatching, registry, handles, crossed, stray>>

\* Variant: inodes are numbered by how many there are.
CountedInode == Cardinality(DOMAIN inodes) + Root + 1

\* InodesRegistry._new_inode
NewInode == lastInode + 1

AddSubitem(p, entry) ==
  LET i == NewInode
  IN  /\ lastInode' = i
      /\ inodes' = [j \in DOMAIN inodes \cup {i} |->
                      IF j = i THEN Item(i, i, p, entry) ELSE inodes[j]]
      /\ UNCHANGED <<contentRead, fhs, fhByItem>>

\* Variant: the new item takes the number that was made for it.
MovesToNew(i) == NewInode

\* update_subitem: the new item replaces the old one under its inode.
KeepsInode(i) == i

UpdateSubitem(p, i, entry) ==
  /\ lastInode' = NewInode
  /\ inodes' = [j \in (DOMAIN inodes \ {i}) \cup {KeepsInode(i)} |->
                  IF j = KeepsInode(i) THEN Item(j, NewInode, p, entry) ELSE inodes[j]]
  /\ UNCHANGED <<contentRead, fhs, fhByItem>>

RemoveItem(i) ==
  /\ inodes' = Restrict(inodes, DOMAIN inodes \ WithChildren(i))
  /\ contentRead' = contentRead \ {i}
  /\ ReleaseAll({inodes[j] : j \in WithChildren(i)})
  /\ UNCHANGED lastInode

\* Variant: an event of a directory that was not read is applied too.
KnownDir(p) == p # NoInode

\* The directory is in the registry, and its content was read: otherwise its
\* content will be read from the tree, which has the change.
ReadDir(p) == p # NoInode /\ p \in contentRead

\* FileSystemOperationsUpdatable.update, one event of the tree at a time.
Apply(event) ==
  LET p == DirInode(event.dir)
      i == IF p = NoInode THEN NoInode ELSE Child(p, event.name)
  IN  \/ /\ event.kind = "new" /\ ReadDir(p)
         /\ AddSubitem(p, event.entry)
      \/ /\ event.kind = "update" /\ ReadDir(p)
         /\ \/ i = NoInode /\ AddSubitem(p, event.entry)
            \/ i # NoInode /\ UpdateSubitem(p, i, event.entry)
      \/ /\ event.kind = "remove" /\ i # NoInode
         /\ RemoveItem(i)
      \/ /\ IF event.kind = "remove" THEN i = NoInode ELSE ~ReadDir(p)
         /\ UNCHANGED <<registry, fhs, fhByItem>>

Dispatch ==
  /\ pending # <<>>
  /\ pending' = Tail(pending)
  /\ dispatching' = (Len(pending) > 1)
  /\ Apply(Head(pending))
  /\ UNCHANGED <<producers, lastFh, opening, held, history>>

-----------------------------------------------------------------------------
(* Requests of the kernel *)

\* _read_dir_content and set_content_read.  The content of a directory that is
\* not in the tree any more cannot be read.
ReadDirContent(p) ==
  LET d       == PathOf(p)
      entries == SetToSeq(Entries(d))
      new     == (lastInode + 1)..(lastInode + Len(entries))
  IN  /\ p \notin contentRead
      /\ d \in DOMAIN tree
      /\ inodes' = [i \in DOMAIN inodes \cup new |->
                      IF i \in new THEN Item(i, i, p, entries[i - lastInode])
                                   ELSE inodes[i]]
      /\ lastInode' = lastInode + Len(entries)
      /\ contentRead' = contentRead \cup {p}
      /\ crossed' = (crossed \/ \E k \in DOMAIN pending : pending[k].dir = d)

\* A lookup in a directory that was read answers from the registry.
Lookup(p) ==
  /\ ~dispatching
  /\ Present(p) /\ IsDir(p)
  /\ ReadDirContent(p)
  /\ UNCHANGED <<producers, pending, dispatching, handles, lost, stray>>

RootItem == Item(Root, Root, NoInode, DirEntry(Top))

ItemOf(i) == IF i = Root THEN RootItem ELSE inodes[i]

Opendir(i) ==
  /\ ~dispatching
  /\ Present(i) /\ IsDir(i) /\ PathOf(i) \in DOMAIN tree
  /\ OpenFh(ItemOf(i))
  /\ UNCHANGED <<producers, pending, dispatching, registry, opening, history>>

\* readdir of a handle whose directory is still in the registry.
Readdir(fh) ==
  /\ ~dispatching
  /\ fh \in held \cap DOMAIN fhs
  /\ fhs[fh].entry.kind = "dir" /\ Present(fhs[fh].inode)
  /\ ReadDirContent(fhs[fh].inode)
  /\ UNCHANGED <<producers, pending, dispatching, handles, lost, stray>>

\* open() up to open_func, which waits for the network when the file is a
\* member of a zip file.
Open(i) ==
  /\ ~dispatching
  /\ i \in DOMAIN inodes /\ ~IsDir(i)
  /\ lastFh + Cardinality(opening) < MaxHandles
  /\ LET turn == CHOOSE k \in 1..MaxHandles : \A request \in opening : request.turn # k
     IN  opening' = opening \cup {[turn |-> turn, item |-> inodes[i]]}
  /\ UNCHANGED <<producers, pending, dispatching, registry, fhs, fhByItem, lastFh,
                 held, history>>

\* The item may have been replaced or removed meanwhile.
Opened(request) ==
  /\ ~dispatching
  /\ opening' = opening \ {request}
  /\ OpenFh(request.item)
  /\ UNCHANGED <<producers, pending, dispatching, registry, history>>

\* Variant: what is not in the registry any more cannot be released.
Unregistered(item) == ~Present(item.inode)

\* releasedir_func raises when the directory is not in the tree any more.
Unreleasable(item) == item.entry.kind = "dir" /\ item.entry.name \notin DOMAIN tree

\* release and releasedir.  A handle that an update released is not there.  One
\* of a directory that is gone stays in the tables, and the kernel will not give
\* it back again.
Release(fh) ==
  /\ ~dispatching
  /\ held' = held \ {fh}
  /\ \/ /\ fh \in DOMAIN fhs /\ ~Unreleasable(fhs[fh])
        /\ ReleaseFh(fh)
     \/ /\ fh \in DOMAIN fhs => Unreleasable(fhs[fh])
        /\ UNCHANGED <<fhs, fhByItem>>
  /\ UNCHANGED <<producers, pending, dispatching, registry, lastFh, opening, history>>

-----------------------------------------------------------------------------
Producers ==
  \/ \E d \in DOMAIN tree, n \in Names, v \in Versions :
       \/ PutFile(d, n, v)
       \/ \E m \in Names : UpdateFile(d, n, m, v) \/ UpdateNothing(d, n, m, v)
  \/ \E d \in DOMAIN tree, n \in Names : RemoveFile(d, n)
  \/ \E d \in Dirs : CreateDir(d) \/ RemoveDir(d)

Kernel ==
  \/ \E i \in {Root} \cup DOMAIN inodes : Lookup(i) \/ Opendir(i) \/ Open(i)
  \/ \E request \in opening : Opened(request)
  \/ \E fh \in held : Readdir(fh) \/ Release(fh)

Next == Producers \/ FailHandler \/ Dispatch \/ Kernel

Spec == Init /\ [][Next]_vars

-----------------------------------------------------------------------------
(* Correctness *)

\* The shape of the state.
TypeOK ==
  /\ Top \in DOMAIN tree /\ DOMAIN tree \subseteq Dirs \cup {Top}
  /\ \A d \in DOMAIN tree : tree[d] \in UNION {[ns -> Versions] : ns \in SUBSET Names}
  /\ changes \in 0..MaxChanges
  /\ dispatching \in BOOLEAN /\ (dispatching => pending # <<>>)
  /\ DOMAIN inodes \subseteq (Root + 1)..lastInode
  /\ \A i \in DOMAIN inodes :
       /\ inodes[i].inode = i
       /\ inodes[i].stamp \in i..lastInode
       /\ inodes[i].entry.name \in Dirs \cup Names
  /\ contentRead \subseteq Nat
  /\ DOMAIN fhs \subseteq 1..lastFh /\ held \subseteq 1..lastFh
  /\ lastFh \in 0..MaxHandles
  /\ crossed \in BOOLEAN /\ lost \in BOOLEAN /\ stray \in BOOLEAN

Settled == pending = <<>>

\* The two tables of handles agree: each handle is listed once, under its own
\* item, and nothing else is listed.  release_fh (fh.py:52) relies on it, and
\* _remove_from_handles changes the lists while it walks them.
HandlesAgree ==
  /\ \A fh \in DOMAIN fhs :
       fhs[fh] \in DOMAIN fhByItem /\ Contains(fhByItem[fhs[fh]], fh)
  /\ \A it \in DOMAIN fhByItem :
       /\ fhByItem[it] # <<>> /\ IsInjective(fhByItem[it])
       /\ \A fh \in Range(fhByItem[it]) : fh \in DOMAIN fhs /\ fhs[fh] = it

\* Every inode hangs in the tree of inodes: its parent is there, it is a
\* directory and its content was read.  Nothing is added under a directory
\* that an update has removed, and a removal leaves nothing behind.
InodesConnected ==
  \A i \in DOMAIN inodes :
    LET p == inodes[i].parent IN Present(p) /\ IsDir(p) /\ p \in contentRead

\* The walk from the root finds every file and directory of the tree that it
\* could find, with its current content: updates that were read from the tree
\* before they were dispatched, and files that are listed twice, included.  If
\* no directory was read while one of its events waited, it finds nothing else.
WalkFindsTree ==
  Settled /\ ~lost /\ ~stray =>
    \A d \in DOMAIN tree :
      LET p == DirInode(d)
      IN  p \in contentRead =>
            /\ \A e \in Entries(d) :
                 LET i == Child(p, e.name) IN i # NoInode /\ inodes[i].entry = e
            /\ ~crossed => \A n \in Names \cup Dirs :
                 Child(p, n) # NoInode => n \in {e.name : e \in Entries(d)}

\* What a directory that was read lists: its entries, each once.
Lists(p) ==
  /\ PathOf(p) \in DOMAIN tree
  /\ {inodes[i].entry : i \in Children(p)} = Entries(PathOf(p))
  /\ Cardinality(Children(p)) = Cardinality(Entries(PathOf(p)))

\* Between two updates the inodes are the tree as far as it was read, if no
\* directory was read while one of its events waited, no event was lost and
\* none told of a file that is not there.
ListsTree ==
  Settled /\ ~crossed /\ ~lost /\ ~stray =>
    \A p \in contentRead : Present(p) => Lists(p)

\* A file that is open or looked up keeps its inode as long as its directory
\* has it: an inode goes only when the tree has nothing under its name, or when
\* the handler that took it away has put something there again, and is about to
\* tell of it.
GoneOnlyFromTree ==
  [][\A i \in DOMAIN inodes \ DOMAIN inodes' :
       LET d == PathOf(inodes[i].parent)
           n == inodes[i].entry.name
       IN  d \in DOMAIN tree /\ n \in {e.name : e \in Entries(d)} =>
             \E k \in DOMAIN pending' :
               /\ pending'[k].dir = d /\ pending'[k].entry.name = n
               /\ pending'[k].kind # "remove"]_vars

\* A handle of a file is in the tables only while the kernel has it, although
\* an update may have replaced or removed the file before it was opened or
\* since.
FileHandlesGivenBack ==
  \A fh \in DOMAIN fhs : fhs[fh].entry.kind = "file" => fh \in held

\* README.md:494 says that a producer manages its directory "by adding and
\* removing files and subfolders": once an update is dispatched, what was read
\* of the file system lists what the tree has.
ListsTreeAlways ==
  Settled /\ ~lost /\ ~stray => \A p \in contentRead : Present(p) => Lists(p)
=============================================================================
