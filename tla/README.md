# A TLA+ model of tgmount

tgmount mounts the messages of Telegram chats as files: a configuration names
message sources and a tree of directories, the program fetches the messages,
builds a virtual tree from them, serves it through FUSE, and keeps it up to date
with the events Telegram sends while it is mounted. All of it is one asyncio
program: a task keeps control until it awaits something that is not ready, so
that every interleaving is one of tasks suspended in a fetch or on a lock.

This directory holds TLA+ modules of that program, TLC configurations that check
them, and proofs for TLAPS. `PROJECT.json` lists the runs, the lines of the source
each definition stands for, one mutant per property that the property must
catch, the hazards and the findings. Paths below are relative to the package,
`src/tgmount`.

## 1. The system

| component | state | operations | interacts with |
|---|---|---|---|
| Block cache (`cache/`) | per document a reader with a block storage, read counts and the last read time; a capacity over all readers | `read`, `read_range`, `put_block`, `discard_useless_blocks`, `get_reader` | called by file contents, calls the Telegram files source |
| Telegram files source (`tgclient/files_source.py`, `source/util.py`) | the file reference of each message | `read`: split a range into requests, refetch an expired reference | called by the cache or by a file directly |
| Message source (`tgclient/message_source.py`, `messages_collection.py`) | a collection of messages, listeners | `set_messages`, `add_messages`, `edit_messages`, `remove_messages(_ids)`, `subscribe` | changed by the dispatcher, notifies producers one after another and waits for each |
| Events dispatcher (`tgclient/events_disptacher.py`) | paused flag, queue of events per entity, source of each entity | `connect`, `process_*_event`, `resume` | called by TgmountBase, calls sources |
| TgmountBase and builder (`tgmount/tgmountbase.py`, `tgmount_builder*.py`) | the update lock, the file system | `on_new_message`, `on_edited_message`, `on_delete_message`, `fetch_messages`, `create_fs`, `mount` | subscribed to the client, calls dispatcher, producers and file system |
| Plain directory producer (`tgmount/producers/producer_plain.py`) | `_message_to_file` | `produce`, three update callbacks | listens to a source, changes the tree |
| Grouping producers (`grouperbase.py`, `producer_by_*.py`) | a source and a subdirectory per group | `produce`, three update callbacks | listens to a source, makes sources and producers of its own |
| Zip producer and wrapper (`producer_zip.py`, `wrappers/wrapper_zips_as_dirs.py`, `zip/`) | a folder for each zip file | turn files into folders, as they are added or as events pass | the producer changes the tree, the wrapper is between tree and file system |
| Configuration (`config/`) | none after start-up | `parse_config` | read once, walked by the tree producer and the builder |
| VFS tree (`tgmount/vfs_tree.py`) | directories by path, items and subdirectories of each, a registry of children, listeners | `create_dir`, `put_dir`, `remove_dir`, `put_content`, `update_content`, `remove_content`, `child_updated` | changed by producers, read by the file system, tells TgmountBase of changes |
| File system (`fs/`) | inodes, file handles, content-read marks, update lock | FUSE `lookup`, `opendir`, `readdir`, `releasedir`, `open`, `read`, `release`; `update` | called by the kernel and by TgmountBase, reads tree and contents |
| Tree producer and config walk (`vfs_tree_producer.py`, `root_config_reader.py`) | the context a directory inherits, while it walks | `produce`, `walk_config_with_ctx` | makes directories and producers, each before those below it |
| Filters (`filters.py`), file factory, classifier and guards (`file_factory/`, `tgclient/guards.py`) | none | `filter`, `supports`, `file` | used by sources and producers |
| Cache factories (`cached_filefactory_factory.py`) | caches and file factories by id | `create_cached_filefactory` | a directory with a cache makes its files by the factory of the cache |
| Validator, command line, control server | set up once | | |

The way of an update: Telethon starts a task for each subscribed handler; the
handler takes the update lock of TgmountBase, and passes the event to the
dispatcher; the dispatcher queues it (while the program mounts) or calls the
source of the entity; the source changes its collection and awaits each of its
listeners; a producer makes the files of the notice (for a text message this
fetches the sender, so it waits for the network), then changes the tree; the tree
reports to TgmountBase, which turns the reports into updates of the inodes.
The way of a read: the kernel asks for a name, then for a handle, then for bytes;
the bytes come from the cache or from Telegram.

### What is hard, and what must hold

* **Block cache.** A block is missing, the task waits for it, and meanwhile other
  tasks store, count and discard the same blocks and change what is oldest. Reads
  must be answered as without a cache, the capacity must hold, counts and storage
  must agree (victims are chosen from the counts), a read must end even though the
  empty block at the end of a file never counts as present.
* **Start-up.** Events arrive while messages are fetched and directories produced.
  They are queued and replayed on messages which already show their effect: the
  source must end up with what the entity holds and the directories with the files
  of it, nothing may be lost or doubled.
* **Updates.** A producer waits between computing what to do and doing it. The
  update lock is what keeps two updates apart; an exception in a listener leaves
  the ones behind it uninformed, and must not leave the lock taken.
* **Directories.** A producer keeps a dictionary beside the directory's items, and
  looks up the old file of an edited or removed message in it.
* **File system.** The tree changes first and the inodes later, when the handler is
  done: a directory may be read in between. Updates replace and remove items that are
  open or being opened; the tables of handles must agree, inodes must hang
  together, and what the kernel can find must be what the tree has.
* **Groups and wrappers.** A message must be in the directory of its group and in
  no other, after any sequence of edits; wrappers must turn every event.
* **Zip files.** One message stands for a file, a folder or both, and an edit can
  make it any other. The archive is read over the network in the middle of the
  update. What was put there must be found again when the message goes.
* **The config.** What a directory shows is decided by all the directories above it:
  sources and filters are inherited or not, added or overwritten, by rules that the
  documentation spreads over four paragraphs. A mistake shows in no error, and one
  message that cannot be a file ends the mount.
* **Files source.** A retry after an expired reference, and ranges that are not
  aligned to requests.

`PROJECT.json` lists these one by one, at the line where each can go wrong.

## 2. Plan

| order | module | of | state |
|---|---|---|---|
| 1 | `DocumentReads`, `BlockCache` | what a document read promises; the cache implementing it | done |
| 1 | `BlockCacheProofs` | type, counts, capacity and content of the cache, what leaves it, the refinement of `DocumentReads` | done |
| 1 | `SequenceLemmas` | slices and joins of sequences, blocks of a document, least and greatest numbers, folds: what several proofs need | done |
| 2 | `MessageSource`, `PlainDir`, `UpdatesPipeline` | from a Telegram event to the items of directories | done |
| 2 | `UpdatesPipelineProofs` | type, and that sources hold supported messages only | done |
| 2 | `UpdatesPipelineFollows` | that every directory shows its source between two events, and every connected source follows its entity | done |
| 3 | `FileSystem` | FUSE operations against updates of the tree: inodes, handles, content-read marks | done |
| 4 | `VfsTree` | directories by path, registry of children, events climbing through the ExcludeEmptyDirs wrapper | done |
| 4 | `Grouper` | groups as sources made of a source, their directories, and what the file system is told | done |
| 4 | `GrouperProofs` | type and registry of the tree, that groups follow the source and directories show the groups | done |
| 5 | `FilesSource` | expired references with reads in parallel; requests covering a range; implements `DocumentReads` | done |
| 5 | `FilesSourceProofs` | type, fresh retries, the refinement of `DocumentReads` | done |
| 6 | `Guards`, `ConfigReader`, `Filters`, `ConfigWalk` | classes of messages and their files; the config as it is read; filters; what a directory inherits | done |
| 6 | `ConfiguredDirs` | from a config to mounted directories, and updates under the filters of the config | done |
| 6 | `ZipDirs` | zip files as folders: the producer and the wrapper, up to the file system | done |
| 7 | `FileSystemProofs` | type of the file system, connected inodes and when they go, handle tables | done |
| 7 | `FileSystemListing` | what is listed and what a walk finds, against the tree and the events that wait | done |
| 7 | `Listing` | a listing read in several calls against updates | planned |
| 7 | `Grouper` | an instance with filters and edits past them; names that collide | planned |
| 8 | `Mounted` | `UpdatesPipeline` composed with `FileSystem`: from the tree events to the inodes | planned |

Abstract specifications: `DocumentReads` for the cache and for the files source; "a
directory holds the files of the messages its filters pass" for plain directories
and groups; for the config, what a whole path comes to where the code works step by step:
`RuleSource` by the rules of the repository's README, `AddedUp` as the code adds filters up,
with the cases in which the README says something else named (`Contested`).
Proofs, in order: the cache's invariants, the files source, type and supported messages of
`UpdatesPipeline`, inodes and handles of `FileSystem`; that each step of the cache is a
step of `DocumentReads`; what the operators of `MessageSource` and `PlainDir` do to ids and
contents, and that directories show their sources and sources follow their entities; listings
and walks of `FileSystem`; the registry of the tree, groups and their directories of `Grouper` (all done). Next:
`NamesDiffer` of `ZipDirs`.

## 3. The modules

### DocumentReads, BlockCache

`DocumentReads` says what reading promises: a request for `<<offset, limit>>` of a
document ends with those bytes, cut at the end of the document, or with an error.
It is the specification of `TelegramFilesSource.read` as the cache sees it.

`BlockCache` is `FilesSourceCached`, `CacheInBlocks`, `CacheBlockReaderWriter` and the
memory storage. The dictionaries of the readers are one function `blocks` and one
`readCount`, keyed by document and block number. A read suspends only in
`fetch_block`, so there are three actions: `Begin` (`read` up to the first missing
block), `Fetched` (a block arrives: discard if the cache is full, store, count, go on
to the next missing block or the answer) and `FetchFailed`. `Proceed` is the loop of
`read_range` between two suspensions. A hit is a block that is stored *and not
empty* (`if block := ...`), as in the code; ranges that end on a boundary reach
into the block after it. `DiscardsForPut` leaves open which of several readers that
were never read to the end is the oldest.

### MessageSource, PlainDir, UpdatesPipeline

`MessageSource` has the operations of a source as operators from a collection to a
`Result`: the new collection and the notice for listeners. `PlainDir` has the plain
producer in two parts: `Plan` is what a callback computes before it waits for
files, `FilesAfter` and `ItemsAfter` what it does after. `UpdatesPipeline` has the
tasks: Telegram (`Post`, `Edit`, `React`, `Delete`, each starting the handlers the
program subscribed), `mount()` (`Fetch`, `Produce`, `Resume`, `Replay`, `Mount`), the
handlers (`Handle`), and the delivery of a notice by either (`Notify`, `Wake`, `Fail`,
`Return`). `control` is the job that holds the event loop; another task can move
only while it is `"none"`, so a sequence of steps with one holder is what the code does
between two suspensions. `Suspended` gives it up where the code awaits the sender.

Abstractions:
* a message is a body and a reaction; whether a file can be made, waits for the
  network, or passes a directory's filter is a set of those contents;
* a file is named by its message id, which every name starts with; so an edit
  finds the old item by id;
* making a text's file always waits (in the program it may not, when the sender
  is known), everything else never does;
* a fetch is one atomic snapshot of the entity, and events of a run arrive in the
  order they were sent; limits and offsets of a source are left out;
* sources with `updates: false` are left out: nothing ever changes them;
* the queue of the dispatcher is a dictionary of lists that is replayed list by list; it is
  one sequence here, into which an event goes behind those of its entity (`Queued`);
* `Produce` is one step although it may wait: handlers only queue meanwhile,
  which commutes with it;
* what TgmountBase does with the tree's events after the dispatch is in
  `FileSystem`; the two modules are not composed yet.

### FileSystem

The mounted file system against the tree. `tree` is what the producers made:
`VfsTree` with its root and the directories in it, each a function from names to
versions of files. `inodes`, `lastInode` and `contentRead` are `InodesRegistry`,
`fhs`, `fhByItem` and `lastFh` are `FileSystemHandles`. `pending` is the list
`on_new_message` and its siblings collect while producers work (the events that
`child_updated` reports), `opening` the requests for which `open()` awaits `open_func` (several
may be for one item), and `held` what the kernel holds. `crossed`, `lost` and `stray` are
history: a directory was read while one of its events waited; a handler failed and
dropped its events; an event told of a file that the tree does not have.

| action | code |
|---|---|
| `PutFile`, `UpdateFile`, `RemoveFile`, `CreateDir`, `RemoveDir` | a producer changes the tree (`tgmount/vfs_tree.py`); the event joins `pending` |
| `UpdateNothing` | `update_content` of a file that is not in the directory: the tree stays, the event is told (for the names `Mistaken`) |
| `FailHandler` | `on_new_message` leaves with an exception before `_dispatch_to_filesystem` |
| `Dispatch` | one event of `_dispatch_to_filesystem`: `Apply` is `update()` of `fs/update.py` |
| `Lookup`, `Readdir` | those of `fs/operations.py` that read a directory (the others change no state, nor do `getattr`, `read` and `forget`) |
| `Opendir`, `Open`, `Opened` | a handle is given out; a file is opened in two steps, around `open_func` |
| `Release` | `release` and `releasedir`, with the handle an update has already released and the directory that is gone |

Details the properties depend on are kept: a new item of an existing inode is
another key of the tables of handles (`stamp`), and takes an inode number that is
never used; the dictionary by name keeps the last item of a name; only the mark
of the removed directory itself is cleared; `_remove_from_handles` walks the list
it shrinks (`Skipped`).

Abstractions:
* no directory content the program constructs suspends while it is read, so
  nobody is ever seen waiting for the lock of the file system, and the lock is
  left out; for the same reason the dispatch of a handler is not interrupted
  (`dispatching`);
* the root and one level of directories; `VfsTree` has nested ones, zip directories
  are in the plan;
* one event has one item;
* one update may touch a name several times before it is dispatched, as a producer does that
  removes and adds a folder, or a directory that empties and fills again. A file is put only
  where there is none of its message: two files of one name in a directory are in `ZipDirs`;
* names belong to messages (each name starts with the id of its message), and a
  directory has one file of a message;
* the kernel may ask for any inode that is there: that it caches less is no
  restriction the program can rely on.

### VfsTree, Grouper

`VfsTree` has the tree with nested directories as a record and its operations as
operators from a tree to a tree: `_dir_by_path` (`dirs`), `SubdirsRegistry`
(`subdirs`), the set every ExcludeEmptyDirs wrapper keeps (`shown`, one set for all
of them), and what the listener of the tree has heard (`events`). An event climbs
from its directory to the root through the wrappers on the way (`ChildUpdated`,
`WrapEvent`), each of which asks the tree, as it is by then, what is empty.

`Grouper` is `VfsTreeProducerGrouperBase` at the root of the tree, over `MessageSource`
(its source, and one for each group) and `PlainDir` (the producers of the parts of a
group). Each action is a whole update: `Post`, `Edit` and `Delete` change the source, whose
notice runs `_update_new_message`, `_update_edited_messages` or `_update_removed_messages`
(`UpdateNew`, `UpdateEdited`, `UpdateRemoved`) over every group concerned
(`UpdateGroup`), its source, its producers and the tree; at the end the events go to a
file system that has read everything it could list (`Dispatched`, `See`).
`seen` is what it lists then, `fresh` the directories that got a new inode.
`Descendants` are the paths that the registry has below one, as `get_subdirs(recursive=True)`
collects them. Four conditions on the constants name what `GroupsFollowSource` and
`DirsShowGroups` depend on (`NamesApart`, `GroupsPass`, `EditsStayBelow`, `ReturnsAlike`):
each rules out a case that the code gets wrong (section 6) or never finds out about, and the
instance of the run satisfies them, as TLC evaluates.

Abstractions:
* a content has its groups (`KeysOf`): none, one, or several as with reactions, and a
  place beside the groups (`InRoot`, music without a performer);
* an update is one step: `UpdatesPipeline` has the interleaving of a plain producer with
  other tasks, `FileSystem` that of reads with the dispatch;
* the directory structure of a group is a list of plain directories below it;
* wrappers are on all directories of some depths (`Wrapped`);
* of two groups of one directory name one is kept, any one.

### FilesSource

`TelegramFilesSource`, one action for each answer a read waits for. `Begin` is
`_message_read` up to the first request, `Chunk` and `LastChunk` are what
`iter_download` brings (`Requests` of them, by `split_range`, or up to the first short
one), the last one ending in the cut of line 156. `Rejected` is the first
`FileReferenceExpiredError`: `get_messages` is asked (`Refetch`), `Served` by Telegram at
some moment, and its answer arrives later (`Refetched`), so that another read may
have refetched and stored a newer reference in between; the read then starts over
with whatever reference is stored. `RejectedAgain` is the second error, `NothingLeft`
the message without a document, `NetworkFails` any other exception.
`fileReferences` is `_items_file_references`; `accepted` and `holds` are Telegram's: the
reference it takes, and what the message has by now.

Abstractions:
* a reference is the number of references that expired before it, so that newer is
  greater; `FileReferenceInvalidError` is handled like the expired one;
* a limit is not zero (the kernel does not ask for nothing, nor does the cache);
* photos are documents (`SourceItemPhoto` differs in data only);
* a document that takes the place of another one has no reads of its own.

### Guards, ConfigReader, Filters, ConfigWalk, ConfiguredDirs

Operators up to `ConfigWalk`, a state machine in `ConfiguredDirs`.

`Guards` has the guards of the classes of messages, the classifier, and how a factory
picks the class of a file (`TryGetCls`, with `treat_as`). A message is its id, the set of
attributes it has, its document, extension and reactions.
`ConfigReader` is `config/`: a YAML value is a tuple of its type and its data, and each reader
yields a record or `Error`. The details that decide what is refused are kept: which
properties may be null, the bool that is an int, the mapping that is a filter or has
one, keys that are ignored (caches, client) and keys that are not (sources, filters).
`Filters` has `from_config` and `filter` of every filter over a sequence of messages; an
argument that is only used later fails only then. `ConfigWalk` is one step of
`walk_config_with_ctx`: `Resolve` gives the source, the filters and the context below, or the
exception.

`AddedUp` says of a whole path what `Resolve` does step by step. It is the code's rule, and not
the README's in two cases, which `Contested` names: a directory with the filter `All` below one that hands
a filter down, and the directories below one that overwrites for its subfolders (section 6).
`FiltersAddUp` is about the others.

`ConfiguredDirs` starts from a mapping of `Configs` and messages on the server. `Read` parses
it, `Fetch` creates the resources and fetches, `Walk` takes one directory at a time, depth
first, siblings in any order, and produces it before those below it; `Post`, `Edit`
and `Delete` pass a notice to the directories of the source in the order of their
subscription (`Told`), where an exception keeps it from those behind (`missed`).
The filters of an update are given the messages of the notice alone, as in the code.

Abstractions:
* the directories have the producer PlainDir: `Grouper` and `ZipDirs` model the others, and
  here their names are only checked. Wrappers, too, are only checked;
* an update is one step (`UpdatesPipeline` has the interleaving), and events
  are not queued;
* strings are values that are compared only; of `offset_date` and byte counts the strings
  that can be read are constants;
* a source keeps the order in which Telegram gives messages (newest first), with later
  ones behind.

### ZipDirs

One directory whose zip files are shown as folders, by its producer `UnpackedZip` or by
the wrapper `ZipsAsDirs` (`props.by`), with zip files hidden or not and a single root folder
skipped or not. `Unzip` is what becomes of a zip file: a folder with the tree of the archive
below it, a bad archive, or an exception (the network, or nothing at the root).
The state of an update is a record that the operations of the code change in turn:
the items of the directory, the dictionary of folders, the events that reach the file
system, and whether something stopped it: an exception, or an archive that is awaited. `Handled` is `PlainDir`'s plan put into action
by the overridden methods: `AddItems`, `RemoveItems`, `UpdateItems` (with the edits that remove
and add, `KeepsPlace`); `Emit` is the wrapper, which lets an event of updated items
pass as it is. `shown` is the file system of the directory once it was read.

A handler (`handler`) is as many steps as it has waits: `Begin`, part of `Post`, `Edit` and `Delete`, from
the notice to the first archive; `ReadArchive`, when it was read or the network failed, to the end of the
directory; `Dispatch`, when the other listeners of the notice are done. `ReadDir`, the first `readdir` of the
directory, may come between any two. While the archive is awaited the producer has taken away what goes and
not yet put the folder there; under the wrapper the zip file is already in the tree and its folder not yet in
the dictionary, so that the directory lists the file. `crossed` has the messages of which a
directory that is read shows what the handler has still to tell.

Abstractions:
* handlers do not interleave (the update lock; a replay during the start does not take it, which is
  in `UpdatesPipeline`); `upset` has the messages whose handler ended with an exception;
* a handler has one archive to read, as a notice has one message; nobody else changes the directory meanwhile,
  so that `ReadArchive` computes the handler over again from where it began;
* an archive is the set of its paths; the bytes of its members are not modelled;
* a name is the id of the message with the rest of the name, and a mark for the folder of
  a zip file that is not hidden. No archive of the run has a single folder at its root
  that is named like the zip file itself: with `skip` and the zip file not hidden, the two would have
  one name.

## 4. What the runs check

| run | instance | shows |
|---|---|---|
| `cache` | 2 documents of 5 and 2 bytes, blocks of 2, room for 2, 2 tasks, 4 reads of 2 ranges | the invariants of section 5, `ReadsLikeUncached` (refinement of `DocumentReads`), `OneBlockPerDiscard`, and `ReadsEnd` under fairness |
| `pipeline` | 1 entity, 1 source, 2 directories (all, texts only), 3 updates | type, `OnlySupported`, `DirsShowTheirSource`, `ConnectedSourcesFollow` |
| `pipeline_settles` | 2 entities with a source each, 3 directories, files whose making fails, 2 updates, fairness | `Settles`: mount and handlers end, the lock is free again; `ConnectedSourcesFollow` with events of both entities queued |
| `pipeline_overlap` | as `pipeline`, 2 updates | **violated**: two updates under way at once |
| `file_system` | root and 1 directory, 2 names of 1 message, 2 versions, 4 changes, in one update or several, among them updates of one of the names when it is not there, no handles | `InodesConnected`, `WalkFindsTree`, `ListsTree`, `GoneOnlyFromTree` |
| `file_handles` | root and 1 directory, 1 name, 2 versions, 2 changes, 3 handles | `HandlesAgree`, `FileHandlesGivenBack` |
| `fs_crossing` | as `file_handles`, no handles | **violated**: a directory read while its event waits lists a file twice |
| `files_source` | 1 document of 9 bytes, requests of 4, alignment 2, 2 tasks, 3 ranges, 2 expiries, fairness | `RetryIsFresh`, `ReadsExact` (refinement of `DocumentReads`), `ReadsEnd` |
| `grouper` | 3 messages, 6 contents, 2 groups of 2 parts, wrappers on the root and the groups, updates without a bound | `TreeAgrees`, `GroupsFollowSource`, `DirsShowGroups`, `EventsTellListing`, `OthersUndisturbed` |
| `configured` | 142 configs of a root with up to three directories below it, of single directories with filters of every kind, and ones that are refused; 6 kinds of messages, 1 message of each of 2 sources before the start, 1 update with several directories and 2 with one | `SourceByTheRules`, `FiltersAddUp`, `MountsUnlessAmiss`, `DirsShowWhatPasses` |
| `zips` | archives with one folder, with several items and with nothing at the root, one that is broken, a document that is none; 1 message before the start, 2 in all, 4 updates, each in up to three steps, by the producer or the wrapper, hidden or not, skipping or not; the directory is read at any moment | `ZipsAreFolders`, `NamesDiffer`, `FsShowsListing`, `GoneIsGone` |
| `zips_edited` | the producer, edits of the caption of an archive, 1 update | **violated**: a hidden zip file is put in the place of its folder |

**Bounds.** The cache: two blocks of room for four blocks in use (three of the long
document, one of the short, each with the empty block past its end) make
discards happen in the middle of reads; the ranges start on and off a block
boundary, end on one and pass the end of file; two tasks are enough for a put
of a block that the other one stored, and four reads for discard, refetch and
hit of one block. The pipeline: three updates are a post, an edit and a removal
of one message, or two of these on either side of `resume`; one message before the
start gives a fetch something that events collide with; two directories of which
one filters give a notice two listeners, an edit that moves a message in or out,
and a listener that waits before one that does not. The file system: four changes
let a directory come, get a file, have it edited and go, or a file or directory go, come back
and go again before its first removal is dispatched, in every interleaving with reads of the root and
of it; two names of a message give a rename, and the root has the directory beside its file; files of
several messages side by side are left to the proofs, which have any; three handles are
what it takes for a skipped handle between two released ones, and with two
changes an item is replaced and its successor removed while handles of both
are out. Handles do not touch inodes, so that the two questions have runs of
their own. Versions are symmetric: they are compared for equality only. The grouper: its state is finite without a bound
on updates, so `grouper` has every sequence of them; three messages make groups that
lose one of two members, the last one, and all at once, a message in both groups
beside one in each; two parts make moves within a group. The files source: two expiries
are one for each of the two attempts of a read, or one in each of two reads that
refetch at a time; the ranges need one request or two, start on and off a
request and the alignment, and pass the end of the file, which comes in a short request; the
number of reads is not bounded. The configs: what a directory inherits depends on the
directories above it, of which there are two, each with or without a source, filters
of each kind and a producer, and on no sibling, of which there is one; an update with
several directories needs one to pass or miss each of them, and with one directory
two for a message to pass, stop to pass and pass again. The zip files: four updates
are an edit of a message away from what it was, one back, and its deletion, with
a post beside these, which gives two messages with one archive; of more messages each has items of its own. Deadlock is not checked: a
run stops when its reads or updates are used up.

**Fairness.** `BlockCache`: a fetch that is out comes back or raises; that reads
start is up to the user and has none. `UpdatesPipeline`: weak fairness of
`mount()`, of the handlers, and of each job: asyncio runs every task that is
ready in turn, requests to Telegram return or raise, the lock (an
`asyncio.Lock`) hands over in order. Telegram's events have none. `FilesSource`: every
request, for bytes or for the message, is answered or raises; reads, expiries and
edits of the message have none.

## 5. What is proved

`BlockCacheProofs`, for all documents, sizes, ranges, tasks, block sizes,
capacities and numbers of reads, from the assumptions of `BlockCache` (sizes,
offsets, limits and the capacity are natural numbers, blocks are not empty):

* `TypeCorrect`: `Spec => []TypeOK`
* `CountsAlwaysMatch`: a block is stored iff it is counted
* `CapacityRespected`: the cache never exceeds its capacity (or one block)
* `StorageGenuine`: what is stored is the block of the document it claims to be
* `DiscardsAreSingle`: `Spec => OneBlockPerDiscard`
* `ImplementsReads`: `Spec => ReadsLikeUncached`, the refinement of `DocumentReads`

The first four follow from `IInv`, their conjunction, which is inductive: the capacity needs the
counts to match, because the victim of a discard is taken from the counts and
only a victim that is stored makes room (`DropsStoredBlocks`, `DiscardsOneBlock`);
counts match only if the blocks the loop counts as hits are stored
(`ProceedEffect`), and the choice of the next missing block exists because ranges
are finite (`NatMin`, `NextMissInRange`). `PutKeepsBound` is the arithmetic of
discard-then-put; `BeginIInv`, `FetchedIInv`, `FetchFailedIInv` are the actions.
`DiscardsAreSingle` adds that what is dropped has one element at most (`DropsOneAtMost`) and that the
task whose block arrived has moved on (`FetchedMovesOn`).

`ImplementsReads` needs `AllHaveRead` besides: the blocks a task has collected are, one for one,
the blocks of its range up to the one it waits for, whether they were hits or fetched,
and whatever other tasks discarded meanwhile. What a read returns is these blocks joined (`FlattenSeq`) and
the range cut out; that this is the slice of the document is `FlattenJoins` (blocks that
lie next to each other join to one slice: `Joins`, `JoinsSoFar`) and `SliceOfSlice` of `SequenceLemmas`. The
joins are an induction over the number of blocks, made with a least counterexample (`NatMin`) as the
induction rules of the library are out of the prover's reach.

`FilesSourceProofs`, for all documents, sizes, tasks, ranges, request sizes, alignments and
numbers of expiries, from the assumptions of `FilesSource` (sizes and offsets are
natural numbers; limits, alignment and request size positive ones):

* `TypeCorrect`: `Spec => []TypeOK`
* `AlignedCovered`: for a range that starts on the alignment, the requests of
  `split_range` reach to its end
* `ImplementsReads`: if they do so for every range, `Spec => ReadsExact`, the refinement of
  `DocumentReads`
* `RetryFresh`: `Spec => []RetryIsFresh`

The refinement rests on `IInv`: a download holds the slice of the document from the
first request on that its answers add up to, and every answer so far was a full
one (`Downloaded`), for only then do answers join without a gap (`SlicesJoin`), and is the
range cut out at the right place (`SliceOfSlice`, `AnswerExact`). With the last answer
either all requests are done, and reach to the end of the range, or it was short, and
the document ends. `RetryFresh` needs `Fresh`: that an answer of `get_messages` which is on
the way has a reference at least as new as the read, although another one may be
stored by the time it arrives. The steps from `RequestNumbers` to `DivBounds` are the
arithmetic of `split_range`.

`UpdatesPipelineProofs`, for all entities, sources, directories, filters, messages and
numbers of updates, from the assumptions of `UpdatesPipeline` (a source follows an entity,
a directory is made from a source, contents and bounds are what they are said to be):

* `TypeCorrect`: `Spec => []TypeOK`
* `SourcesSupported`: `Spec => []OnlySupported`

Neither is inductive alone. `IInv` adds that while the dispatcher is paused no job is under
way and only the sources that were fetched have a collection (`MountInv`): so `set_messages`
always meets a source without one, and stores what it filtered. That the dispatcher
stays paused while `mount()` is "starting" is part of it. `JobInv` says who
has the loop: a step that hands it over (`WorkingIInv`) must know that no other job is at
the step. `UpdatedSupported` goes through the kinds of events.

`UpdatesPipelineFollows`, from the same assumptions:

* `DirsShow`: `Spec => []DirsShowTheirSource`
* `SourcesFollow`: `EditsKeepSupport` implies `Spec => []ConnectedSourcesFollow`

The first is about moments at which nothing is under way; `DInv` says what holds while a notice
is. The notice is true of the source (`NoticeOf`: what is new is there as it says, what was removed
is not), the listeners that are left show the source as it was before (`Undone`), and those that
were told show it as it is (`DirOK`). `Delivered` is the step from one to the other: it goes
through what `Plan`, `FilesAfter` and `ItemsAfter` of `PlainDir` make of each message. `UpdatedTold` says
that a source tells its listeners exactly what changed, for each kind of event.

Two facts make it inductive. A message that was removed stays in `_message_to_file`; was it
announced again, the plan would take its old file for one that is shown. So `Shows` has every such message
"dead" (`Announced`): no event that is to come announces it, because a deletion is
never followed by the announcement of what it deletes (`InOrder`), neither in the inbox nor in
the queue, which keeps the order of an entity (`ComingMoved`, from what `_enqueue_event` does to the
dictionary, `QueuedProps`). And a
directory that failed to make a file shows what it showed before, the messages of the notice
aside (`FailedShows`), until another notice of them makes up for it. A notice of a removal
has no file to make (`WaitsForNew`) and cannot fail, which is why a failure leaves no dead entry behind.
The folds of the community modules (`remove` for each file) are taken apart by `FoldDefined` of `SequenceLemmas`, again by a
least counterexample; `RemovesAll` is what they compute.

The second theorem is about a moment at which no event is left; `FInv` says what holds while some
are. `Kinds` are the kinds of the events still to come about a message. A source `Tracks` a
message of its entity: what it has of it is right, or some event to come will put it right
(a removal if the message is gone, an edit if its body differs, an edit or a reaction if its reaction
does), and what it lacks is announced. An event `Undoes` itself in the same way: what it says is
so now, or events of its entity behind it say otherwise. This is what makes the replay harmless: a fetch may have
seen what a queued event tells, and an old edit takes the message back for a while, but the later one
is behind it. Updates of Telegram keep both (`StepMoves`, `StepTells`), moving an event to the queue
does because the events of an entity keep their order (`KindsLeft`), and a source that takes an event needs it no
more (`UpdatedTracks`). `ConnectedOne`: an entity has one connected source, the others hear of
nothing. `EditsKeepSupport` is needed: `edit_messages` filters the edit before it looks for the
message (section 6), so that a message which becomes a file, or stops being one, is not
followed. TLC evaluates that the instances of the runs satisfy it.

`FileSystemProofs`, for all directories, names, versions, changes and handles, from the
assumptions of `FileSystem` (names tell files from directories; the bounds are natural numbers):

* `TypeCorrect`: `Spec => []TypeOK`
* `InodesHang`: `Spec => []InodesConnected`
* `TablesAgree`: `Spec => []HandlesAgree`
* `FilesGivenBack`: `Spec => []FileHandlesGivenBack`
* `InodesOutlast`: `Spec => GoneOnlyFromTree`

`IInv` adds to these what the events that wait look like (`PendingInv`), that directories
are in the root only (`RegistryInv`: so that what is removed with an item is all there is
below it, `RemoveItemKeeps`), and that an inode of which somebody has a directory handle is a
directory as long as it is there (`HandleInv`: `readdir` reads it). That handles keep
their meaning needs that numbers are not used twice and kinds do not change (`Evolve`).
`SkippedProps` and `UnlistedProps` are about the lists of handles, `OpenFhTables`,
`ReleaseFhTables` and `ReleaseAllTables` about both tables. `InodesOutlast` needs one more
invariant, `GoneWhilePending`: what a waiting event takes away (`Takes`) is not in the tree, unless an
event that waits behind it brings it (`Brings`). So when a removal is dispatched and the tree has the name again, the
event that tells of it is still to come. `RemovedIsGone` is the argument about what goes with an item.

`FileSystemListing`, about the same constants:

* `ListsWhatTreeHas`: `Spec => []ListsTree`
* `WalkFindsWhatTreeHas`: `Spec => []WalkFindsTree`

Both speak of moments at which no event waits, and of runs in which no event was `lost` and none
`stray`; the invariant behind them says what holds while events wait. An update may touch a name
several times, so the registry cannot be compared with the tree as it is: it shows the tree as it
*was*. `ShownInv` says that there are trees that led to this one (`IsHistory`): the
first is the one before the first event that waits, each event makes the next of the one before
(`Effect`; `Changes` is what it makes of one directory), and the last is the tree. A change of the tree adds
one tree at the end (`ProducersTold`, `HistoryGrows`); a dispatch takes the first one away
(`HistoryShifts`), and has to do to the registry what the event did to the tree.

`Listed` is for the first theorem: a directory that was read lists `Exactly` what it had in the
first of these trees, each entry once, unless its removal waits (`Doomed`). That an event does to the
children of an inode what it did to the entries is `AddExactly`, `ReplaceExactly` and `RemoveExactly`
(`DispatchKeepsListed`). A read must not cross an event here: what is read is the last tree, and the
registry would show a later one than the first (`ReadKeepsListed`).

`Walked` is for the second, without that proviso. Of each message, the walk finds in a directory what the first tree
has (`Found`: it is the latest child of any name of the message, however many stale ones there are), or else all
that is there of the message was read from one of the trees since (`ReadAt`). An event keeps this
(`DispatchKeepsWalked`): it replaces or adds the latest child (`ReplacedLatest`, `DispatchFindsTold`), and removes
what goes. That the walk finds nothing else follows from the first invariant, and only where no read
crossed an event (`SettledWalkedOnly`); `fs_crossing` is why. Inodes are numbers of paths: `OneOfPath`
and `IsInodeOf` say that a path is walked to what it was given to.

`GrouperProofs`, for all messages, contents, groups, directory structures below a group, wrappers and
numbers of updates, from the assumptions of `Grouper` (a message has finitely many groups, parts are
different directories, each below one that comes before it):

* `TypeCorrect`: `Spec => []TypeOK`
* `RegistryHolds`: `Spec => []TreeAgrees`
* `GroupsFollow`: `NamesApart`, `GroupsPass` and `EditsStayBelow` imply
  `Spec => []GroupsFollowSource`
* `DirsShow`: these and `ReturnsAlike` imply `Spec => []DirsShowGroups`

The first two follow from `GroupInv`: the grouper is `Standing`, that is, registry and directories of the
tree agree, the directories are those of the groups and no others, and so are the producers. This
is what makes `_remove_dir` safe: all that is below the directory of a group, and all that the registry
forgets, are its own parts. Groups are updated one after another by folds, and so are the parts
of a group (`ProducePart`, `Tell`); `FoldKeeps` and `FoldStays` of `SequenceLemmas` say what survives a fold if every
step keeps it.

`GroupsFollow` adds `Follows`: every group is the messages that belong `In` it, what is beside the
groups is the `Top`. Every update is an exchange: messages that go, messages that come in their place, and
the names it concerns. The work is to show that the handlers update each of these
groups exactly once with exactly its share, whichever of them exist, are made or end on the way
(`NewRevises`, `RemovedRevises`, `EditedRevises`), and leave every other one as it was (`SameAt`):
an edit goes through the groups of before and of after, in which one message may be removed, added
or replaced. The hypotheses are those under which this is so: edited and removed messages are grouped without the
filters, edits do not look at messages beside the groups, and two groups of one name are one entry.

`DirsShow` adds `AllShow`: the directory of a part `Shows` its messages. As files outlive their messages in
`_message_to_file`, this cannot say that the dictionary is what the directory has. It says that what is shown is in
it, and that any other file in it was made of a message that an edit took out of the group, of
what it was then (`MadeSince`). When such a message comes back, the producer takes it for one it shows, and
adds it only if it was not wanted before; `ReturnsAlike` is what remains to be assumed (`ComesBack`).
The steps are what one notice does to one directory (`ShownRemoved`, `ShownAdded`, `ShownEdited`), to the parts
of a group (`PartsRemoved`, `PartsAdded`, `PartsEdited`) or to a group made anew (`FreshShows`), and to all of
them (`ShowsExchange`).

Only model-checked: `ReadsEnd` (of both) and `Settles` (liveness
under fairness is beyond the prover), `EventsTellListing` and `OthersUndisturbed` of the grouper (what
a directory lists through its wrappers, `Listed`, is recursive on the depth of the tree, and a
statement about every depth needs an induction rule), and the config and the zip
files (`Filters`, `ConfigReader`, `ConfigWalk` and `ConfiguredDirs` are recursive operators,
about which the prover can say nothing).

## 6. Where code and documentation part

* `pipeline_overlap`: the comment at `tgmount/tgmountbase.py:120` puts the update
  lock around the whole way of an update, but `mount()` calls `resume()` without it. A
  live event is dispatched while a replayed one waits for a sender; the older
  one may be applied last. `DirsShowTheirSource` and `ConnectedSourcesFollow` are stated
  for runs in which this did not happen (`overlapped`).
* `fs_crossing`: README.md:494 says producers manage their directory by adding and
  removing files; a directory read between the change and the dispatch of its
  event (`fs/operations.py:301`) gets the new file twice, and a removal leaves one
  of the two. `WalkFindsTree` shows that a walk by name still finds all of the tree (and,
  after a removal, possibly the stale entry besides);
  `ListsTree` is stated for runs in which this did not happen (`crossed`).
* `zips_edited`: README.md:182 says that UnpackedZip mounts zips as folders, and the comment
  at `tgmount/producers/producer_zip.py:72` that the edits below it change the text or the
  reactions only. Such an edit of an archive that is hidden is handed on as an update
  of an item that is not in the directory: the tree replaces the folder of that name by
  the zip file, or the file system alone is told of a file, and when the message is
  deleted the folder is not found and the file stays. `ZipsAreFolders` leaves these messages
  out (`retouched`).

Met while modelling, with no run of their own.

*Cache and Telegram.*
* Two reads that overlap in time fetch a block twice (`cache/reader.py:108`), and the
  second put may discard another one, while README.md:397 says that cached parts
  are not fetched twice.
* A range that is not aligned and reaches into another request is covered by too few
  requests and read short (`split_range` aligns offset and limit apart: <<3, 2>> in the
  instance of `files_source`; the kernel and the cache ask for aligned offsets, the readers of zip
  files for any).

*Updates.*
* Of two sources of one entity only the one connected last follows it (`connect` keeps
  one per entity, while README.md:361 subscribes each; `ConnectedSourcesFollow` speaks of connected
  ones).
* `edit_messages` drops an edit after which no file can be made, and the old file stays; one after
  which a file can be made for the first time is dropped too, and there is none
  (`EditsKeepSupport`: the instances have only edits that keep a message supported, and `SourcesFollow` assumes it).
* `update_content` tells of an update of an item that is not in the directory, and the file system
  adds it (`tgmount/vfs_tree.py:364`, `fs/operations.py:195`; `stray` marks it in `FileSystem`, `zips_edited` shows a
  producer that does so).
* `on_new_message` loses the events collected before an exception (`lost` marks it in
  `FileSystem`).
* `releasedir` (`fs/operations.py:434`) provides for a directory that was removed, but raises
  before it releases a handle that `_remove_from_handles` skipped. `FileHandlesGivenBack` holds:
  closing a file does not ask the tree.

*Groups.*
* `_update_removed_messages` and `_update_edited_messages` do not ask the filters of the
  directory, so that a deletion of a message they kept out makes an empty group, and do
  not use `root_before` and `root_after`.
* A removed message stays in `_message_to_file` (`tgmount/producers/producer_plain.py:193`); when a
  message leaves a group, returns to it as something another part shows and moves
  back, the first part updates a file it does not have and never adds it. `ReturnsAlike`
  excludes it: the instance of `grouper` satisfies it, and `DirsShow` assumes it.

*The config.*
* `All` is added to the filters handed down like any other (`tgmount/root_config_reader.py:198`), while
  README.md:666-667 uses it "to reset recursive filter": it resets nothing.
* `overwright` with `recursive` is for the directory itself: its subdirectories inherit the filters
  of its parents all the same (`tgmount/root_config_reader.py:274`), while README.md:433-434 sets the filter
  "for the current folder and subfolders overwriting another recursive filter". Both are in the configs of the
  run, and `FiltersAddUp` leaves these directories out (`Contested`).
* A `Union` lists a text message twice that passes two of its filters
  (`tgmount/filters.py:203`): only documents are made unique (README.md:636 says "Combines multiple filters. If any matches").
* `First.from_config` returns a `Last` (`tgmount/filters.py:282`), and `First` with a mapping for an
  argument is accepted and raises when it is used. As messages are fetched newest
  first, `Last` takes the oldest.
* A message source whose `filter` is a class of messages (and not a name of Telegram)
  ends the mount, and its `wait_time` cannot be an integer.
* A text message in a directory with a cache raises, which ends the mount, or keeps an
  update from the directories behind it (`missed`).
* Filters that look at several messages (`Last`, `OnlyUniqueDocs`) are applied to the messages of
  an update alone: `DirsShowWhatPasses` is about the others.

*Zip files.*
* An archive with nothing at its root but excluded names raises an `IndexError`
  (`tgmount/producers/producer_zip.py:120`), which ends the mount.
* The wrapper registers the folder of a zip file after it has awaited the archive
  (`tgmount/wrappers/wrapper_zips_as_dirs.py:138`, :154, :196), when the zip file is in the tree already: a directory that
  is read meanwhile lists the zip file, with `hide_zip_files` too, and the event adds the folder beside it. When the
  message goes, the zip file stays there. `FsShowsListing` and `GoneIsGone` leave out the messages that were
  read while there was something to tell of them (`crossed`).
* The wrapper passes updates of items on as they are, so that edits of archives are not
  followed (`tgmount/wrappers/wrapper_zips_as_dirs.py`).

## 7. Not modelled

Planned: see section 2. In part: the fetcher (its limits and offsets), the keys of groups
(who sent a message is a request of its own) and the other producers under a config.

Out of scope: the command line and the control server (argument parsing, printing, no
state that tasks share), the validator (`verify_config` returns at once), the cache on disk
(`cache/file.py` is not constructed by the program), the byte-level adapters of `vfs/` and of the
members of zip files, `zip/zip_dir.py`, `zip/zips_as_dirs.py` and `fs/writable.py` (not constructed
either), `root_config_reader_props.py` (not imported), the formatting of file names beyond the id
they start with, YAML itself, Telethon's protocol, pyfuse3.
