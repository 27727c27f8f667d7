-------------------------- MODULE FileSystemProofs --------------------------
(***************************************************************************)
(* Proofs about FileSystem, for any directories, names, versions, changes  *)
(* and handles: its type invariant, that inodes hang in a tree of          *)
(* directories that were read, that the tables of handles agree, and that  *)
(* handles of files are given back.                                        *)
(***************************************************************************)
EXTENDS FileSystem, SequenceLemmas

-----------------------------------------------------------------------------
(* The inductive invariant *)

FileEntries == [kind : {"file"}, name : Names, version : Versions]

DirEntries == [kind : {"dir"}, name : Dirs]

AllEntries == FileEntries \cup DirEntries

\* Events are about files, or about directories of the root, which come and go.
FileEvents ==
  [kind : {"new", "update", "remove"}, dir : Dirs \cup {Top}, name : Names,
   entry : FileEntries]

DirEvents == [kind : {"new", "remove"}, dir : {Top}, name : Dirs, entry : DirEntries]

AllEvents == FileEvents \cup DirEvents

TreeInv ==
  /\ Top \in DOMAIN tree /\ DOMAIN tree \subseteq Dirs \cup {Top}
  /\ IsFiniteSet(DOMAIN tree)
  /\ \A d \in DOMAIN tree :
       /\ DOMAIN tree[d] \subseteq Names /\ IsFiniteSet(DOMAIN tree[d])
       /\ tree[d] \in [DOMAIN tree[d] -> Versions]
  /\ changes \in 0..MaxChanges

PendingInv ==
  /\ pending \in Seq(AllEvents)
  /\ dispatching \in BOOLEAN /\ (dispatching => pending # <<>>)
  /\ crossed \in BOOLEAN /\ lost \in BOOLEAN /\ stray \in BOOLEAN

\* Directories are children of the root only.
RegistryInv ==
  /\ lastInode \in Nat \ {0}
  /\ DOMAIN inodes \subseteq (Root + 1)..lastInode
  /\ \A i \in DOMAIN inodes :
       /\ inodes[i].inode = i
       /\ inodes[i].stamp \in i..lastInode
       /\ inodes[i].entry \in AllEntries
       /\ inodes[i].entry.kind = "dir" => inodes[i].parent = Root
  /\ contentRead \subseteq 1..lastInode

\* What a handle of a directory stands for is a directory as long as it is
\* there: the inode is not used again.
HandleInv ==
  /\ lastFh \in 0..MaxHandles
  /\ DOMAIN fhs \subseteq 1..lastFh /\ held \subseteq 1..lastFh
  /\ \A it \in DOMAIN fhByItem : fhByItem[it] \in Seq(Nat)
  /\ \A fh \in DOMAIN fhs :
       fhs[fh].entry.kind = "dir" =>
         /\ fhs[fh].inode \in 1..lastInode
         /\ fhs[fh].inode \in DOMAIN inodes =>
              inodes[fhs[fh].inode].entry.kind = "dir"
  /\ \A request \in opening : request.item.entry.kind = "file"

IInv ==
  /\ TreeInv /\ PendingInv /\ RegistryInv /\ HandleInv
  /\ InodesConnected /\ HandlesAgree /\ FileHandlesGivenBack

LEMMA IInvTypeOK == IInv => TypeOK
<1> SUFFICES ASSUME IInv PROVE TypeOK
  OBVIOUS
<1>1. \A i \in DOMAIN inodes : inodes[i].entry.name \in Dirs \cup Names
  BY DEF IInv, RegistryInv, AllEntries, FileEntries, DirEntries
<1>2. \A d \in DOMAIN tree : tree[d] \in UNION {[ns -> Versions] : ns \in SUBSET Names}
  BY DEF IInv, TreeInv
<1>3. QED
  BY <1>1, <1>2 DEF IInv, TreeInv, PendingInv, RegistryInv, HandleInv, TypeOK

LEMMA InitIInv == Init => IInv
<1> SUFFICES ASSUME Init PROVE IInv
  OBVIOUS
<1>1. TreeInv
  <2>1. ASSUME NEW d \in DOMAIN tree
        PROVE  /\ DOMAIN tree[d] \subseteq Names /\ IsFiniteSet(DOMAIN tree[d])
               /\ tree[d] \in [DOMAIN tree[d] -> Versions]
    <3>1. tree[d] \in {<<>>} \cup UNION {[{n} -> Versions] : n \in Names}
      BY <2>1 DEF Init
    <3>2. CASE tree[d] = <<>>
      <4>1. DOMAIN tree[d] = {}
        BY <3>2
      <4>2. QED
        BY <3>2, <4>1, FS_EmptySet
    <3>3. CASE tree[d] \in UNION {[{n} -> Versions] : n \in Names}
      <4>1. PICK n \in Names : tree[d] \in [{n} -> Versions]
        BY <3>3
      <4>2. DOMAIN tree[d] = {n}
        BY <4>1
      <4>3. QED
        BY <4>1, <4>2, FS_Singleton
    <3>4. QED
      BY <3>1, <3>2, <3>3
  <2>2. DOMAIN tree = {Top}
    BY DEF Init
  <2>3. IsFiniteSet({Top})
    BY FS_Singleton
  <2>4. QED
    BY <2>1, <2>2, <2>3, BoundsAssumption DEF Init, TreeInv
<1>2. PendingInv
  <2>1. <<>> \in Seq(AllEvents)
    OBVIOUS
  <2>2. pending = <<>> /\ dispatching = FALSE
    BY DEF Init
  <2>3. crossed = FALSE /\ lost = FALSE /\ stray = FALSE
    BY DEF Init
  <2>4. QED
    BY <2>1, <2>2, <2>3 DEF PendingInv
<1>3. RegistryInv
  BY DEF Init, RegistryInv, Root
<1>4. HandleInv
  BY BoundsAssumption DEF Init, HandleInv
<1>5. InodesConnected /\ HandlesAgree /\ FileHandlesGivenBack
  BY DEF Init, InodesConnected, HandlesAgree, FileHandlesGivenBack
<1>6. QED
  BY <1>1, <1>2, <1>3, <1>4, <1>5 DEF IInv

-----------------------------------------------------------------------------
(* The registry of inodes *)

\* A child that is found by its name is one.
LEMMA ChildFound ==
  ASSUME RegistryInv, NEW p, NEW n, Child(p, n) # NoInode
  PROVE  Child(p, n) \in Children(p) /\ inodes[Child(p, n)].entry.name = n
<1> DEFINE named == {i \in Children(p) : inodes[i].entry.name = n}
<1>1. named \subseteq 0..lastInode /\ lastInode \in Nat
  BY DEF RegistryInv, Children, Root
<1>2. named # {} /\ Child(p, n) = Max(named)
  BY DEF Child
<1>3. \E x \in named : \A y \in named : x >= y
  BY <1>1, <1>2, NatMax, Zenon
<1>4. Max(named) \in named
  BY <1>3 DEF Max
<1>5. QED
  BY <1>2, <1>4

\* Names tell files from directories.
LEMMA KindByName ==
  ASSUME RegistryInv, NEW i \in DOMAIN inodes
  PROVE  /\ inodes[i].entry.name \in Names <=> inodes[i].entry.kind = "file"
         /\ inodes[i].entry.name \in Dirs  <=> inodes[i].entry.kind = "dir"
BY NamesAssumption DEF RegistryInv, AllEntries, FileEntries, DirEntries

\* The inode of a directory of the tree is one of a directory.
LEMMA DirInodeIsDir ==
  ASSUME RegistryInv, NEW d \in Dirs \cup {Top}, DirInode(d) # NoInode
  PROVE  /\ Present(DirInode(d)) /\ IsDir(DirInode(d))
         /\ d = Top => DirInode(d) = Root
<1>1. CASE d = Top
  BY <1>1 DEF DirInode, Present, IsDir
<1>2. CASE d # Top
  <2>1. DirInode(d) \in DOMAIN inodes /\ inodes[DirInode(d)].entry.name = d
    BY <1>2, ChildFound DEF DirInode, Children
  <2>2. QED
    BY <1>2, <2>1, KindByName DEF Present, IsDir
<1>3. QED
  BY <1>1, <1>2

\* The path of a directory inode is a directory, and the root is that of Top.
LEMMA PathOfDir ==
  ASSUME RegistryInv, NEW p, Present(p), IsDir(p)
  PROVE  PathOf(p) \in Dirs \cup {Top} /\ (PathOf(p) = Top => p = Root)
BY KindByName, NamesAssumption DEF Present, IsDir, PathOf

\* What a directory lists, all in all a finite number of entries.
LEMMA EntriesAreEntries ==
  ASSUME TreeInv, NEW d \in DOMAIN tree
  PROVE  /\ Entries(d) \subseteq AllEntries
         /\ IsFiniteSet(Entries(d))
         /\ \A e \in Entries(d) : e.kind = "dir" => d = Top
<1> DEFINE ofFiles == {FileEntry(n, tree[d][n]) : n \in DOMAIN tree[d]}
           ofDirs  == {DirEntry(e) : e \in DOMAIN tree \ {Top}}
<1>1. ofFiles \subseteq FileEntries /\ ofDirs \subseteq DirEntries
  BY DEF TreeInv, FileEntry, DirEntry, FileEntries, DirEntries
<1>2. IsFiniteSet(ofFiles)
  <2>1. IsFiniteSet(DOMAIN tree[d])
    BY DEF TreeInv
  <2> DEFINE f == [n \in DOMAIN tree[d] |-> FileEntry(n, tree[d][n])]
  <2>2. f \in Surjection(DOMAIN tree[d], ofFiles)
    BY DEF Surjection
  <2>3. QED
    BY <2>1, <2>2, FS_Surjection, Zenon
<1>3. IsFiniteSet(ofDirs)
  <2> DEFINE others == DOMAIN tree \ {Top}
             f      == [e \in others |-> DirEntry(e)]
  <2>1. IsFiniteSet(others)
    BY FS_RemoveElement, Zenon DEF TreeInv
  <2>2. f \in Surjection(others, ofDirs)
    BY DEF Surjection
  <2> HIDE DEF others, f, ofDirs
  <2>3. QED
    BY <2>1, <2>2, FS_Surjection, Zenon
<1>4. Entries(d) = ofFiles \cup (IF d = Top THEN ofDirs ELSE {})
  BY DEF Entries
<1>5. Entries(d) \in {ofFiles, ofFiles \cup ofDirs}
  BY <1>4
<1>6. IsFiniteSet(ofFiles \cup ofDirs)
  BY <1>2, <1>3, FS_Union, Zenon
<1>7. \A e \in ofFiles : e.kind = "file"
  BY DEF FileEntry
<1> HIDE DEF ofFiles, ofDirs
<1>8. QED
  BY <1>1, <1>2, <1>4, <1>5, <1>6, <1>7 DEF AllEntries

-----------------------------------------------------------------------------
(* Changes of the registry *)

\* What a step does to the inodes: a file stays a file and a directory one, and
\* the number of a new one was never used.
Evolve ==
  /\ lastInode <= lastInode'
  /\ \A j \in DOMAIN inodes' :
       \/ j \in DOMAIN inodes /\ inodes'[j].entry.kind = inodes[j].entry.kind
       \/ j > lastInode

\* A new item under a directory that was read.
LEMMA AddSubitemKeeps ==
  ASSUME RegistryInv, InodesConnected, NEW p, NEW entry \in AllEntries,
         Present(p), IsDir(p), p \in contentRead, entry.kind = "dir" => p = Root,
         AddSubitem(p, entry)
  PROVE  (RegistryInv /\ InodesConnected)' /\ Evolve
<1> DEFINE i == lastInode + 1
<1>1. /\ lastInode' = i /\ contentRead' = contentRead
      /\ inodes' = [j \in DOMAIN inodes \cup {i} |->
                      IF j = i THEN Item(i, i, p, entry) ELSE inodes[j]]
  BY DEF AddSubitem, NewInode
<1>2. lastInode \in Nat \ {0} /\ i \notin DOMAIN inodes
  BY DEF RegistryInv
<1>3. /\ DOMAIN inodes' = DOMAIN inodes \cup {i}
      /\ \A j \in DOMAIN inodes : inodes'[j] = inodes[j]
      /\ inodes'[i].inode = i /\ inodes'[i].stamp = i
      /\ inodes'[i].parent = p /\ inodes'[i].entry = entry
  BY <1>1, <1>2 DEF Item
<1> HIDE DEF i
<1>4. RegistryInv'
  <2>1. DOMAIN inodes' \subseteq (Root + 1)..lastInode'
    BY <1>1, <1>2, <1>3 DEF RegistryInv, Root, i
  <2>2. \A j \in DOMAIN inodes : inodes[j].stamp \in j..lastInode'
    BY <1>1, <1>2 DEF RegistryInv, Root, i
  <2>3. i \in i..lastInode' /\ lastInode' \in Nat \ {0}
    BY <1>1, <1>2 DEF i
  <2>4. contentRead' \subseteq 1..lastInode'
    BY <1>1, <1>2 DEF RegistryInv, i
  <2>5. QED
    BY <1>3, <2>1, <2>2, <2>3, <2>4 DEF RegistryInv
<1>5. \A q : Present(q) /\ IsDir(q) => (Present(q) /\ IsDir(q))'
  BY <1>3 DEF Present, IsDir
<1>6. InodesConnected'
  BY <1>1, <1>3, <1>5 DEF InodesConnected
<1>7. Evolve
  <2>1. i > lastInode /\ lastInode <= lastInode'
    BY <1>1, <1>2 DEF i
  <2>2. ASSUME NEW j \in DOMAIN inodes'
        PROVE  \/ j \in DOMAIN inodes /\ inodes'[j].entry.kind = inodes[j].entry.kind
               \/ j > lastInode
    BY <1>3, <2>1
  <2>3. QED
    BY <2>1, <2>2 DEF Evolve
<1>8. QED
  BY <1>4, <1>6, <1>7

\* Another version of a file takes the inode it had.
LEMMA UpdateSubitemKeeps ==
  ASSUME RegistryInv, InodesConnected, NEW p, NEW i \in Children(p),
         inodes[i].entry.kind = "file", NEW entry \in FileEntries,
         UpdateSubitem(p, i, entry)
  PROVE  (RegistryInv /\ InodesConnected)' /\ Evolve
<1>1. /\ lastInode' = lastInode + 1 /\ contentRead' = contentRead
      /\ inodes' = [j \in DOMAIN inodes |->
                      IF j = i THEN Item(j, lastInode + 1, p, entry) ELSE inodes[j]]
  <2>1. (DOMAIN inodes \ {i}) \cup {i} = DOMAIN inodes
    BY DEF Children
  <2>2. QED
    BY <2>1 DEF UpdateSubitem, KeepsInode, NewInode
<1>2. i \in DOMAIN inodes /\ inodes[i].parent = p
  BY DEF Children
<1>3. /\ DOMAIN inodes' = DOMAIN inodes
      /\ \A j \in DOMAIN inodes \ {i} : inodes'[j] = inodes[j]
      /\ inodes'[i].inode = i /\ inodes'[i].stamp = lastInode + 1
      /\ inodes'[i].parent = p /\ inodes'[i].entry = entry
  BY <1>1, <1>2 DEF Item
<1>4. entry.kind = "file" /\ entry \in AllEntries
  BY DEF FileEntries, AllEntries
<1>5. RegistryInv'
  <2>1. lastInode \in Nat \ {0} /\ i \in (Root + 1)..lastInode
    BY <1>2 DEF RegistryInv
  <2>2. DOMAIN inodes' \subseteq (Root + 1)..lastInode'
    BY <1>1, <1>3, <2>1 DEF RegistryInv, Root
  <2>3. \A j \in DOMAIN inodes : inodes'[j].stamp \in j..lastInode'
    BY <1>1, <1>3, <2>1 DEF RegistryInv, Root
  <2>4. contentRead' \subseteq 1..lastInode' /\ lastInode' \in Nat \ {0}
    BY <1>1, <2>1 DEF RegistryInv
  <2>5. QED
    BY <1>3, <1>4, <2>2, <2>3, <2>4 DEF RegistryInv
<1>6. \A j \in DOMAIN inodes : /\ inodes'[j].entry.kind = inodes[j].entry.kind
                               /\ inodes'[j].parent = inodes[j].parent
  BY <1>2, <1>3, <1>4
<1>7. InodesConnected'
  BY <1>1, <1>3, <1>6 DEF InodesConnected, Present, IsDir
<1>8. Evolve
  <2>1. lastInode <= lastInode'
    BY <1>1 DEF RegistryInv
  <2>2. QED
    BY <1>3, <1>6, <2>1 DEF Evolve
<1>9. QED
  BY <1>5, <1>7, <1>8

\* An item is removed with everything below it, so that no other item loses
\* its parent: as directories are in the root only, it is two levels at most.
LEMMA RemoveItemKeeps ==
  ASSUME RegistryInv, InodesConnected, NEW i \in DOMAIN inodes, RemoveItem(i)
  PROVE  (RegistryInv /\ InodesConnected)' /\ Evolve
<1> DEFINE removed == WithChildren(i)
<1>1. /\ inodes' = Restrict(inodes, DOMAIN inodes \ removed)
      /\ contentRead' = contentRead \ {i} /\ lastInode' = lastInode
  BY DEF RemoveItem
<1>2. /\ DOMAIN inodes' = DOMAIN inodes \ removed
      /\ \A j \in DOMAIN inodes' : inodes'[j] = inodes[j]
  BY <1>1 DEF Restrict
<1>3. RegistryInv'
  BY <1>1, <1>2 DEF RegistryInv
<1>4. ASSUME NEW j \in DOMAIN inodes'
      PROVE  (LET q == inodes[j].parent
              IN  Present(q) /\ IsDir(q) /\ q \in contentRead)'
  <2> DEFINE q == inodes[j].parent
  <2>1. j \in DOMAIN inodes /\ j \notin removed /\ inodes'[j] = inodes[j]
    BY <1>2
  <2>2. Present(q) /\ IsDir(q) /\ q \in contentRead
    BY <2>1 DEF InodesConnected
  <2>3. q # i /\ q \notin Children(i)
    BY <2>1 DEF WithChildren, Descendants, Children
  <2>4. q \notin removed
    <3>1. CASE q = Root
      BY <3>1, <1>2 DEF RegistryInv, WithChildren, Descendants, Children, Root
    <3>2. CASE q # Root
      <4>1. q \in DOMAIN inodes /\ inodes[q].parent = Root
        BY <2>2, <3>2 DEF Present, IsDir, RegistryInv
      <4>2. Root \notin Children(i)
        BY DEF Children, RegistryInv, Root
      <4>3. QED
        BY <2>3, <4>1, <4>2 DEF WithChildren, Descendants
    <3>3. QED
      BY <3>1, <3>2
  <2>5. /\ q \in {Root} \cup DOMAIN inodes'
        /\ q # Root => inodes'[q].entry.kind = "dir"
    BY <1>2, <2>2, <2>4 DEF Present, IsDir
  <2>6. q = inodes'[j].parent /\ q \in contentRead'
    BY <1>1, <2>1, <2>2, <2>3
  <2> HIDE DEF q
  <2>7. QED
    BY <2>5, <2>6 DEF Present, IsDir
<1>5. InodesConnected'
  BY <1>4 DEF InodesConnected
<1>6. Evolve
  <2>1. lastInode <= lastInode'
    BY <1>1 DEF RegistryInv
  <2>2. \A j \in DOMAIN inodes' :
          j \in DOMAIN inodes /\ inodes'[j].entry.kind = inodes[j].entry.kind
    BY <1>2
  <2>3. QED
    BY <2>1, <2>2 DEF Evolve
<1>7. QED
  BY <1>3, <1>5, <1>6

\* A directory that was not read gets its entries for children.
LEMMA ReadDirContentKeeps ==
  ASSUME TreeInv, RegistryInv, InodesConnected, NEW p, Present(p), IsDir(p),
         ReadDirContent(p)
  PROVE  (RegistryInv /\ InodesConnected)' /\ Evolve
<1> DEFINE d       == PathOf(p)
           S       == Entries(d)
           entries == SetToSeq(S)
           new     == (lastInode + 1)..(lastInode + Len(entries))
<1>1. /\ d \in DOMAIN tree
      /\ inodes' = [i \in DOMAIN inodes \cup new |->
                      IF i \in new THEN Item(i, i, p, entries[i - lastInode])
                                   ELSE inodes[i]]
      /\ lastInode' = lastInode + Len(entries)
      /\ contentRead' = contentRead \cup {p}
  BY DEF ReadDirContent
<1>2. /\ S \subseteq AllEntries /\ IsFiniteSet(S)
      /\ \A e \in S : e.kind = "dir" => p = Root
  BY <1>1, EntriesAreEntries, PathOfDir
<1>3. entries \in [1..Cardinality(S) -> S] /\ Cardinality(S) \in Nat
  BY <1>2, EachOnce
<1>4. Len(entries) = Cardinality(S)
  BY <1>3
<1> HIDE DEF S, entries
<1>5. lastInode \in Nat \ {0} /\ lastInode' \in Nat \ {0} /\ lastInode <= lastInode'
  BY <1>1, <1>3, <1>4 DEF RegistryInv
<1>6. \A i \in new : i \notin DOMAIN inodes /\ i > lastInode /\ i <= lastInode' /\ i \in Nat
  BY <1>1, <1>3, <1>4, <1>5 DEF RegistryInv, Root
<1>7. \A i \in new : entries[i - lastInode] \in S
  BY <1>3, <1>4, <1>5
<1> HIDE DEF new
<1>8. /\ DOMAIN inodes' = DOMAIN inodes \cup new
      /\ \A j \in DOMAIN inodes : inodes'[j] = inodes[j]
      /\ \A j \in new : /\ inodes'[j].inode = j /\ inodes'[j].stamp = j
                         /\ inodes'[j].parent = p /\ inodes'[j].entry \in S
  BY <1>1, <1>6, <1>7 DEF Item
<1>9. RegistryInv'
  <2>1. DOMAIN inodes' \subseteq (Root + 1)..lastInode'
    BY <1>5, <1>6, <1>8 DEF RegistryInv, Root
  <2>2. \A j \in DOMAIN inodes' : inodes'[j].stamp \in j..lastInode'
    BY <1>5, <1>6, <1>8 DEF RegistryInv, Root
  <2>3. contentRead' \subseteq 1..lastInode'
    <3>1. p \in 1..lastInode
      BY <1>5 DEF RegistryInv, Present, Root
    <3>2. contentRead \subseteq 1..lastInode /\ 1..lastInode \subseteq 1..lastInode'
      BY <1>5 DEF RegistryInv
    <3>3. QED
      BY <1>1, <3>1, <3>2
  <2>4. \A j \in DOMAIN inodes' : /\ inodes'[j].inode = j
                                  /\ inodes'[j].entry \in AllEntries
                                  /\ inodes'[j].entry.kind = "dir" => inodes'[j].parent = Root
    BY <1>2, <1>8 DEF RegistryInv
  <2>5. QED
    BY <1>5, <2>1, <2>2, <2>3, <2>4 DEF RegistryInv
<1>10. \A q : Present(q) /\ IsDir(q) => (Present(q) /\ IsDir(q))'
  BY <1>8 DEF Present, IsDir
<1>11. InodesConnected'
  BY <1>1, <1>8, <1>10 DEF InodesConnected
<1>12. QED
  BY <1>5, <1>6, <1>8, <1>9, <1>11 DEF Evolve

-----------------------------------------------------------------------------
(* Changes of the handles *)

\* Both tables of handles, lists of numbers in the second one.
Tables ==
  /\ \A it \in DOMAIN fhByItem : fhByItem[it] \in Seq(Nat)
  /\ HandlesAgree

\* What a list contains is its range.
LEMMA ContainsRange ==
  ASSUME NEW list \in Seq(Nat), NEW fh
  PROVE  Contains(list, fh) <=> fh \in Range(list)
BY DEF Contains, Range

\* Every second handle of a list, each once.
LEMMA SkippedProps ==
  ASSUME NEW list \in Seq(Nat), IsInjective(list)
  PROVE  /\ Skipped(list) \in Seq(Nat) /\ IsInjective(Skipped(list))
         /\ Range(Skipped(list)) \subseteq Range(list)
<1> DEFINE n == Len(list) \div 2
<1>1. n \in Nat /\ \A k \in 1..n : 2 * k \in 1..Len(list)
  <2>1. Len(list) \in Nat
    OBVIOUS
  <2>2. QED
    BY <2>1
<1>2. Skipped(list) = [k \in 1..n |-> list[2 * k]]
  BY DEF Skipped
<1> HIDE DEF n
<1>3. /\ DOMAIN Skipped(list) = 1..n
      /\ \A k \in 1..n : Skipped(list)[k] = list[2 * k] /\ list[2 * k] \in Nat
  BY <1>1, <1>2
<1>4. Skipped(list) \in Seq(Nat)
  BY <1>1, <1>2, <1>3
<1>5. ASSUME NEW k \in 1..n, NEW l \in 1..n, Skipped(list)[k] = Skipped(list)[l]
      PROVE  k = l
  <2>1. 2 * k \in DOMAIN list /\ 2 * l \in DOMAIN list /\ list[2 * k] = list[2 * l]
    BY <1>1, <1>3, <1>5
  <2>2. 2 * k = 2 * l
    BY <2>1 DEF IsInjective
  <2>3. QED
    BY <1>1, <2>2
<1>6. ASSUME NEW f \in Range(Skipped(list)) PROVE f \in Range(list)
  <2>1. PICK k \in 1..n : f = Skipped(list)[k]
    BY <1>3, <1>6 DEF Range
  <2>2. 2 * k \in DOMAIN list /\ f = list[2 * k]
    BY <1>1, <1>3, <2>1
  <2>3. QED
    BY <2>2 DEF Range
<1>7. QED
  BY <1>3, <1>4, <1>5, <1>6 DEF IsInjective

\* A list without one handle has the others, each once.
LEMMA UnlistedProps ==
  ASSUME NEW list \in Seq(Nat), IsInjective(list), NEW fh \in Range(list)
  PROVE  /\ Unlisted(list, fh) \in Seq(Nat) /\ IsInjective(Unlisted(list, fh))
         /\ Range(Unlisted(list, fh)) = Range(list) \ {fh}
BY RemovesOne DEF Unlisted

\* A handle that was never given out is listed under its item.
LEMMA OpenFhTables ==
  ASSUME Tables, lastFh \in Nat, DOMAIN fhs \subseteq 1..lastFh, NEW item, OpenFh(item)
  PROVE  Tables'
<1> DEFINE fh  == lastFh + 1
           old == IF item \in DOMAIN fhByItem THEN fhByItem[item] ELSE <<>>
<1>1. /\ fhs' = [f \in DOMAIN fhs \cup {fh} |-> IF f = fh THEN item ELSE fhs[f]]
      /\ fhByItem' = [it \in DOMAIN fhByItem \cup {item} |->
                        IF it = item THEN Append(old, fh) ELSE fhByItem[it]]
  BY DEF OpenFh
<1>2. fh \in Nat /\ fh \notin DOMAIN fhs
  OBVIOUS
<1>3. /\ old \in Seq(Nat) /\ IsInjective(old)
      /\ \A f \in Range(old) : f \in DOMAIN fhs /\ fhs[f] = item
      /\ \A f \in DOMAIN fhs : fhs[f] = item => f \in Range(old)
  <2>1. CASE item \in DOMAIN fhByItem
    BY <2>1, ContainsRange DEF Tables, HandlesAgree
  <2>2. CASE item \notin DOMAIN fhByItem
    BY <2>2 DEF Tables, HandlesAgree, IsInjective, Range
  <2>3. QED
    BY <2>1, <2>2
<1>4. /\ DOMAIN fhs' = DOMAIN fhs \cup {fh} /\ fhs'[fh] = item
      /\ \A f \in DOMAIN fhs : fhs'[f] = fhs[f]
      /\ DOMAIN fhByItem' = DOMAIN fhByItem \cup {item}
      /\ fhByItem'[item] = Append(old, fh)
      /\ \A it \in DOMAIN fhByItem \ {item} : fhByItem'[it] = fhByItem[it]
  BY <1>1, <1>2
<1> HIDE DEF fh, old
<1>5. /\ Append(old, fh) \in Seq(Nat) /\ Append(old, fh) # <<>>
      /\ DOMAIN Append(old, fh) = 1..(Len(old) + 1)
      /\ \A k \in 1..Len(old) : Append(old, fh)[k] = old[k] /\ k \in DOMAIN old
      /\ Append(old, fh)[Len(old) + 1] = fh
      /\ Len(old) \in Nat /\ DOMAIN old = 1..Len(old)
  BY <1>2, <1>3
<1>6. Range(Append(old, fh)) = Range(old) \cup {fh}
  <2>1. 1..(Len(old) + 1) = 1..Len(old) \cup {Len(old) + 1}
    BY <1>5
  <2>2. QED
    BY <1>5, <2>1 DEF Range
<1>7. IsInjective(Append(old, fh))
  <2>1. \A k \in 1..Len(old) : old[k] # fh
    BY <1>2, <1>3, <1>5 DEF Range
  <2>2. QED
    BY <1>3, <1>5, <2>1 DEF IsInjective
<1>8. \A it \in DOMAIN fhByItem' :
        /\ fhByItem'[it] \in Seq(Nat)
        /\ fhByItem'[it] # <<>> /\ IsInjective(fhByItem'[it])
        /\ \A f \in Range(fhByItem'[it]) : f \in DOMAIN fhs' /\ fhs'[f] = it
  <2>1. ASSUME NEW it \in DOMAIN fhByItem', it # item
        PROVE  /\ fhByItem'[it] \in Seq(Nat)
               /\ fhByItem'[it] # <<>> /\ IsInjective(fhByItem'[it])
               /\ \A f \in Range(fhByItem'[it]) : f \in DOMAIN fhs' /\ fhs'[f] = it
    BY <1>4, <2>1 DEF Tables, HandlesAgree
  <2>2. \A f \in Range(fhByItem'[item]) : f \in DOMAIN fhs' /\ fhs'[f] = item
    BY <1>3, <1>4, <1>6
  <2>3. QED
    BY <1>4, <1>5, <1>7, <2>1, <2>2
<1>9. \A f \in DOMAIN fhs' :
        fhs'[f] \in DOMAIN fhByItem' /\ f \in Range(fhByItem'[fhs'[f]])
  <2>1. ASSUME NEW f \in DOMAIN fhs
        PROVE  fhs'[f] \in DOMAIN fhByItem' /\ f \in Range(fhByItem'[fhs'[f]])
    BY <1>3, <1>4, <1>6, ContainsRange DEF Tables, HandlesAgree
  <2>2. QED
    BY <1>4, <1>6, <2>1
<1>10. QED
  BY <1>8, <1>9, ContainsRange DEF Tables, HandlesAgree

\* A handle that is given back is not listed any more.
LEMMA ReleaseFhTables ==
  ASSUME Tables, NEW fh \in DOMAIN fhs, ReleaseFh(fh)
  PROVE  /\ Tables'
         /\ DOMAIN fhs' = DOMAIN fhs \ {fh}
         /\ \A f \in DOMAIN fhs' : fhs'[f] = fhs[f]
<1> DEFINE item == fhs[fh]
           left == Unlisted(fhByItem[item], fh)
<1>1. /\ fhs' = Restrict(fhs, DOMAIN fhs \ {fh})
      /\ fhByItem' = IF left = <<>> THEN Restrict(fhByItem, DOMAIN fhByItem \ {item})
                                    ELSE [fhByItem EXCEPT ![item] = left]
  BY DEF ReleaseFh
<1>2. /\ item \in DOMAIN fhByItem /\ fhByItem[item] \in Seq(Nat)
      /\ IsInjective(fhByItem[item]) /\ fh \in Range(fhByItem[item])
  BY ContainsRange DEF Tables, HandlesAgree
<1>3. /\ left \in Seq(Nat) /\ IsInjective(left)
      /\ Range(left) = Range(fhByItem[item]) \ {fh}
  BY <1>2, UnlistedProps
<1>4. /\ DOMAIN fhs' = DOMAIN fhs \ {fh}
      /\ \A f \in DOMAIN fhs' : fhs'[f] = fhs[f]
  BY <1>1 DEF Restrict
<1> HIDE DEF left, item
<1>5. /\ DOMAIN fhByItem' = IF left = <<>> THEN DOMAIN fhByItem \ {item}
                                          ELSE DOMAIN fhByItem
      /\ \A it \in DOMAIN fhByItem' :
           fhByItem'[it] = IF it = item THEN left ELSE fhByItem[it]
  BY <1>1, <1>2 DEF Restrict
<1>6. ASSUME NEW it \in DOMAIN fhByItem'
      PROVE  /\ fhByItem'[it] \in Seq(Nat)
             /\ fhByItem'[it] # <<>> /\ IsInjective(fhByItem'[it])
             /\ \A f \in Range(fhByItem'[it]) : f \in DOMAIN fhs' /\ fhs'[f] = it
  <2>1. CASE it = item
    <3>1. left # <<>> /\ fhByItem'[it] = left
      BY <1>5, <2>1
    <3>2. \A f \in Range(left) : f \in DOMAIN fhs /\ f # fh /\ fhs[f] = item
      BY <1>2, <1>3 DEF Tables, HandlesAgree
    <3>3. QED
      BY <1>3, <1>4, <2>1, <3>1, <3>2
  <2>2. CASE it # item
    <3>1. it \in DOMAIN fhByItem /\ fhByItem'[it] = fhByItem[it]
      BY <1>5, <2>2
    <3>2. \A f \in Range(fhByItem[it]) : f \in DOMAIN fhs /\ f # fh /\ fhs[f] = it
      BY <2>2, <3>1 DEF Tables, HandlesAgree, item
    <3>3. QED
      BY <1>4, <3>1, <3>2 DEF Tables, HandlesAgree
  <2>3. QED
    BY <2>1, <2>2
<1>7. ASSUME NEW f \in DOMAIN fhs'
      PROVE  fhs'[f] \in DOMAIN fhByItem' /\ f \in Range(fhByItem'[fhs'[f]])
  <2>1. /\ f \in DOMAIN fhs /\ f # fh /\ fhs'[f] = fhs[f]
        /\ fhs[f] \in DOMAIN fhByItem /\ f \in Range(fhByItem[fhs[f]])
    BY <1>4, <1>7, ContainsRange DEF Tables, HandlesAgree
  <2>2. CASE fhs[f] = item
    <3>1. f \in Range(left)
      BY <1>3, <2>1, <2>2
    <3>2. left # <<>>
      BY <3>1 DEF Range
    <3>3. QED
      BY <1>2, <1>5, <2>1, <2>2, <3>1, <3>2
  <2>3. CASE fhs[f] # item
    BY <1>5, <2>1, <2>3
  <2>4. QED
    BY <2>2, <2>3
<1>8. QED
  BY <1>4, <1>6, <1>7, ContainsRange DEF Tables, HandlesAgree

\* The handles of removed items go, but for every second one, in both tables.
LEMMA ReleaseAllTables ==
  ASSUME Tables, NEW items, ReleaseAll(items)
  PROVE  /\ Tables'
         /\ DOMAIN fhs' \subseteq DOMAIN fhs
         /\ \A f \in DOMAIN fhs' : fhs'[f] = fhs[f]
<1> DEFINE listed  == DOMAIN fhByItem \cap items
           kept    == [it \in listed |-> Skipped(fhByItem[it])]
           dropped == {fh \in DOMAIN fhs :
                         \E it \in listed : /\ Contains(fhByItem[it], fh)
                                            /\ ~Contains(kept[it], fh)}
<1>1. /\ fhs' = Restrict(fhs, DOMAIN fhs \ dropped)
      /\ fhByItem' = [it \in (DOMAIN fhByItem \ listed)
                               \cup {it \in listed : kept[it] # <<>>} |->
                        IF it \in listed THEN kept[it] ELSE fhByItem[it]]
  BY DEF ReleaseAll
<1>2. /\ DOMAIN fhs' = DOMAIN fhs \ dropped
      /\ \A f \in DOMAIN fhs' : fhs'[f] = fhs[f]
  BY <1>1 DEF Restrict
<1>3. \A it \in DOMAIN fhByItem : /\ fhByItem[it] \in Seq(Nat)
                                  /\ fhByItem[it] # <<>> /\ IsInjective(fhByItem[it])
                                  /\ \A f \in Range(fhByItem[it]) :
                                       f \in DOMAIN fhs /\ fhs[f] = it
  BY DEF Tables, HandlesAgree
<1>4. \A it \in listed : /\ kept[it] \in Seq(Nat) /\ IsInjective(kept[it])
                         /\ Range(kept[it]) \subseteq Range(fhByItem[it])
  BY <1>3, SkippedProps
<1> HIDE DEF kept
<1>5. dropped = {fh \in DOMAIN fhs :
                   \E it \in listed : /\ fh \in Range(fhByItem[it])
                                      /\ fh \notin Range(kept[it])}
  BY <1>3, <1>4, ContainsRange
<1> HIDE DEF dropped, listed
<1>6. listed \subseteq DOMAIN fhByItem
  BY DEF listed
<1>7. \A fh \in DOMAIN fhs : fh \in dropped <=>
        /\ fhs[fh] \in listed
        /\ fh \in Range(fhByItem[fhs[fh]]) /\ fh \notin Range(kept[fhs[fh]])
  BY <1>3, <1>5, <1>6
<1>8. ASSUME NEW it \in DOMAIN fhByItem'
      PROVE  /\ fhByItem'[it] \in Seq(Nat)
             /\ fhByItem'[it] # <<>> /\ IsInjective(fhByItem'[it])
             /\ \A f \in Range(fhByItem'[it]) : f \in DOMAIN fhs' /\ fhs'[f] = it
  <2>1. CASE it \in listed
    <3>1. kept[it] # <<>> /\ fhByItem'[it] = kept[it]
      BY <1>1, <2>1
    <3>2. \A f \in Range(kept[it]) : f \in DOMAIN fhs /\ f \notin dropped /\ fhs[f] = it
      BY <1>3, <1>4, <1>6, <1>7, <2>1
    <3>3. QED
      BY <1>2, <1>4, <2>1, <3>1, <3>2
  <2>2. CASE it \notin listed
    <3>1. it \in DOMAIN fhByItem /\ fhByItem'[it] = fhByItem[it]
      BY <1>1, <1>6, <2>2
    <3>2. \A f \in Range(fhByItem[it]) : f \in DOMAIN fhs /\ f \notin dropped /\ fhs[f] = it
      BY <1>3, <1>7, <2>2, <3>1
    <3>3. QED
      BY <1>2, <1>3, <3>1, <3>2
  <2>3. QED
    BY <2>1, <2>2
<1>9. ASSUME NEW f \in DOMAIN fhs'
      PROVE  fhs'[f] \in DOMAIN fhByItem' /\ f \in Range(fhByItem'[fhs'[f]])
  <2>1. /\ f \in DOMAIN fhs /\ f \notin dropped /\ fhs'[f] = fhs[f]
        /\ fhs[f] \in DOMAIN fhByItem /\ f \in Range(fhByItem[fhs[f]])
    BY <1>2, <1>9, ContainsRange DEF Tables, HandlesAgree
  <2>2. CASE fhs[f] \in listed
    <3>1. f \in Range(kept[fhs[f]])
      BY <1>7, <2>1, <2>2
    <3>2. kept[fhs[f]] # <<>>
      BY <3>1 DEF Range
    <3>3. QED
      BY <1>1, <2>1, <2>2, <3>1, <3>2
  <2>3. CASE fhs[f] \notin listed
    BY <1>1, <2>1, <2>3
  <2>4. QED
    BY <2>2, <2>3
<1>10. QED
  BY <1>2, <1>8, <1>9, ContainsRange DEF Tables, HandlesAgree

\* Handles that are there keep their meaning while the inodes evolve.
LEMMA HandlesOutliveInodes ==
  ASSUME RegistryInv, RegistryInv', HandleInv, FileHandlesGivenBack, Evolve, Tables',
         DOMAIN fhs' \subseteq DOMAIN fhs, \A f \in DOMAIN fhs' : fhs'[f] = fhs[f],
         UNCHANGED <<lastFh, opening, held>>
  PROVE  (HandleInv /\ FileHandlesGivenBack)'
<1>1. ASSUME NEW f \in DOMAIN fhs', fhs'[f].entry.kind = "dir"
      PROVE  /\ fhs'[f].inode \in 1..lastInode'
             /\ fhs'[f].inode \in DOMAIN inodes' =>
                  inodes'[fhs'[f].inode].entry.kind = "dir"
  <2> DEFINE i == fhs[f].inode
  <2>1. /\ fhs'[f] = fhs[f] /\ i \in 1..lastInode
        /\ i \in DOMAIN inodes => inodes[i].entry.kind = "dir"
    BY <1>1 DEF HandleInv
  <2> HIDE DEF i
  <2>2. lastInode \in Nat /\ lastInode' \in Nat /\ lastInode <= lastInode'
    BY DEF RegistryInv, Evolve
  <2>3. i \in 1..lastInode' /\ ~(i > lastInode)
    BY <2>1, <2>2
  <2>4. i \in DOMAIN inodes' => inodes'[i].entry.kind = "dir"
    BY <2>1, <2>3 DEF Evolve
  <2>5. fhs'[f].inode = i
    BY <2>1 DEF i
  <2>6. QED
    BY <2>3, <2>4, <2>5
<1>2. HandleInv'
  BY <1>1 DEF HandleInv, Tables
<1>3. FileHandlesGivenBack'
  BY DEF FileHandlesGivenBack
<1>4. QED
  BY <1>2, <1>3

\* A new handle, of a file or of a directory that is there.
LEMMA OpenFhKeeps ==
  ASSUME RegistryInv, HandleInv, HandlesAgree, FileHandlesGivenBack,
         NEW item, OpenFh(item), UNCHANGED registry, opening' \subseteq opening,
         item.entry.kind = "dir" =>
           /\ item.inode \in 1..lastInode
           /\ item.inode \in DOMAIN inodes => inodes[item.inode].entry.kind = "dir"
  PROVE  (HandleInv /\ HandlesAgree /\ FileHandlesGivenBack)'
<1>1. /\ lastFh \in Nat /\ lastFh < MaxHandles /\ lastFh' = lastFh + 1
      /\ held' = held \cup {lastFh + 1}
      /\ DOMAIN fhs \subseteq 1..lastFh /\ held \subseteq 1..lastFh
  BY BoundsAssumption DEF HandleInv, OpenFh
<1>2. /\ DOMAIN fhs' = DOMAIN fhs \cup {lastFh + 1}
      /\ \A f \in DOMAIN fhs' : fhs'[f] = IF f = lastFh + 1 THEN item ELSE fhs[f]
  BY DEF OpenFh
<1>3. Tables'
  BY <1>1, OpenFhTables DEF Tables, HandleInv
<1>4. /\ lastFh' \in 0..MaxHandles
      /\ DOMAIN fhs' \subseteq 1..lastFh' /\ held' \subseteq 1..lastFh'
  BY <1>1, <1>2, BoundsAssumption
<1>5. inodes' = inodes /\ lastInode' = lastInode
  BY DEF registry
<1>6. ASSUME NEW f \in DOMAIN fhs'
      PROVE  fhs'[f] = item \/ (f \in DOMAIN fhs /\ fhs'[f] = fhs[f])
  <2>1. CASE f = lastFh + 1
    BY <1>2, <2>1
  <2>2. CASE f # lastFh + 1
    <3>1. f \in DOMAIN fhs /\ fhs'[f] = fhs[f]
      BY <1>2, <2>2
    <3>2. QED
      BY <3>1
  <2>3. QED
    BY <2>1, <2>2
<1>7. \A f \in DOMAIN fhs' : fhs'[f].entry.kind = "dir" =>
        /\ fhs'[f].inode \in 1..lastInode
        /\ fhs'[f].inode \in DOMAIN inodes => inodes[fhs'[f].inode].entry.kind = "dir"
  BY <1>6 DEF HandleInv
<1>8. HandleInv'
  BY <1>3, <1>4, <1>5, <1>7 DEF HandleInv, Tables
<1>9. FileHandlesGivenBack'
  BY <1>1, <1>2 DEF FileHandlesGivenBack
<1>10. QED
  BY <1>3, <1>8, <1>9 DEF Tables

-----------------------------------------------------------------------------
(* The handler of an update *)

\* A change of the tree, with its event, leaves inodes and handles alone.
LEMMA ChangeKeeps ==
  ASSUME IInv, NEW newTree, NEW event \in AllEvents, Change(newTree, event),
         stray' \in BOOLEAN, TreeInv'
  PROVE  IInv'
<1>1. PendingInv'
  <2>1. pending \in Seq(AllEvents)
    BY DEF IInv, PendingInv
  <2>2. Append(pending, event) \in Seq(AllEvents)
    BY <2>1
  <2>3. dispatching' = FALSE
    BY DEF IInv, PendingInv, Change
  <2>4. QED
    BY <2>2, <2>3 DEF IInv, PendingInv, Change
<1>2. UNCHANGED <<registry, handles>>
  BY DEF Change
<1>3. (RegistryInv /\ HandleInv)'
  BY <1>2 DEF IInv, RegistryInv, HandleInv, registry, handles
<1>4. (InodesConnected /\ HandlesAgree /\ FileHandlesGivenBack)'
  BY <1>2 DEF IInv, InodesConnected, Present, IsDir, HandlesAgree,
              FileHandlesGivenBack, registry, handles
<1>5. QED
  BY <1>1, <1>3, <1>4 DEF IInv

\* The tree stays one when the files of a directory become others.
LEMMA FilesChangeKeeps ==
  ASSUME IInv, NEW d \in DOMAIN tree, NEW files, NEW event \in AllEvents,
         DOMAIN files \subseteq Names, IsFiniteSet(DOMAIN files),
         files \in [DOMAIN files -> Versions],
         Change([tree EXCEPT ![d] = files], event), UNCHANGED stray
  PROVE  IInv'
<1>1. tree' = [tree EXCEPT ![d] = files] /\ changes' = changes + 1 /\ changes < MaxChanges
  BY DEF Change
<1>2. DOMAIN tree' = DOMAIN tree
  BY <1>1
<1>3. \A e \in DOMAIN tree : tree'[e] = IF e = d THEN files ELSE tree[e]
  BY <1>1
<1>4. changes' \in 0..MaxChanges
  BY <1>1, BoundsAssumption DEF IInv, TreeInv
<1>5. TreeInv'
  BY <1>2, <1>3, <1>4 DEF IInv, TreeInv
<1>6. stray' \in BOOLEAN
  BY DEF IInv, PendingInv
<1>7. QED
  BY <1>5, <1>6, ChangeKeeps

LEMMA PutFileIInv ==
  ASSUME IInv, NEW d \in DOMAIN tree, NEW n \in Names, NEW v \in Versions,
         PutFile(d, n, v)
  PROVE  IInv'
<1> DEFINE files == [m \in DOMAIN tree[d] \cup {n} |-> IF m = n THEN v ELSE tree[d][m]]
           event == Event("new", d, n, FileEntry(n, v))
<1>1. Change([tree EXCEPT ![d] = files], event) /\ UNCHANGED stray
  BY DEF PutFile
<1>2. event \in AllEvents
  BY DEF IInv, TreeInv, Event, FileEntry, AllEvents, FileEvents, FileEntries
<1>3. /\ DOMAIN tree[d] \subseteq Names /\ IsFiniteSet(DOMAIN tree[d])
      /\ tree[d] \in [DOMAIN tree[d] -> Versions]
  BY DEF IInv, TreeInv
<1>4. DOMAIN files = DOMAIN tree[d] \cup {n} /\ files \in [DOMAIN files -> Versions]
  BY <1>3
<1>5. IsFiniteSet(DOMAIN files)
  BY <1>3, <1>4, FS_AddElement
<1> HIDE DEF files, event
<1>6. QED
  BY <1>1, <1>2, <1>3, <1>4, <1>5, FilesChangeKeeps

LEMMA UpdateFileIInv ==
  ASSUME IInv, NEW d \in DOMAIN tree, NEW n \in Names, NEW m \in Names,
         NEW v \in Versions, UpdateFile(d, n, m, v)
  PROVE  IInv'
<1> DEFINE others == DOMAIN tree[d] \ {n}
           files  == [k \in others \cup {m} |-> IF k = m THEN v ELSE tree[d][k]]
           event  == Event("update", d, n, FileEntry(m, v))
<1>1. Change([tree EXCEPT ![d] = files], event) /\ UNCHANGED stray
  BY DEF UpdateFile
<1>2. event \in AllEvents
  BY DEF IInv, TreeInv, Event, FileEntry, AllEvents, FileEvents, FileEntries
<1>3. /\ DOMAIN tree[d] \subseteq Names /\ IsFiniteSet(DOMAIN tree[d])
      /\ tree[d] \in [DOMAIN tree[d] -> Versions]
  BY DEF IInv, TreeInv
<1>4. DOMAIN files = others \cup {m} /\ files \in [DOMAIN files -> Versions]
  BY <1>3
<1>5. IsFiniteSet(others)
  BY <1>3, FS_RemoveElement
<1> HIDE DEF others
<1>6. IsFiniteSet(DOMAIN files)
  BY <1>4, <1>5, FS_AddElement
<1>7. DOMAIN files \subseteq Names
  BY <1>3, <1>4 DEF others
<1> HIDE DEF files, event
<1>8. QED
  BY <1>1, <1>2, <1>4, <1>6, <1>7, FilesChangeKeeps

LEMMA UpdateNothingIInv ==
  ASSUME IInv, NEW d \in DOMAIN tree, NEW n \in Names, NEW m \in Names,
         NEW v \in Versions, UpdateNothing(d, n, m, v)
  PROVE  IInv'
<1> DEFINE event == Event("update", d, n, FileEntry(m, v))
<1>1. Change(tree, event) /\ stray' = TRUE
  BY DEF UpdateNothing
<1>2. event \in AllEvents
  BY DEF IInv, TreeInv, Event, FileEntry, AllEvents, FileEvents, FileEntries
<1>3. tree' = tree /\ changes' = changes + 1 /\ changes < MaxChanges
  BY <1>1 DEF Change
<1>4. TreeInv'
  BY <1>3, BoundsAssumption DEF IInv, TreeInv
<1> HIDE DEF event
<1>5. QED
  BY <1>1, <1>2, <1>4, ChangeKeeps

LEMMA RemoveFileIInv ==
  ASSUME IInv, NEW d \in DOMAIN tree, NEW n \in Names, RemoveFile(d, n)
  PROVE  IInv'
<1> DEFINE files == Restrict(tree[d], DOMAIN tree[d] \ {n})
           event == Event("remove", d, n, FileEntry(n, tree[d][n]))
<1>1. Change([tree EXCEPT ![d] = files], event)
      /\ n \in DOMAIN tree[d] /\ UNCHANGED stray
  BY DEF RemoveFile
<1>2. /\ DOMAIN tree[d] \subseteq Names /\ IsFiniteSet(DOMAIN tree[d])
      /\ tree[d] \in [DOMAIN tree[d] -> Versions]
  BY DEF IInv, TreeInv
<1>3. event \in AllEvents
  BY <1>1, <1>2 DEF IInv, TreeInv, Event, FileEntry, AllEvents, FileEvents, FileEntries
<1>4. DOMAIN files = DOMAIN tree[d] \ {n} /\ files \in [DOMAIN files -> Versions]
  BY <1>2 DEF Restrict
<1>5. IsFiniteSet(DOMAIN files)
  BY <1>2, <1>4, FS_RemoveElement
<1> HIDE DEF files, event
<1>6. QED
  BY <1>1, <1>2, <1>3, <1>4, <1>5, FilesChangeKeeps

LEMMA CreateDirIInv == ASSUME IInv, NEW d \in Dirs, CreateDir(d) PROVE IInv'
<1>1. /\ Change([e \in DOMAIN tree \cup {d} |-> IF e = d THEN <<>> ELSE tree[e]],
                Event("new", Top, d, DirEntry(d)))
      /\ d \notin DOMAIN tree /\ UNCHANGED stray
  BY DEF CreateDir
<1>2. Event("new", Top, d, DirEntry(d)) \in AllEvents
  BY DEF Event, DirEntry, AllEvents, DirEvents, DirEntries
<1>3. /\ tree' = [e \in DOMAIN tree \cup {d} |-> IF e = d THEN <<>> ELSE tree[e]]
      /\ changes' = changes + 1 /\ changes < MaxChanges
  BY <1>1 DEF Change
<1>4. changes' \in 0..MaxChanges
  BY <1>3, BoundsAssumption DEF IInv, TreeInv
<1>5. /\ DOMAIN tree' = DOMAIN tree \cup {d} /\ tree'[d] = <<>>
      /\ \A e \in DOMAIN tree : tree'[e] = tree[e]
  BY <1>1, <1>3
<1>6. IsFiniteSet(DOMAIN tree')
  BY <1>5, FS_AddElement DEF IInv, TreeInv
<1>7. DOMAIN <<>> = {} /\ IsFiniteSet({}) /\ <<>> \in [{} -> Versions]
  BY FS_EmptySet
<1>8. TreeInv'
  BY <1>4, <1>5, <1>6, <1>7 DEF IInv, TreeInv
<1>9. stray' \in BOOLEAN
  BY <1>1 DEF IInv, PendingInv
<1>10. QED
  BY <1>1, <1>2, <1>8, <1>9, ChangeKeeps

LEMMA RemoveDirIInv == ASSUME IInv, NEW d \in Dirs, RemoveDir(d) PROVE IInv'
<1>1. /\ Change(Restrict(tree, DOMAIN tree \ {d}), Event("remove", Top, d, DirEntry(d)))
      /\ d # Top /\ UNCHANGED stray
  BY DEF RemoveDir
<1>2. Event("remove", Top, d, DirEntry(d)) \in AllEvents
  BY DEF Event, DirEntry, AllEvents, DirEvents, DirEntries
<1>3. /\ tree' = Restrict(tree, DOMAIN tree \ {d})
      /\ changes' = changes + 1 /\ changes < MaxChanges
  BY <1>1 DEF Change
<1>4. changes' \in 0..MaxChanges
  BY <1>3, BoundsAssumption DEF IInv, TreeInv
<1>5. /\ DOMAIN tree' = DOMAIN tree \ {d}
      /\ \A e \in DOMAIN tree' : tree'[e] = tree[e]
  BY <1>3 DEF Restrict
<1>6. IsFiniteSet(DOMAIN tree')
  BY <1>5, FS_RemoveElement DEF IInv, TreeInv
<1>7. TreeInv'
  BY <1>1, <1>4, <1>5, <1>6 DEF IInv, TreeInv
<1>8. stray' \in BOOLEAN
  BY <1>1 DEF IInv, PendingInv
<1>9. QED
  BY <1>1, <1>2, <1>7, <1>8, ChangeKeeps

LEMMA FailHandlerIInv == ASSUME IInv, FailHandler PROVE IInv'
<1>1. /\ pending' = <<>> /\ dispatching' = FALSE
      /\ crossed' = crossed /\ lost' = TRUE /\ stray' = stray
      /\ UNCHANGED <<producers, registry, handles>>
  BY DEF FailHandler, IInv, PendingInv
<1>2. <<>> \in Seq(AllEvents)
  OBVIOUS
<1>3. PendingInv'
  BY <1>1, <1>2 DEF IInv, PendingInv
<1>4. (TreeInv /\ RegistryInv /\ HandleInv)'
  BY <1>1 DEF IInv, TreeInv, RegistryInv, HandleInv, producers, registry, handles
<1>5. (InodesConnected /\ HandlesAgree /\ FileHandlesGivenBack)'
  BY <1>1 DEF IInv, InodesConnected, Present, IsDir, HandlesAgree,
              FileHandlesGivenBack, registry, handles
<1>6. QED
  BY <1>3, <1>4, <1>5 DEF IInv

\* A step that leaves inodes alone.
LEMMA RegistryStays ==
  ASSUME RegistryInv, InodesConnected, UNCHANGED registry
  PROVE  (RegistryInv /\ InodesConnected)' /\ Evolve
<1>1. inodes' = inodes /\ lastInode' = lastInode /\ contentRead' = contentRead
  BY DEF registry
<1>2. RegistryInv' /\ InodesConnected'
  BY <1>1 DEF RegistryInv, InodesConnected, Present, IsDir
<1>3. Evolve
  BY <1>1 DEF Evolve, RegistryInv
<1>4. QED
  BY <1>2, <1>3

\* A step that leaves the tables alone.
LEMMA TablesStay ==
  ASSUME Tables, UNCHANGED <<fhs, fhByItem>>
  PROVE  /\ Tables'
         /\ DOMAIN fhs' \subseteq DOMAIN fhs
         /\ \A f \in DOMAIN fhs' : fhs'[f] = fhs[f]
BY DEF Tables, HandlesAgree

\* What an event of the tree does to inodes and handles.
LEMMA ApplyKeeps ==
  ASSUME RegistryInv, InodesConnected, Tables, NEW event \in AllEvents, Apply(event)
  PROVE  /\ (RegistryInv /\ InodesConnected)' /\ Evolve
         /\ Tables'
         /\ DOMAIN fhs' \subseteq DOMAIN fhs
         /\ \A f \in DOMAIN fhs' : fhs'[f] = fhs[f]
<1> DEFINE p == DirInode(event.dir)
           i == IF p = NoInode THEN NoInode ELSE Child(p, event.name)
<1>1. /\ event.dir \in Dirs \cup {Top} /\ event.entry \in AllEntries
      /\ event.entry.kind = "dir" => event.dir = Top
      /\ event.kind = "update" => event.entry \in FileEntries /\ event.name \in Names
  BY DEF AllEvents, FileEvents, DirEvents, AllEntries, FileEntries, DirEntries
<1>2. p # NoInode => /\ Present(p) /\ IsDir(p)
                     /\ event.entry.kind = "dir" => p = Root
  BY <1>1, DirInodeIsDir
<1>3. i # NoInode => i \in Children(p) /\ inodes[i].entry.name = event.name
  BY ChildFound
<1>4. \/ ReadDir(p) /\ AddSubitem(p, event.entry)
      \/ event.kind = "update" /\ i # NoInode /\ UpdateSubitem(p, i, event.entry)
      \/ i # NoInode /\ RemoveItem(i)
      \/ UNCHANGED <<registry, fhs, fhByItem>>
  BY DEF Apply
<1> HIDE DEF p, i
<1>5. CASE ReadDir(p) /\ AddSubitem(p, event.entry)
  <2>1. Present(p) /\ IsDir(p) /\ p \in contentRead
    BY <1>2, <1>5 DEF ReadDir
  <2>2. (RegistryInv /\ InodesConnected)' /\ Evolve
    BY <1>1, <1>2, <1>5, <2>1, AddSubitemKeeps DEF ReadDir
  <2>3. QED
    BY <1>5, <2>2, TablesStay DEF AddSubitem
<1>6. CASE event.kind = "update" /\ i # NoInode /\ UpdateSubitem(p, i, event.entry)
  <2>1. i \in Children(p) /\ i \in DOMAIN inodes /\ inodes[i].entry.name \in Names
    BY <1>1, <1>3, <1>6 DEF Children
  <2>2. inodes[i].entry.kind = "file"
    BY <2>1, KindByName
  <2>3. (RegistryInv /\ InodesConnected)' /\ Evolve
    BY <1>1, <1>6, <2>1, <2>2, UpdateSubitemKeeps
  <2>4. QED
    BY <1>6, <2>3, TablesStay DEF UpdateSubitem
<1>7. CASE i # NoInode /\ RemoveItem(i)
  <2>1. (RegistryInv /\ InodesConnected)' /\ Evolve
    BY <1>3, <1>7, RemoveItemKeeps DEF Children
  <2>2. QED
    BY <1>7, <2>1, ReleaseAllTables DEF RemoveItem
<1>8. CASE UNCHANGED <<registry, fhs, fhByItem>>
  BY <1>8, RegistryStays, TablesStay
<1>9. QED
  BY <1>4, <1>5, <1>6, <1>7, <1>8

LEMMA DispatchIInv == ASSUME IInv, Dispatch PROVE IInv'
<1>1. /\ pending # <<>> /\ pending \in Seq(AllEvents)
      /\ pending' = Tail(pending) /\ dispatching' = (Len(pending) > 1)
      /\ Apply(Head(pending))
      /\ UNCHANGED <<tree, changes, lastFh, opening, held, history>>
  BY DEF Dispatch, IInv, PendingInv, producers
<1>2. Head(pending) \in AllEvents
  BY <1>1
<1>3. Tables
  BY DEF IInv, Tables, HandleInv
<1>4. /\ (RegistryInv /\ InodesConnected)' /\ Evolve
      /\ Tables'
      /\ DOMAIN fhs' \subseteq DOMAIN fhs
      /\ \A f \in DOMAIN fhs' : fhs'[f] = fhs[f]
  BY <1>1, <1>2, <1>3, ApplyKeeps DEF IInv
<1>5. (HandleInv /\ FileHandlesGivenBack)'
  BY <1>1, <1>4, HandlesOutliveInodes DEF IInv
<1>6. PendingInv'
  <2>1. Tail(pending) \in Seq(AllEvents) /\ Len(Tail(pending)) = Len(pending) - 1
    BY <1>1, HeadTailProperties
  <2>2. ASSUME dispatching' PROVE pending' # <<>>
    <3>1. Len(pending) > 1
      BY <1>1, <2>2, Zenon
    <3>2. Len(pending) \in Nat
      BY <1>1
    <3>3. Len(Tail(pending)) # 0
      BY <2>1, <3>1, <3>2
    <3>4. Len(pending') # 0
      BY <1>1, <3>3, Zenon
    <3>5. QED
      BY <3>4
  <2>3. QED
    BY <1>1, <2>1, <2>2 DEF IInv, PendingInv, history
<1>7. TreeInv'
  BY <1>1 DEF IInv, TreeInv
<1>8. QED
  BY <1>4, <1>5, <1>6, <1>7 DEF IInv, Tables

-----------------------------------------------------------------------------
(* Requests of the kernel *)

\* A directory is read into the registry.
LEMMA ReadingKeeps ==
  ASSUME IInv, NEW p, Present(p), IsDir(p), ReadDirContent(p),
         UNCHANGED <<producers, pending, dispatching, handles, lost, stray>>
  PROVE  IInv'
<1>1. (RegistryInv /\ InodesConnected)' /\ Evolve
  BY ReadDirContentKeeps DEF IInv
<1>2. /\ Tables'
      /\ DOMAIN fhs' \subseteq DOMAIN fhs
      /\ \A f \in DOMAIN fhs' : fhs'[f] = fhs[f]
      /\ UNCHANGED <<lastFh, opening, held>>
  BY TablesStay DEF IInv, Tables, HandleInv, handles
<1>3. (HandleInv /\ FileHandlesGivenBack)'
  BY <1>1, <1>2, HandlesOutliveInodes DEF IInv
<1>4. crossed' \in BOOLEAN
  BY DEF ReadDirContent, IInv, PendingInv
<1>5. TreeInv' /\ PendingInv'
  BY <1>4 DEF IInv, TreeInv, PendingInv, producers
<1>6. QED
  BY <1>1, <1>2, <1>3, <1>5 DEF IInv, Tables

LEMMA LookupIInv == ASSUME IInv, NEW p, Lookup(p) PROVE IInv'
BY ReadingKeeps DEF Lookup

\* A handle of a directory is one of a directory still, if that is there.
LEMMA ReaddirIInv == ASSUME IInv, NEW fh, Readdir(fh) PROVE IInv'
<1>1. /\ fh \in DOMAIN fhs /\ fhs[fh].entry.kind = "dir"
      /\ Present(fhs[fh].inode) /\ ReadDirContent(fhs[fh].inode)
      /\ UNCHANGED <<producers, pending, dispatching, handles, lost, stray>>
  BY DEF Readdir
<1>2. IsDir(fhs[fh].inode)
  BY <1>1 DEF IInv, HandleInv, Present, IsDir
<1>3. QED
  BY <1>1, <1>2, ReadingKeeps

\* A step of the kernel that is about handles only.
LEMMA HandleStep ==
  ASSUME IInv, (HandleInv /\ HandlesAgree /\ FileHandlesGivenBack)',
         UNCHANGED <<producers, pending, dispatching, registry, history>>
  PROVE  IInv'
<1>1. TreeInv' /\ PendingInv'
  BY DEF IInv, TreeInv, PendingInv, producers, history
<1>2. QED
  BY <1>1, RegistryStays DEF IInv

LEMMA OpendirIInv == ASSUME IInv, NEW i, Opendir(i) PROVE IInv'
<1>1. /\ Present(i) /\ IsDir(i) /\ OpenFh(ItemOf(i))
      /\ UNCHANGED <<producers, pending, dispatching, registry, opening, history>>
  BY DEF Opendir
<1>2. ItemOf(i).inode \in 1..lastInode
  BY <1>1 DEF IInv, RegistryInv, ItemOf, RootItem, Item, Present, Root
<1>3. ItemOf(i).inode \in DOMAIN inodes => inodes[ItemOf(i).inode].entry.kind = "dir"
  BY <1>1 DEF IInv, RegistryInv, ItemOf, RootItem, Item, Present, IsDir, Root
<1>4. (HandleInv /\ HandlesAgree /\ FileHandlesGivenBack)'
  BY <1>1, <1>2, <1>3, OpenFhKeeps DEF IInv
<1>5. QED
  BY <1>1, <1>4, HandleStep

LEMMA OpenIInv == ASSUME IInv, NEW i, Open(i) PROVE IInv'
<1>1. /\ i \in DOMAIN inodes /\ ~IsDir(i) /\ (\E turn : opening' = opening \cup {[turn |-> turn, item |-> inodes[i]]})
      /\ UNCHANGED <<producers, pending, dispatching, registry, fhs, fhByItem, lastFh,
                     held, history>>
  BY DEF Open
<1>2. inodes[i].entry.kind = "file"
  BY <1>1 DEF IInv, RegistryInv, AllEntries, FileEntries, DirEntries, IsDir
<1>3. inodes' = inodes /\ lastInode' = lastInode
  BY <1>1 DEF registry
<1>4. HandleInv'
  BY <1>1, <1>2, <1>3 DEF IInv, HandleInv
<1>5. (HandlesAgree /\ FileHandlesGivenBack)'
  BY <1>1 DEF IInv, HandlesAgree, FileHandlesGivenBack
<1>6. QED
  BY <1>1, <1>4, <1>5, HandleStep

LEMMA OpenedIInv == ASSUME IInv, NEW request \in opening, Opened(request) PROVE IInv'
<1>1. /\ OpenFh(request.item) /\ opening' \subseteq opening
      /\ UNCHANGED <<producers, pending, dispatching, registry, history>>
  BY DEF Opened
<1>2. request.item.entry.kind # "dir"
  BY DEF IInv, HandleInv
<1>3. (HandleInv /\ HandlesAgree /\ FileHandlesGivenBack)'
  BY <1>1, <1>2, OpenFhKeeps DEF IInv
<1>4. QED
  BY <1>1, <1>3, HandleStep

\* Giving a handle of a file back never fails, whatever became of the file.
LEMMA ReleaseIInv == ASSUME IInv, NEW fh, Release(fh) PROVE IInv'
<1>1. /\ held' = held \ {fh}
      /\ UNCHANGED <<producers, pending, dispatching, registry, lastFh, opening,
                     history>>
  BY DEF Release
<1>2. Tables
  BY DEF IInv, Tables, HandleInv
<1>3. /\ Tables'
      /\ DOMAIN fhs' \subseteq DOMAIN fhs
      /\ \A f \in DOMAIN fhs' : fhs'[f] = fhs[f]
      /\ fh \in DOMAIN fhs' => fhs[fh].entry.kind = "dir"
  <2>1. CASE fh \in DOMAIN fhs /\ ReleaseFh(fh)
    BY <1>2, <2>1, ReleaseFhTables
  <2>2. CASE /\ fh \in DOMAIN fhs => Unreleasable(fhs[fh])
             /\ UNCHANGED <<fhs, fhByItem>>
    BY <1>2, <2>2, TablesStay DEF Unreleasable
  <2>3. QED
    BY <2>1, <2>2 DEF Release
<1>4. inodes' = inodes /\ lastInode' = lastInode
  BY <1>1 DEF registry
<1>5. HandleInv'
  <2>1. \A f \in DOMAIN fhs' : fhs'[f].entry.kind = "dir" =>
          /\ fhs'[f].inode \in 1..lastInode
          /\ fhs'[f].inode \in DOMAIN inodes => inodes[fhs'[f].inode].entry.kind = "dir"
    BY <1>3 DEF IInv, HandleInv
  <2>2. DOMAIN fhs' \subseteq 1..lastFh' /\ held' \subseteq 1..lastFh'
    BY <1>1, <1>3 DEF IInv, HandleInv
  <2>3. QED
    BY <1>1, <1>3, <1>4, <2>1, <2>2 DEF IInv, HandleInv, Tables
<1>6. FileHandlesGivenBack'
  BY <1>1, <1>3 DEF IInv, FileHandlesGivenBack
<1>7. QED
  BY <1>1, <1>3, <1>5, <1>6, HandleStep DEF Tables

-----------------------------------------------------------------------------
(* The theorems *)

LEMMA NextIInv == IInv /\ [Next]_vars => IInv'
<1> SUFFICES ASSUME IInv, [Next]_vars PROVE IInv'
  OBVIOUS
<1>1. CASE Producers
  BY <1>1, PutFileIInv, UpdateFileIInv, UpdateNothingIInv, RemoveFileIInv,
     CreateDirIInv, RemoveDirIInv DEF Producers
<1>2. CASE FailHandler
  BY <1>2, FailHandlerIInv
<1>3. CASE Dispatch
  BY <1>3, DispatchIInv
<1>4. CASE Kernel
  BY <1>4, LookupIInv, OpendirIInv, OpenIInv, OpenedIInv, ReaddirIInv, ReleaseIInv
     DEF Kernel
<1>5. CASE UNCHANGED vars
  <2>1. UNCHANGED <<producers, pending, dispatching, registry, history, fhs,
                    fhByItem, lastFh, opening, held>>
    BY <1>5 DEF vars, handles
  <2>2. (HandleInv /\ HandlesAgree /\ FileHandlesGivenBack)'
    BY <2>1 DEF IInv, HandleInv, HandlesAgree, FileHandlesGivenBack, registry
  <2>3. QED
    BY <2>1, <2>2, HandleStep
<1>6. QED
  BY <1>1, <1>2, <1>3, <1>4, <1>5 DEF Next

\* The state of the file system keeps its shape: inode numbers are not used
\* twice, tables and counters stay in their ranges.
THEOREM TypeCorrect == Spec => []TypeOK
<1>1. QED
  BY InitIInv, NextIInv, IInvTypeOK, PTL DEF Spec

\* However updates and requests of the kernel interleave, every inode hangs in
\* a directory that is there and was read: InodesRegistry (fs/inode.py) never
\* keeps an item whose parent is gone.
THEOREM InodesHang == Spec => []InodesConnected
<1>1. IInv => InodesConnected
  BY DEF IInv
<1>2. QED
  BY <1>1, InitIInv, NextIInv, PTL DEF Spec

\* The two tables of FileSystemHandles (fs/fh.py) agree, although
\* _remove_from_handles changes the lists while it walks them.
THEOREM TablesAgree == Spec => []HandlesAgree
<1>1. IInv => HandlesAgree
  BY DEF IInv
<1>2. QED
  BY <1>1, InitIInv, NextIInv, PTL DEF Spec

\* No handle of a file outlives its release by the kernel, whatever updates did
\* to the file since it was opened.
THEOREM FilesGivenBack == Spec => []FileHandlesGivenBack
<1>1. IInv => FileHandlesGivenBack
  BY DEF IInv
<1>2. QED
  BY <1>1, InitIInv, NextIInv, PTL DEF Spec

-----------------------------------------------------------------------------
(* What leaves the registry *)

\* The names of what a directory lists, in a tree "of".
NamesIn(of, d) == DOMAIN of[d] \cup IF d = Top THEN DOMAIN of \ {Top} ELSE {}

LEMMA EntryNames ==
  ASSUME NEW d \in DOMAIN tree
  PROVE  {e.name : e \in Entries(d)} = NamesIn(tree, d)
<1>1. ASSUME NEW n \in NamesIn(tree, d) PROVE \E e \in Entries(d) : e.name = n
  <2>1. CASE n \in DOMAIN tree[d]
    <3>1. FileEntry(n, tree[d][n]) \in Entries(d) /\ FileEntry(n, tree[d][n]).name = n
      BY <2>1 DEF Entries, FileEntry
    <3>2. QED
      BY <3>1
  <2>2. CASE d = Top /\ n \in DOMAIN tree \ {Top}
    <3>1. DirEntry(n) \in Entries(d) /\ DirEntry(n).name = n
      BY <2>2 DEF Entries, DirEntry
    <3>2. QED
      BY <3>1
  <2>3. QED
    BY <2>1, <2>2 DEF NamesIn
<1>2. \A e \in Entries(d) : e.name \in NamesIn(tree, d)
  BY DEF Entries, FileEntry, DirEntry, NamesIn
<1>3. QED
  BY <1>1, <1>2

\* The tree has the name n in its directory d.
Has(of, d, n) == d \in DOMAIN of /\ n \in NamesIn(of, d)

\* The event brings an entry of the name n to d.
Brings(event, d, n) ==
  event.kind # "remove" /\ event.dir = d /\ event.entry.name = n

\* The event takes n of d away, a file or a directory with all that is in it.
Takes(event, d, n) ==
  /\ event.kind = "remove"
  /\ \/ event.dir = d /\ event.name = n
     \/ event.dir = Top /\ event.name = d

\* What a waiting event takes away is not in the tree, unless an event that
\* waits behind it brings it.
GoneWhilePending ==
  \A k \in DOMAIN pending : \A d, n :
    Takes(pending[k], d, n) /\ Has(tree, d, n) =>
      \E l \in DOMAIN pending : l > k /\ Brings(pending[l], d, n)

\* A change of the tree adds no name but the one that its event brings, and
\* what its event takes away is gone.
LEMMA ChangeKeepsGone ==
  ASSUME IInv, GoneWhilePending, NEW newTree, NEW event, Change(newTree, event),
         \A d, n : Has(tree', d, n) => Has(tree, d, n) \/ Brings(event, d, n),
         \A d, n : Takes(event, d, n) => ~Has(tree', d, n)
  PROVE  GoneWhilePending'
<1>1. pending' = Append(pending, event) /\ pending \in Seq(AllEvents)
  BY DEF Change, IInv, PendingInv
<1>2. /\ DOMAIN pending' = 1..(Len(pending) + 1) /\ DOMAIN pending = 1..Len(pending)
      /\ pending'[Len(pending) + 1] = event
      /\ \A k \in 1..Len(pending) : pending'[k] = pending[k]
      /\ Len(pending) \in Nat
  BY <1>1
<1>3. ASSUME NEW k \in DOMAIN pending', NEW d, NEW n,
             Takes(pending'[k], d, n), Has(tree', d, n)
      PROVE  \E l \in DOMAIN pending' : l > k /\ Brings(pending'[l], d, n)
  <2>1. k # Len(pending) + 1
    BY <1>2, <1>3
  <2>2. k \in DOMAIN pending /\ Takes(pending[k], d, n)
    BY <1>2, <1>3, <2>1
  <2>3. CASE Has(tree, d, n)
    <3>1. PICK l \in DOMAIN pending : l > k /\ Brings(pending[l], d, n)
      BY <2>2, <2>3 DEF GoneWhilePending
    <3>2. l \in DOMAIN pending' /\ pending'[l] = pending[l]
      BY <1>2
    <3>3. QED
      BY <3>1, <3>2
  <2>4. CASE Brings(event, d, n)
    <3>1. Len(pending) + 1 \in DOMAIN pending' /\ Len(pending) + 1 > k
      BY <1>2, <2>2
    <3>2. QED
      BY <1>2, <2>4, <3>1
  <2>5. QED
    BY <1>3, <2>3, <2>4
<1>4. QED
  BY <1>3 DEF GoneWhilePending

LEMMA ProducersKeepGone ==
  ASSUME IInv, GoneWhilePending, Producers PROVE GoneWhilePending'
<1> USE DEF NamesIn, Has
<1>1. ASSUME NEW d \in DOMAIN tree, NEW n \in Names, NEW v \in Versions,
             PutFile(d, n, v)
      PROVE  GoneWhilePending'
  <2> DEFINE files == [m \in DOMAIN tree[d] \cup {n} |-> IF m = n THEN v ELSE tree[d][m]]
             event == Event("new", d, n, FileEntry(n, v))
  <2>1. Change([tree EXCEPT ![d] = files], event)
    BY <1>1 DEF PutFile
  <2>2. tree' = [tree EXCEPT ![d] = files] /\ DOMAIN files = DOMAIN tree[d] \cup {n}
    BY <2>1 DEF Change
  <2>3. event.kind = "new" /\ event.dir = d /\ event.entry.name = n
    BY DEF Event, FileEntry
  <2> HIDE DEF files, event
  <2>4. \A e, m : Has(tree', e, m) => Has(tree, e, m) \/ Brings(event, e, m)
    BY <2>2, <2>3 DEF Brings
  <2>5. \A e, m : ~Takes(event, e, m)
    BY <2>3 DEF Takes
  <2>6. QED
    BY <2>1, <2>4, <2>5, ChangeKeepsGone
<1>2. ASSUME NEW d \in DOMAIN tree, NEW n \in Names, NEW m \in Names,
             NEW v \in Versions, UpdateFile(d, n, m, v)
      PROVE  GoneWhilePending'
  <2> DEFINE files == [k \in (DOMAIN tree[d] \ {n}) \cup {m} |->
                         IF k = m THEN v ELSE tree[d][k]]
             event == Event("update", d, n, FileEntry(m, v))
  <2>1. Change([tree EXCEPT ![d] = files], event)
    BY <1>2 DEF UpdateFile
  <2>2. /\ tree' = [tree EXCEPT ![d] = files]
        /\ DOMAIN files = (DOMAIN tree[d] \ {n}) \cup {m}
    BY <2>1 DEF Change
  <2>3. event.kind = "update" /\ event.dir = d /\ event.entry.name = m
    BY DEF Event, FileEntry
  <2> HIDE DEF files, event
  <2>4. \A e, k : Has(tree', e, k) => Has(tree, e, k) \/ Brings(event, e, k)
    BY <2>2, <2>3 DEF Brings
  <2>5. \A e, k : ~Takes(event, e, k)
    BY <2>3 DEF Takes
  <2>6. QED
    BY <2>1, <2>4, <2>5, ChangeKeepsGone
<1>3. ASSUME NEW d \in DOMAIN tree, NEW n \in Names, NEW m \in Names,
             NEW v \in Versions, UpdateNothing(d, n, m, v)
      PROVE  GoneWhilePending'
  <2> DEFINE event == Event("update", d, n, FileEntry(m, v))
  <2>1. Change(tree, event) /\ event.kind = "update"
    BY <1>3 DEF UpdateNothing, Event
  <2>2. tree' = tree
    BY <2>1 DEF Change
  <2> HIDE DEF event
  <2>3. /\ \A e, k : Has(tree', e, k) => Has(tree, e, k)
        /\ \A e, k : ~Takes(event, e, k)
    BY <2>1, <2>2 DEF Takes
  <2>4. QED
    BY <2>1, <2>3, ChangeKeepsGone
<1>4. ASSUME NEW d \in DOMAIN tree, NEW n \in Names, RemoveFile(d, n)
      PROVE  GoneWhilePending'
  <2> DEFINE files == Restrict(tree[d], DOMAIN tree[d] \ {n})
             event == Event("remove", d, n, FileEntry(n, tree[d][n]))
  <2>1. Change([tree EXCEPT ![d] = files], event)
    BY <1>4 DEF RemoveFile
  <2>2. tree' = [tree EXCEPT ![d] = files] /\ DOMAIN files = DOMAIN tree[d] \ {n}
    BY <2>1 DEF Change, Restrict
  <2>3. event.kind = "remove" /\ event.dir = d /\ event.name = n
    BY DEF Event
  <2> HIDE DEF files, event
  <2>4. \A e, m : Has(tree', e, m) => Has(tree, e, m)
    BY <2>2
  <2>5. ~Has(tree', d, n) /\ \A m : ~Has(tree', n, m)
    BY <2>2, NamesAssumption DEF IInv, TreeInv
  <2>6. \A e, m : Takes(event, e, m) => ~Has(tree', e, m)
    BY <2>3, <2>5 DEF Takes
  <2>7. QED
    BY <2>1, <2>4, <2>6, ChangeKeepsGone
<1>5. ASSUME NEW d \in Dirs, CreateDir(d) PROVE GoneWhilePending'
  <2> DEFINE newTree == [e \in DOMAIN tree \cup {d} |-> IF e = d THEN <<>> ELSE tree[e]]
             event   == Event("new", Top, d, DirEntry(d))
  <2>1. Change(newTree, event) /\ d \notin DOMAIN tree
    BY <1>5 DEF CreateDir
  <2>2. /\ DOMAIN tree' = DOMAIN tree \cup {d} /\ DOMAIN (tree'[d]) = {}
        /\ \A e \in DOMAIN tree : tree'[e] = tree[e]
    BY <2>1 DEF Change
  <2>3. event.kind = "new" /\ event.dir = Top /\ event.entry.name = d /\ d # Top
    BY NamesAssumption DEF Event, DirEntry
  <2>4. Top \in DOMAIN tree
    BY DEF IInv, TreeInv
  <2> HIDE DEF newTree, event
  <2>5. \A e, m : Has(tree', e, m) => Has(tree, e, m) \/ Brings(event, e, m)
    BY <2>2, <2>3, <2>4 DEF Brings
  <2>6. \A e, m : ~Takes(event, e, m)
    BY <2>3 DEF Takes
  <2>7. QED
    BY <2>1, <2>5, <2>6, ChangeKeepsGone
<1>6. ASSUME NEW d \in Dirs, RemoveDir(d) PROVE GoneWhilePending'
  <2> DEFINE newTree == Restrict(tree, DOMAIN tree \ {d})
             event   == Event("remove", Top, d, DirEntry(d))
  <2>1. Change(newTree, event) /\ d # Top
    BY <1>6 DEF RemoveDir
  <2>2. /\ DOMAIN tree' = DOMAIN tree \ {d}
        /\ \A e \in DOMAIN tree' : tree'[e] = tree[e]
    BY <2>1 DEF Change, Restrict
  <2>3. event.kind = "remove" /\ event.dir = Top /\ event.name = d
    BY DEF Event
  <2>4. ~Has(tree', Top, d) /\ \A m : ~Has(tree', d, m)
    BY <2>1, <2>2, NamesAssumption DEF IInv, TreeInv
  <2> HIDE DEF newTree, event
  <2>5. \A e, m : Has(tree', e, m) => Has(tree, e, m)
    BY <2>2
  <2>6. \A e, m : Takes(event, e, m) => ~Has(tree', e, m)
    BY <2>3, <2>4 DEF Takes
  <2>7. QED
    BY <2>1, <2>5, <2>6, ChangeKeepsGone
<1>7. QED
  BY <1>1, <1>2, <1>3, <1>4, <1>5, <1>6 DEF Producers

LEMMA NextKeepsGone ==
  IInv /\ GoneWhilePending /\ [Next]_vars => GoneWhilePending'
<1> SUFFICES ASSUME IInv, GoneWhilePending, [Next]_vars PROVE GoneWhilePending'
  OBVIOUS
<1>1. CASE Producers
  BY <1>1, ProducersKeepGone
<1>2. CASE FailHandler
  BY <1>2 DEF FailHandler, GoneWhilePending
<1>3. CASE Dispatch
  <2>1. /\ pending # <<>> /\ pending \in Seq(AllEvents)
        /\ pending' = Tail(pending) /\ tree' = tree
    BY <1>3 DEF Dispatch, IInv, PendingInv, producers
  <2>2. /\ DOMAIN pending = 1..Len(pending) /\ Len(pending) \in Nat
        /\ DOMAIN pending' = 1..(Len(pending) - 1)
        /\ \A k \in 1..(Len(pending) - 1) : pending'[k] = pending[k + 1]
    BY <2>1
  <2>3. ASSUME NEW k \in DOMAIN pending', NEW d, NEW n,
               Takes(pending'[k], d, n), Has(tree', d, n)
        PROVE  \E l \in DOMAIN pending' : l > k /\ Brings(pending'[l], d, n)
    <3>1. k + 1 \in DOMAIN pending /\ Takes(pending[k + 1], d, n) /\ k \in Nat
      BY <2>2, <2>3
    <3>2. Has(tree, d, n)
      BY <2>1, <2>3
    <3>3. PICK l \in DOMAIN pending : l > k + 1 /\ Brings(pending[l], d, n)
      BY <3>1, <3>2 DEF GoneWhilePending
    <3>4. l - 1 \in DOMAIN pending' /\ l - 1 > k /\ pending'[l - 1] = pending[l]
      BY <2>2, <3>1, <3>3
    <3>5. QED
      BY <3>3, <3>4
  <2>4. QED
    BY <2>3 DEF GoneWhilePending
<1>4. CASE Kernel
  BY <1>4 DEF Kernel, Lookup, Opendir, Open, Opened, Readdir, Release, producers,
              GoneWhilePending
<1>5. CASE UNCHANGED vars
  BY <1>5 DEF vars, producers, GoneWhilePending
<1>6. QED
  BY <1>1, <1>2, <1>3, <1>4, <1>5 DEF Next

\* Whatever goes with an item is what the event takes: the item itself, and
\* the files in it if it is a directory.
LEMMA RemovedIsTaken ==
  ASSUME IInv, NEW event \in AllEvents, event.kind = "remove",
         NEW p, p = DirInode(event.dir), p # NoInode,
         NEW i, i = Child(p, event.name), i # NoInode,
         NEW j \in WithChildren(i), j \in DOMAIN inodes
  PROVE  Takes(event, PathOf(inodes[j].parent), inodes[j].entry.name)
<1>1. i \in DOMAIN inodes /\ inodes[i].parent = p /\ inodes[i].entry.name = event.name
  BY ChildFound DEF IInv, Children
<1>2. Root \notin DOMAIN inodes
  BY DEF IInv, RegistryInv, Root
<1>3. event.dir = Top <=> p = Root
  <2>1. event.dir # Top => p \in DOMAIN inodes
    BY ChildFound DEF IInv, DirInode, Children
  <2>2. QED
    BY <1>2, <2>1 DEF DirInode
<1>4. PathOf(p) = event.dir
  <2>1. CASE event.dir = Top
    BY <1>3, <2>1 DEF PathOf
  <2>2. CASE event.dir # Top
    <3>1. p = Child(Root, event.dir) /\ p # Root
      BY <1>3, <2>2 DEF DirInode
    <3>2. inodes[p].entry.name = event.dir
      BY <3>1, ChildFound DEF IInv
    <3>3. QED
      BY <3>1, <3>2 DEF PathOf
  <2>3. QED
    BY <2>1, <2>2
<1>5. CASE j = i
  BY <1>1, <1>4, <1>5 DEF Takes
<1>6. CASE j # i
  <2>1. inodes[j].parent = i \/ inodes[j].parent \in Children(i)
    BY <1>6 DEF WithChildren, Descendants, Children
  <2>2. inodes[j].parent # Root /\ IsDir(inodes[j].parent)
    BY <1>1, <1>2, <2>1 DEF IInv, InodesConnected, Children
  <2>3. inodes[j].parent \in DOMAIN inodes /\ inodes[inodes[j].parent].parent = Root
    BY <1>1, <2>1, <2>2 DEF IInv, RegistryInv, IsDir, Children
  <2>4. inodes[j].parent = i
    BY <1>1, <1>2, <2>1, <2>3 DEF Children
  <2>5. p = Root /\ PathOf(i) = event.name
    BY <1>1, <1>2, <2>2, <2>3, <2>4 DEF PathOf
  <2>6. QED
    BY <1>3, <2>4, <2>5 DEF Takes
<1>7. QED
  BY <1>5, <1>6

\* The inodes that go are those of a removal, with what is below them.
LEMMA OnlyRemovalsTake ==
  ASSUME IInv, [Next]_vars, NEW j \in DOMAIN inodes \ DOMAIN inodes'
  PROVE  /\ Dispatch /\ Head(pending).kind = "remove"
         /\ LET event == Head(pending)
                p     == DirInode(event.dir)
                i     == Child(p, event.name)
            IN  p # NoInode /\ i # NoInode /\ j \in WithChildren(i)
<1>1. ~Producers /\ ~FailHandler /\ ~UNCHANGED vars
  <2>1. inodes' # inodes
    OBVIOUS
  <2>2. ASSUME NEW newTree, NEW change PROVE ~Change(newTree, change)
    BY <2>1 DEF Change, registry
  <2>3. ~Producers
    BY <2>2, Zenon DEF Producers, PutFile, UpdateFile, UpdateNothing, RemoveFile, CreateDir,
                           RemoveDir
  <2>4. QED
    BY <2>1, <2>3 DEF FailHandler, vars, registry
<1>2. ~Kernel
  BY DEF Kernel, Lookup, Opendir, Open, Opened, Readdir, Release, ReadDirContent, registry
<1>3. Dispatch
  BY <1>1, <1>2 DEF Next
<1> DEFINE event == Head(pending)
           p == DirInode(event.dir)
           i == IF p = NoInode THEN NoInode ELSE Child(p, event.name)
<1>4. Apply(event)
  BY <1>3 DEF Dispatch
<1>5. \/ AddSubitem(p, event.entry)
      \/ i # NoInode /\ UpdateSubitem(p, i, event.entry)
      \/ event.kind = "remove" /\ i # NoInode /\ RemoveItem(i)
      \/ UNCHANGED registry
  BY <1>4 DEF Apply
<1>6. i # NoInode => i \in DOMAIN inodes
  BY ChildFound DEF IInv, Children
<1> HIDE DEF event, p, i
<1>7. ~AddSubitem(p, event.entry) /\ ~UNCHANGED registry
  BY DEF AddSubitem, registry
<1>8. ~(i # NoInode /\ UpdateSubitem(p, i, event.entry))
  BY <1>6 DEF UpdateSubitem, KeepsInode
<1>9. event.kind = "remove" /\ i # NoInode /\ RemoveItem(i)
  BY <1>5, <1>7, <1>8
<1>10. j \in WithChildren(i)
  BY <1>9 DEF RemoveItem, Restrict
<1>11. QED
  BY <1>3, <1>9, <1>10 DEF event, p, i

\* FileSystemOperationsUpdatable (fs/update.py) takes an inode away only when
\* the tree has nothing under its name, or when an event that waits brings it
\* again: a file that is open or looked up keeps its inode as long as its
\* directory has it.
THEOREM InodesOutlast == Spec => GoneOnlyFromTree
<1>1. IInv /\ GoneWhilePending /\ [Next]_vars =>
        [\A i \in DOMAIN inodes \ DOMAIN inodes' :
           LET d == PathOf(inodes[i].parent)
               n == inodes[i].entry.name
           IN  d \in DOMAIN tree /\ n \in {e.name : e \in Entries(d)} =>
                 \E k \in DOMAIN pending' :
                   /\ pending'[k].dir = d /\ pending'[k].entry.name = n
                   /\ pending'[k].kind # "remove"]_vars
  <2> SUFFICES ASSUME IInv, GoneWhilePending, [Next]_vars,
                      NEW j \in DOMAIN inodes \ DOMAIN inodes',
                      NEW d, d = PathOf(inodes[j].parent),
                      NEW n, n = inodes[j].entry.name,
                      d \in DOMAIN tree, n \in {e.name : e \in Entries(d)}
               PROVE  \E k \in DOMAIN pending' :
                        /\ pending'[k].dir = d /\ pending'[k].entry.name = n
                        /\ pending'[k].kind # "remove"
    OBVIOUS
  <2> DEFINE event == Head(pending)
             p     == DirInode(event.dir)
             i     == Child(p, event.name)
  <2>1. /\ Dispatch /\ event.kind = "remove"
        /\ p # NoInode /\ i # NoInode /\ j \in WithChildren(i)
    BY OnlyRemovalsTake
  <2>2. /\ pending # <<>> /\ pending \in Seq(AllEvents) /\ pending' = Tail(pending)
        /\ event \in AllEvents /\ 1 \in DOMAIN pending /\ event = pending[1]
    BY <2>1 DEF Dispatch, IInv, PendingInv
  <2> HIDE DEF event
  <2>3. Takes(event, d, n)
    BY <2>1, <2>2, RemovedIsTaken
  <2>4. Has(tree, d, n)
    BY EntryNames DEF Has
  <2>5. PICK l \in DOMAIN pending : l > 1 /\ Brings(pending[l], d, n)
    BY <2>2, <2>3, <2>4 DEF GoneWhilePending
  <2>6. l - 1 \in DOMAIN pending' /\ pending'[l - 1] = pending[l]
    BY <2>2, <2>5
  <2>7. QED
    BY <2>5, <2>6 DEF Brings
<1>2. Init => GoneWhilePending
  BY DEF Init, GoneWhilePending
<1>3. QED
  BY <1>1, <1>2, InitIInv, NextIInv, NextKeepsGone, PTL DEF Spec, GoneOnlyFromTree
=============================================================================
